----------------------------- MODULE EmoteDisplay ------------------------------
(***************************************************************************)
(* Emotes in a Kitty terminal: the cache that downloads their images       *)
(* (internal/emote/cache.go), the screen that draws a message with names   *)
(* or with blanks for images (internal/terminalui/terminal.go) and the     *)
(* backend that places the images (internal/emote/kitty.go).               *)
(*                                                                         *)
(* A message is the sequence of its emotes and takes one row.  The screen  *)
(* resolves every emote twice while it holds its mutex, for the text and   *)
(* for the images; the main loop resolves them before, without the mutex;  *)
(* and the downloads end at any moment, which requests a redraw, as does   *)
(* an image the terminal has accepted.  Cleaning, provisional messages and *)
(* the end of the terminal are left to TerminalClient; longer messages,    *)
(* other lines and a GIF that cannot be decoded, which stays a name, are   *)
(* left out.                                                               *)
(***************************************************************************)
EXTENDS Naturals, Integers, Sequences, FiniteSets, SequencesExt, Functions

CONSTANTS
    Emotes,
    Texts,        \* the messages that arrive, each a sequence of emotes
    Unsupported,  \* emotes whose image is not PNG, nor a GIF to make one of
    Rows,         \* the height of the chat region
    MaxFailures,  \* downloads that fail
    MaxResizes    \* redraws the terminal's size asks for

ConstantsOK ==
    /\ Texts \in Seq(Seq(Emotes)) /\ Unsupported \subseteq Emotes
    /\ Rows \in Nat \ {0} /\ MaxFailures \in Nat /\ MaxResizes \in Nat

\* An occurrence of an emote: the message and the place in it.
Occurrences(i) == [k \in 1 .. Len(Texts[i]) |-> <<i, k>>]
AllOccurrences == UNION {ToSet(Occurrences(i)) : i \in 1 .. Len(Texts)}
EmoteOf(o) == Texts[o[1]][o[2]]

VARIABLES
    cached,     \* the emotes whose image is in the cache directory
    pending,    \* Cache.pending
    failed,     \* the emotes in Cache.failed, for the five minutes it counts
    downloads,  \* [Emotes -> the stages of the goroutines that download it]
    main,       \* what the main loop does with the next message
    shown,      \* the number of messages on the screen
    left,       \* [Renderers -> the occurrences it has yet to resolve]
    missed,     \* [Renderers -> Lstat found no file for the first of them]
    found,      \* the occurrences the screen has found an image for
    lock,       \* who holds the screen's mutex
    phase,      \* what the holder does: it draws the text, or refreshes the images
    drawn,      \* the occurrences drawn as blanks
    current,    \* KittyBackend.current: the position of each placed image
    confirmed,  \* KittyBackend.confirmed
    redraws,    \* calls of Redraw that wait for the mutex
    failures, resizes

vars == <<cached, pending, failed, downloads, main, shown, left, missed, found, lock,
          phase, drawn, current, confirmed, redraws, failures, resizes>>

Renderers == {"main", "screen"}

TypeOK ==
    /\ cached \subseteq Emotes /\ pending \subseteq Emotes /\ failed \subseteq Emotes
    /\ \A e \in Emotes : ToSet(downloads[e]) \subseteq {"get", "stored", "failed"}
    /\ main \in {"read", "format", "append"}
    /\ shown \in 0 .. Len(Texts)
    /\ \A r \in Renderers : missed[r] => left[r] # <<>>
    /\ found \subseteq AllOccurrences /\ drawn \subseteq AllOccurrences
    /\ lock \in {"free", "append", "redraw"} /\ phase \in {"draw", "refresh"}
    /\ DOMAIN current \subseteq AllOccurrences /\ confirmed \subseteq AllOccurrences
    /\ redraws \in Nat /\ failures <= MaxFailures /\ resizes <= MaxResizes

Init ==
    /\ cached \in SUBSET Emotes /\ pending = {} /\ failed = {}
    /\ downloads = [e \in Emotes |-> <<>>]
    /\ main = "read" /\ shown = 0
    /\ left = [r \in Renderers |-> <<>>] /\ missed = [r \in Renderers |-> FALSE]
    /\ found = {} /\ lock = "free" /\ phase = "draw" /\ drawn = {} /\ current = <<>> /\ confirmed = {}
    /\ redraws = 0 /\ failures = 0 /\ resizes = 0

cacheVars == <<cached, pending, failed, downloads, failures>>
screenVars == <<shown, found, lock, phase, drawn, current, confirmed>>
-----------------------------------------------------------------------------
(* The cache.                                                              *)

\* ResolveDetailed looks for the file before it takes the cache's mutex.
Lookup(r) ==
    /\ left[r] # <<>> /\ ~missed[r]
    /\ IF EmoteOf(Head(left[r])) \in cached
       THEN /\ left' = [left EXCEPT ![r] = Tail(@)]
            /\ found' = IF r = "screen" THEN found \cup {Head(left[r])} ELSE found
            /\ UNCHANGED missed
       ELSE missed' = [missed EXCEPT ![r] = TRUE] /\ UNCHANGED <<left, found>>
    /\ UNCHANGED <<cacheVars, main, shown, lock, phase, drawn, current, confirmed, redraws,
                   resizes>>

\* Deviation: what is on its way is started again.
QueueAgain(e) ==
    IF e \in failed THEN UNCHANGED <<pending, downloads>>
    ELSE /\ pending' = pending \cup {e}
         /\ downloads' = [downloads EXCEPT ![e] = Append(@, "get")]

\* What a miss starts, unless it failed a while ago or is on its way.
Queue(e) ==
    IF e \in failed \cup pending THEN UNCHANGED <<pending, downloads>>
    ELSE /\ pending' = pending \cup {e}
         /\ downloads' = [downloads EXCEPT ![e] = Append(@, "get")]

Enqueue(r) ==
    /\ missed[r]
    /\ Queue(EmoteOf(Head(left[r])))
    /\ left' = [left EXCEPT ![r] = Tail(@)]
    /\ missed' = [missed EXCEPT ![r] = FALSE]
    /\ UNCHANGED <<cached, failed, failures, main, screenVars, redraws, resizes>>

\* download: the request and the rename, either of which ends it.
Download(e) ==
    \E d \in DOMAIN downloads[e] :
        /\ downloads[e][d] = "get"
        /\ \/ /\ cached' = cached \cup {e} /\ UNCHANGED failures
              /\ downloads' = [downloads EXCEPT ![e][d] = "stored"]
           \/ /\ failures < MaxFailures /\ failures' = failures + 1 /\ UNCHANGED cached
              /\ downloads' = [downloads EXCEPT ![e][d] = "failed"]
        /\ UNCHANGED <<pending, failed, main, left, missed, screenVars, redraws, resizes>>

\* Deviation: a download that is over does not ask for a redraw.
StoredQuietly(d) == 0

\* The callback of a download that went well calls requestRedraw.
StoredRequest(d) == IF d = "stored" THEN 1 ELSE 0

\* The goroutine of a download takes the mutex again, and calls back.
Finish(e) ==
    \E d \in DOMAIN downloads[e] :
        /\ downloads[e][d] # "get"
        /\ downloads' = [downloads EXCEPT ![e] = RemoveAt(@, d)]
        /\ pending' = pending \ {e}
        /\ failed' = IF downloads[e][d] = "failed" THEN failed \cup {e} ELSE failed \ {e}
        /\ redraws' = redraws + StoredRequest(downloads[e][d])
        /\ UNCHANGED <<cached, failures, main, left, missed, screenVars, resizes>>

\* Five minutes after a failure (retryAfter).
RetryAfter(e) ==
    /\ e \in failed /\ failed' = failed \ {e}
    /\ UNCHANGED <<cached, pending, downloads, failures, main, left, missed, screenVars,
                   redraws, resizes>>
-----------------------------------------------------------------------------
(* The backend.                                                            *)

\* The images the terminal has moved itself, all by the same number of rows.
Scrolled(next) ==
    LET common == {o \in DOMAIN current \cap DOMAIN next : current[o].x = next[o].x}
        deltas == {next[o].y - current[o].y : o \in common}
    IN IF Cardinality(deltas) = 1 THEN common ELSE {}

\* Deviation: the confirmations are forgotten with the placements.
ResetAll == current' = <<>> /\ confirmed' = {}

\* Reset removes the placements before a redraw and keeps the confirmations.
Reset == current' = <<>> /\ UNCHANGED confirmed

\* Deviation: only an image that is gone asks for a redraw.
InvalidatedByLoss(remaining, accepted) == IF remaining # confirmed THEN 1 ELSE 0

\* confirmedChanged: the redraw an Update asks for with the confirmations that
\* remain of the old ones and the images it has placed.
Invalidated(remaining, accepted) ==
    IF remaining # confirmed \/ accepted \ remaining # {} THEN 1 ELSE 0

\* Update: an image that neither stayed nor scrolled is removed; the others
\* are placed, unless the terminal refuses them.
Update(next) ==
    LET same == {o \in DOMAIN current \cap DOMAIN next : current[o] = next[o]}
        kept == same \cup Scrolled(next)
        remaining == confirmed \ (DOMAIN current \ kept)
        accepted == {o \in DOMAIN next \ kept : EmoteOf(o) \notin Unsupported}
    IN /\ current' = Restrict(next, kept \cup accepted)
       /\ confirmed' = remaining \cup accepted
       /\ redraws' = redraws + Invalidated(remaining, accepted)
-----------------------------------------------------------------------------
(* The screen.                                                             *)

\* Every emote of every message on a screen of n.
Screen(n) == FlattenSeq([i \in 1 .. n |-> Occurrences(i)])

Visible(o) == o[1] <= shown /\ shown - o[1] < Rows

\* refreshImagesLocked: a column depends on which emotes before it in the
\* message are images; the rows are counted from the last.
Placements ==
    [o \in {p \in found : Visible(p)} |->
        [x |-> {k \in 1 .. o[2] - 1 : <<o[1], k>> \in found}, y |-> shown - o[1]]]

\* Deviation: a message is drawn with blanks as soon as its images are there.
BlanksAtOnce(i) == {o \in found : o[1] = i}

\* renderedForDisplayLocked: blanks, when all images there are are confirmed.
Blanks(i) ==
    LET images == {o \in found : o[1] = i} IN IF images \subseteq confirmed THEN images ELSE {}

\* The next message is formatted, without the screen's mutex.
Take ==
    /\ main = "read" /\ shown < Len(Texts)
    /\ main' = "format" /\ left' = [left EXCEPT !["main"] = Occurrences(shown + 1)]
    /\ UNCHANGED <<cacheVars, missed, screenVars, redraws, resizes>>

Formatted ==
    /\ main = "format" /\ left["main"] = <<>> /\ main' = "append"
    /\ UNCHANGED <<cacheVars, left, missed, screenVars, redraws, resizes>>

\* AppendMessage gets the mutex and draws the one message.
AppendMessage ==
    /\ main = "append" /\ lock = "free"
    /\ lock' = "append" /\ phase' = "draw" /\ shown' = shown + 1 /\ found' = {}
    /\ left' = [left EXCEPT !["screen"] = Occurrences(shown + 1)]
    /\ UNCHANGED <<cacheVars, main, missed, drawn, current, confirmed, redraws, resizes>>

\* Redraw gets the mutex, removes the images and draws all messages again.
Redraw ==
    /\ redraws > 0 /\ lock = "free"
    /\ redraws' = redraws - 1
    /\ lock' = "redraw" /\ phase' = "draw" /\ found' = {} /\ Reset
    /\ left' = [left EXCEPT !["screen"] = Screen(shown)]
    /\ UNCHANGED <<cacheVars, main, shown, missed, drawn, resizes>>

\* The text is drawn, and the images are looked for in all messages.
Drawn ==
    /\ lock # "free" /\ phase = "draw" /\ left["screen"] = <<>>
    /\ drawn' = IF lock = "append" THEN drawn \cup Blanks(shown)
                ELSE UNION {Blanks(i) : i \in 1 .. shown}
    /\ phase' = "refresh" /\ found' = {}
    /\ left' = [left EXCEPT !["screen"] = Screen(shown)]
    /\ UNCHANGED <<cacheVars, main, shown, missed, lock, current, confirmed, redraws, resizes>>

Refreshed ==
    /\ lock # "free" /\ phase = "refresh" /\ left["screen"] = <<>>
    /\ Update(Placements)
    /\ lock' = "free" /\ found' = {}
    /\ main' = IF lock = "append" THEN "read" ELSE main
    /\ UNCHANGED <<cacheVars, shown, left, missed, phase, drawn, resizes>>

\* watchScreen: the terminal's size has changed.
Resize ==
    /\ resizes < MaxResizes
    /\ resizes' = resizes + 1 /\ redraws' = redraws + 1
    /\ UNCHANGED <<cacheVars, main, left, missed, screenVars>>
-----------------------------------------------------------------------------
Next ==
    \/ \E r \in Renderers : Lookup(r) \/ Enqueue(r)
    \/ \E e \in Emotes : Download(e) \/ Finish(e) \/ RetryAfter(e)
    \/ Take \/ Formatted \/ AppendMessage \/ Redraw \/ Drawn \/ Refreshed \/ Resize

Spec == Init /\ [][Next]_vars

\* Goroutines run, mutexes are handed on and requests time out; messages need
\* not come, nor need five minutes pass.
Fairness ==
    /\ \A r \in Renderers : WF_vars(Lookup(r) \/ Enqueue(r))
    /\ \A e \in Emotes : WF_vars(Download(e) \/ Finish(e))
    /\ WF_vars(Formatted) /\ SF_vars(AppendMessage) /\ SF_vars(Redraw)
    /\ WF_vars(Drawn) /\ WF_vars(Refreshed)
-----------------------------------------------------------------------------
\* However formatting, redraws and the downloads' ends interleave, an image is
\* not downloaded twice at a time (cache.go:137).
OneDownloadAtATime == \A e \in Emotes : Len(downloads[e]) <= 1

\* README.md:188: until its image is accepted an emote keeps its name.  Whoever
\* gets the screen's mutex finds an image at every visible blank.
NamesUntilAccepted ==
    lock = "free" => \A o \in drawn : Visible(o) => o \in DOMAIN current

\* What downloads and what is drawn is what is so.
ImageSafety == TypeOK /\ OneDownloadAtATime /\ NamesUntilAccepted

\* An accepted image asks for a redraw, which removes and places the images: the
\* redraws come to an end all the same.
RedrawsEnd == <>[](redraws = 0 /\ lock = "free")

Supported(i) == ToSet(Texts[i]) \cap Unsupported = {}

\* A cached image of a visible message appears, in a blank made for it, although
\* it may arrive between the two times a redraw looks for it.
ImagesAppear ==
    \A o \in AllOccurrences :
        Supported(o[1]) /\ Visible(o) /\ EmoteOf(o) \in cached ~>
            ~ Visible(o) \/ o \in drawn \cap DOMAIN current

\* In the end, a row has blanks exactly where it has images.  It does not hold
\* of a row in which the terminal refuses one image and accepts another: the row
\* keeps the names, and the accepted image is drawn over them.
RowsSettle ==
    <>[](\A o \in AllOccurrences : Visible(o) => (o \in drawn <=> o \in DOMAIN current))

\* cache.go:117: one deduplicated download.  An image that is stored between
\* Lstat and the mutex is downloaded again.
StoredIsNotDownloaded == \A e \in cached : "get" \notin ToSet(downloads[e])
=============================================================================
