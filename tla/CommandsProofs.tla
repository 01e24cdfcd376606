---------------------------- MODULE CommandsProofs -----------------------------
(***************************************************************************)
(* Proofs about the commands of the chat clients.  For every number of     *)
(* callers, every set of targets and refresh tokens, every answer of a     *)
(* search and any number of faults, a command does what it reports, at     *)
(* most once, to the one exact match of its search and for exactly as long *)
(* as was typed (ChannelControl).  For every traffic in the chat, /clear   *)
(* deletes its snapshot and nothing else, and says what it did             *)
(* (RemoteClear).                                                          *)
(***************************************************************************)
EXTENDS ChatCommands, FiniteSetTheorems, SequenceTheorems, WellFoundedInduction, TLAPS

-----------------------------------------------------------------------------
(* The inductive invariant of ChannelControl.                              *)

Requests == {"read", "lookup", "snippet", "write"}
AllOps == {"ban", "timeout", "title", "category", "send", "status"}
Results == {"ok", "refused", "failed"}
Candidates == UNION Directory
Ids == {e.id : e \in Candidates} \cup {""}
Snippets == [title : Titles \cup {"", "old"}, category : Ids \cup {"", "old"}]
Commands ==
    [pc : {"idle", "lock", "request", "refresh", "refreshing"}, op : AllOps,
     platform : Platforms \cup {"other"}, title : Titles \cup {""},
     length : Durations \cup {NoDuration}, todo : Seq(Requests), target : Ids,
     found : SUBSET Candidates, again : BOOLEAN, snippet : Snippets,
     presented : Nat, result : Results]

\* The operations whose target is the only match of a lookup.
Guessable(p, op) ==
    \/ p # "youtube" /\ op \in {"ban", "timeout"}
    \/ p = "twitch" /\ op = "category"

\* What a command that moderates, or sets a category of Twitch, knows once its
\* lookup is behind it: the target is the only exact match, and not oneself.
Looked(cm) ==
    /\ Guessable(cm.platform, cm.op) =>
         \E e \in cm.found : e.id = cm.target /\ Exact(cm.found) = {e}
    /\ cm.platform = "twitch" /\ cm.op \in {"ban", "timeout"} => cm.target # Self

\* The length that was typed can be asked for.
Lasts(cm) == cm.op = "timeout" => Length(cm.platform, cm.length) # {}

\* The requests that are left: at most one lookup, which is the first, and a
\* write at the end of every command that is no status request.
Rest(op, todo) ==
    /\ todo \in Seq(Requests) /\ todo # <<>>
    /\ \A i \in 2 .. Len(todo) : todo[i] # "lookup"
    /\ op = "status" => \A i \in 1 .. Len(todo) : todo[i] = "read"
    /\ op # "status" => todo[Len(todo)] = "write"

\* A command under way has done nothing yet.
Working(cm, w) ==
    /\ Rest(cm.op, cm.todo) /\ w = <<>>
    /\ cm.platform \in Platforms /\ Lasts(cm)
    /\ Head(cm.todo) # "lookup" => Looked(cm)

\* A command that has ended has done nothing, or what it was meant to do.
Finished(cm, w) ==
    /\ cm.todo = <<>>
    /\ w = <<>> \/ (w = <<Effect(cm)>> /\ Looked(cm) /\ Lasts(cm))
    /\ cm.result = "refused" => w = <<>>
    /\ cm.result = "ok" /\ cm.op # "status" => w # <<>>

Fits(cm, w) == IF cm.pc = "idle" THEN Finished(cm, w) ELSE Working(cm, w)

Shapes ==
    /\ cmd \in [Callers -> Commands] /\ DOMAIN writes = Callers
    /\ token \in [Platforms -> [state : {"good", "due", "revoked"}, mine : Nat,
                                grant : Nat, lost : BOOLEAN]]
    /\ holder \in [{"kick", "twitch"} -> Callers \cup {Nobody}]
    /\ twitch \in [scope : BOOLEAN, owner : BOOLEAN]
    /\ channel \in [Platforms -> Snippets]

AllFit == \A c \in Callers : Fits(cmd[c], writes[c])

\* The mutexes: Kick's for a whole operation, Twitch's while it refreshes.
Holding(c) ==
    /\ cmd[c].pc = "lock" => cmd[c].platform = "kick"
    /\ cmd[c].platform = "kick" /\ cmd[c].pc \in {"request", "refresh", "refreshing"}
       => holder["kick"] = c
    /\ cmd[c].platform = "twitch" /\ cmd[c].pc \in {"refresh", "refreshing"}
       => holder["twitch"] = c

\* The refresh token of the client is the one the provider accepts, unless an
\* answer was lost, and it is the one that a refresh under way presented.
Current ==
    /\ \A p \in Platforms : /\ token[p].mine <= token[p].grant
                            /\ token[p].mine = token[p].grant \/ token[p].lost
    /\ token["youtube"].mine = token["youtube"].grant
    /\ \A c \in Callers :
         cmd[c].pc = "refreshing" => cmd[c].presented = token[cmd[c].platform].mine

IInv == Shapes /\ AllFit /\ Current /\ \A c \in Callers : Holding(c)

-----------------------------------------------------------------------------
(* Durations and plans.                                                    *)

\* An amount that 60 divides is the quotient times 60.
LEMMA WholeMinutes ==
    ASSUME NEW a \in Int, a % 60 = 0
    PROVE  (a \div 60) * 60 = a
  OBVIOUS

\* Kick's minutes are the length that was typed.
LEMMA MinutesExact ==
    ASSUME NEW d, d.amount \in Int, d.unit \in Units, NEW k \in KickMinutes(d)
    PROVE  /\ k * 60 = d.amount * UnitSeconds[d.unit]
           /\ k \in Int /\ 1 <= k /\ k <= MaxKickMinutes
<1>1. k = CASE d.unit = "s" -> IF d.amount % 60 = 0 THEN d.amount \div 60 ELSE 0
            [] d.unit = "m" -> d.amount
            [] d.unit = "h" -> IF d.amount > MaxKickMinutes \div 60 THEN 0
                               ELSE d.amount * 60
            [] OTHER -> 0
  BY SMT DEF KickMinutes
<1>2. k \in Int /\ 1 <= k /\ k <= MaxKickMinutes
  <2>1. k \in 1 .. MaxKickMinutes
    BY Zenon DEF KickMinutes
  <2>2. QED
    BY SMT, <2>1 DEF MaxKickMinutes
<1>3. CASE d.unit = "s"
  <2>1. k = IF d.amount % 60 = 0 THEN d.amount \div 60 ELSE 0
    BY Zenon, <1>1, <1>3
  <2>2. d.amount % 60 = 0 /\ k = d.amount \div 60
    BY SMT, <1>2, <2>1
  <2>3. k * 60 = d.amount
    BY SMT, <2>2, WholeMinutes
  <2>4. UnitSeconds[d.unit] = 1
    BY SMT, <1>3 DEF UnitSeconds
  <2>5. QED
    BY SMT, <1>2, <2>3, <2>4
<1>4. CASE d.unit = "m"
  <2>1. k = d.amount
    BY SMT, <1>1, <1>4
  <2>2. UnitSeconds[d.unit] = 60
    BY SMT, <1>4 DEF UnitSeconds
  <2>3. QED
    BY SMT, <1>2, <2>1, <2>2
<1>5. CASE d.unit = "h"
  <2>1. k = IF d.amount > MaxKickMinutes \div 60 THEN 0 ELSE d.amount * 60
    BY SMT, <1>1, <1>5
  <2>2. k = d.amount * 60
    BY SMT, <1>2, <2>1
  <2>3. UnitSeconds[d.unit] = 3600
    BY SMT, <1>5 DEF UnitSeconds
  <2>4. QED
    BY SMT, <1>2, <2>2, <2>3
<1>6. CASE d.unit = "d"
  <2>1. k = 0
    BY SMT, <1>1, <1>6
  <2>2. QED
    BY SMT, <1>2, <2>1
<1>7. QED
  BY Zenon, <1>3, <1>4, <1>5, <1>6 DEF Units

\* The length a provider is asked for is the length that was typed, and within
\* the provider's limit.
LEMMA LengthExact ==
    ASSUME NEW d, d.amount \in Int, d.unit \in Units, NEW p, NEW n \in Length(p, d)
    PROVE  /\ n = d.amount * UnitSeconds[d.unit]
           /\ n \in 1 .. Longest(p)
<1>1. n = d.amount * UnitSeconds[d.unit] /\ n \in Int /\ 1 <= n /\ n <= Longest(p)
  <2>1. CASE p = "kick"
    <3>1. PICK k \in KickMinutes(d) : n = k * 60
      BY Zenon, <2>1 DEF Length
    <3>2. /\ k * 60 = d.amount * UnitSeconds[d.unit]
          /\ k \in Int /\ 1 <= k /\ k <= MaxKickMinutes
      BY Zenon, <3>1, MinutesExact
    <3>3. k * 60 \in Int /\ 1 <= k * 60 /\ k * 60 <= Longest(p)
      <4>1. k \in Int /\ 1 <= k /\ k <= MaxKickMinutes
        BY <3>2
      <4>2. QED
        BY ONLY SMT, <2>1, <4>1 DEF Longest, MaxKickMinutes
    <3>4. QED
      BY Zenon, <3>1, <3>2, <3>3
  <2>2. CASE p # "kick"
    <3>1. n \in TwitchSeconds(d)
      BY SMT, <2>2 DEF Length
    <3>2. PICK m \in {UnitSeconds[d.unit]} :
             n = d.amount * m /\ d.amount > 0 /\ d.amount <= MaxTwitchSeconds \div m
      BY Zenon, <3>1 DEF TwitchSeconds
    <3>3. /\ m = UnitSeconds[d.unit] /\ m \in {1, 60, 3600, 86400}
      BY SMT, <3>2 DEF UnitSeconds, Units
    <3>4. d.amount * m \in Int /\ 1 <= d.amount * m /\ d.amount * m <= Longest(p)
      <4>1. d.amount > 0 /\ d.amount <= MaxTwitchSeconds \div m
        BY <3>2
      <4>2. CASE m = 1
        BY SMT, <2>2, <4>1, <4>2 DEF Longest, MaxTwitchSeconds
      <4>3. CASE m = 60
        BY SMT, <2>2, <4>1, <4>3 DEF Longest, MaxTwitchSeconds
      <4>4. CASE m = 3600
        BY SMT, <2>2, <4>1, <4>4 DEF Longest, MaxTwitchSeconds
      <4>5. CASE m = 86400
        BY SMT, <2>2, <4>1, <4>5 DEF Longest, MaxTwitchSeconds
      <4>6. QED
        BY SMT, <3>3, <4>2, <4>3, <4>4, <4>5
    <3>5. QED
      BY SMT, <3>2, <3>3, <3>4
  <2>3. QED
    BY Zenon, <2>1, <2>2
<1>2. Longest(p) \in Int
  BY SMT DEF Longest
<1>3. QED
  BY SMT, <1>1, <1>2

\* A plan is one of six, and begins with the lookup of an operation that
\* needs one.
LEMMA PlanFacts ==
    ASSUME NEW p \in Platforms, NEW op \in AllOps
    PROVE  /\ Rest(op, Plan(p, op))
           /\ Head(Plan(p, op)) # "lookup" => ~Guessable(p, op)
<1>1. Rest("status", <<"read">>) /\ Rest("status", <<"read", "read">>)
  BY DEF Rest, Requests
<1>2. ASSUME op # "status"
      PROVE  /\ Rest(op, <<"write">>)
             /\ Rest(op, <<"lookup", "write">>)
             /\ Rest(op, <<"read", "write">>)
             /\ Rest(op, <<"read", "snippet", "write">>)
             /\ Rest(op, <<"lookup", "read", "snippet", "write">>)
  BY <1>2 DEF Rest, Requests
<1>3. Head(<<"lookup", "write">>) = "lookup"
  OBVIOUS
<1>4. op \in {"send", "title"} \/ op \in {"ban", "timeout", "category"} \/ op = "status"
  BY DEF AllOps
<1>5. CASE p \in {"kick", "twitch"} /\ op = "status"
  <2>1. Plan(p, op) = <<"read">> \/ Plan(p, op) = <<"read", "read">>
    BY <1>5 DEF Plan, TwitchPlan, KickPlan
  <2>2. QED
    BY <1>1, <1>5, <2>1 DEF Guessable
<1>6. CASE p \in {"kick", "twitch"} /\ op \in {"send", "title"}
  <2>1. Plan(p, op) = <<"write">>
    BY <1>6 DEF Plan, TwitchPlan, KickPlan
  <2>2. QED
    BY <1>2, <1>6, <2>1 DEF Guessable
<1>7. CASE p \in {"kick", "twitch"} /\ op \in {"ban", "timeout", "category"}
  <2>1. Plan(p, op) = <<"lookup", "write">>
    BY <1>7 DEF Plan, TwitchPlan, KickPlan
  <2>2. QED
    BY <1>2, <1>3, <1>7, <2>1
<1>8. CASE p = "youtube"
  <2>1. \/ op = "status" /\ Plan(p, op) = <<"read", "read">>
        \/ op # "status" /\ Plan(p, op) = <<"read", "write">>
        \/ op # "status" /\ Plan(p, op) = <<"read", "snippet", "write">>
        \/ op # "status" /\ Plan(p, op) = <<"lookup", "read", "snippet", "write">>
    BY <1>4, <1>8 DEF Plan, YouTubePlan
  <2>2. QED
    BY <1>1, <1>2, <1>8, <2>1 DEF Guessable
<1>9. QED
  BY <1>4, <1>5, <1>6, <1>7, <1>8 DEF Platforms

\* After a request that is not the last one the rest of the plan remains.
LEMMA RestOfPlan ==
    ASSUME NEW op \in AllOps, NEW todo, Rest(op, todo),
           Len(todo) # 1 \/ (Head(todo) # "write" /\ Head(todo) # "read")
    PROVE  Rest(op, Tail(todo)) /\ Head(Tail(todo)) # "lookup"
<1> DEFINE n == Len(todo)
<1>1. todo \in Seq(Requests) /\ n \in Nat /\ n # 0 /\ Head(todo) = todo[1]
  BY HeadTailProperties, EmptySeq, LenProperties DEF Rest
<1>2. n = 1 => todo[1] = "read" \/ todo[1] = "write"
  BY DEF Rest
<1>3. n # 1
  BY <1>1, <1>2
<1>4. /\ Tail(todo) \in Seq(Requests) /\ Len(Tail(todo)) = n - 1
      /\ \A i \in 1 .. n - 1 : Tail(todo)[i] = todo[i+1]
  BY <1>1, HeadTailProperties, EmptySeq DEF Rest
<1>5. n > 1 /\ n - 1 # 0
  <2> HIDE DEF n
  <2> QED
    BY ONLY <1>1, <1>3
<1>6. Len(todo) > 1
  BY <1>5
<1>7. Tail(todo) # <<>>
  <2>1. Len(Tail(todo)) # 0
    BY <1>4, <1>5
  <2>2. Len(<<>>) = 0
    BY EmptySeq
  <2> QED
    BY <2>1, <2>2
<1>8. Head(Tail(todo)) = todo[2]
  <2>1. Head(Tail(todo)) = Tail(todo)[1]
    BY <1>4, <1>7, HeadTailProperties
  <2> QED
    BY <1>1, <1>6, <1>4, <2>1
<1>9. \A i \in 2 .. Len(Tail(todo)) : Tail(todo)[i] # "lookup"
  BY <1>1, <1>6, <1>4 DEF Rest
<1>10. op = "status" => \A i \in 1 .. Len(Tail(todo)) : Tail(todo)[i] = "read"
  BY <1>1, <1>6, <1>4 DEF Rest
<1>11. op # "status" => Tail(todo)[Len(Tail(todo))] = "write"
  BY <1>1, <1>6, <1>4 DEF Rest
<1>12. todo[2] # "lookup"
  BY <1>1, <1>6 DEF Rest
<1>13. QED
  BY <1>4, <1>8, <1>7, <1>9, <1>10, <1>11, <1>12 DEF Rest

\* The only match of a list is the one element of the set of matches.
LEMMA OnlyOne ==
    ASSUME NEW S, IsFiniteSet(S), Cardinality(S) = 1, NEW e \in S
    PROVE  S = {e}
  BY FS_Singleton

-----------------------------------------------------------------------------
(* What a command keeps.                                                   *)

\* Two records are of the same command, and know the same.
Same(new, cm) ==
    /\ new.op = cm.op /\ new.platform = cm.platform /\ new.title = cm.title
    /\ new.length = cm.length /\ new.target = cm.target /\ new.found = cm.found

LEMMA SameKeeps ==
    ASSUME NEW new, NEW cm, Same(new, cm)
    PROVE  /\ Effect(new) = Effect(cm) /\ Looked(new) = Looked(cm)
           /\ Lasts(new) = Lasts(cm)
<1>1. Effect(new) = Effect(cm)
  BY Zenon DEF Same, Effect
<1>2. Looked(new) = Looked(cm)
  BY Zenon DEF Same, Looked
<1>3. Lasts(new) = Lasts(cm)
  BY Zenon DEF Same, Lasts
<1>4. QED
  BY <1>1, <1>2, <1>3

\* The record of a command that ends.
Over(cm, result) == [cm EXCEPT !.pc = "idle", !.todo = <<>>, !.result = result]

LEMMA OverFacts ==
    ASSUME NEW cm \in Commands, NEW result \in Results
    PROVE  LET new == Over(cm, result)
           IN /\ new \in Commands /\ Same(new, cm)
              /\ new.pc = "idle" /\ new.todo = <<>> /\ new.result = result
              /\ new.presented = cm.presented
<1>1. <<>> \in Seq(Requests)
  BY EmptySeq
<1>2. QED
  BY <1>1 DEF Over, Commands, Same

\* A command under way ends: it has done nothing and does not say that it
\* succeeded, or it was a status request, or it has done what it was meant to.
LEMMA Ends ==
    ASSUME NEW cm \in Commands, NEW result \in Results, NEW w,
           Working(cm, <<>>),
           \/ w = <<>> /\ (result = "ok" => cm.op = "status")
           \/ w = <<Effect(cm)>> /\ Looked(cm) /\ result # "refused"
    PROVE  Over(cm, result) \in Commands /\ Fits(Over(cm, result), w)
<1> DEFINE new == Over(cm, result)
<1>1. /\ new \in Commands /\ Same(new, cm)
      /\ new.pc = "idle" /\ new.todo = <<>> /\ new.result = result
  BY OverFacts
<1> HIDE DEF new
<1>2. /\ Effect(new) = Effect(cm) /\ Looked(new) = Looked(cm)
      /\ Lasts(new) = Lasts(cm) /\ new.op = cm.op
  BY <1>1, SameKeeps DEF Same
<1>3. <<Effect(cm)>> # <<>>
  OBVIOUS
<1>4. Lasts(cm)
  BY DEF Working
<1>5. new.result = "refused" => w = <<>>
  BY <1>1
<1>6. new.result = "ok" /\ new.op # "status" => w # <<>>
  BY <1>1, <1>2, <1>3
<1>7. w = <<>> \/ (w = <<Effect(new)>> /\ Looked(new) /\ Lasts(new))
  BY <1>2, <1>4
<1>8. QED
  BY <1>1, <1>5, <1>6, <1>7 DEF Fits, Finished, new

\* A command that waits for something else, or tries again, is what it was.
LEMMA GoesOn ==
    ASSUME NEW cm, NEW new, NEW w, Working(cm, w), Same(new, cm),
           new.pc # "idle", Rest(new.op, new.todo),
           Head(new.todo) # "lookup" => Looked(cm)
    PROVE  Fits(new, w)
<1>1. Looked(new) = Looked(cm) /\ Lasts(new) = Lasts(cm) /\ new.platform = cm.platform
  BY SameKeeps DEF Same
<1>2. QED
  BY <1>1 DEF Fits, Working

-----------------------------------------------------------------------------
(* The steps of one caller.                                                *)

\* Only c's command changes.
Alone(c) ==
    /\ cmd' \in [Callers -> Commands]
    /\ \A b \in Callers \ {c} : cmd'[b] = cmd[b]

\* The end of a command, in the record and in the mutexes.
LEMMA Finishing ==
    ASSUME Shapes, NEW c \in Callers, NEW result \in Results, Finish(c, result)
    PROVE  /\ Alone(c) /\ cmd'[c] = Over(cmd[c], result)
           /\ holder' \in [{"kick", "twitch"} -> Callers \cup {Nobody}]
           /\ \A p \in {"kick", "twitch"}, b \in Callers \ {c} :
                 holder[p] = b => holder'[p] = b
<1>1. cmd \in [Callers -> Commands] /\ cmd[c] \in Commands
  BY DEF Shapes
<1>2. Over(cmd[c], result) \in Commands
  BY <1>1, OverFacts
<1>3. cmd' = [cmd EXCEPT ![c] = Over(cmd[c], result)]
  BY <1>1 DEF Finish, Over
<1>4. Alone(c) /\ cmd'[c] = Over(cmd[c], result)
  BY <1>1, <1>2, <1>3 DEF Alone
<1>5. /\ DOMAIN holder = {"kick", "twitch"}
      /\ \A p \in {"kick", "twitch"} : holder[p] \in Callers \cup {Nobody}
  BY DEF Shapes
<1>6. holder' = [p \in {"kick", "twitch"} |-> IF holder[p] = c THEN Nobody ELSE holder[p]]
  BY <1>5 DEF Finish, Released
<1>7. QED
  BY <1>4, <1>5, <1>6

\* A request that is answered leads to the next one of the plan.
LEMMA Advancing ==
    ASSUME Shapes, NEW c \in Callers, NEW changes \in Commands, Advance(c, changes),
           changes.todo # <<>>
    PROVE  LET new == cmd'[c]
           IN /\ Alone(c) /\ Same(new, changes) /\ new.pc = changes.pc
              /\ new.todo = Tail(changes.todo) /\ new.presented = changes.presented
              /\ holder' \in [{"kick", "twitch"} -> Callers \cup {Nobody}]
              /\ \A p \in {"kick", "twitch"}, b \in Callers \ {c} :
                    holder[p] = b => holder'[p] = b
              /\ cmd[c].platform = "kick" => holder' = holder
<1> DEFINE new == [changes EXCEPT !.todo = Tail(@), !.again = @ /\ changes.platform = "kick"]
<1>1. cmd \in [Callers -> Commands] /\ cmd[c] \in Commands
  BY DEF Shapes
<1>2. Tail(changes.todo) \in Seq(Requests)
  BY HeadTailProperties DEF Commands
<1>3. (changes.again /\ changes.platform = "kick") \in BOOLEAN
  OBVIOUS
<1>4. /\ new \in Commands /\ Same(new, changes) /\ new.pc = changes.pc
      /\ new.todo = Tail(changes.todo) /\ new.presented = changes.presented
  BY <1>2, <1>3 DEF Commands, Same
<1>5. cmd' = [cmd EXCEPT ![c] = new]
  BY DEF Advance
<1> HIDE DEF new
<1>6. Alone(c) /\ cmd'[c] = new
  BY <1>1, <1>4, <1>5 DEF Alone
<1>7. /\ DOMAIN holder = {"kick", "twitch"}
      /\ \A p \in {"kick", "twitch"} : holder[p] \in Callers \cup {Nobody}
      /\ holder \in [{"kick", "twitch"} -> Callers \cup {Nobody}]
  BY DEF Shapes
<1>8. \/ cmd[c].platform = "kick" /\ holder' = holder
      \/ /\ cmd[c].platform # "kick"
         /\ holder' = [p \in {"kick", "twitch"} |->
                         IF holder[p] = c THEN Nobody ELSE holder[p]]
  BY <1>7 DEF Advance, Released
<1>9. /\ holder' \in [{"kick", "twitch"} -> Callers \cup {Nobody}]
      /\ \A p \in {"kick", "twitch"}, b \in Callers \ {c} :
            holder[p] = b => holder'[p] = b
      /\ cmd[c].platform = "kick" => holder' = holder
  BY <1>7, <1>8
<1>10. QED
  BY <1>4, <1>6, <1>9

\* What a step of c does to the invariant, apart from tokens and channels.
HolderType == holder \in [{"kick", "twitch"} -> Callers \cup {Nobody}]
OthersHold(c) ==
    \A p \in {"kick", "twitch"}, b \in Callers \ {c} : holder[p] = b => holder'[p] = b
OthersWrite(c) ==
    DOMAIN writes' = Callers /\ \A b \in Callers \ {c} : writes'[b] = writes[b]

StepOf(c) ==
    /\ Alone(c) /\ OthersWrite(c) /\ HolderType' /\ OthersHold(c)
    /\ Fits(cmd'[c], writes'[c]) /\ Holding(c)'

LEMMA BusyFacts ==
    ASSUME IInv, NEW c \in Callers, cmd[c].pc # "idle"
    PROVE  /\ cmd[c] \in Commands /\ Working(cmd[c], <<>>) /\ writes[c] = <<>>
           /\ cmd[c].platform \in Platforms /\ cmd[c].op \in AllOps
           /\ cmd[c].todo # <<>> /\ Rest(cmd[c].op, cmd[c].todo)
           /\ cmd[c].todo \in Seq(Requests)
<1>1. cmd[c] \in Commands /\ Fits(cmd[c], writes[c])
  BY DEF IInv, Shapes, AllFit
<1>2. Working(cmd[c], writes[c])
  BY <1>1 DEF Fits
<1>3. writes[c] = <<>> /\ cmd[c].platform \in Platforms /\ Rest(cmd[c].op, cmd[c].todo)
  BY <1>2 DEF Working
<1>4. cmd[c].op \in AllOps
  BY <1>1 DEF Commands
<1>5. cmd[c].todo # <<>> /\ cmd[c].todo \in Seq(Requests)
  BY <1>3 DEF Rest
<1>6. QED
  BY <1>1, <1>2, <1>3, <1>4, <1>5

LEMMA Unwritten ==
    ASSUME Shapes, NEW c \in Callers, writes' = writes
    PROVE  OthersWrite(c) /\ writes'[c] = writes[c]
  BY DEF Shapes, OthersWrite

\* A command that ends: what it did is what it was meant to do, or nothing.
LEMMA Stopping ==
    ASSUME IInv, NEW c \in Callers, cmd[c].pc # "idle", NEW result \in Results,
           Finish(c, result), OthersWrite(c),
           \/ writes'[c] = <<>> /\ (result = "ok" => cmd[c].op = "status")
           \/ writes'[c] = <<Effect(cmd[c])>> /\ Looked(cmd[c]) /\ result # "refused"
    PROVE  StepOf(c) /\ cmd'[c].pc = "idle"
<1>1. cmd[c] \in Commands /\ Working(cmd[c], <<>>)
  BY BusyFacts
<1>2. /\ Alone(c) /\ cmd'[c] = Over(cmd[c], result)
      /\ HolderType' /\ OthersHold(c)
  BY Finishing DEF IInv, HolderType, OthersHold
<1>3. Fits(cmd'[c], writes'[c])
  BY <1>1, <1>2, Ends
<1>4. cmd'[c].pc = "idle"
  BY <1>1, <1>2, OverFacts
<1>5. Holding(c)'
  BY <1>4 DEF Holding
<1>6. QED
  BY <1>2, <1>3, <1>4, <1>5 DEF StepOf

\* A command that goes on, with the same knowledge and a part of its plan.
LEMMA Continuing ==
    ASSUME IInv, NEW c \in Callers, cmd[c].pc # "idle", Alone(c),
           Same(cmd'[c], cmd[c]), cmd'[c].pc # "idle", cmd'[c].todo = cmd[c].todo,
           writes' = writes, HolderType', OthersHold(c), Holding(c)'
    PROVE  StepOf(c)
<1>1. Working(cmd[c], <<>>) /\ writes[c] = <<>> /\ Rest(cmd[c].op, cmd[c].todo)
  BY BusyFacts
<1>2. cmd'[c].op = cmd[c].op
  BY DEF Same
<1>3. Head(cmd[c].todo) # "lookup" => Looked(cmd[c])
  BY <1>1 DEF Working
<1>4. Fits(cmd'[c], <<>>)
  BY <1>1, <1>2, <1>3, GoesOn
<1>5. OthersWrite(c) /\ writes'[c] = writes[c]
  BY Unwritten DEF IInv
<1>6. QED
  BY <1>1, <1>4, <1>5 DEF StepOf

\* One record of cmd is replaced.
LEMMA Replaced ==
    ASSUME Shapes, NEW c \in Callers, NEW new \in Commands, cmd' = [cmd EXCEPT ![c] = new]
    PROVE  Alone(c) /\ cmd'[c] = new
  BY DEF Shapes, Alone

LEMMA SameHolder ==
    ASSUME Shapes, NEW c \in Callers, holder' = holder
    PROVE  HolderType' /\ OthersHold(c)
  BY DEF Shapes, HolderType, OthersHold

\* The record of a command that is given, that is refused and that begins.
NewRecord(op, p, title, d, authors, target) ==
    [NoCommand EXCEPT !.op = op, !.platform = p, !.title = title,
                      !.length = d, !.found = authors, !.target = target]

IsNew(new, op, p, d) ==
    /\ new \in Commands /\ new.pc = "idle" /\ new.op = op /\ new.platform = p
    /\ new.length = d /\ new.todo = <<>> /\ new.result = "ok"

LEMMA NewFacts ==
    ASSUME NEW op \in AllOps, NEW p \in Platforms \cup {"other"}, NEW title \in Titles \cup {""},
           NEW d \in Durations \cup {NoDuration}, NEW authors \in SUBSET Candidates,
           NEW target \in Ids
    PROVE  IsNew(NewRecord(op, p, title, d, authors, target), op, p, d)
<1> DEFINE half == [NoCommand EXCEPT !.op = op, !.platform = p, !.title = title]
<1>1. NoSnippet \in Snippets /\ <<>> \in Seq(Requests) /\ "" \in Ids
  BY EmptySeq DEF NoSnippet, Snippets, Ids
<1>2. NoCommand \in Commands
  BY <1>1 DEF NoCommand, Commands, Results, AllOps, Platforms
<1>3. /\ half \in Commands /\ half.pc = "idle" /\ half.op = op /\ half.platform = p
      /\ half.todo = <<>> /\ half.result = "ok"
  <2>1. NoCommand.pc = "idle" /\ NoCommand.todo = <<>> /\ NoCommand.result = "ok"
    BY DEF NoCommand
  <2>2. QED
    BY <1>2, <2>1 DEF Commands
<1>4. NewRecord(op, p, title, d, authors, target)
        = [half EXCEPT !.length = d, !.found = authors, !.target = target]
  BY DEF NewRecord
<1> HIDE DEF half
<1>5. QED
  BY <1>3, <1>4, ZenonT(30) DEF Commands, IsNew

Refusing(new) == [new EXCEPT !.result = "refused"]

LEMMA RefusingFacts ==
    ASSUME NEW new \in Commands, new.pc = "idle", new.todo = <<>>
    PROVE  LET end == Refusing(new)
           IN /\ end \in Commands /\ end.pc = "idle" /\ end.todo = <<>>
              /\ end.result = "refused"
  BY DEF Commands, Refusing, Results

Begun(new, pc, todo) == [new EXCEPT !.pc = pc, !.todo = todo]

IsBegun(begun, new, pc, todo) ==
    /\ begun \in Commands /\ begun.pc = pc /\ begun.todo = todo
    /\ begun.op = new.op /\ begun.platform = new.platform
    /\ begun.length = new.length

LEMMA BegunFacts ==
    ASSUME NEW new \in Commands, NEW pc \in {"lock", "request"}, NEW todo \in Seq(Requests)
    PROVE  IsBegun(Begun(new, pc, todo), new, pc, todo)
  BY DEF Commands, Begun, IsBegun

LEMMA IssueStep ==
    ASSUME ConstantsOK, IInv, NEW c \in Callers, NEW p \in PlatformsOf[c], NEW op \in Ops,
           Issue(c, p, op)
    PROVE  StepOf(c) /\ cmd'[c].pc # "refreshing"
<1>1. PICK title \in IF op = "title" THEN Titles ELSE {""},
           d \in IF op = "timeout" THEN Durations ELSE {NoDuration},
           authors \in IF p = "youtube" /\ op \in {"ban", "timeout"}
                       THEN {found \in Directory : Cardinality(found) <= 1} ELSE {{}} :
         LET new == [NoCommand EXCEPT !.op = op, !.platform = p, !.title = title,
                       !.length = d, !.found = authors,
                       !.target = IF authors = {} THEN "" ELSE (CHOOSE a \in authors : TRUE).id]
         IN cmd' = [cmd EXCEPT ![c] =
              IF Refused(p, op, d, authors) THEN [new EXCEPT !.result = "refused"]
              ELSE [new EXCEPT !.pc = IF p = "kick" THEN "lock" ELSE "request",
                               !.todo = Plan(p, op)]]
  BY Zenon DEF Issue
<1> DEFINE target == IF authors = {} THEN "" ELSE (CHOOSE a \in authors : TRUE).id
<1> DEFINE new == NewRecord(op, p, title, d, authors, target)
<1>2. op \in AllOps /\ p \in Platforms \cup {"other"} /\ title \in Titles \cup {""}
      /\ d \in Durations \cup {NoDuration} /\ authors \in SUBSET Candidates
  BY <1>1 DEF ConstantsOK, AllOps, Candidates
<1>3. target \in Ids
  BY <1>2 DEF Ids
<1> HIDE DEF target
<1>5. /\ new \in Commands /\ new.pc = "idle" /\ new.op = op /\ new.platform = p
      /\ new.length = d /\ new.todo = <<>> /\ new.result = "ok"
  <2>1. IsNew(new, op, p, d)
    BY Zenon, <1>2, <1>3, NewFacts
  <2>2. QED
    BY Zenon, <2>1 DEF IsNew
<1>6. cmd' = [cmd EXCEPT ![c] =
              IF Refused(p, op, d, authors) THEN Refusing(new)
              ELSE Begun(new, IF p = "kick" THEN "lock" ELSE "request", Plan(p, op))]
  BY <1>1 DEF target, NewRecord, Refusing, Begun
<1> HIDE DEF new
<1>7. writes' = [writes EXCEPT ![c] = <<>>] /\ holder' = holder
  BY DEF Issue
<1>8. OthersWrite(c) /\ writes'[c] = <<>> /\ HolderType' /\ OthersHold(c)
  BY <1>7, SameHolder DEF OthersWrite, IInv, Shapes
<1>9. CASE Refused(p, op, d, authors)
  <2> DEFINE end == Refusing(new)
  <2>1. /\ end \in Commands /\ end.pc = "idle" /\ end.todo = <<>> /\ end.result = "refused"
    BY <1>5, RefusingFacts
  <2>2. cmd' = [cmd EXCEPT ![c] = end]
    BY <1>6, <1>9
  <2> HIDE DEF end
  <2>3. Alone(c) /\ cmd'[c] = end
    BY <2>1, <2>2, Replaced DEF IInv
  <2>4. Fits(cmd'[c], writes'[c])
    BY <1>8, <2>1, <2>3 DEF Fits, Finished
  <2>5. Holding(c)'
    BY <2>1, <2>3 DEF Holding
  <2>6. QED
    BY <1>8, <2>1, <2>3, <2>4, <2>5 DEF StepOf
<1>10. CASE ~Refused(p, op, d, authors)
  <2> DEFINE pc == IF p = "kick" THEN "lock" ELSE "request"
             begun == Begun(new, pc, Plan(p, op))
  <2>1. p \in Platforms /\ (op = "timeout" => Length(p, d) # {})
    BY <1>10 DEF Refused, ConstantsOK
  <2>2. /\ Rest(op, Plan(p, op)) /\ Plan(p, op) \in Seq(Requests)
        /\ Head(Plan(p, op)) # "lookup" => ~Guessable(p, op)
    BY <1>2, <2>1, PlanFacts DEF Rest
  <2>3. /\ begun \in Commands /\ begun.pc = pc /\ begun.todo = Plan(p, op)
        /\ begun.op = op /\ begun.platform = p /\ begun.length = d
    <3>1. pc \in {"lock", "request"}
      OBVIOUS
    <3> HIDE DEF pc
    <3>2. IsBegun(begun, new, pc, Plan(p, op))
      BY Zenon, <1>5, <2>2, <3>1, BegunFacts
    <3>3. QED
      BY Zenon, <1>5, <3>2 DEF IsBegun
  <2>4. cmd' = [cmd EXCEPT ![c] = begun]
    BY <1>6, <1>10
  <2> HIDE DEF begun
  <2>5. Alone(c) /\ cmd'[c] = begun
    BY <2>3, <2>4, Replaced DEF IInv
  <2>6. Lasts(begun)
    BY <2>1, <2>3 DEF Lasts
  <2>7. Head(begun.todo) # "lookup" => Looked(begun)
    BY <2>2, <2>3 DEF Looked, Guessable
  <2>8. Fits(cmd'[c], writes'[c])
    BY <1>8, <2>1, <2>2, <2>3, <2>5, <2>6, <2>7 DEF Fits, Working
  <2>9. Holding(c)'
    BY <2>3, <2>5 DEF Holding
  <2>10. QED
    BY <1>8, <2>3, <2>5, <2>8, <2>9 DEF StepOf
<1>11. QED
  BY <1>9, <1>10

\* The records of a command that waits, refreshes or tries again.
Moved(cm, new) ==
    /\ new \in Commands /\ Same(new, cm) /\ new.pc \notin {"idle", "lock"} /\ new.todo = cm.todo

MovedTo(cm, pc) == [cm EXCEPT !.pc = pc]
Retrying(cm) == [cm EXCEPT !.pc = "refresh", !.again = TRUE]
Presenting(cm, n) == [cm EXCEPT !.pc = "refreshing", !.presented = n]

LEMMA MovedFacts ==
    ASSUME NEW cm \in Commands
    PROVE  /\ \A pc \in {"request", "refresh"} :
                 Moved(cm, MovedTo(cm, pc)) /\ MovedTo(cm, pc).pc = pc
           /\ Moved(cm, Retrying(cm)) /\ Retrying(cm).pc = "refresh"
           /\ \A n \in Nat : /\ Moved(cm, Presenting(cm, n))
                             /\ Presenting(cm, n).pc = "refreshing"
                             /\ Presenting(cm, n).presented = n
<1>1. \A pc \in {"request", "refresh"} :
         Moved(cm, MovedTo(cm, pc)) /\ MovedTo(cm, pc).pc = pc
  BY DEF Commands, Moved, MovedTo, Same
<1>2. Moved(cm, Retrying(cm)) /\ Retrying(cm).pc = "refresh"
  BY DEF Commands, Moved, Retrying, Same
<1>3. \A n \in Nat : /\ Moved(cm, Presenting(cm, n))
                     /\ Presenting(cm, n).pc = "refreshing"
                     /\ Presenting(cm, n).presented = n
  BY DEF Commands, Moved, Presenting, Same
<1>4. QED
  BY <1>1, <1>2, <1>3

LEMMA Moving ==
    ASSUME IInv, NEW c \in Callers, cmd[c].pc # "idle", NEW new, Moved(cmd[c], new),
           cmd' = [cmd EXCEPT ![c] = new],
           writes' = writes, HolderType', OthersHold(c),
           new.platform = "kick" /\ new.pc \in {"request", "refresh", "refreshing"}
             => holder'["kick"] = c,
           new.platform = "twitch" /\ new.pc \in {"refresh", "refreshing"}
             => holder'["twitch"] = c
    PROVE  StepOf(c) /\ cmd'[c] = new
<1>1. Alone(c) /\ cmd'[c] = new
  BY Replaced DEF Moved, IInv
<1>2. Holding(c)'
  BY <1>1 DEF Holding, Moved
<1>3. QED
  BY <1>1, <1>2, Continuing DEF Moved

LEMMA LockKickStep ==
    ASSUME ConstantsOK, IInv, NEW c \in Callers, LockKick(c)
    PROVE  StepOf(c) /\ cmd'[c].pc # "refreshing"
<1>1. /\ cmd[c] \in Commands /\ cmd[c].pc # "idle" /\ writes[c] = <<>>
      /\ cmd[c].platform = "kick"
  BY BusyFacts DEF LockKick, IInv, Holding
<1>2. writes' = writes /\ OthersWrite(c) /\ writes'[c] = <<>>
  BY <1>1, Unwritten DEF LockKick, IInv
<1>3. CASE Finish(c, "refused")
  BY <1>1, <1>2, <1>3, Stopping DEF Results
<1>4. CASE /\ holder' = [holder EXCEPT !["kick"] = c]
           /\ cmd' = [cmd EXCEPT ![c].pc =
                        IF token["kick"].state = "due" THEN "refresh" ELSE "request"]
  <2> DEFINE pc == IF token["kick"].state = "due" THEN "refresh" ELSE "request"
  <2>1. pc \in {"request", "refresh"}
    OBVIOUS
  <2>2. cmd' = [cmd EXCEPT ![c] = MovedTo(cmd[c], pc)]
    BY <1>4 DEF MovedTo
  <2> HIDE DEF pc
  <2>3. Moved(cmd[c], MovedTo(cmd[c], pc)) /\ MovedTo(cmd[c], pc).pc = pc
    BY <1>1, <2>1, MovedFacts
  <2>4. holder["kick"] = Nobody /\ Nobody \notin Callers
    BY DEF LockKick, ConstantsOK
  <2>5. HolderType' /\ OthersHold(c) /\ holder'["kick"] = c
    BY <1>4, <2>4 DEF IInv, Shapes, HolderType, OthersHold
  <2>6. MovedTo(cmd[c], pc).platform # "twitch"
    BY <1>1, <2>3 DEF Moved, Same
  <2>7. QED
    BY <1>1, <1>2, <2>1, <2>2, <2>3, <2>5, <2>6, Moving
<1>5. QED
  BY <1>3, <1>4 DEF LockKick

\* A request that is accepted is of a command that waits for nobody.
LEMMA AcceptedFacts ==
    ASSUME IInv, NEW c \in Callers, MayRequest(c)
    PROVE  /\ cmd[c].pc = "request" /\ cmd[c].pc # "idle"
           /\ cmd[c].platform = "kick" => holder["kick"] = c
  BY DEF MayRequest, IInv, Holding

\* The next request of the plan, with the same knowledge or a looked up target.
LEMMA AdvancingStep ==
    ASSUME IInv, NEW c \in Callers, MayRequest(c), NEW changes \in Commands,
           changes.todo = cmd[c].todo, changes.pc = "request",
           changes.op = cmd[c].op, changes.platform = cmd[c].platform,
           Working(changes, <<>>), Looked(changes),
           Len(cmd[c].todo) # 1 \/ (Head(cmd[c].todo) # "write" /\ Head(cmd[c].todo) # "read"),
           Advance(c, changes), writes' = writes
    PROVE  StepOf(c) /\ cmd'[c].pc = "request"
<1>1. /\ cmd[c].todo # <<>> /\ cmd[c].op \in AllOps /\ writes[c] = <<>>
      /\ Rest(cmd[c].op, cmd[c].todo)
  BY AcceptedFacts, BusyFacts
<1>2. /\ Alone(c) /\ Same(cmd'[c], changes) /\ cmd'[c].pc = changes.pc
      /\ cmd'[c].todo = Tail(changes.todo)
      /\ HolderType' /\ OthersHold(c)
      /\ cmd[c].platform = "kick" => holder' = holder
  BY <1>1, Advancing DEF IInv, HolderType, OthersHold
<1>3. Rest(cmd[c].op, Tail(cmd[c].todo))
  BY <1>1, RestOfPlan
<1>4. cmd'[c].op = cmd[c].op /\ cmd'[c].platform = cmd[c].platform
  BY <1>2 DEF Same
<1>5. Fits(cmd'[c], <<>>)
  BY <1>2, <1>3, <1>4, GoesOn
<1>6. OthersWrite(c) /\ writes'[c] = <<>>
  BY <1>1, Unwritten DEF IInv
<1>7. cmd[c].platform = "kick" => holder'["kick"] = c
  BY <1>2, AcceptedFacts
<1>8. Holding(c)'
  BY <1>2, <1>4, <1>7 DEF Holding
<1>9. QED
  BY <1>2, <1>5, <1>6, <1>8 DEF StepOf

\* A request that needs no lookup any more knows what it acts on.
LEMMA AfterLookup ==
    ASSUME IInv, NEW c \in Callers, cmd[c].pc # "idle", Head(cmd[c].todo) # "lookup"
    PROVE  Looked(cmd[c])
  BY BusyFacts DEF Working

LEMMA ReadStep ==
    ASSUME IInv, NEW c \in Callers, Read(c)
    PROVE  StepOf(c) /\ cmd'[c].pc # "refreshing"
<1>1. /\ MayRequest(c) /\ Head(cmd[c].todo) = "read" /\ writes' = writes
      /\ cmd[c].pc = "request"
  BY DEF Read, Accepted, MayRequest
<1>2. /\ cmd[c] \in Commands /\ Working(cmd[c], <<>>) /\ writes[c] = <<>>
      /\ Rest(cmd[c].op, cmd[c].todo) /\ Looked(cmd[c])
  BY <1>1, BusyFacts, AfterLookup
<1>3. CASE Len(cmd[c].todo) = 1 /\ Finish(c, "ok")
  <2>1. Head(cmd[c].todo) = cmd[c].todo[Len(cmd[c].todo)]
    BY <1>2, <1>3, HeadTailProperties DEF Rest
  <2>2. cmd[c].op = "status"
    BY <1>1, <1>2, <2>1 DEF Rest
  <2>3. OthersWrite(c) /\ writes'[c] = <<>>
    BY <1>1, <1>2, Unwritten DEF IInv
  <2>4. QED
    BY <1>1, <1>3, <2>2, <2>3, Stopping DEF Results
<1>4. CASE Len(cmd[c].todo) # 1 /\ Advance(c, cmd[c])
  BY <1>1, <1>2, <1>4, AdvancingStep
<1>5. QED
  BY <1>3, <1>4 DEF Read

\* What may be taken from the answer of a search.
LEMMA ChosenFacts ==
    ASSUME ConstantsOK, NEW p \in Platforms, NEW op, NEW found \in Directory,
           NEW e \in Choices(p, op, found)
    PROVE  /\ e \in found
           /\ Guessable(p, op) => Exact(found) = {e}
<1>1. IsFiniteSet(found) /\ Exact(found) \subseteq found
  BY DEF ConstantsOK, Exact
<1>2. IsFiniteSet(Exact(found))
  BY <1>1, FS_Subset
<1>3. CASE op = "category" /\ p = "kick"
  <2>1. e \in found
    BY <1>1, <1>3 DEF Choices
  <2>2. QED
    BY <1>3, <2>1 DEF Guessable
<1>4. CASE op = "category" /\ p = "youtube"
  <2>1. e \in found
    BY <1>1, <1>4 DEF Choices
  <2>2. QED
    BY <1>4, <2>1 DEF Guessable
<1>5. CASE ~(op = "category" /\ p \in {"kick", "youtube"})
  <2>1. Choices(p, op, found) = IF Cardinality(Exact(found)) = 1 THEN Exact(found) ELSE {}
    BY <1>5 DEF Choices
  <2>2. Cardinality(Exact(found)) = 1 /\ e \in Exact(found)
    BY <2>1
  <2>3. Exact(found) = {e}
    BY <1>2, <2>2, OnlyOne
  <2>4. QED
    BY <1>1, <2>2, <2>3
<1>6. QED
  BY <1>3, <1>4, <1>5

\* The record after a lookup.
Taking(cm, e, found) == [cm EXCEPT !.target = e.id, !.found = found]

LEMMA TakingFacts ==
    ASSUME NEW cm \in Commands, NEW found \in Directory, NEW e \in found
    PROVE  LET changes == Taking(cm, e, found)
           IN /\ changes \in Commands /\ changes.todo = cm.todo /\ changes.pc = cm.pc
              /\ changes.op = cm.op /\ changes.platform = cm.platform
              /\ changes.length = cm.length
              /\ changes.target = e.id /\ changes.found = found
<1>1. e.id \in Ids /\ found \in SUBSET Candidates
  BY DEF Ids, Candidates
<1>2. QED
  BY <1>1 DEF Taking, Commands

LEMMA LookupStep ==
    ASSUME ConstantsOK, IInv, NEW c \in Callers, Lookup(c)
    PROVE  StepOf(c) /\ cmd'[c].pc # "refreshing"
<1>1. /\ MayRequest(c) /\ Head(cmd[c].todo) = "lookup" /\ writes' = writes
      /\ cmd[c].pc = "request"
  BY DEF Lookup, Accepted, MayRequest
<1>2. /\ cmd[c] \in Commands /\ Working(cmd[c], <<>>) /\ writes[c] = <<>>
      /\ cmd[c].platform \in Platforms
  BY <1>1, BusyFacts
<1>3. CASE Finish(c, "refused")
  <2>1. OthersWrite(c) /\ writes'[c] = <<>>
    BY <1>1, <1>2, Unwritten DEF IInv
  <2>2. QED
    BY <1>1, <1>3, <2>1, Stopping DEF Results
<1>4. ASSUME NEW found \in Directory, NEW e \in Choices(cmd[c].platform, cmd[c].op, found),
             ~(cmd[c].platform = "twitch" /\ cmd[c].op # "category" /\ e.id = Self),
             Advance(c, Taking(cmd[c], e, found))
      PROVE  StepOf(c) /\ cmd'[c].pc # "refreshing"
  <2> DEFINE changes == Taking(cmd[c], e, found)
  <2>1. /\ e \in found
        /\ Guessable(cmd[c].platform, cmd[c].op) => Exact(found) = {e}
    BY <1>2, ChosenFacts
  <2>2. /\ changes \in Commands /\ changes.todo = cmd[c].todo /\ changes.pc = cmd[c].pc
        /\ changes.op = cmd[c].op /\ changes.platform = cmd[c].platform
        /\ changes.length = cmd[c].length
        /\ changes.target = e.id /\ changes.found = found
    BY <1>2, <2>1, TakingFacts
  <2> HIDE DEF changes
  <2>3. Looked(changes)
    BY <1>4, <2>1, <2>2 DEF Looked
  <2>4. Working(changes, <<>>)
    BY <1>2, <2>2, <2>3 DEF Working, Lasts
  <2>5. Advance(c, changes)
    BY <1>4 DEF changes
  <2>6. QED
    BY <1>1, <2>2, <2>3, <2>4, <2>5, AdvancingStep
<1>5. \/ Finish(c, "refused")
      \/ \E found \in Directory : \E e \in Choices(cmd[c].platform, cmd[c].op, found) :
           /\ ~(cmd[c].platform = "twitch" /\ cmd[c].op # "category" /\ e.id = Self)
           /\ Advance(c, Taking(cmd[c], e, found))
  <2>1. Answers(cmd[c].platform, cmd[c].op) \subseteq Directory
    BY DEF Answers
  <2>2. QED
    BY Zenon, <2>1 DEF Lookup, Taking
<1>6. QED
  BY <1>3, <1>4, <1>5

LEMMA ReadSnippetStep ==
    ASSUME IInv, NEW c \in Callers, ReadSnippet(c)
    PROVE  StepOf(c) /\ cmd'[c].pc # "refreshing"
<1>1. /\ MayRequest(c) /\ Head(cmd[c].todo) = "snippet" /\ writes' = writes
      /\ cmd[c].pc = "request"
  BY DEF ReadSnippet, Accepted, MayRequest
<1>2. /\ cmd[c] \in Commands /\ Working(cmd[c], <<>>)
      /\ cmd[c].platform \in Platforms /\ Looked(cmd[c])
  BY <1>1, BusyFacts, AfterLookup
<1> DEFINE changes == [cmd[c] EXCEPT !.snippet = channel[cmd[c].platform]]
<1>3. channel[cmd[c].platform] \in Snippets
  BY <1>2 DEF IInv, Shapes
<1>4. /\ changes \in Commands /\ changes.todo = cmd[c].todo /\ changes.pc = cmd[c].pc
      /\ Same(changes, cmd[c])
  BY <1>2, <1>3 DEF Commands, Same
<1>5. Advance(c, changes)
  BY DEF ReadSnippet
<1> HIDE DEF changes
<1>6. /\ Looked(changes) /\ Lasts(changes) = Lasts(cmd[c])
      /\ changes.op = cmd[c].op /\ changes.platform = cmd[c].platform
  BY <1>2, <1>4, SameKeeps DEF Same
<1>7. Working(changes, <<>>)
  BY <1>2, <1>4, <1>6 DEF Working
<1>8. QED
  BY <1>1, <1>4, <1>5, <1>6, <1>7, AdvancingStep

\* What a write does to the channel and to the record of what was done.
LEMMA ExecutedFacts ==
    ASSUME ConstantsOK, IInv, NEW c \in Callers, cmd[c].pc # "idle",
           Head(cmd[c].todo) = "write", Executed(c)
    PROVE  /\ channel' \in [Platforms -> Snippets] /\ OthersWrite(c)
           /\ writes'[c] = <<Effect(cmd[c])>> /\ Looked(cmd[c])
<1>1. /\ cmd[c] \in Commands /\ writes[c] = <<>> /\ cmd[c].platform \in Platforms
      /\ Looked(cmd[c])
  BY BusyFacts, AfterLookup
<1>2. channel \in [Platforms -> Snippets] /\ DOMAIN writes = Callers
  BY DEF IInv, Shapes
<1>3. Patched(cmd[c]) \in Snippets
  <2> DEFINE base == IF cmd[c].platform = "youtube" THEN cmd[c].snippet
                     ELSE channel[cmd[c].platform]
  <2>1. base \in Snippets /\ channel[cmd[c].platform] \in Snippets
    BY <1>1, <1>2 DEF Commands
  <2>2. cmd[c].title \in Titles \cup {""} /\ cmd[c].target \in Ids
    BY <1>1 DEF Commands
  <2>3. \/ Patched(cmd[c]) = [base EXCEPT !.title = cmd[c].title]
        \/ Patched(cmd[c]) = [base EXCEPT !.category = cmd[c].target]
        \/ Patched(cmd[c]) = channel[cmd[c].platform]
    BY DEF Patched
  <2> HIDE DEF base
  <2>4. [base EXCEPT !.title = cmd[c].title] \in Snippets
    BY <2>1, <2>2 DEF Snippets
  <2>5. [base EXCEPT !.category = cmd[c].target] \in Snippets
    BY <2>1, <2>2 DEF Snippets
  <2>6. QED
    BY <2>1, <2>3, <2>4, <2>5
<1>4. channel' \in [Platforms -> Snippets]
  BY <1>1, <1>2, <1>3 DEF Executed
<1>5. writes'[c] = Append(<<>>, Effect(cmd[c])) /\ OthersWrite(c)
  BY <1>1, <1>2 DEF Executed, OthersWrite
<1>6. writes'[c] = <<Effect(cmd[c])>>
  BY <1>5
<1>7. QED
  BY <1>1, <1>4, <1>5, <1>6

LEMMA WriteStep ==
    ASSUME ConstantsOK, IInv, NEW c \in Callers, Write(c)
    PROVE  /\ StepOf(c) /\ cmd'[c].pc # "refreshing"
           /\ channel' \in [Platforms -> Snippets]
<1>1. cmd[c].pc # "idle" /\ Head(cmd[c].todo) = "write" /\ Executed(c) /\ Finish(c, "ok")
  BY DEF Write, Accepted, MayRequest
<1>2. QED
  BY <1>1, ExecutedFacts, Stopping DEF Results

LEMMA RejectedStep ==
    ASSUME IInv, NEW c \in Callers, Rejected(c)
    PROVE  StepOf(c) /\ cmd'[c].pc # "refreshing"
<1>1. cmd[c].pc # "idle" /\ Finish(c, "refused") /\ writes' = writes
  BY DEF Rejected, Accepted, MayRequest
<1>2. OthersWrite(c) /\ writes'[c] = <<>>
  BY <1>1, BusyFacts, Unwritten DEF IInv
<1>3. QED
  BY <1>1, <1>2, Stopping DEF Results

LEMMA LostStep ==
    ASSUME ConstantsOK, IInv, NEW c \in Callers, Lost(c)
    PROVE  /\ StepOf(c) /\ cmd'[c].pc # "refreshing"
           /\ channel' \in [Platforms -> Snippets]
<1>1. cmd[c].pc # "idle" /\ Finish(c, "failed")
  BY DEF Lost, Accepted, MayRequest
<1>2. CASE UNCHANGED <<channel, writes>>
  <2>1. channel' \in [Platforms -> Snippets] /\ writes' = writes
    BY <1>2 DEF IInv, Shapes
  <2>2. OthersWrite(c) /\ writes'[c] = <<>>
    BY <1>1, <2>1, BusyFacts, Unwritten DEF IInv
  <2>3. QED
    BY <1>1, <2>1, <2>2, Stopping DEF Results
<1>3. CASE Head(cmd[c].todo) = "write" /\ Executed(c)
  BY <1>1, <1>3, ExecutedFacts, Stopping DEF Results
<1>4. QED
  BY <1>2, <1>3 DEF Lost

LEMMA UnauthorizedStep ==
    ASSUME ConstantsOK, IInv, NEW c \in Callers, Unauthorized(c)
    PROVE  StepOf(c) /\ cmd'[c].pc # "refreshing"
<1>1. cmd[c].pc = "request" /\ MayRequest(c) /\ writes' = writes
  BY DEF Unauthorized, MayRequest
<1>2. cmd[c] \in Commands /\ writes[c] = <<>>
  BY <1>1, BusyFacts
<1>3. CASE Finish(c, "refused")
  <2>1. OthersWrite(c) /\ writes'[c] = <<>>
    BY <1>1, <1>2, Unwritten DEF IInv
  <2>2. QED
    BY <1>1, <1>3, <2>1, Stopping DEF Results
<1>4. CASE /\ cmd' = [cmd EXCEPT ![c].pc = "refresh", ![c].again = TRUE]
           /\ holder' = IF cmd[c].platform = "twitch"
                        THEN [holder EXCEPT !["twitch"] = c] ELSE holder
  <2>1. cmd' = [cmd EXCEPT ![c] = Retrying(cmd[c])]
    BY <1>2, <1>4 DEF Retrying, IInv, Shapes
  <2>2. Moved(cmd[c], Retrying(cmd[c])) /\ Retrying(cmd[c]).pc = "refresh"
    BY <1>2, MovedFacts
  <2>3. Retrying(cmd[c]).platform = cmd[c].platform
    BY <2>2 DEF Moved, Same
  <2>4. cmd[c].platform = "twitch" => holder["twitch"] \in {Nobody, c}
    BY <1>1 DEF MayRequest
  <2>5. cmd[c].platform = "kick" => holder["kick"] = c
    BY <1>1, AcceptedFacts
  <2>6. /\ HolderType' /\ holder' \in [{"kick", "twitch"} -> Callers \cup {Nobody}]
        /\ cmd[c].platform = "twitch" => holder'["twitch"] = c
        /\ cmd[c].platform = "kick" => holder'["kick"] = c
    BY <1>4, <2>5 DEF IInv, Shapes, HolderType
  <2>7. OthersHold(c)
    <3>1. CASE cmd[c].platform = "twitch"
      <4>1. holder' = [holder EXCEPT !["twitch"] = c]
        BY <1>4, <3>1
      <4>2. \A b \in Callers \ {c} : holder["twitch"] # b
        BY <2>4, <3>1 DEF ConstantsOK
      <4>3. QED
        BY <4>1, <4>2 DEF IInv, Shapes, OthersHold
    <3>2. CASE cmd[c].platform # "twitch"
      BY <1>4, <3>2 DEF OthersHold
    <3>3. QED
      BY <3>1, <3>2
  <2>8. QED
    BY <1>1, <2>1, <2>2, <2>3, <2>6, <2>7, Moving
<1>5. QED
  BY <1>3, <1>4 DEF Unauthorized

-----------------------------------------------------------------------------
(* Refreshing.                                                             *)

LEMMA RefreshDueStep ==
    ASSUME IInv, NEW c \in Callers, RefreshDue(c)
    PROVE  StepOf(c) /\ cmd'[c].pc # "refreshing"
<1>1. /\ cmd[c].pc = "request" /\ cmd[c].platform = "youtube"
      /\ writes' = writes /\ holder' = holder
      /\ cmd' = [cmd EXCEPT ![c] = MovedTo(cmd[c], "refresh")]
  BY DEF RefreshDue, MovedTo
<1>2. cmd[c] \in Commands
  BY <1>1, BusyFacts
<1>3. /\ Moved(cmd[c], MovedTo(cmd[c], "refresh"))
      /\ MovedTo(cmd[c], "refresh").pc = "refresh"
  BY <1>2, MovedFacts
<1>4. MovedTo(cmd[c], "refresh").platform = "youtube"
  BY <1>1, <1>3 DEF Moved, Same
<1>5. HolderType' /\ OthersHold(c)
  BY <1>1, SameHolder DEF IInv
<1>6. StepOf(c) /\ cmd'[c] = MovedTo(cmd[c], "refresh")
  BY <1>1, <1>3, <1>4, <1>5, Moving
<1>7. QED
  BY <1>3, <1>6

LEMMA SendRefreshStep ==
    ASSUME IInv, NEW c \in Callers, SendRefresh(c)
    PROVE  /\ StepOf(c) /\ cmd'[c].platform = cmd[c].platform
           /\ cmd'[c].presented = token[cmd[c].platform].mine
<1> DEFINE n == token[cmd[c].platform].mine
           new == Presenting(cmd[c], n)
<1>1. cmd[c].pc = "refresh" /\ writes' = writes /\ holder' = holder
  BY DEF SendRefresh
<1>2. cmd[c] \in Commands /\ cmd[c].platform \in Platforms
  BY <1>1, BusyFacts
<1>3. cmd' = [cmd EXCEPT ![c] = new]
  BY <1>2 DEF SendRefresh, Presenting, IInv, Shapes
<1>4. n \in Nat
  BY <1>2 DEF IInv, Shapes
<1> HIDE DEF n
<1>5. Moved(cmd[c], new) /\ new.pc = "refreshing" /\ new.presented = n
  BY <1>2, <1>4, MovedFacts
<1> HIDE DEF new
<1>6. new.platform = cmd[c].platform
  BY <1>5 DEF Moved, Same
<1>7. HolderType' /\ OthersHold(c)
  BY <1>1, SameHolder DEF IInv
<1>8. /\ cmd[c].platform = "kick" => holder["kick"] = c
      /\ cmd[c].platform = "twitch" => holder["twitch"] = c
  BY <1>1 DEF IInv, Holding
<1>9. StepOf(c) /\ cmd'[c] = new
  BY <1>1, <1>3, <1>5, <1>6, <1>7, <1>8, Moving
<1>10. QED
  BY <1>5, <1>6, <1>9 DEF n

\* The token that is being refreshed is refreshed by one caller, unless the
\* provider keeps it.
LEMMA OneRefresher ==
    ASSUME ConstantsOK, IInv, NEW c \in Callers, NEW b \in Callers \ {c},
           cmd[c].pc = "refreshing", cmd[b].pc = "refreshing",
           cmd[b].platform = cmd[c].platform
    PROVE  cmd[c].platform = "youtube"
<1>1. cmd[c].platform \in Platforms
  BY BusyFacts
<1>2. Holding(b) /\ Holding(c)
  BY DEF IInv
<1>3. QED
  BY <1>1, <1>2 DEF Holding, Platforms

TokenType ==
    token \in [Platforms -> [state : {"good", "due", "revoked"}, mine : Nat,
                             grant : Nat, lost : BOOLEAN]]

\* The tokens of the client and of the provider.
Balanced ==
    /\ \A p \in Platforms : /\ token[p].mine <= token[p].grant
                            /\ token[p].mine = token[p].grant \/ token[p].lost
    /\ token["youtube"].mine = token["youtube"].grant

\* What presented a token still presents the client's token.
OthersPresent(c) ==
    \A b \in Callers \ {c} : cmd[b].pc = "refreshing" =>
       token'[cmd[b].platform].mine = token[cmd[b].platform].mine

LEMMA Granting ==
    ASSUME ConstantsOK, IInv, NEW c \in Callers, cmd[c].pc = "refreshing",
           LET p == cmd[c].platform
           IN token' = [token EXCEPT ![p] =
                          [state |-> "good", mine |-> NextGrant(p), grant |-> NextGrant(p),
                           lost |-> FALSE]]
    PROVE  TokenType' /\ Balanced' /\ OthersPresent(c)
<1> DEFINE p == cmd[c].platform
<1>1. p \in Platforms
  BY BusyFacts
<1>2. TokenType /\ Balanced
  BY DEF IInv, Shapes, TokenType, Current, Balanced
<1>3. /\ NextGrant(p) \in Nat
      /\ p = "youtube" => NextGrant(p) = token[p].mine
  BY <1>1, <1>2 DEF NextGrant, TokenType, Balanced
<1>4. TokenType'
  BY <1>1, <1>2, <1>3 DEF TokenType
<1>5. /\ token'[p].mine = NextGrant(p) /\ token'[p].grant = NextGrant(p)
      /\ \A q \in Platforms \ {p} : token'[q] = token[q]
  BY <1>1, <1>2 DEF TokenType
<1>6. Balanced'
  <2>1. "youtube" \in Platforms
    BY DEF Platforms
  <2>2. QED
    BY <1>2, <1>3, <1>5, <2>1 DEF Balanced
<1>7. ASSUME NEW b \in Callers \ {c}, cmd[b].pc = "refreshing"
      PROVE  token'[cmd[b].platform].mine = token[cmd[b].platform].mine
  <2>1. cmd[b].platform \in Platforms
    BY <1>7, BusyFacts
  <2>2. cmd[b].platform = p => p = "youtube"
    BY <1>7, OneRefresher
  <2>3. QED
    BY <1>3, <1>5, <2>1, <2>2
<1>8. QED
  BY <1>4, <1>6, <1>7 DEF OthersPresent

LEMMA Losing ==
    ASSUME IInv, NEW c \in Callers, cmd[c].pc = "refreshing",
           LET p == cmd[c].platform
           IN token' = [token EXCEPT ![p].grant = NextGrant(p), ![p].lost = TRUE]
    PROVE  TokenType' /\ Balanced' /\ OthersPresent(c)
<1> DEFINE p == cmd[c].platform
<1>1. p \in Platforms
  BY BusyFacts
<1>2. TokenType /\ Balanced
  BY DEF IInv, Shapes, TokenType, Current, Balanced
<1>3. /\ NextGrant(p) \in Nat /\ token[p].mine \in Nat /\ token[p].mine <= NextGrant(p)
      /\ p = "youtube" => NextGrant(p) = token[p].mine
  BY <1>1, <1>2 DEF NextGrant, TokenType, Balanced
<1>4. token' = [token EXCEPT ![p] = [token[p] EXCEPT !.grant = NextGrant(p), !.lost = TRUE]]
  BY <1>1, <1>2 DEF TokenType
<1>5. [token[p] EXCEPT !.grant = NextGrant(p), !.lost = TRUE] \in
         [state : {"good", "due", "revoked"}, mine : Nat, grant : Nat, lost : BOOLEAN]
  BY <1>1, <1>2, <1>3 DEF TokenType
<1>6. TokenType'
  BY <1>1, <1>2, <1>4, <1>5 DEF TokenType
<1>7. /\ token'[p].mine = token[p].mine /\ token'[p].grant = NextGrant(p)
      /\ token'[p].lost
      /\ \A q \in Platforms \ {p} : token'[q] = token[q]
  BY <1>1, <1>2, <1>4 DEF TokenType
<1>8. Balanced'
  <2>1. "youtube" \in Platforms
    BY DEF Platforms
  <2>2. QED
    BY <1>2, <1>3, <1>7, <2>1 DEF Balanced
<1>9. ASSUME NEW b \in Callers \ {c}, cmd[b].pc = "refreshing"
      PROVE  token'[cmd[b].platform].mine = token[cmd[b].platform].mine
  BY <1>7, <1>9, BusyFacts
<1>10. QED
  BY <1>6, <1>8, <1>9 DEF OthersPresent

\* What is done with the new token: Kick begins again with the lookup, the
\* others go on.
LEMMA Resuming ==
    ASSUME IInv, NEW c \in Callers, cmd[c].pc = "refreshing",
           cmd' = [cmd EXCEPT ![c] = Resume(cmd[c])],
           writes' = writes, holder' = holder
    PROVE  StepOf(c) /\ cmd'[c].pc = "request"
<1> DEFINE new == Resume(cmd[c])
<1>1. /\ cmd[c] \in Commands /\ Working(cmd[c], <<>>) /\ writes[c] = <<>>
      /\ cmd[c].platform \in Platforms /\ cmd[c].op \in AllOps
      /\ Rest(cmd[c].op, cmd[c].todo)
  BY BusyFacts
<1>2. HolderType' /\ OthersHold(c)
  BY SameHolder DEF IInv
<1>3. cmd[c].platform = "kick" => holder'["kick"] = c
  BY DEF IInv, Holding
<1>4. CASE cmd[c].platform # "kick"
  <2>1. new = MovedTo(cmd[c], "request")
    BY <1>4 DEF Resume, MovedTo
  <2>2. Moved(cmd[c], new) /\ new.pc = "request"
    BY <1>1, <2>1, MovedFacts
  <2>3. new.platform = cmd[c].platform
    BY <2>2 DEF Moved, Same
  <2> HIDE DEF new
  <2>4. cmd' = [cmd EXCEPT ![c] = new]
    BY DEF new
  <2>5. StepOf(c) /\ cmd'[c] = new
    BY <1>2, <1>4, <2>2, <2>3, <2>4, Moving
  <2>6. QED
    BY <2>2, <2>5
<1>5. CASE cmd[c].platform = "kick"
  <2> DEFINE plan == Plan(cmd[c].platform, cmd[c].op)
  <2>1. /\ Rest(cmd[c].op, plan) /\ plan \in Seq(Requests)
        /\ Head(plan) # "lookup" => ~Guessable(cmd[c].platform, cmd[c].op)
    BY <1>1, PlanFacts DEF Rest
  <2> HIDE DEF plan
  <2>2. Head(plan) # "lookup" => Looked(cmd[c])
    BY <1>5, <2>1 DEF Looked
  <2>3. new = [cmd[c] EXCEPT !.pc = "request", !.todo = plan]
    BY <1>5 DEF Resume, plan
  <2>4. /\ new \in Commands /\ Same(new, cmd[c]) /\ new.pc = "request"
        /\ new.todo = plan
    BY <1>1, <2>1, <2>3 DEF Commands, Same
  <2>5. cmd' = [cmd EXCEPT ![c] = new]
    OBVIOUS
  <2> HIDE DEF new
  <2>6. Alone(c) /\ cmd'[c] = new
    BY <2>4, <2>5, Replaced DEF IInv
  <2>7. new.op = cmd[c].op /\ new.platform = "kick"
    BY <1>5, <2>4 DEF Same
  <2>8. Fits(new, <<>>)
    BY <1>1, <2>1, <2>2, <2>4, <2>7, GoesOn
  <2>9. Holding(c)'
    BY <1>3, <1>5, <2>4, <2>6, <2>7 DEF Holding
  <2>10. OthersWrite(c) /\ writes'[c] = <<>>
    BY <1>1, Unwritten DEF IInv
  <2>11. QED
    BY <1>2, <2>4, <2>6, <2>8, <2>9, <2>10 DEF StepOf
<1>6. QED
  BY <1>4, <1>5

TwitchType == twitch \in [scope : BOOLEAN, owner : BOOLEAN]

LEMMA RefreshedStep ==
    ASSUME ConstantsOK, IInv, NEW c \in Callers, Refreshed(c)
    PROVE  /\ StepOf(c) /\ cmd'[c].pc # "refreshing"
           /\ TokenType' /\ Balanced' /\ OthersPresent(c) /\ TwitchType'
<1>1. cmd[c].pc = "refreshing" /\ writes' = writes
  BY DEF Refreshed, Granted
<1>2. TokenType' /\ Balanced' /\ OthersPresent(c)
  <2>1. LET p == cmd[c].platform
        IN token' = [token EXCEPT ![p] =
                       [state |-> "good", mine |-> NextGrant(p), grant |-> NextGrant(p),
                        lost |-> FALSE]]
    BY DEF Refreshed
  <2>2. QED
    BY <1>1, <2>1, Granting
<1>3. PICK scope \in IF cmd[c].platform = "twitch" THEN {twitch.scope, FALSE}
                     ELSE {twitch.scope} :
         /\ twitch' = [twitch EXCEPT !.scope = scope]
         /\ \/ Finish(c, "refused")
            \/ /\ cmd' = [cmd EXCEPT ![c] = Resume(cmd[c])]
               /\ UNCHANGED holder
  BY DEF Refreshed
<1>4. TwitchType'
  <2>1. twitch \in [scope : BOOLEAN, owner : BOOLEAN]
    BY DEF IInv, Shapes
  <2>2. twitch.scope \in BOOLEAN
    BY <2>1
  <2>3. scope \in BOOLEAN
    BY <2>2
  <2>4. QED
    BY <1>3, <2>1, <2>3 DEF TwitchType
<1>5. CASE Finish(c, "refused")
  <2>1. OthersWrite(c) /\ writes'[c] = <<>>
    BY <1>1, BusyFacts, Unwritten DEF IInv
  <2>2. StepOf(c) /\ cmd'[c].pc = "idle"
    BY <1>1, <1>5, <2>1, Stopping DEF Results
  <2>3. QED
    BY <1>2, <1>4, <2>2
<1>6. CASE cmd' = [cmd EXCEPT ![c] = Resume(cmd[c])] /\ UNCHANGED holder
  BY <1>1, <1>2, <1>4, <1>6, Resuming
<1>7. QED
  BY <1>3, <1>5, <1>6

LEMMA RefreshFailsStep ==
    ASSUME ConstantsOK, IInv, NEW c \in Callers, RefreshFails(c)
    PROVE  /\ StepOf(c) /\ cmd'[c].pc # "refreshing"
           /\ TokenType' /\ Balanced' /\ OthersPresent(c)
<1>1. cmd[c].pc = "refreshing" /\ writes' = writes /\ Finish(c, "refused")
  BY DEF RefreshFails, Granted
<1>2. StepOf(c) /\ cmd'[c].pc # "refreshing"
  <2>1. OthersWrite(c) /\ writes'[c] = <<>>
    BY <1>1, BusyFacts, Unwritten DEF IInv
  <2>2. QED
    BY <1>1, <2>1, Stopping DEF Results
<1>3. CASE token' = token
  BY <1>2, <1>3 DEF IInv, Shapes, Current, TokenType, Balanced, OthersPresent
<1>4. CASE LET p == cmd[c].platform
           IN token' = [token EXCEPT ![p].grant = NextGrant(p), ![p].lost = TRUE]
  BY <1>1, <1>2, <1>4, Losing
<1>5. QED
  BY <1>2, <1>3, <1>4 DEF RefreshFails

-----------------------------------------------------------------------------
(* The invariant is inductive.                                             *)

\* A step of c keeps the invariant, if it leaves the tokens in order.
LEMMA Together ==
    ASSUME IInv, NEW c \in Callers, StepOf(c), TokenType', Balanced', OthersPresent(c),
           TwitchType', channel' \in [Platforms -> Snippets],
           cmd'[c].pc = "refreshing" =>
             cmd'[c].presented = token'[cmd'[c].platform].mine
    PROVE  IInv'
<1>1. Shapes'
  BY DEF StepOf, Alone, OthersWrite, HolderType, TokenType, TwitchType, Shapes
<1>2. AllFit'
  <2>1. \A b \in Callers \ {c} : Fits(cmd'[b], writes'[b])
    BY Zenon DEF IInv, AllFit, StepOf, Alone, OthersWrite
  <2>2. QED
    BY <2>1 DEF AllFit, StepOf
<1>3. \A b \in Callers : Holding(b)'
  <2>1. ASSUME NEW b \in Callers \ {c}
        PROVE  Holding(b)'
    <3>1. Holding(b) /\ cmd'[b] = cmd[b]
      BY DEF IInv, StepOf, Alone
    <3>2. /\ holder["kick"] = b => holder'["kick"] = b
          /\ holder["twitch"] = b => holder'["twitch"] = b
      BY DEF StepOf, OthersHold
    <3>3. QED
      BY <3>1, <3>2 DEF Holding
  <2>2. QED
    BY <2>1 DEF StepOf
<1>4. Current'
  <2>1. ASSUME NEW b \in Callers, cmd'[b].pc = "refreshing"
        PROVE  cmd'[b].presented = token'[cmd'[b].platform].mine
    <3>1. CASE b = c
      BY <2>1, <3>1
    <3>2. CASE b # c
      BY <2>1, <3>2 DEF IInv, Current, StepOf, Alone, OthersPresent
    <3>3. QED
      BY <3>1, <3>2
  <2>2. QED
    BY <2>1 DEF Current, Balanced
<1>5. QED
  BY <1>1, <1>2, <1>3, <1>4 DEF IInv

LEMMA Unchanging ==
    ASSUME IInv
    PROVE  /\ TokenType /\ Balanced /\ TwitchType /\ channel \in [Platforms -> Snippets]
           /\ token' = token => \A c \in Callers : TokenType' /\ Balanced' /\ OthersPresent(c)
           /\ twitch' = twitch => TwitchType'
           /\ channel' = channel => channel' \in [Platforms -> Snippets]
  BY DEF IInv, Shapes, Current, TokenType, Balanced, TwitchType, OthersPresent

LEMMA CallerNext ==
    ASSUME ConstantsOK, IInv, NEW c \in Callers,
           \/ \E p \in PlatformsOf[c], op \in Ops : Issue(c, p, op)
           \/ LockKick(c) \/ Request(c) \/ Refresh(c)
    PROVE  IInv'
<1>1. CASE \E p \in PlatformsOf[c], op \in Ops : Issue(c, p, op)
  <2>1. StepOf(c) /\ cmd'[c].pc # "refreshing"
    BY <1>1, IssueStep
  <2>2. token' = token /\ twitch' = twitch /\ channel' = channel
    BY <1>1 DEF Issue
  <2>3. QED
    BY <2>1, <2>2, Unchanging, Together
<1>2. CASE LockKick(c) \/ Read(c) \/ Lookup(c) \/ ReadSnippet(c) \/ Rejected(c)
           \/ Unauthorized(c) \/ RefreshDue(c)
  <2>1. StepOf(c) /\ cmd'[c].pc # "refreshing"
    BY <1>2, LockKickStep, ReadStep, LookupStep, ReadSnippetStep, RejectedStep,
       UnauthorizedStep, RefreshDueStep
  <2>2. token' = token /\ twitch' = twitch /\ channel' = channel
    BY <1>2 DEF LockKick, Read, Lookup, ReadSnippet, Rejected, Unauthorized, RefreshDue
  <2>3. QED
    BY <2>1, <2>2, Unchanging, Together
<1>3. CASE Write(c) \/ Lost(c)
  <2>1. /\ StepOf(c) /\ cmd'[c].pc # "refreshing"
        /\ channel' \in [Platforms -> Snippets]
    BY <1>3, WriteStep, LostStep
  <2>2. token' = token /\ twitch' = twitch
    BY <1>3 DEF Write, Lost
  <2>3. QED
    BY <2>1, <2>2, Unchanging, Together
<1>4. CASE SendRefresh(c)
  <2>1. /\ StepOf(c) /\ cmd'[c].platform = cmd[c].platform
        /\ cmd'[c].presented = token[cmd[c].platform].mine
    BY <1>4, SendRefreshStep
  <2>2. token' = token /\ twitch' = twitch /\ channel' = channel
    BY <1>4 DEF SendRefresh
  <2>3. QED
    BY <2>1, <2>2, Unchanging, Together
<1>5. CASE Refreshed(c)
  <2>1. channel' = channel
    BY <1>5 DEF Refreshed
  <2>2. QED
    BY <1>5, <2>1, RefreshedStep, Unchanging, Together
<1>6. CASE RefreshFails(c)
  <2>1. twitch' = twitch /\ channel' = channel
    BY <1>6 DEF RefreshFails
  <2>2. QED
    BY <1>6, <2>1, RefreshFailsStep, Unchanging, Together
<1>7. QED
  BY <1>1, <1>2, <1>3, <1>4, <1>5, <1>6 DEF Request, Refresh

LEMMA InvInit ==
    ASSUME ConstantsOK, Init
    PROVE  IInv
<1>1. NoCommand \in Commands
  <2>1. NoSnippet \in Snippets /\ <<>> \in Seq(Requests) /\ "" \in Ids
    BY EmptySeq DEF NoSnippet, Snippets, Ids
  <2>2. QED
    BY <2>1 DEF NoCommand, Commands, Results, AllOps, Platforms
<1>2. /\ cmd = [c \in Callers |-> NoCommand] /\ writes = [c \in Callers |-> <<>>]
      /\ NoCommand.pc = "idle" /\ NoCommand.todo = <<>> /\ NoCommand.op = "status"
      /\ NoCommand.result = "ok"
  BY DEF Init, NoCommand
<1>3. Shapes
  <2>1. [title |-> "old", category |-> "old"] \in Snippets
    BY DEF Snippets
  <2>2. channel \in [Platforms -> Snippets]
    BY <2>1 DEF Init
  <2>3. TokenType /\ HolderType
    BY DEF Init, TokenType, HolderType
  <2>4. cmd \in [Callers -> Commands] /\ DOMAIN writes = Callers
    BY <1>1, <1>2
  <2>5. twitch \in [scope : BOOLEAN, owner : BOOLEAN]
    BY DEF Init
  <2>6. QED
    BY <2>2, <2>3, <2>4, <2>5 DEF Shapes, TokenType, HolderType
<1>4. AllFit
  BY <1>2 DEF AllFit, Fits, Finished
<1>5. Current
  BY <1>2 DEF Init, Current, Platforms
<1>6. \A c \in Callers : Holding(c)
  BY <1>2 DEF Holding
<1>7. QED
  BY <1>3, <1>4, <1>5, <1>6 DEF IInv

LEMMA TokenAgesStep ==
    ASSUME IInv, NEW p \in Platforms, TokenAges(p)
    PROVE  IInv'
<1>1. PICK s \in {"due", "revoked"} : token' = [token EXCEPT ![p].state = s]
  BY DEF TokenAges
<1>2. /\ cmd' = cmd /\ holder' = holder /\ twitch' = twitch /\ channel' = channel
      /\ writes' = writes
  BY DEF TokenAges
<1>3. TokenType /\ Current
  BY DEF IInv, Shapes, TokenType
<1>4. /\ TokenType'
      /\ \A q \in Platforms : /\ token'[q].mine = token[q].mine
                              /\ token'[q].grant = token[q].grant
                              /\ token'[q].lost = token[q].lost
  BY <1>1, <1>3 DEF TokenType
<1>5. Current'
  <2>1. "youtube" \in Platforms
    BY DEF Platforms
  <2>2. \A c \in Callers : cmd[c].pc = "refreshing" => cmd[c].platform \in Platforms
    BY BusyFacts
  <2>3. QED
    BY <1>2, <1>3, <1>4, <2>1, <2>2 DEF Current
<1>6. Shapes' /\ AllFit'
  BY <1>2, <1>4 DEF IInv, Shapes, AllFit, TokenType
<1>7. \A c \in Callers : Holding(c)'
  BY <1>2 DEF IInv, Holding
<1>8. QED
  BY <1>5, <1>6, <1>7 DEF IInv

LEMMA InvNext ==
    ASSUME ConstantsOK, IInv, [Next]_vars
    PROVE  IInv'
<1>1. CASE UNCHANGED vars
  BY <1>1 DEF vars, IInv, Shapes, AllFit, Current, Holding
<1>2. CASE Next
  BY <1>2, CallerNext, TokenAgesStep DEF Next
<1>3. QED
  BY <1>1, <1>2

-----------------------------------------------------------------------------
(* What it implies.                                                        *)

\* The length a command asks for is among those that express what was typed.
LEMMA AskedExact ==
    ASSUME ConstantsOK, NEW cm \in Commands, cm.op = "timeout", Lasts(cm)
    PROVE  /\ Effect(cm).seconds = cm.length.amount * UnitSeconds[cm.length.unit]
           /\ Effect(cm).seconds \in 1 .. Longest(cm.platform)
<1>1. cm.length.amount \in Int /\ cm.length.unit \in Units
  <2>1. cm.length \in Durations \cup {NoDuration}
    BY DEF Commands
  <2>2. NoDuration.amount \in Int /\ NoDuration.unit \in Units
    BY DEF NoDuration, Units
  <2>3. QED
    BY <2>1, <2>2 DEF ConstantsOK
<1>2. Asked(cm.platform, cm.length) \in Length(cm.platform, cm.length)
  BY Zenon DEF Lasts, Asked
<1>3. Effect(cm).seconds = Asked(cm.platform, cm.length)
  BY DEF Effect
<1>4. QED
  BY ZenonT(30), <1>1, <1>2, <1>3, LengthExact

LEMMA InvImplies ==
    ASSUME ConstantsOK, IInv
    PROVE  ControlSafety
<1>1. ASSUME NEW c \in Callers
      PROVE  /\ cmd[c] \in Commands
             /\ cmd[c].pc = "idle" => Finished(cmd[c], writes[c])
             /\ cmd[c].pc # "idle" => writes[c] = <<>> /\ cmd[c].todo # <<>>
  <2>1. cmd[c] \in Commands /\ Fits(cmd[c], writes[c])
    BY DEF IInv, Shapes, AllFit
  <2>2. QED
    BY <2>1, BusyFacts DEF Fits
<1>2. ASSUME NEW c \in Callers
      PROVE  \/ writes[c] = <<>>
             \/ writes[c] = <<Effect(cmd[c])>> /\ Looked(cmd[c]) /\ Lasts(cmd[c])
  BY <1>1 DEF Finished
<1>3. TypeOK
  <2>1. ASSUME NEW c \in Callers
        PROVE  /\ cmd[c].pc \in {"idle", "lock", "request", "refresh", "refreshing"}
               /\ cmd[c].result \in {"ok", "refused", "failed"}
               /\ (cmd[c].pc = "idle") = (cmd[c].todo = <<>>)
    <3>1. (cmd[c].pc = "idle") <=> (cmd[c].todo = <<>>)
      BY <1>1 DEF Finished
    <3>2. QED
      BY <1>1, <3>1 DEF Commands, Results
  <2>2. /\ holder \in [{"kick", "twitch"} -> Callers \cup {Nobody}]
        /\ twitch \in [scope : BOOLEAN, owner : BOOLEAN]
        /\ \A p \in Platforms : token[p].state \in {"good", "due", "revoked"}
    BY DEF IInv, Shapes
  <2>3. \A p \in Platforms : token[p].mine <= token[p].grant
    BY DEF IInv, Current
  <2>4. QED
    BY <2>1, <2>2, <2>3 DEF TypeOK
<1>4. ReportedIsDone
  BY <1>1 DEF ReportedIsDone, Finished
<1>5. ActsAtMostOnce
  <2>1. ASSUME NEW c \in Callers
        PROVE  Len(writes[c]) <= 1
    <3>1. CASE writes[c] = <<>>
      BY <3>1
    <3>2. CASE writes[c] = <<Effect(cmd[c])>>
      BY <3>2
    <3>3. QED
      BY <1>2, <3>1, <3>2
  <2>2. QED
    BY <2>1 DEF ActsAtMostOnce
<1>6. RefusedIsUndone
  BY <1>1 DEF RefusedIsUndone, Finished
<1>7. ASSUME NEW c \in Callers, NEW i \in DOMAIN writes[c]
      PROVE  /\ writes[c][i] = Effect(cmd[c])
             /\ Looked(cmd[c]) /\ Lasts(cmd[c])
  <2>1. writes[c] # <<>>
    BY <1>7
  <2>2. writes[c] = <<Effect(cmd[c])>> /\ Looked(cmd[c]) /\ Lasts(cmd[c])
    BY <1>2, <2>1
  <2>3. i = 1
    BY <2>2
  <2>4. QED
    BY <2>2, <2>3
<1>8. NeverGuesses
  <2>1. ASSUME NEW c \in Callers, NEW i \in DOMAIN writes[c], NEW w, w = writes[c][i]
        PROVE  /\ Guessable(w.platform, w.op) =>
                    \E e \in cmd[c].found : e.id = w.id /\ Exact(cmd[c].found) = {e}
               /\ w.platform = "twitch" /\ w.op \in {"ban", "timeout"} => w.id # Self
    <3>1. w = Effect(cmd[c]) /\ Looked(cmd[c])
      BY <1>7, <2>1
    <3>2. w.platform = cmd[c].platform /\ w.op = cmd[c].op /\ w.id = cmd[c].target
      BY <3>1 DEF Effect
    <3>3. QED
      BY Zenon, <3>1, <3>2 DEF Looked
  <2>2. QED
    BY Zenon, <2>1 DEF NeverGuesses, Guessable
<1>9. DurationIsExact
  <2>1. ASSUME NEW c \in Callers, NEW i \in DOMAIN writes[c], writes[c][i].op = "timeout"
        PROVE  /\ writes[c][i].seconds
                    = cmd[c].length.amount * UnitSeconds[cmd[c].length.unit]
               /\ writes[c][i].seconds \in 1 .. Longest(writes[c][i].platform)
    <3>1. /\ writes[c][i] = Effect(cmd[c]) /\ Lasts(cmd[c])
          /\ cmd[c] \in Commands
      BY <1>1, <1>7
    <3>2. Effect(cmd[c]).op = cmd[c].op /\ Effect(cmd[c]).platform = cmd[c].platform
      BY DEF Effect
    <3>3. QED
      BY Zenon, <2>1, <3>1, <3>2, AskedExact
  <2>2. QED
    BY Zenon, <2>1 DEF DurationIsExact
<1>10. NoTokenPresentedTwice
  <2>1. ASSUME NEW c \in Callers, cmd[c].pc = "refreshing"
        PROVE  /\ cmd[c].presented = token[cmd[c].platform].mine
               /\ cmd[c].platform \in Platforms
    BY <2>1, BusyFacts DEF IInv, Current
  <2>2. QED
    BY <2>1 DEF IInv, Current, NoTokenPresentedTwice
<1>11. QED
  BY <1>3, <1>4, <1>5, <1>6, <1>8, <1>9, <1>10 DEF ControlSafety

\* Whatever the callers ask for, the searches answer and the tokens do, a
\* command of a chat client does what it reports, at most once, to the only
\* exact match of its search and for exactly as long as was typed, or it does
\* nothing; and two commands never use up one refresh token.
THEOREM CommandsAreSafe == ASSUME ConstantsOK PROVE Spec => []ControlSafety
<1>1. Init => IInv
  BY InvInit
<1>2. IInv /\ [Next]_vars => IInv'
  BY InvNext
<1>3. IInv => ControlSafety
  BY InvImplies
<1>4. QED
  BY <1>1, <1>2, <1>3, PTL DEF Spec

-----------------------------------------------------------------------------
(* Titles and categories.                                                  *)

\* YouTube is sent the snippet that was read: two callers that change it at the
\* same time would overwrite each other's field.
OneEditor ==
    \A c, d \in Callers : "youtube" \in PlatformsOf[c] \cap PlatformsOf[d] => c = d

\* Plans that have yet to read the snippet.
Unread ==
    {<<"snippet", "write">>, <<"read", "snippet", "write">>,
     <<"lookup", "read", "snippet", "write">>}

\* A command under way is for a platform of its caller; one that changes a field on
\* YouTube has yet to read the snippet, or has the one that YouTube has.
Edits(cm) == cm.platform = "youtube" /\ cm.op \in {"title", "category"}
Knows(c, cm, snippet) ==
    cm.pc # "idle" =>
        /\ cm.platform \in PlatformsOf[c]
        /\ Edits(cm) => cm.todo \in Unread \/ (cm.todo = <<"write">> /\ cm.snippet = snippet)
SnippetsKnown == \A c \in Callers : Knows(c, cmd[c], channel["youtube"])

\* The plan after the next request.
LEMMA UnreadFacts ==
    ASSUME NEW todo \in Unread
    PROVE  /\ Head(todo) = "snippet" => Tail(todo) = <<"write">>
           /\ Head(todo) # "snippet" => Tail(todo) \in Unread
           /\ Head(todo) # "write" /\ Len(todo) # 1
<1>1. CASE todo = <<"snippet", "write">>
  BY <1>1
<1>2. CASE todo = <<"read", "snippet", "write">>
  BY <1>2 DEF Unread
<1>3. CASE todo = <<"lookup", "read", "snippet", "write">>
  BY <1>3 DEF Unread
<1>4. QED
  BY <1>1, <1>2, <1>3 DEF Unread

\* A step of one caller that leaves YouTube's snippet as it is.
LEMMA OneKnows ==
    ASSUME Shapes, SnippetsKnown, NEW c \in Callers, NEW new, cmd' = [cmd EXCEPT ![c] = new],
           channel' = channel, Knows(c, new, channel["youtube"])
    PROVE  SnippetsKnown'
BY DEF Shapes, SnippetsKnown

\* A command that ends.
LEMMA EndKnows ==
    ASSUME Shapes, SnippetsKnown, NEW c \in Callers, NEW result \in Results,
           Finish(c, result), channel' = channel
    PROVE  SnippetsKnown'
<1>1. cmd[c] \in Commands
  BY DEF Shapes
<1>. DEFINE new == Over(cmd[c], result)
<1>2. cmd' = [cmd EXCEPT ![c] = new]
  BY DEF Finish, Over
<1>3. new.pc = "idle"
  BY <1>1, OverFacts
<1>. HIDE DEF new
<1>4. QED
  BY <1>2, <1>3, OneKnows DEF Knows

\* A command that waits for something else.
LEMMA WaitKnows ==
    ASSUME Shapes, SnippetsKnown, NEW c \in Callers, cmd[c].pc # "idle", NEW new,
           cmd' = [cmd EXCEPT ![c] = new], channel' = channel,
           new.platform = cmd[c].platform, new.op = cmd[c].op,
           new.platform # "youtube" \/ (new.todo = cmd[c].todo /\ new.snippet = cmd[c].snippet)
    PROVE  SnippetsKnown'
<1>1. Knows(c, cmd[c], channel["youtube"])
  BY DEF SnippetsKnown
<1>2. Knows(c, new, channel["youtube"])
  BY <1>1 DEF Knows, Edits
<1>3. QED
  BY <1>2, OneKnows

\* A command that goes on to its next request.
LEMMA AdvanceKnows ==
    ASSUME Shapes, SnippetsKnown, NEW c \in Callers, cmd[c].pc = "request",
           NEW changes \in Commands, Advance(c, changes), channel' = channel,
           changes.platform = cmd[c].platform, changes.op = cmd[c].op,
           changes.todo = cmd[c].todo, Head(cmd[c].todo) # "write",
           Head(cmd[c].todo) = "snippet" => changes.snippet = channel[cmd[c].platform]
    PROVE  SnippetsKnown'
<1>. DEFINE new == [changes EXCEPT !.todo = Tail(@),
                                   !.again = @ /\ changes.platform = "kick"]
<1>1. /\ new.platform = cmd[c].platform /\ new.op = cmd[c].op
      /\ new.todo = Tail(cmd[c].todo) /\ new.snippet = changes.snippet
  BY DEF Commands
<1>2. cmd' = [cmd EXCEPT ![c] = new]
  BY DEF Advance
<1>. HIDE DEF new
<1>3. Knows(c, cmd[c], channel["youtube"])
  BY DEF SnippetsKnown
<1>4. cmd[c].platform \in PlatformsOf[c]
  BY <1>3 DEF Knows
<1>5. ASSUME Edits(new)
      PROVE  new.todo \in Unread \/ (new.todo = <<"write">> /\ new.snippet = channel["youtube"])
  <2>1. Edits(cmd[c]) /\ cmd[c].platform = "youtube"
    BY <1>1, <1>5 DEF Edits
  <2>2. cmd[c].todo \in Unread \/ cmd[c].todo = <<"write">>
    BY <1>3, <2>1 DEF Knows
  <2>3. cmd[c].todo \in Unread
    BY <2>2
  <2>4. QED
    BY <1>1, <2>1, <2>3, UnreadFacts
<1>6. Knows(c, new, channel["youtube"])
  BY <1>1, <1>4, <1>5 DEF Knows
<1>7. QED
  BY <1>2, <1>6, OneKnows

\* What a step does to the fields.
FieldKept ==
    \A p \in Platforms : channel'[p].title = channel[p].title
                         \/ channel'[p].category = channel[p].category

\* A write that YouTube, or another provider, executes.
LEMMA WriteKnows ==
    ASSUME ConstantsOK, OneEditor, IInv, SnippetsKnown, NEW c \in Callers, Accepted(c),
           Head(cmd[c].todo) = "write", Executed(c), NEW result \in Results, Finish(c, result)
    PROVE  SnippetsKnown' /\ FieldKept
<1>. DEFINE cm == cmd[c]
<1>1. /\ cm \in Commands /\ cm.pc = "request" /\ cm.platform \in Platforms
      /\ channel \in [Platforms -> Snippets] /\ Knows(c, cm, channel["youtube"])
  BY BusyFacts DEF Accepted, MayRequest, IInv, Shapes, SnippetsKnown
<1>2. cm.platform \in PlatformsOf[c]
  BY <1>1 DEF Knows
<1>. DEFINE old == channel[cm.platform]
<1>3. Edits(cm) => cm.snippet = old
  <2>1. Edits(cm) => cm.platform = "youtube"
    BY DEF Edits
  <2>2. Edits(cm) => cm.todo \in Unread \/ cm.snippet = channel["youtube"]
    BY <1>1 DEF Knows
  <2>3. cm.todo \notin Unread
    BY UnreadFacts
  <2>4. QED
    BY <2>1, <2>2, <2>3
<1>4. Patched(cm).title = old.title \/ Patched(cm).category = old.category
  <2>1. old \in Snippets
    BY <1>1
  <2>2. CASE cm.op = "title"
    <3>1. Patched(cm) = [old EXCEPT !.title = cm.title]
      BY <1>3, <2>2 DEF Patched, Edits
    <3>2. QED
      BY <2>1, <3>1 DEF Snippets
  <2>3. CASE cm.op = "category"
    <3>1. Patched(cm) = [old EXCEPT !.category = cm.target]
      BY <1>3, <2>3 DEF Patched, Edits
    <3>2. QED
      BY <2>1, <3>1 DEF Snippets
  <2>4. CASE cm.op \notin {"title", "category"}
    BY <2>4 DEF Patched
  <2>5. QED
    BY <2>2, <2>3, <2>4
<1>5. channel' = [channel EXCEPT ![cm.platform] = Patched(cm)]
  BY DEF Executed
<1>. HIDE DEF cm, old
<1>6. FieldKept
  BY <1>1, <1>4, <1>5 DEF FieldKept, old
<1>7. cmd' = [cmd EXCEPT ![c] = Over(cm, result)] /\ Over(cm, result).pc = "idle"
  BY <1>1, OverFacts, ZenonT(30) DEF Finish, Over, cm
<1>8. ASSUME NEW d \in Callers
      PROVE  Knows(d, cmd'[d], channel'["youtube"])
  <2>1. CASE d = c
    <3>1. cmd'[d].pc = "idle"
      BY <1>7, <2>1 DEF IInv, Shapes
    <3>2. QED
      BY <3>1 DEF Knows
  <2>2. CASE d # c
    <3>1. cmd'[d] = cmd[d] /\ Knows(d, cmd[d], channel["youtube"])
      BY <1>7, <2>2 DEF IInv, Shapes, SnippetsKnown
    <3>2. CASE cm.platform = "youtube"
      <4>1. "youtube" \notin PlatformsOf[d]
        BY <1>2, <2>2, <3>2 DEF OneEditor
      <4>2. QED
        BY <3>1, <4>1 DEF Knows, Edits
    <3>3. CASE cm.platform # "youtube"
      <4>1. channel'["youtube"] = channel["youtube"]
        BY <1>1, <1>5, <3>3
      <4>2. QED
        BY <3>1, <4>1
    <3>4. QED
      BY <3>2, <3>3
  <2>3. QED
    BY <2>1, <2>2
<1>9. QED
  BY <1>6, <1>8 DEF SnippetsKnown

\* A command that is given.
LEMMA IssueKnows ==
    ASSUME ConstantsOK, IInv, SnippetsKnown, NEW c \in Callers,
           NEW p \in PlatformsOf[c], NEW op \in Ops, Issue(c, p, op)
    PROVE  SnippetsKnown'
<1>1. /\ cmd \in [Callers -> Commands] /\ channel' = channel
      /\ \A b \in Callers : Knows(b, cmd[b], channel["youtube"])
  BY DEF IInv, Shapes, SnippetsKnown, Issue
<1>2. PICK title \in IF op = "title" THEN Titles ELSE {""},
           d \in IF op = "timeout" THEN Durations ELSE {NoDuration},
           authors \in IF p = "youtube" /\ op \in {"ban", "timeout"}
                       THEN {found \in Directory : Cardinality(found) <= 1} ELSE {{}} :
         LET first == [NoCommand EXCEPT !.op = op, !.platform = p, !.title = title,
                       !.length = d, !.found = authors,
                       !.target = IF authors = {} THEN "" ELSE (CHOOSE a \in authors : TRUE).id]
         IN cmd' = [cmd EXCEPT ![c] =
              IF Refused(p, op, d, authors) THEN [first EXCEPT !.result = "refused"]
              ELSE [first EXCEPT !.pc = IF p = "kick" THEN "lock" ELSE "request",
                                 !.todo = Plan(p, op)]]
  BY Zenon DEF Issue
<1>. DEFINE target == IF authors = {} THEN "" ELSE (CHOOSE a \in authors : TRUE).id
            new == NewRecord(op, p, title, d, authors, target)
            pc == IF p = "kick" THEN "lock" ELSE "request"
<1>3. new.pc = "idle" /\ new.platform = p /\ new.op = op
  BY DEF NewRecord, NoCommand
<1>4. Knows(c, Refusing(new), channel["youtube"])
  BY DEF Knows, Refusing, NewRecord, NoCommand
<1>5. /\ Begun(new, pc, Plan(p, op)).platform = p /\ Begun(new, pc, Plan(p, op)).op = op
      /\ Begun(new, pc, Plan(p, op)).todo = Plan(p, op)
  BY DEF Begun, NewRecord, NoCommand
<1>6. p = "youtube" /\ op \in {"title", "category"} => Plan(p, op) \in Unread
  BY DEF Plan, YouTubePlan, Unread
<1>7. Knows(c, Begun(new, pc, Plan(p, op)), channel["youtube"])
  <2>. DEFINE begun == Begun(new, pc, Plan(p, op))
  <2>1. begun.platform = p /\ begun.op = op /\ begun.todo = Plan(p, op)
    BY <1>5
  <2>. HIDE DEF begun
  <2>2. Edits(begun) => begun.todo \in Unread
    BY <1>6, <2>1 DEF Edits
  <2>3. Knows(c, begun, channel["youtube"])
    BY <2>1, <2>2 DEF Knows
  <2>4. QED
    BY <2>3 DEF begun
<1>8. PICK r \in {Refusing(new), Begun(new, pc, Plan(p, op))} : cmd' = [cmd EXCEPT ![c] = r]
  <2>1. cmd' = [cmd EXCEPT ![c] = IF Refused(p, op, d, authors) THEN Refusing(new)
                                  ELSE Begun(new, pc, Plan(p, op))]
    BY <1>2 DEF NewRecord, Refusing, Begun
  <2>. HIDE DEF new, pc
  <2>2. QED
    BY <2>1
<1>. HIDE DEF new, pc
<1>9. Knows(c, r, channel["youtube"])
  BY <1>4, <1>7, <1>8
<1>10. Shapes
  BY DEF IInv
<1>11. QED
  BY <1>1, <1>8, <1>9, <1>10, OneKnows

\* Steps of a command that neither begin it nor write.
LEMMA RequestKnows ==
    ASSUME ConstantsOK, IInv, SnippetsKnown, NEW c \in Callers,
           \/ LockKick(c) \/ Read(c) \/ Lookup(c) \/ ReadSnippet(c)
           \/ Rejected(c) \/ Unauthorized(c) \/ Refresh(c)
    PROVE  SnippetsKnown' /\ channel' = channel
<1>1. channel' = channel
  BY DEF LockKick, Read, Lookup, ReadSnippet, Rejected, Unauthorized, Refresh, RefreshDue,
         SendRefresh, Refreshed, RefreshFails
<1>. SUFFICES SnippetsKnown'
  BY <1>1
<1>2. Shapes /\ cmd[c] \in Commands
  BY DEF IInv, Shapes
<1>3. cmd[c].pc # "idle"
  BY DEF LockKick, Read, Lookup, ReadSnippet, Rejected, Unauthorized, Refresh, RefreshDue,
         SendRefresh, Refreshed, RefreshFails, Accepted, MayRequest, Granted
<1>4. ASSUME NEW result \in Results, Finish(c, result)
      PROVE  SnippetsKnown'
  BY <1>1, <1>2, <1>4, EndKnows
<1>5. ASSUME NEW new, Moved(cmd[c], new), new.snippet = cmd[c].snippet,
             cmd' = [cmd EXCEPT ![c] = new]
      PROVE  SnippetsKnown'
  <2>1. new.platform = cmd[c].platform /\ new.op = cmd[c].op /\ new.todo = cmd[c].todo
    BY <1>5 DEF Moved, Same
  <2>2. QED
    BY <1>1, <1>2, <1>3, <1>5, <2>1, WaitKnows
<1>6. {"ok", "refused", "failed"} = Results
  BY DEF Results
<1>7. ASSUME NEW pc \in {"request", "refresh"}, cmd' = [cmd EXCEPT ![c].pc = pc]
      PROVE  SnippetsKnown'
  <2>1. cmd' = [cmd EXCEPT ![c] = MovedTo(cmd[c], pc)]
    BY <1>7 DEF MovedTo
  <2>2. Moved(cmd[c], MovedTo(cmd[c], pc)) /\ MovedTo(cmd[c], pc).snippet = cmd[c].snippet
    BY <1>2, MovedFacts DEF MovedTo, Commands
  <2>3. QED
    BY <1>5, <2>1, <2>2
<1>8. CASE LockKick(c)
  <2>1. \/ Finish(c, "refused")
        \/ \E pc \in {"request", "refresh"} : cmd' = [cmd EXCEPT ![c].pc = pc]
    BY <1>8 DEF LockKick
  <2>2. QED
    BY <1>4, <1>6, <1>7, <2>1
<1>9. CASE Read(c)
  <2>1. cmd[c].pc = "request" /\ Head(cmd[c].todo) = "read"
        /\ (Finish(c, "ok") \/ Advance(c, cmd[c]))
    BY <1>9 DEF Read, Accepted, MayRequest
  <2>2. QED
    BY <1>1, <1>2, <1>4, <1>6, <2>1, AdvanceKnows
<1>10. CASE Lookup(c)
  <2>1. /\ cmd[c].pc = "request" /\ Head(cmd[c].todo) = "lookup"
        /\ \/ Finish(c, "refused")
           \/ \E found \in Answers(cmd[c].platform, cmd[c].op) :
              \E e \in Choices(cmd[c].platform, cmd[c].op, found) :
                Advance(c, Taking(cmd[c], e, found))
    BY <1>10 DEF Lookup, Accepted, MayRequest, Taking
  <2>2. ASSUME NEW found \in Answers(cmd[c].platform, cmd[c].op),
               NEW e \in Choices(cmd[c].platform, cmd[c].op, found),
               Advance(c, Taking(cmd[c], e, found))
        PROVE  SnippetsKnown'
    <3>. DEFINE new == Taking(cmd[c], e, found)
    <3>0. cmd[c].platform \in Platforms /\ found \in Directory
      BY <1>3, BusyFacts DEF Answers
    <3>1. found \in Directory /\ e \in found
      BY <3>0, ChosenFacts
    <3>2. new \in Commands /\ new.todo = cmd[c].todo /\ new.platform = cmd[c].platform
          /\ new.op = cmd[c].op
      BY <1>2, <3>1, TakingFacts, ZenonT(30) DEF Taking, Commands, Candidates, Ids
    <3>. HIDE DEF new
    <3>3. Advance(c, new) /\ Head(cmd[c].todo) = "lookup" /\ cmd[c].pc = "request"
      BY <2>1, <2>2 DEF new
    <3>4. QED
      BY <1>1, <1>2, <3>2, <3>3, AdvanceKnows
  <2>3. QED
    BY <1>4, <1>6, <2>1, <2>2
<1>11. CASE ReadSnippet(c)
  <2>. DEFINE new == [cmd[c] EXCEPT !.snippet = channel[cmd[c].platform]]
  <2>1. Advance(c, new) /\ Head(cmd[c].todo) = "snippet" /\ cmd[c].pc = "request"
    BY <1>11 DEF ReadSnippet, Accepted, MayRequest
  <2>2. channel[cmd[c].platform] \in Snippets
    BY <1>3, BusyFacts DEF IInv, Shapes
  <2>3. /\ new \in Commands /\ new.todo = cmd[c].todo /\ new.platform = cmd[c].platform
        /\ new.op = cmd[c].op /\ new.snippet = channel[cmd[c].platform]
    BY <1>2, <2>2 DEF Commands
  <2>. HIDE DEF new
  <2>4. QED
    BY <1>1, <1>2, <2>1, <2>3, AdvanceKnows
<1>12. CASE Rejected(c) \/ RefreshFails(c)
  BY <1>4, <1>6, <1>12 DEF Rejected, RefreshFails
<1>13. CASE Unauthorized(c)
  <2>1. CASE Finish(c, "refused")
    BY <1>4, <1>6, <2>1
  <2>2. CASE cmd' = [cmd EXCEPT ![c].pc = "refresh", ![c].again = TRUE]
    <3>1. cmd' = [cmd EXCEPT ![c] = Retrying(cmd[c])]
      BY <1>2, <2>2 DEF Retrying, Shapes
    <3>2. Moved(cmd[c], Retrying(cmd[c])) /\ Retrying(cmd[c]).snippet = cmd[c].snippet
      BY <1>2, MovedFacts DEF Retrying, Commands
    <3>3. QED
      BY <1>5, <3>1, <3>2
  <2>3. QED
    BY <1>13, <2>1, <2>2 DEF Unauthorized
<1>14. CASE RefreshDue(c)
  BY <1>7, <1>14 DEF RefreshDue
<1>15. CASE SendRefresh(c)
  <2>. DEFINE n == token[cmd[c].platform].mine
  <2>1. cmd' = [cmd EXCEPT ![c] = Presenting(cmd[c], n)]
    BY <1>2, <1>15 DEF SendRefresh, Presenting, Shapes
  <2>2. n \in Nat
    BY <1>3, BusyFacts DEF IInv, Shapes
  <2>. HIDE DEF n
  <2>3. Moved(cmd[c], Presenting(cmd[c], n)) /\ Presenting(cmd[c], n).snippet = cmd[c].snippet
    BY <1>2, <2>2, MovedFacts DEF Presenting, Commands
  <2>4. QED
    BY <1>5, <2>1, <2>3
<1>16. CASE Refreshed(c)
  <2>1. Finish(c, "refused") \/ cmd' = [cmd EXCEPT ![c] = Resume(cmd[c])]
    BY <1>16 DEF Refreshed
  <2>2. CASE cmd' = [cmd EXCEPT ![c] = Resume(cmd[c])]
    <3>. DEFINE new == Resume(cmd[c])
    <3>1. /\ new.platform = cmd[c].platform /\ new.op = cmd[c].op
          /\ new.platform # "youtube" \/ (new.todo = cmd[c].todo
                                          /\ new.snippet = cmd[c].snippet)
      BY <1>2 DEF Resume, Commands
    <3>. HIDE DEF new
    <3>2. cmd' = [cmd EXCEPT ![c] = new]
      BY <2>2 DEF new
    <3>3. QED
      BY <1>1, <1>2, <1>3, <3>1, <3>2, WaitKnows
  <2>3. QED
    BY <1>4, <1>6, <2>1, <2>2
<1>17. QED
  BY <1>1, <1>8, <1>9, <1>10, <1>11, <1>12, <1>13, <1>14, <1>15, <1>16 DEF Refresh

LEMMA KnowsNext ==
    ASSUME ConstantsOK, OneEditor, IInv, SnippetsKnown, [Next]_vars
    PROVE  SnippetsKnown' /\ FieldKept
<1>1. channel' = channel => FieldKept
  BY DEF FieldKept
<1>2. cmd' = cmd /\ channel' = channel => SnippetsKnown'
  BY DEF SnippetsKnown
<1>3. CASE UNCHANGED vars \/ \E p \in Platforms : TokenAges(p)
  BY <1>1, <1>2, <1>3 DEF vars, TokenAges
<1>4. ASSUME NEW c \in Callers,
             \/ \E p \in PlatformsOf[c], op \in Ops : Issue(c, p, op)
             \/ LockKick(c) \/ Request(c) \/ Refresh(c)
      PROVE  SnippetsKnown' /\ FieldKept
  <2>1. CASE \E p \in PlatformsOf[c], op \in Ops : Issue(c, p, op)
    <3>1. channel' = channel
      BY <2>1 DEF Issue
    <3>2. SnippetsKnown'
      BY <2>1, IssueKnows
    <3>3. QED
      BY <1>1, <3>1, <3>2
  <2>2. CASE Write(c)
    BY <2>2, WriteKnows DEF Write, Results
  <2>3. CASE Lost(c)
    <3>1. CASE Head(cmd[c].todo) = "write" /\ Executed(c)
      BY <2>3, <3>1, WriteKnows DEF Lost, Results
    <3>2. CASE UNCHANGED channel
      BY <1>1, <2>3, <3>2, EndKnows DEF Lost, Results, IInv
    <3>3. QED
      BY <2>3, <3>1, <3>2 DEF Lost
  <2>4. CASE \/ LockKick(c) \/ Read(c) \/ Lookup(c) \/ ReadSnippet(c)
             \/ Rejected(c) \/ Unauthorized(c) \/ Refresh(c)
    BY <1>1, <2>4, RequestKnows
  <2>5. QED
    BY <1>4, <2>1, <2>2, <2>3, <2>4 DEF Request
<1>5. QED
  BY <1>3, <1>4 DEF Next

\* runtime.go and updateSnippet of youtube.go, for any commands, answers and faults:
\* a change of the title leaves the category as it was, and conversely, although
\* YouTube is sent the whole snippet and a refresh may come between reading it and
\* writing it, as long as one caller at a time gives commands for YouTube.
THEOREM OtherFieldKept ==
    ASSUME ConstantsOK, OneEditor
    PROVE  Spec => OtherFieldIsKept
<1>1. Init => IInv /\ SnippetsKnown
  <2>1. ASSUME Init PROVE SnippetsKnown
    <3>1. \A c \in Callers : cmd[c] = NoCommand
      BY <2>1 DEF Init
    <3>2. NoCommand.pc = "idle"
      BY DEF NoCommand
    <3>3. QED
      BY <3>1, <3>2 DEF SnippetsKnown, Knows
  <2>2. QED
    BY <2>1, InvInit
<1>2. IInv /\ SnippetsKnown /\ [Next]_vars => (IInv /\ SnippetsKnown)'
  BY InvNext, KnowsNext
<1>3. IInv /\ SnippetsKnown /\ [Next]_vars
        => [\A p \in Platforms : \/ channel'[p].title = channel[p].title
                                 \/ channel'[p].category = channel[p].category]_vars
  BY KnowsNext DEF FieldKept
<1>4. QED
  BY <1>1, <1>2, <1>3, PTL DEF Spec, OtherFieldIsKept

-----------------------------------------------------------------------------
(* /clear: the inductive invariant of RemoteClear.                         *)

Pcs == {"none", "chat", "query", "delete", "done"}
ClearRecord ==
    [pc : Pcs, platform : ClearPlatforms \cup {Clear!NoPlatform}, days : Typed,
     since : Int, snapshot : SUBSET Nat, left : SUBSET Nat, deleted : Nat,
     failed : Nat, result : {"none", "ok", "refused", "unsupported"}]
HistRecord == [erased : SUBSET Nat, refused : Nat, lost : Nat, late : SUBSET Nat]

\* Identifiers are given in order.
Numbered ==
    \E n \in Nat : message \in [1 .. n -> [platform : ClearPlatforms, at : Nat]]

ClearShapes ==
    /\ now \in Nat /\ Numbered
    /\ clear \in ClearRecord /\ clearHist \in HistRecord
    /\ visible \cup archive \cup clearHist.erased \subseteq Clear!Sent

\* Before its snapshot the command has done nothing, and Twitch's own request
\* needs none.
NotBegun ==
    clear.pc \in {"none", "chat", "query"} =>
      /\ clear.snapshot = {} /\ clear.left = {}
      /\ clear.deleted = 0 /\ clear.failed = 0
      /\ clearHist.erased = {} /\ clearHist.late = {}
OnePath ==
    /\ clear.pc = "chat" => clear.platform = "twitch" /\ clear.days = Clear!None
    /\ clear.pc \in {"query", "delete"} => clear.platform # "twitch"

\* The snapshot stays what the archive held, and only what is no longer left
\* of it was erased.
OfTheSnapshot ==
    /\ clear.left \subseteq clear.snapshot
    /\ clear.snapshot \subseteq archive \ clearHist.late
    /\ \A m \in clear.snapshot : Clear!InWindow(m)
    /\ \/ clear.platform = "twitch" /\ clear.days = Clear!None
       \/ clearHist.erased \subseteq clear.snapshot \ clear.left

\* Every message that is no longer left was counted.
Accounted ==
    /\ clear.deleted + clear.failed + Cardinality(clear.left) = Cardinality(clear.snapshot)
    /\ clear.deleted <= Cardinality(clearHist.erased)
    /\ clear.failed = 0 => (clear.snapshot \ clear.left) \cap visible = {}

Ended == /\ clear.pc = "done" => clear.left = {}
         /\ (clear.result # "none") <=> (clear.pc = "done")

ClearInv ==
    /\ ClearShapes /\ NotBegun /\ OnePath /\ OfTheSnapshot /\ Accounted /\ Ended

-----------------------------------------------------------------------------
(* The identifiers.                                                        *)

\* Sizes in the module of /clear are sizes.
LEMMA SameSize == \A S : Clear!Cardinality(S) = Cardinality(S)
  BY Zenon DEF Clear!Cardinality, Cardinality

\* The message a run deletes next is one that is left.
LEMMA OldestIsLeft ==
    ASSUME clear.left \in SUBSET Nat, clear.left # {}
    PROVE  Clear!Oldest \in clear.left
<1> DEFINE S == clear.left
           R == OpToRel(<, Nat)
<1>1. PICK x \in S : \A y \in S : <<y, x>> \notin R
  BY NatLessThanWellFounded, WFMin
<1>2. ASSUME NEW a \in Nat, NEW b \in Nat, a < b
      PROVE  <<a, b>> \in R
  BY <1>2 DEF OpToRel
<1>3. ASSUME NEW y \in S
      PROVE  x <= y
  <2>1. x \in Nat /\ y \in Nat
    OBVIOUS
  <2>2. CASE y < x
    <3>1. <<y, x>> \in R
      BY <1>2, <2>1, <2>2
    <3>2. QED
      BY <1>1, <3>1
  <2>3. QED
    BY <2>1, <2>2
<1>4. QED
  BY <1>3 DEF Clear!Oldest, Clear!Min

\* What was sent, stored or shown is finite.
LEMMA SentFacts ==
    ASSUME ClearShapes
    PROVE  /\ IsFiniteSet(Clear!Sent) /\ Clear!Sent \subseteq Nat
           /\ Clear!Sent = 1 .. Cardinality(Clear!Sent)
           /\ Cardinality(Clear!Sent) \in Nat
           /\ message \in [Clear!Sent -> [platform : ClearPlatforms, at : Nat]]
<1>1. PICK n \in Nat : message \in [1 .. n -> [platform : ClearPlatforms, at : Nat]]
  BY DEF ClearShapes, Numbered
<1>2. Clear!Sent = 1 .. n
  BY <1>1 DEF Clear!Sent
<1>3. IsFiniteSet(1 .. n) /\ Cardinality(1 .. n) = n
  BY FS_Interval
<1>4. QED
  BY <1>1, <1>2, <1>3

LEMMA SnapshotFacts ==
    ASSUME ClearInv
    PROVE  /\ IsFiniteSet(clear.snapshot) /\ IsFiniteSet(clear.left)
           /\ IsFiniteSet(clearHist.erased) /\ IsFiniteSet(visible)
           /\ Cardinality(clear.left) \in Nat /\ Cardinality(clear.snapshot) \in Nat
           /\ Cardinality(clearHist.erased) \in Nat
           /\ clear.left = {} <=> Cardinality(clear.left) = 0
           /\ clear.left \subseteq clear.snapshot /\ clear.snapshot \subseteq Clear!Sent
<1>1. /\ clear.snapshot \subseteq Clear!Sent /\ clear.left \subseteq clear.snapshot
      /\ clear.left \subseteq Clear!Sent
      /\ clearHist.erased \subseteq Clear!Sent /\ visible \subseteq Clear!Sent
  BY DEF ClearInv, ClearShapes, OfTheSnapshot
<1>2. IsFiniteSet(Clear!Sent)
  BY SentFacts DEF ClearInv
<1>3. /\ IsFiniteSet(clear.snapshot) /\ IsFiniteSet(clear.left)
      /\ IsFiniteSet(clearHist.erased) /\ IsFiniteSet(visible)
  BY <1>1, <1>2, FS_Subset
<1>4. /\ Cardinality(clear.left) \in Nat /\ Cardinality(clear.snapshot) \in Nat
      /\ Cardinality(clearHist.erased) \in Nat
  BY <1>3, FS_CardinalityType
<1>5. clear.left = {} <=> Cardinality(clear.left) = 0
  BY <1>3, FS_EmptySet
<1>6. QED
  BY <1>1, <1>3, <1>4, <1>5

-----------------------------------------------------------------------------
(* The chat goes on.                                                       *)

\* A message of the snapshot keeps its platform and its time.
LEMMA WindowKept ==
    ASSUME clear' = clear, NEW m, message'[m] = message[m]
    PROVE  Clear!InWindow(m)' <=> Clear!InWindow(m)
  BY DEF Clear!InWindow, Clear!Platform

LEMMA ClearSend ==
    ASSUME ClearInv, NEW p \in ClearPlatforms, Clear!Send(p)
    PROVE  ClearInv'
<1> DEFINE n == Cardinality(Clear!Sent)
<1>1. /\ now' = now /\ archive' = archive /\ clear' = clear /\ clearHist' = clearHist
      /\ visible' = visible \cup {n + 1}
      /\ message' = [m \in 1 .. n + 1 |->
                       IF m \in Clear!Sent THEN message[m] ELSE [platform |-> p, at |-> now]]
  BY SameSize DEF Clear!Send
<1>2. /\ n \in Nat /\ Clear!Sent = 1 .. n
      /\ message \in [Clear!Sent -> [platform : ClearPlatforms, at : Nat]]
  BY SentFacts DEF ClearInv
<1> HIDE DEF n
<1>3. Clear!Sent' = 1 .. n + 1
  BY <1>1 DEF Clear!Sent
<1>4. \A m \in Clear!Sent : message'[m] = message[m]
  BY <1>1, <1>2
<1>5. message' \in [1 .. n + 1 -> [platform : ClearPlatforms, at : Nat]]
  <2>1. [platform |-> p, at |-> now] \in [platform : ClearPlatforms, at : Nat]
    BY DEF ClearInv, ClearShapes
  <2>2. QED
    BY <1>1, <1>2, <2>1
<1>6. Numbered'
  <2>1. n + 1 \in Nat
    BY <1>2
  <2>2. QED
    BY <1>5, <2>1 DEF Numbered
<1>7. Clear!Sent \subseteq Clear!Sent' /\ n + 1 \in Clear!Sent' /\ n + 1 \notin Clear!Sent
  BY <1>2, <1>3
<1>8. ClearShapes'
  BY <1>1, <1>6, <1>7 DEF ClearInv, ClearShapes
<1>9. NotBegun' /\ OnePath' /\ Ended'
  BY <1>1 DEF ClearInv, NotBegun, OnePath, Ended
<1>10. clear.snapshot \subseteq Clear!Sent
  BY SnapshotFacts
<1>11. OfTheSnapshot'
  <2>1. \A m \in clear.snapshot : Clear!InWindow(m)'
    BY <1>1, <1>4, <1>10, WindowKept DEF ClearInv, OfTheSnapshot
  <2>2. QED
    BY <1>1, <2>1 DEF ClearInv, OfTheSnapshot
<1>12. Accounted'
  <2>1. (clear.snapshot \ clear.left) \cap visible'
          = (clear.snapshot \ clear.left) \cap visible
    BY <1>1, <1>7, <1>10
  <2>2. QED
    BY <1>1, <2>1 DEF ClearInv, Accounted
<1>13. QED
  BY <1>8, <1>9, <1>11, <1>12 DEF ClearInv

LEMMA ClearStore ==
    ASSUME ClearInv, NEW m \in Clear!Sent, Clear!Store(m)
    PROVE  ClearInv'
<1>1. /\ m \notin archive /\ archive' = archive \cup {m}
      /\ now' = now /\ message' = message /\ visible' = visible /\ clear' = clear
      /\ clearHist' = IF clear.pc = "delete" THEN [clearHist EXCEPT !.late = @ \cup {m}]
                      ELSE clearHist
  BY DEF Clear!Store
<1>2. m \in Nat
  BY SentFacts DEF ClearInv
<1>3. /\ clearHist' \in HistRecord /\ clearHist'.erased = clearHist.erased
      /\ clearHist'.late \subseteq clearHist.late \cup {m}
      /\ clear.pc # "delete" => clearHist' = clearHist
  BY <1>1, <1>2 DEF ClearInv, ClearShapes, HistRecord
<1>4. Clear!Sent' = Clear!Sent
  BY <1>1 DEF Clear!Sent
<1>5. ClearShapes'
  BY <1>1, <1>3, <1>4 DEF ClearInv, ClearShapes, Numbered
<1>6. NotBegun' /\ OnePath' /\ Ended'
  BY <1>1, <1>3 DEF ClearInv, NotBegun, OnePath, Ended
<1>7. OfTheSnapshot'
  <2>1. \A k \in clear.snapshot : Clear!InWindow(k)'
    BY <1>1, WindowKept DEF ClearInv, OfTheSnapshot
  <2>2. clear.snapshot \subseteq archive' \ clearHist'.late
    BY <1>1, <1>3 DEF ClearInv, OfTheSnapshot
  <2>3. QED
    BY <1>1, <1>3, <2>1, <2>2 DEF ClearInv, OfTheSnapshot
<1>8. Accounted'
  BY <1>1, <1>3 DEF ClearInv, Accounted
<1>9. QED
  BY <1>5, <1>6, <1>7, <1>8 DEF ClearInv

LEMMA ClearVanish ==
    ASSUME ClearInv, NEW m \in Clear!Sent, Clear!Vanish(m)
    PROVE  ClearInv'
<1>1. /\ archive' = archive /\ message' = message /\ clear' = clear
      /\ clearHist' = clearHist /\ visible' \subseteq visible /\ now' \in Nat
  BY DEF Clear!Vanish, ClearInv, ClearShapes
<1>2. Clear!Sent' = Clear!Sent
  BY <1>1 DEF Clear!Sent
<1>3. ClearShapes'
  BY <1>1, <1>2 DEF ClearInv, ClearShapes, Numbered
<1>4. NotBegun' /\ OnePath' /\ Ended'
  BY <1>1 DEF ClearInv, NotBegun, OnePath, Ended
<1>5. OfTheSnapshot'
  <2>1. \A k \in clear.snapshot : Clear!InWindow(k)'
    BY <1>1, WindowKept DEF ClearInv, OfTheSnapshot
  <2>2. QED
    BY <1>1, <2>1 DEF ClearInv, OfTheSnapshot
<1>6. Accounted'
  BY <1>1 DEF ClearInv, Accounted
<1>7. QED
  BY <1>3, <1>4, <1>5, <1>6 DEF ClearInv

LEMMA ClearTick ==
    ASSUME ClearInv, Clear!Tick
    PROVE  ClearInv'
<1>1. /\ archive' = archive /\ message' = message /\ clear' = clear
      /\ clearHist' = clearHist /\ visible' \subseteq visible /\ now' \in Nat
  BY DEF Clear!Tick, ClearInv, ClearShapes
<1>2. Clear!Sent' = Clear!Sent
  BY <1>1 DEF Clear!Sent
<1>3. ClearShapes'
  BY <1>1, <1>2 DEF ClearInv, ClearShapes, Numbered
<1>4. NotBegun' /\ OnePath' /\ Ended'
  BY <1>1 DEF ClearInv, NotBegun, OnePath, Ended
<1>5. OfTheSnapshot'
  <2>1. \A k \in clear.snapshot : Clear!InWindow(k)'
    BY <1>1, WindowKept DEF ClearInv, OfTheSnapshot
  <2>2. QED
    BY <1>1, <2>1 DEF ClearInv, OfTheSnapshot
<1>6. Accounted'
  BY <1>1 DEF ClearInv, Accounted
<1>7. QED
  BY <1>3, <1>4, <1>5, <1>6 DEF ClearInv

-----------------------------------------------------------------------------
(* The command.                                                            *)

LEMMA ClearIssue ==
    ASSUME Clear!ConstantsOK, ClearInv, NEW p \in ClearPlatforms, NEW days \in Typed,
           Clear!Issue(p, days)
    PROVE  ClearInv'
<1> DEFINE window == IF days = Clear!None THEN 1 ELSE days
           since == now - window * Day
           new == [Clear!NoClear EXCEPT !.platform = p, !.days = days, !.since = since]
<1>1. /\ clear.pc = "none" /\ now' = now /\ message' = message /\ visible' = visible
      /\ archive' = archive /\ clearHist' = clearHist
  BY DEF Clear!Issue
<1>2. since \in Int
  BY DEF ClearInv, ClearShapes, Clear!ConstantsOK
<1>3. \/ clear' = [new EXCEPT !.pc = "chat"] /\ p = "twitch" /\ days = Clear!None
      \/ clear' = [new EXCEPT !.pc = "done", !.result = "unsupported"]
      \/ clear' = [new EXCEPT !.pc = "done", !.result = "refused"]
      \/ clear' = [new EXCEPT !.pc = "query"] /\ p # "twitch"
  <2>1. clear' = CASE p = "twitch" /\ days = Clear!None -> [new EXCEPT !.pc = "chat"]
                   [] p = "twitch" /\ days # Clear!None ->
                        [new EXCEPT !.pc = "done", !.result = "unsupported"]
                   [] window \notin 1 .. MaxDays ->
                        [new EXCEPT !.pc = "done", !.result = "refused"]
                   [] OTHER -> [new EXCEPT !.pc = "query"]
    BY Zenon DEF Clear!Issue
  <2> HIDE DEF new, window
  <2>2. QED
    BY <2>1
<1> HIDE DEF since
<1>4. /\ new \in ClearRecord /\ new.snapshot = {} /\ new.left = {} /\ new.deleted = 0
      /\ new.failed = 0 /\ new.result = "none" /\ new.platform = p /\ new.days = days
  BY <1>2 DEF Clear!NoClear, ClearRecord, Pcs, Clear!ConstantsOK
<1> HIDE DEF new
<1>5. /\ clear' \in ClearRecord /\ clear'.snapshot = {} /\ clear'.left = {}
      /\ clear'.deleted = 0 /\ clear'.failed = 0
      /\ clear'.platform = p /\ clear'.days = days
      /\ \/ clear'.pc = "chat" /\ clear'.result = "none"
            /\ p = "twitch" /\ days = Clear!None
         \/ clear'.pc = "done" /\ clear'.result # "none"
         \/ clear'.pc = "query" /\ clear'.result = "none" /\ p # "twitch"
  BY <1>3, <1>4, ZenonT(30) DEF ClearRecord, Pcs
<1>6. clearHist.erased = {} /\ clearHist.late = {}
  BY <1>1 DEF ClearInv, NotBegun
<1>7. Clear!Sent' = Clear!Sent
  BY <1>1 DEF Clear!Sent
<1>8. ClearShapes'
  BY <1>1, <1>5, <1>7 DEF ClearInv, ClearShapes, Numbered
<1>9. NotBegun' /\ OnePath' /\ Ended'
  BY <1>1, <1>5, <1>6 DEF NotBegun, OnePath, Ended
<1>10. OfTheSnapshot'
  BY <1>1, <1>5, <1>6 DEF OfTheSnapshot
<1>11. Accounted'
  <2>1. Cardinality({}) = 0
    BY FS_EmptySet
  <2>2. QED
    BY <1>1, <1>5, <1>6, <2>1 DEF Accounted
<1>12. QED
  BY <1>8, <1>9, <1>10, <1>11 DEF ClearInv

\* The command's record in its steps.
LEMMA ClearAnswer ==
    ASSUME clear \in ClearRecord, NEW result \in {"ok", "refused"}
    PROVE  LET new == Clear!Answer(result)
           IN /\ new \in ClearRecord /\ new.pc = "done" /\ new.result = result
              /\ new.platform = clear.platform /\ new.days = clear.days
              /\ new.since = clear.since /\ new.snapshot = clear.snapshot
              /\ new.left = clear.left /\ new.deleted = clear.deleted
              /\ new.failed = clear.failed
  BY DEF Clear!Answer, ClearRecord, Pcs

LEMMA ClearChatStep ==
    ASSUME ClearInv, Clear!ClearChat
    PROVE  ClearInv'
<1>1. /\ clear.pc = "chat" /\ now' = now /\ message' = message /\ archive' = archive
      /\ visible' \subseteq visible /\ clear' \in {Clear!Answer("ok"), Clear!Answer("refused")}
      /\ \/ clearHist' = [clearHist EXCEPT
                            !.erased = {m \in visible : Clear!Platform(m) = "twitch"}]
         \/ clearHist' = clearHist
  BY DEF Clear!ClearChat
<1>2. /\ clear.snapshot = {} /\ clear.left = {} /\ clear.deleted = 0 /\ clear.failed = 0
      /\ clearHist.erased = {} /\ clear.platform = "twitch" /\ clear.days = Clear!None
  BY <1>1 DEF ClearInv, NotBegun, OnePath
<1>3. /\ clear' \in ClearRecord /\ clear'.pc = "done" /\ clear'.result # "none"
      /\ clear'.platform = "twitch" /\ clear'.days = Clear!None
      /\ clear'.snapshot = {} /\ clear'.left = {}
      /\ clear'.deleted = 0 /\ clear'.failed = 0
  BY <1>1, <1>2, ClearAnswer DEF ClearInv, ClearShapes
<1>4. Clear!Sent' = Clear!Sent /\ Clear!Sent \subseteq Nat /\ IsFiniteSet(Clear!Sent)
  BY <1>1, SentFacts DEF Clear!Sent, ClearInv
<1>5. clearHist' \in HistRecord /\ clearHist'.erased \subseteq visible
  BY <1>1, <1>2, <1>4 DEF ClearInv, ClearShapes, HistRecord
<1>6. ClearShapes'
  BY <1>1, <1>3, <1>4, <1>5 DEF ClearInv, ClearShapes, Numbered
<1>7. NotBegun' /\ OnePath' /\ Ended'
  BY <1>3 DEF NotBegun, OnePath, Ended
<1>8. OfTheSnapshot'
  BY <1>3 DEF OfTheSnapshot
<1>9. Accounted'
  <2>1. Cardinality({}) = 0
    BY FS_EmptySet
  <2>2. IsFiniteSet(clearHist'.erased)
    BY <1>4, <1>5, FS_Subset DEF ClearInv, ClearShapes
  <2>3. Cardinality(clearHist'.erased) \in Nat
    BY <2>2, FS_CardinalityType
  <2>4. QED
    BY <1>3, <2>1, <2>3 DEF Accounted
<1>10. QED
  BY <1>6, <1>7, <1>8, <1>9 DEF ClearInv

LEMMA ClearSnapshot ==
    ASSUME ClearInv, Clear!Snapshot
    PROVE  ClearInv'
<1> DEFINE ids == {m \in archive : Clear!InWindow(m)}
<1>1. /\ clear.pc = "query" /\ now' = now /\ message' = message /\ archive' = archive
      /\ visible' = visible /\ clearHist' = clearHist
      /\ clear' = [clear EXCEPT !.pc = "delete", !.snapshot = ids, !.left = ids]
  BY DEF Clear!Snapshot
<1>2. /\ clear.deleted = 0 /\ clear.failed = 0 /\ clearHist.erased = {}
      /\ clearHist.late = {} /\ clear.platform # "twitch" /\ clear.result = "none"
  BY <1>1 DEF ClearInv, NotBegun, OnePath, Ended
<1>3. Clear!Sent' = Clear!Sent /\ Clear!Sent \subseteq Nat /\ IsFiniteSet(Clear!Sent)
  BY <1>1, SentFacts DEF Clear!Sent, ClearInv
<1>4. ids \subseteq archive /\ ids \subseteq Clear!Sent /\ ids \in SUBSET Nat
  BY <1>3 DEF ClearInv, ClearShapes
<1>5. \A m \in ids : Clear!InWindow(m)
  OBVIOUS
<1> HIDE DEF ids
<1>6. /\ clear' \in ClearRecord /\ clear'.pc = "delete" /\ clear'.result = "none"
      /\ clear'.snapshot = ids /\ clear'.left = ids /\ clear'.deleted = 0
      /\ clear'.failed = 0 /\ clear'.platform = clear.platform
      /\ clear'.since = clear.since
  BY <1>1, <1>2, <1>4 DEF ClearInv, ClearShapes, ClearRecord, Pcs
<1>7. ClearShapes'
  BY <1>1, <1>3, <1>6 DEF ClearInv, ClearShapes, Numbered
<1>8. NotBegun' /\ OnePath' /\ Ended'
  BY <1>2, <1>6 DEF NotBegun, OnePath, Ended
<1>9. OfTheSnapshot'
  <2>1. \A m \in ids : Clear!InWindow(m)'
    BY <1>1, <1>5, <1>6 DEF Clear!InWindow, Clear!Platform
  <2>2. QED
    BY <1>1, <1>2, <1>4, <1>6, <2>1 DEF OfTheSnapshot
<1>10. Accounted'
  <2>1. IsFiniteSet(ids) /\ Cardinality({}) = 0
    BY <1>3, <1>4, FS_Subset, FS_EmptySet
  <2>2. Cardinality(ids) \in Nat
    BY <2>1, FS_CardinalityType
  <2>3. QED
    BY <1>1, <1>2, <1>6, <2>1, <2>2 DEF Accounted
<1>11. QED
  BY <1>7, <1>8, <1>9, <1>10 DEF ClearInv

\* One message less is left: it was deleted and shown, or it counts as failed,
\* whether the provider has erased it or not.
LEMMA ClearCounts ==
    ASSUME ClearInv, clear.pc = "delete", clear.left # {},
           NEW deleted \in BOOLEAN, clear' = Clear!Counted(deleted),
           clearHist' \in HistRecord, clearHist'.late = clearHist.late,
           \/ /\ Clear!Oldest \in visible /\ visible' = visible \ {Clear!Oldest}
              /\ clearHist'.erased = clearHist.erased \cup {Clear!Oldest}
           \/ /\ ~deleted /\ visible' \subseteq visible
              /\ clearHist'.erased \in {clearHist.erased,
                                         clearHist.erased \cup {Clear!Oldest}},
           now' = now, message' = message, archive' = archive
    PROVE  ClearInv'
<1> DEFINE x == Clear!Oldest
           dels == IF deleted THEN clear.deleted + 1 ELSE clear.deleted
           fails == IF deleted THEN clear.failed ELSE clear.failed + 1
<1>1. x \in clear.left
  BY OldestIsLeft DEF ClearInv, ClearShapes, ClearRecord
<1>2. clear' = [clear EXCEPT !.left = clear.left \ {x}, !.deleted = dels, !.failed = fails]
  BY DEF Clear!Counted, ClearInv, ClearShapes, ClearRecord
<1> HIDE DEF x
<1>3. /\ clear' \in ClearRecord /\ clear'.pc = "delete" /\ clear'.result = clear.result
      /\ clear'.snapshot = clear.snapshot /\ clear'.left = clear.left \ {x}
      /\ clear'.deleted = dels /\ clear'.failed = fails
      /\ clear'.platform = clear.platform /\ clear'.days = clear.days
      /\ clear'.since = clear.since
  <2>1. dels \in Nat /\ fails \in Nat /\ clear \in ClearRecord
    BY DEF ClearInv, ClearShapes, ClearRecord
  <2> HIDE DEF dels, fails
  <2>2. QED
    BY <1>2, <2>1 DEF ClearRecord, Pcs
<1>4. /\ clear.deleted \in Nat /\ clear.failed \in Nat
      /\ clear.deleted + clear.failed + Cardinality(clear.left) = Cardinality(clear.snapshot)
      /\ clear.deleted <= Cardinality(clearHist.erased)
      /\ clear.failed = 0 => (clear.snapshot \ clear.left) \cap visible = {}
  BY DEF ClearInv, ClearShapes, ClearRecord, Accounted
<1>5. /\ clear.platform # "twitch" /\ clearHist.erased \subseteq clear.snapshot \ clear.left
      /\ clear.left \subseteq clear.snapshot /\ clear.result = "none"
  BY DEF ClearInv, OnePath, OfTheSnapshot, Ended
<1>6. /\ clearHist'.erased \subseteq clearHist.erased \cup {x}
      /\ deleted => clearHist'.erased = clearHist.erased \cup {x}
                    /\ visible' = visible \ {x}
      /\ clearHist'.erased \in {clearHist.erased, clearHist.erased \cup {x}}
      /\ visible' \subseteq visible
  BY DEF x
<1>7. Clear!Sent' = Clear!Sent /\ x \in Clear!Sent
  BY <1>1, SnapshotFacts DEF Clear!Sent
<1>8. ClearShapes'
  BY <1>3, <1>6, <1>7 DEF ClearInv, ClearShapes, Numbered
<1>9. NotBegun' /\ OnePath' /\ Ended'
  BY <1>3, <1>5 DEF NotBegun, OnePath, Ended
<1>10. OfTheSnapshot'
  <2>1. \A m \in clear.snapshot : Clear!InWindow(m)'
    BY <1>3 DEF ClearInv, OfTheSnapshot, Clear!InWindow, Clear!Platform
  <2>2. clearHist'.erased \subseteq clear.snapshot \ (clear.left \ {x})
    BY <1>1, <1>5, <1>6
  <2>3. QED
    BY <1>3, <1>5, <2>1, <2>2 DEF ClearInv, OfTheSnapshot
<1>11. Accounted'
  <2>1. /\ IsFiniteSet(clear.left) /\ IsFiniteSet(clearHist.erased)
        /\ Cardinality(clear.left) \in Nat /\ Cardinality(clearHist.erased) \in Nat
        /\ Cardinality(clear.snapshot) \in Nat
    BY SnapshotFacts
  <2>2. Cardinality(clear.left \ {x}) = Cardinality(clear.left) - 1
    BY <1>1, <2>1, FS_RemoveElement
  <2>3. Cardinality(clearHist.erased \cup {x}) = Cardinality(clearHist.erased) + 1
    BY <1>1, <1>5, <2>1, FS_AddElement
  <2>4. Cardinality(clearHist'.erased) >= Cardinality(clearHist.erased)
    BY <1>6, <2>1, <2>3
  <2>5. CASE deleted
    <3>1. (clear.snapshot \ (clear.left \ {x})) \cap visible' \subseteq
            (clear.snapshot \ clear.left) \cap visible
      BY <1>6, <2>5
    <3>2. /\ clear'.deleted = clear.deleted + 1 /\ clear'.failed = clear.failed
          /\ clearHist'.erased = clearHist.erased \cup {x}
      BY <1>3, <1>6, <2>5
    <3>3. clear'.failed = 0 => (clear'.snapshot \ clear'.left) \cap visible' = {}
      BY <1>3, <1>4, <3>1, <3>2
    <3>4. clear'.deleted + clear'.failed + Cardinality(clear'.left)
            = Cardinality(clear'.snapshot)
      BY <1>3, <1>4, <2>1, <2>2, <3>2
    <3>5. clear'.deleted <= Cardinality(clearHist'.erased)
      BY <1>4, <2>1, <2>3, <3>2
    <3>6. QED
      BY <3>3, <3>4, <3>5 DEF Accounted
  <2>6. CASE ~deleted
    <3>1. clear'.deleted = clear.deleted /\ clear'.failed = clear.failed + 1
      BY <1>3, <2>6
    <3>2. clear'.failed # 0
      BY <1>4, <3>1
    <3>3. clear'.deleted + clear'.failed + Cardinality(clear'.left)
            = Cardinality(clear'.snapshot)
      BY <1>3, <1>4, <2>1, <2>2, <3>1
    <3>4. Cardinality(clearHist'.erased) \in Nat
      <4>1. Cardinality(clearHist.erased) + 1 \in Nat
        BY <2>1
      <4>2. QED
        BY <1>6, <2>1, <2>3, <4>1
    <3>5. clear'.deleted <= Cardinality(clearHist'.erased)
      BY <1>4, <2>1, <2>4, <3>1, <3>4
    <3>6. QED
      BY <3>2, <3>3, <3>5 DEF Accounted
  <2>7. QED
    BY <2>5, <2>6
<1>12. QED
  BY <1>8, <1>9, <1>10, <1>11 DEF ClearInv

LEMMA ClearDelete ==
    ASSUME ClearInv, Clear!Delete \/ Clear!DeleteLost
    PROVE  ClearInv'
<1> DEFINE x == Clear!Oldest
<1>1. /\ clear.pc = "delete" /\ clear.left # {}
      /\ now' = now /\ message' = message /\ archive' = archive
  BY DEF Clear!Delete, Clear!DeleteLost
<1>2. x \in clear.left /\ x \in Nat /\ clearHist \in HistRecord
  BY <1>1, OldestIsLeft DEF ClearInv, ClearShapes, ClearRecord
<1>3. \/ /\ x \in visible /\ visible' = visible \ {x} /\ clear' = Clear!Counted(TRUE)
         /\ clearHist' = [clearHist EXCEPT !.erased = @ \cup {x}]
      \/ /\ clear' = Clear!Counted(FALSE) /\ visible' \subseteq visible
         /\ \/ clearHist' = clearHist
            \/ clearHist' = [clearHist EXCEPT !.refused = @ + 1]
            \/ clearHist' = [clearHist EXCEPT !.erased = @ \cup {x}, !.refused = @ + 1,
                                              !.lost = @ + 1]
  BY DEF Clear!Delete, Clear!DeleteLost
<1> HIDE DEF x
<1>4. /\ clearHist' \in HistRecord /\ clearHist'.late = clearHist.late
      /\ clearHist'.erased \in {clearHist.erased, clearHist.erased \cup {x}}
  <2> DEFINE more == clearHist.erased \cup {x}
  <2>1. /\ more \in SUBSET Nat /\ clearHist.refused + 1 \in Nat /\ clearHist.lost + 1 \in Nat
    BY <1>2 DEF HistRecord
  <2>2. \/ clearHist' = clearHist
        \/ clearHist' = [clearHist EXCEPT !.erased = more]
        \/ clearHist' = [clearHist EXCEPT !.refused = clearHist.refused + 1]
        \/ clearHist' = [clearHist EXCEPT !.erased = more,
                                          !.refused = clearHist.refused + 1,
                                          !.lost = clearHist.lost + 1]
    BY <1>2, <1>3 DEF HistRecord
  <2> HIDE DEF more
  <2>3. clearHist' \in HistRecord /\ clearHist'.late = clearHist.late
    BY <1>2, <2>1, <2>2 DEF HistRecord
  <2>4. clearHist'.erased \in {clearHist.erased, more}
    BY <1>2, <2>1, <2>2 DEF HistRecord
  <2>5. QED
    BY <2>3, <2>4 DEF more
<1>5. CASE /\ x \in visible /\ visible' = visible \ {x} /\ clear' = Clear!Counted(TRUE)
           /\ clearHist' = [clearHist EXCEPT !.erased = @ \cup {x}]
  <2>1. clearHist'.erased = clearHist.erased \cup {x}
    BY <1>2, <1>5 DEF HistRecord
  <2>2. QED
    BY <1>1, <1>4, <1>5, <2>1, ClearCounts DEF x
<1>6. CASE clear' = Clear!Counted(FALSE) /\ visible' \subseteq visible
  BY <1>1, <1>4, <1>6, ClearCounts DEF x
<1>7. QED
  BY <1>3, <1>5, <1>6

LEMMA ClearGiveUp ==
    ASSUME ClearInv, Clear!GiveUp
    PROVE  ClearInv'
<1> DEFINE n == Cardinality(clear.left)
<1>1. /\ clear.pc = "delete" /\ clear.left # {}
      /\ now' = now /\ message' = message /\ archive' = archive /\ visible' = visible
      /\ clear' = [clear EXCEPT !.left = {}, !.failed = @ + n]
      /\ clearHist' = [clearHist EXCEPT !.refused = @ + n, !.lost = @ + 1]
  BY SameSize DEF Clear!GiveUp
<1>2. /\ n \in Nat /\ n # 0 /\ Cardinality(clearHist.erased) \in Nat
      /\ Cardinality(clear.snapshot) \in Nat
  BY <1>1, SnapshotFacts
<1> HIDE DEF n
<1>3. /\ clear' \in ClearRecord /\ clear'.pc = "delete" /\ clear'.result = clear.result
      /\ clear'.snapshot = clear.snapshot /\ clear'.left = {}
      /\ clear'.deleted = clear.deleted /\ clear'.failed = clear.failed + n
      /\ clear'.platform = clear.platform /\ clear'.days = clear.days
      /\ clear'.since = clear.since
  <2> DEFINE fails == clear.failed + n
  <2>1. clear \in ClearRecord
    BY DEF ClearInv, ClearShapes
  <2>2. fails \in Nat /\ clear' = [clear EXCEPT !.left = {}, !.failed = fails]
    BY <1>1, <1>2, <2>1 DEF ClearRecord
  <2> HIDE DEF fails
  <2>3. /\ clear' \in ClearRecord /\ clear'.pc = clear.pc /\ clear'.result = clear.result
        /\ clear'.snapshot = clear.snapshot /\ clear'.left = {}
        /\ clear'.deleted = clear.deleted /\ clear'.failed = fails
        /\ clear'.platform = clear.platform /\ clear'.days = clear.days
        /\ clear'.since = clear.since
    BY <2>1, <2>2 DEF ClearRecord
  <2>4. QED
    BY <1>1, <2>3 DEF fails
<1>4. /\ clearHist' \in HistRecord /\ clearHist'.late = clearHist.late
      /\ clearHist'.erased = clearHist.erased
  <2> DEFINE refused == clearHist.refused + n
  <2> DEFINE lost == clearHist.lost + 1
  <2>1. clearHist \in HistRecord
    BY DEF ClearInv, ClearShapes
  <2>2. /\ refused \in Nat /\ lost \in Nat
        /\ clearHist' = [clearHist EXCEPT !.refused = refused, !.lost = lost]
    BY <1>1, <1>2, <2>1 DEF HistRecord
  <2> HIDE DEF refused, lost
  <2>3. QED
    BY <2>1, <2>2 DEF HistRecord
<1>5. clear.platform # "twitch" /\ clear.result = "none"
  BY <1>1 DEF ClearInv, OnePath, Ended
<1>6. Clear!Sent' = Clear!Sent
  BY <1>1 DEF Clear!Sent
<1>7. ClearShapes'
  BY <1>1, <1>3, <1>4, <1>6 DEF ClearInv, ClearShapes, Numbered
<1>8. NotBegun' /\ OnePath' /\ Ended'
  BY <1>3, <1>5 DEF NotBegun, OnePath, Ended
<1>9. OfTheSnapshot'
  <2>1. \A m \in clear.snapshot : Clear!InWindow(m)'
    BY <1>1, <1>3 DEF ClearInv, OfTheSnapshot, Clear!InWindow, Clear!Platform
  <2>2. QED
    BY <1>1, <1>3, <1>4, <1>5, <2>1 DEF ClearInv, OfTheSnapshot
<1>10. Accounted'
  <2>1. Cardinality({}) = 0
    BY FS_EmptySet
  <2>2. /\ clear.deleted \in Nat /\ clear.failed \in Nat
        /\ clear.deleted + clear.failed + n = Cardinality(clear.snapshot)
        /\ clear.deleted <= Cardinality(clearHist.erased)
    BY DEF n, ClearInv, ClearShapes, ClearRecord, Accounted
  <2>3. clear'.failed # 0
    BY <1>2, <1>3, <2>2
  <2>4. clear'.deleted + clear'.failed + Cardinality(clear'.left)
          = Cardinality(clear'.snapshot)
    BY <1>2, <1>3, <2>1, <2>2
  <2>5. QED
    BY <1>3, <1>4, <2>2, <2>3, <2>4 DEF Accounted
<1>11. QED
  BY <1>7, <1>8, <1>9, <1>10 DEF ClearInv

LEMMA ClearReport ==
    ASSUME ClearInv, Clear!Report
    PROVE  ClearInv'
<1>1. /\ clear.pc = "delete" /\ clear.left = {}
      /\ now' = now /\ message' = message /\ archive' = archive /\ visible' = visible
      /\ clearHist' = clearHist /\ clear' = Clear!Answer("ok")
  BY DEF Clear!Report
<1>2. /\ clear' \in ClearRecord /\ clear'.pc = "done" /\ clear'.result = "ok"
      /\ clear'.platform = clear.platform /\ clear'.days = clear.days
      /\ clear'.since = clear.since /\ clear'.snapshot = clear.snapshot
      /\ clear'.left = {} /\ clear'.deleted = clear.deleted
      /\ clear'.failed = clear.failed
  BY <1>1, ClearAnswer DEF ClearInv, ClearShapes
<1>3. Clear!Sent' = Clear!Sent
  BY <1>1 DEF Clear!Sent
<1>4. ClearShapes'
  BY <1>1, <1>2, <1>3 DEF ClearInv, ClearShapes, Numbered
<1>5. NotBegun' /\ OnePath' /\ Ended'
  BY <1>2 DEF NotBegun, OnePath, Ended
<1>6. OfTheSnapshot'
  <2>1. \A m \in clear.snapshot : Clear!InWindow(m)'
    BY <1>1, <1>2 DEF ClearInv, OfTheSnapshot, Clear!InWindow, Clear!Platform
  <2>2. QED
    BY <1>1, <1>2, <2>1 DEF ClearInv, OfTheSnapshot
<1>7. Accounted'
  BY <1>1, <1>2 DEF ClearInv, Accounted
<1>8. QED
  BY <1>4, <1>5, <1>6, <1>7 DEF ClearInv

LEMMA ClearInit ==
    ASSUME Clear!ConstantsOK, Clear!Init
    PROVE  ClearInv
<1>1. /\ visible = {} /\ archive = {} /\ message = <<>> /\ clear = Clear!NoClear
      /\ clearHist.erased = {} /\ clearHist.late = {} /\ clearHist \in HistRecord
  BY DEF Clear!Init, HistRecord
<1>2. now \in Nat
  BY DEF Clear!Init, Clear!ConstantsOK
<1>3. /\ clear \in ClearRecord /\ clear.pc = "none" /\ clear.snapshot = {}
      /\ clear.left = {} /\ clear.deleted = 0 /\ clear.failed = 0 /\ clear.result = "none"
  BY <1>1 DEF Clear!NoClear, ClearRecord, Pcs, Clear!ConstantsOK
<1>4. Numbered
  <2>1. 1 .. 0 = {}
    OBVIOUS
  <2>2. <<>> \in [1 .. 0 -> [platform : ClearPlatforms, at : Nat]]
    BY <2>1
  <2>3. QED
    BY <1>1, <2>2 DEF Numbered
<1>5. Cardinality({}) = 0
  BY FS_EmptySet
<1>6. QED
  BY <1>1, <1>2, <1>3, <1>4, <1>5 DEF ClearInv, ClearShapes, NotBegun, OnePath,
     OfTheSnapshot, Accounted, Ended

LEMMA ClearNext ==
    ASSUME Clear!ConstantsOK, ClearInv, [Clear!Next]_(Clear!vars)
    PROVE  ClearInv'
<1>1. CASE UNCHANGED Clear!vars
  <2>1. /\ now' = now /\ message' = message /\ visible' = visible /\ archive' = archive
        /\ clear' = clear /\ clearHist' = clearHist
    BY <1>1 DEF Clear!vars
  <2>2. Clear!Sent' = Clear!Sent
    BY <2>1 DEF Clear!Sent
  <2>3. \A m \in clear.snapshot : Clear!InWindow(m)'
    BY <2>1 DEF ClearInv, OfTheSnapshot, Clear!InWindow, Clear!Platform
  <2>4. OfTheSnapshot'
    BY <2>1, <2>3 DEF ClearInv, OfTheSnapshot
  <2>5. QED
    BY <2>1, <2>2, <2>4 DEF ClearInv, ClearShapes, Numbered, NotBegun, OnePath,
       Accounted, Ended
<1>2. CASE \E p \in ClearPlatforms : Clear!Send(p) \/ \E days \in Typed : Clear!Issue(p, days)
  BY <1>2, ClearSend, ClearIssue
<1>3. CASE \E m \in Clear!Sent : Clear!Store(m) \/ Clear!Vanish(m)
  BY <1>3, ClearStore, ClearVanish
<1>4. CASE Clear!Tick
  BY <1>4, ClearTick
<1>5. CASE Clear!Command
  BY <1>5, ClearChatStep, ClearSnapshot, ClearDelete, ClearGiveUp, ClearReport
     DEF Clear!Command
<1>6. QED
  BY <1>1, <1>2, <1>3, <1>4, <1>5 DEF Clear!Next

LEMMA ClearImplies ==
    ASSUME ClearInv
    PROVE  Clear!ClearSafety
<1>1. Clear!TypeOK
  BY DEF ClearInv, ClearShapes, ClearRecord, Pcs, OfTheSnapshot, Ended, Clear!TypeOK
<1>2. Clear!OnlyTheSnapshotIsDeleted
  <2>1. ASSUME clear.days # Clear!None, NEW m \in clearHist.erased
        PROVE  /\ m \in archive \ clearHist.late
               /\ Clear!Platform(m) = clear.platform
               /\ message[m].at \div 2 >= clear.since \div 2
    <3>1. m \in clear.snapshot
      BY <2>1 DEF ClearInv, OfTheSnapshot
    <3>2. m \in archive \ clearHist.late /\ Clear!InWindow(m)
      BY <3>1 DEF ClearInv, OfTheSnapshot
    <3>3. message[m].at \in Nat /\ clear.since \in Int
      BY <3>1, SentFacts, SnapshotFacts DEF ClearInv, ClearShapes, ClearRecord
    <3>4. Clear!TextNotBefore(message[m].at, clear.since)
      BY <3>2 DEF Clear!InWindow
    <3>5. message[m].at \div 2 >= clear.since \div 2
      BY <3>3, <3>4 DEF Clear!TextNotBefore
    <3>6. QED
      BY <3>2, <3>5 DEF Clear!InWindow
  <2>2. QED
    BY <2>1 DEF Clear!OnlyTheSnapshotIsDeleted
<1>3. Clear!CountsAreTruthful
  <2>1. Cardinality({}) = 0
    BY FS_EmptySet
  <2>2. /\ clear.deleted + clear.failed + Cardinality(clear.left) = Cardinality(clear.snapshot)
        /\ clear.deleted <= Cardinality(clearHist.erased)
        /\ clear.deleted \in Nat /\ clear.failed \in Nat
    BY DEF ClearInv, ClearShapes, ClearRecord, Accounted
  <2>3. clear.pc = "done" => clear.deleted + clear.failed = Cardinality(clear.snapshot)
    <3>1. SUFFICES ASSUME clear.pc = "done"
                   PROVE  clear.deleted + clear.failed = Cardinality(clear.snapshot)
      OBVIOUS
    <3>2. Cardinality(clear.left) = 0
      BY <2>1, <3>1 DEF ClearInv, Ended
    <3>3. QED
      BY <2>2, <3>2
  <2>4. QED
    BY <2>2, <2>3, SameSize DEF Clear!CountsAreTruthful
<1>4. Clear!NoFailureMeansGone
  BY DEF ClearInv, Accounted, Ended, Clear!NoFailureMeansGone
<1>5. QED
  BY <1>1, <1>2, <1>3, <1>4 DEF Clear!ClearSafety

\* However many messages are sent, stored late and deleted by others, whatever
\* requests fail or lose their answers and whenever the caller gives up, /clear
\* deletes only what the archive held when it began, of its platform and within
\* the window, its two numbers account for all of it, and when it reports no
\* failure none of it is shown any more.
THEOREM ClearIsSafe == ASSUME Clear!ConstantsOK PROVE Clear!Spec => []ClearSafety
<1>1. Clear!Init => ClearInv
  BY ClearInit
<1>2. ClearInv /\ [Clear!Next]_(Clear!vars) => ClearInv'
  BY ClearNext
<1>3. ClearInv => ClearSafety
  BY ClearImplies DEF ClearSafety
<1>4. QED
  BY <1>1, <1>2, <1>3, PTL DEF Clear!Spec

================================================================================
