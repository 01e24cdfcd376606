# A formal model of Streamchat

Streamchat is a Go program that collects the chat of one streamer's Kick,
Twitch and YouTube channels, archives it in SQLite and relays it to clients;
around that it runs a chat bot, automatic broadcasts, announcements, channel
commands, a setup wizard, a desktop application and a controller of rented GPU
workers for subtitles.  This directory models the parts of it whose correctness
depends on interleaving, failure and restart, checks them with TLC and proves
their safety properties with TLAPS.  References such as `relay.go:51` are to the
source; `PROJECT.json` maps every definition to its lines.

## Contents

| Module | What it is |
|---|---|
| `RelayHub` | the hub of `internal/relay/relay.go`: peers, send channels, mutex, forwarder, handlers, writers, `Server.Run` |
| `OrderedFanout` | what the hub promises its clients; `RelayHub` implements it |
| `KickWebhook` | the webhook receiver of `internal/platform/kick/kick.go`: age check, duplicate map, bounded queue |
| `ServerPipeline` | `serve()` of `cmd/streamchat/main.go`: producers, channel, archive, observers, broadcast, failures, restarts |
| `ArchivedRelay` | what the server promises about messages; `ServerPipeline` implements it |
| `SubtitleManager` | the controller of paid workers, `internal/subtitles/manager.go` |
| `TwitchSession` | the EventSub client of `internal/platform/twitch/twitch.go`: sockets, handover, duplicate window |
| `YouTubeIngest` | the live chat adapter of `internal/platform/youtube/youtube.go` and `waitForServer` |
| `InputLifecycle` | the input signal and the watchers that start broadcasts and announce them |
| `ClientPipeline` | the terminal client's reading side: adapters, aggregator, main loop, log |
| `TerminalClient` | its writing side: target, sends, screen, status, the way out |
| `EmoteDisplay` | emotes in a Kitty terminal: the cache that downloads their images, the redraws, the placements |
| `ChannelControl` | bans, timeouts, titles, categories, sends and status requests with their tokens |
| `RemoteClear` | `/clear`: a snapshot of the archive deleted at the provider |
| `SetupWizard` | `internal/setup/wizard.go` with the browser authorization |
| `TokenStore` | OAuth tokens in memory and in the configuration file, and who writes it |
| `BotEngine` | `internal/bot/bot.go`: queue, cooldowns, spacing, journal, settings |
| `DesktopProcesses` | the Qt application, the frontend runtime and the local server as processes |
| `DesktopFeed` | how messages and state reach the pages of the desktop application |
| `HistoryFanout` | what the desktop application promises its pages; `DesktopFeed` implements it |
| `OrderedMerge` | what the terminal client makes of its adapters' messages; `ClientPipeline` implements it |
| `MCRelayHub`, `MCKickWebhook`, `MCServerPipeline`, `MCSubtitleManager` | one specification each on a small instance |
| `Ingestion`, `Client`, `ChatCommands`, `Accounts`, `Desktop` | the specifications that serve one purpose, side by side, and their safety as one property for each subject (below) |
| `MCIngestion`, `MCClient`, `MCCommands`, `MCAccounts`, `MCDesktop` | each of these on a small instance, one *part* at a time (below) |
| `RelayHubProofs`, `ServerPipelineProofs`, `SubtitleManagerProofs` | the theorems of one module, checked by TLAPS |
| `IngestionProofs`, `ClientProofs`, `CommandsProofs`, `AccountsProofs`, `DesktopProofs` | the theorems of a group of modules; `IngestionProofs` also has those of `KickWebhook` |

Operators marked "Deviation" in a comment are what a plausible mistake would
make of a definition.  No specification uses them; substituting one for the
definition it varies must make a property fail, and that is how each property
is known to say something about the code (`PROJECT.json`, `mutants`).

## The system

### Components and how they interact

- **Provider adapters.** Kick calls a webhook (`kick.Server.webhook`), one
  goroutine per request; Twitch is a WebSocket (`twitch.Client.Run`), YouTube a
  streamed HTTP response (`youtube.Client.RunServer`), one goroutine each.  All
  send normalised messages into one buffered channel (`main.go:478`).  Kick's
  handler never blocks (503 when full); the other two block until there is room
  or their context ends.
- **Server pipeline.** `relay.Server.forward` is the only reader of that
  channel: `Accept` (SQLite `Store`), `Observe` (status service and bot),
  `Broadcast` (hub), in this order.  An archive error ends `forward`, then
  `Server.Run`, then the process; systemd restarts it.
- **Hub.** A map of peers under one mutex, one buffered channel and one writer
  goroutine per peer.  `broadcast` holds the mutex over all peers and never
  blocks: a peer whose channel is full is dropped.
- **Archive.** One SQLite table with a unique key `(platform, message_id)`; with
  the configuration file and the subtitle state file it is what survives a restart.
- **Subtitle controller.** `Manager` with two mutexes (`mu` for the session,
  `stopMu` for one `Stop` at a time), a monitor goroutine per worker, a state
  file, and slow, failing provider calls made without `mu`.
- **Bot engine.** Takes events from `Observe` through a queue that drops when
  full, and answers commands and alerts under a cooldown.
- **Input watcher, Discord watcher, automatic broadcast.** Poll the signal the
  media server's hook sets, debounce it, and act once per session; a failed action
  is retried.
- **Client runtime.** Provider operations for the terminal and desktop clients
  and for the server's control endpoint: tokens and their refresh, sending,
  moderation, clearing, stream status.  It tells its listener about state changes.
- **Configuration file.** Loaded whole, changed and saved whole by rename, by the
  server's token holders, the settings page and the setup wizard, without a lock.
- **Terminal client.** Adapters or the relay, an aggregator with a heap and a flush
  timer, one main loop that renders and logs; beside it the input goroutine, a
  status refresher and the screen they share.
- **Emotes.** In a Kitty terminal the screen asks a cache for images while it renders;
  downloads that end, and images that are accepted, call its redraw from their own
  goroutines.
- **Desktop application.** A Qt process launches the frontend runtime, which in
  local mode launches a private server; pages read an event stream from the runtime.

### State, operations and what makes each correct

| Component | State | Operations | Correct if |
|---|---|---|---|
| Hub | `clients`, `send` per peer, connections | add, remove, broadcast, closeAll, write, read | no panic, gapless streams, no stall, no leaked goroutine |
| Kick webhook | `seen`, queue | webhook | one delivery per event and process, honest answers |
| Pipeline | channel, message in hand, archive | produce, take, store, observe, broadcast, stop, crash, restart | archived before shown, shown once, silent after failure, failures end the process |
| Subtitle controller | session, file, flags, monitors | Start, Stop, Heartbeat, monitor | workers accounted for, at most one, limits enforced |
| Twitch adapter | sockets, duplicate window, who reads which | dial, welcome, reconnect, read, revoke, fail, stop | nothing taken twice in the window, subscribed once per loss, no socket leaked, always back |
| YouTube adapter | chat, continuation token, wait, page | discover, stream, publish, wait | gapless sessions, right waits, survives ends of chat |
| Input and Discord watchers | baseline, candidate, armed, broadcast | tick, prepare, bind, start, announce, retry | no action without a confirmed edge, one unfinished broadcast, live in the end |
| Aggregator and log | heap, duplicate list, timer, log | receive, emit, flush, render, log, end | ordered while waiting, nothing stuck, rendered is logged, all of it at the end |
| Terminal | target, screen, status, saved selection | type, send, select, deliver, refresh, close | one line per message, truthful prompt, restored terminal |
| Emotes | cache directory, pending and failed downloads, placements, confirmations | resolve, download, redraw, update, reset | one download at a time, names until there are images, redraws that end, rows that settle |
| Channel commands | tokens, mutexes, plan of requests | ban, timeout, title, category, send, status | done once and as reported, never a guess, exact durations |
| Clear | snapshot, counts | query, delete, give up | only the snapshot, truthful counts, ends |
| Setup wizard | configuration in memory and on disk | select, authorize, complete, cancel | only complete sections saved, others untouched but for a renewed token |
| Token holders | tokens in memory, file | refresh, rotate, save, crash, restart | no rotated token lost in silence, sections not mixed up |
| Bot engine | queue, cooldowns, spacing, journal | enqueue, handle, send, record, update, test | cooldown respected, YouTube spaced, executions recorded |
| Desktop processes | processes, timers, temporary files | launch, probe, stop, kill, exit | one runtime at a time, everything ends in time |
| Desktop feed | relay state, target, statuses, history, pages | report, select, refresh, notify, publish, register, drop | each page each message once, the state of the last notifications |

The hard behaviours are listed with their lines under `hazards` in
`PROJECT.json`, each with the properties that would catch it going wrong.

## The modules

### RelayHub

State follows the code: `clients` is the map, `send[p]`/`closed[p]` the channel,
`conn[p]` the server's end of the connection, `handler[p]` and `writer[p]` the
program counters of the two goroutines of a connection, `run` and `forwarder`
those of `Server.Run` and `forward`.  `mu` is only held visibly across the two
range loops (`broadcast`, `closeAll`), because these are interleaved with the
lock-free steps of writers and handlers; `add` and the locked part of `remove`
are single steps that need `mu = "free"`, and `remove`'s `conn.Close()` after the
unlock is a step of its own.  A payload is its number in the broadcast order.
`joined` and `received` record what a connection was promised and handed.
`panicked` becomes true when Go would panic.

A write may succeed, fail because the server closed the connection, fail
because of the network, or never return.  A client may leave at any time.
Connections may be upgraded and added until the listener is closed, so also
after `closeAll`.

### KickWebhook

Time is explicit because the defence against replays is the combination of an
age limit on the event's own timestamp (`kick.go:443`) and a map that forgets an
entry after twice that limit (`kick.go:473`).  The age is checked before the
mutex, the map afterwards, so a handler is between the two for at most
`MaxHandling`.  `MaxSkew` bounds how far Kick's clock is ahead.  The assumption
`MaxSkew + MaxHandling <= MaxAge` is what the argument needs; with the real
values (five minutes, and a read timeout of ten seconds) it allows almost five
minutes of skew.  Requests that are malformed, unsigned or too large are refused
before they touch the state and are not modelled; neither are the messages of
other adapters in the shared channel, which only make it full more often.

### ServerPipeline

The variables are the channel, the webhook's map (as `accepted`), what Kick
knows of its answers (`answered`), what each adapter has in hand, the program
counter and message of `forward`, the archive, and the history of what was
observed and relayed.  `Store` may insert, find a duplicate, or fail; a failure
may leave the row behind, as with a cancelled context.  The process can be asked
to stop, end after a failure, or crash at any step; everything except the
archive, the answers and the histories is lost, and adapters may read anything
again.  A stopping process does not drain the channel and does not wait for
`forward` (`relay.go:355-360`).

### SubtitleManager

`current` is `m.current` (worker and state), `file` the state file, `alive` the
workers the provider charges for.  `starter` is the one `Start` past the
`creating` flag; `stopper` has one program counter per kind of caller of `Stop`,
`target` the worker whose deletion the holder of `stopMu` waits for.  Provider
calls are two steps, the request and the answer, taken without `mu`.  A create
may succeed although its answer is lost; a delete may happen although it reports
failure; a save may fail.  Time is abstracted: `due` says which limit has
passed, and a limit may pass whenever there is a session; the ready timeout is
the freedom of `MonitorStops` while the session is starting.

The history variable `abandoned` collects the workers the code gives up in the
ways one can read off it: a create whose answer was lost, a delete whose error is
ignored, a process that ends before the first save.  `WorkersAccountedFor` says
that there is no other way.  Three simplifications: calls of one kind are one
caller (two simultaneous user requests are one queued `Stop`), the price guard
has at most one `Stop` waiting, and `Start`'s second look at the session
(`manager.go:309`) is folded into `WorkerRefused`; the theorem
`StartIsExclusive` shows that it never finds one.

### TwitchSession

`Run` (`state`, `url`, `inherited`, `conn`, `previous`) dials, reads and waits.
After a `session_reconnect` the next socket inherits the subscriptions, and a
goroutine (`oldReaders`) goes on reading the replaced one until the welcome of
the new one closes it.  Both readers share `recorded`, the list of message IDs
behind the duplicate window, and each puts what it takes (`hand`) into the same
channel.  Twitch may send a notification on every subscribed socket, send one
again, ask for a reconnect, let its URL expire and revoke a subscription; the
network may end any socket.

### YouTubeIngest

The provider numbers the messages of all chats; a continuation token is the
number of the last message of its page, an empty one is 0.  The adapter discovers
a chat, streams pages, publishes their messages one at a time into the channel,
keeps the token after the page, and waits as long as the kind of error says: after a
recoverable one for the backoff and at random up to half as long again, counted in
half seconds.  Any request may be answered that what it asks for is not found; that
ends the session of a chat that is followed, and the adapter if it was the search for
a broadcast.  A refresh of the token may fail, be refused, or end in a plain error
because its answer cannot be read or not be saved.
`waitForServer` (`main`) watches the server, this adapter and Twitch, and what the
select finds ready first is a choice.  A request may be answered with each of the
errors the code tells apart.  Messages that repeat across sessions are the
archive's business (`ServerPipeline`).

### InputLifecycle

The hook sets `signal`; each watcher has the local variables of its `Run` in
`w`.  The YouTube action is the sequence of calls of `PrepareBroadcast`,
`IngestStatus` and `StartBroadcast` (`step`, `mine`), each of which may fail before
or after it took effect; `status` is what YouTube holds.  A restart loses the
watchers and keeps YouTube.  `offline` and `confirmed` count what a watcher has
seen, independently of the code's counters.

### ClientPipeline

A message is a number, its place in the order the heap compares by and the key
duplicates are recognised by.  Adapter channels, the aggregator's channel and its
output are bounded queues; the timer is a flag that may fire at any time.  The end
comes from the adapters, a failed render or log, `/exit`, or a signal; `/exit` waits
for the adapters, a signal does not.

`OrderedMerge` is the same without channels, forwarders, timer and endings: messages
are published, a valid one is accepted unless it is among those accepted last, the
oldest that waits is passed on, and what was passed on is logged in this order.  The
heap is what waits; the log, the message the main loop has in hand and the output
channel, one after the other, are what was passed on.  Taking a message from the
output, showing it, failing and ending are no steps of it.

### TerminalClient

The input goroutine, the refresher and the main goroutine are program counters;
the screen is its lines (message, provisional or not), the prompt's target and
the status shown.  A send returns before or after the message comes back through
the reading side.  `session.saved` is the selection file, which a save may fail to
write, and a start restores it if the platform is still available.

### EmoteDisplay

A message is the sequence of its emotes.  `left` are the occurrences a renderer has
yet to resolve; each is looked for in the directory first and in the cache's maps
later (`missed`).  `downloads` are the goroutines, apart from `pending`, which is what
the cache believes of them.  The holder of the screen's mutex first draws the text
(`drawn` are the emotes it has left blanks for) and then resolves everything again for
`Update`, which moves `current` and `confirmed` and may ask for the next redraw.

### ChannelControl

A command is a plan, a sequence of requests (lookup, write, read, patch) that
`cmd.todo` still has to make.  Each platform refreshes differently (see the
module's header) and `token` tells the refresh token the client holds from the one
the provider accepts.  An answer may be lost after the request took effect.
`writes` is what happened at the provider, to compare with what was reported.

### RemoteClear

Time is in half seconds, because the archive compares times as text and a whole
second sorts after its fractions (`archive.go:196`).  `clear.snapshot` is what the
query returned; deletions may succeed, find the message gone, be refused or lose
their answer; chat goes on.  Twitch without a number of days clears the chat.

### SetupWizard

A section of the configuration records the API key and the one tried last, the
application and account its token was granted to, how often that token was renewed
since, the account it names, and whether its last step was done.  `youtube` asks for
the API key and `youtube-server` for the authorization of one section, which names no
account: `youtube-server` never asks whose token it was granted.  Therefore
`youtube-bot` asks the primary account who it is, a request that may fail and that may
renew the primary token in the configuration in memory.  The handlers of the primary
accounts change the configuration in place, those of the bots a copy; after each
service the whole is saved.  Every prompt may be answered, fail or be given up.

### TokenStore

One platform, with a primary and a bot section.  A token is an identity and a
number; using a refresh token may replace it, which ends the old one.  A holder
refreshes in memory and then loads, changes and renames the file; a crash between
any two steps loses its memory.  Editors (the settings page and the wizard) load,
change and save the same file in their own steps.

### BotEngine

Time is a bounded clock.  One goroutine takes an event, reads the settings, checks
cooldown and escape, sleeps for the YouTube spacing, sends and records; the
settings page updates and sends test replies beside it.  `hist` keeps what the
properties compare with: when each execution and reply was, how many ordinary
messages lay between.

### DesktopProcesses

Time is counted in seconds, since the three processes wait for each other with
timeouts of 10, 3, 15, 5, 2 and 3 seconds, which are the constants of the module
and have the code's values in the runs.  A timer that has run out is acted on
before time goes on; everything else takes as long as it likes.  Launch 0 is a
runtime started by hand.

### DesktopFeed

The relay client (`relay`) reports its state, reads messages and waits before it
retries.  Its reports, requests that select a target, and requests for the state,
which refresh the statuses of the streams, each make a notification in three steps
(`notifier`): set the value, read the state, publish it.  These are goroutines of their
own, and several notifications may be under way at once; `since` in `hist` has the
values the state had since they are, which is how old the one published last may be.
The publishing goroutine takes messages from the queue and returns when the context
ends (`main.go:117`), whatever is in the queue then.  A page registers with a
copy of the history in one critical section and is dropped when its channel is full.
The state is read in one step although the selected target is not under the runtime's
lock: the target is read after the rest, so a snapshot may join a new target to
statuses that were current just before.  `PageIsCurrent` compares part by part and says
nothing of how the parts go together.

`HistoryFanout` is the same seen from a page: messages are published, a page opens
with the newest of them, is given the next one, and is given up at any time, after
which it gets what was published until then.  The refinement mapping (`Desktop`) has no
place for the relay client, the queue and the notifications: what a page was given is
`sent`, where it began is `from`, and what a dropped page still has coming is what is
left of the messages in its channel.

## The runs

`RelayHub`, `KickWebhook`, `ServerPipeline` and `SubtitleManager` have a run each.
The thirteen others are checked in five runs, each for the modules that serve one
purpose: `Ingestion`, `Client`, `ChatCommands` (checked by `MCCommands`), `Accounts` and
`Desktop` put them side by side, each with constants and variables of its own.  They
share no variables, so a behaviour of a run is one of a single *part*, chosen in the initial state (`part`),
and the variables of the other modules do not change.  All parts of a module have the
same constants, those of the cfg; a part is a restriction of the initial states and of
the steps (`MCInit`, `MCNext`) that keeps it small, and what a part leaves out another
one has.  A safety property is checked in all parts, and a liveness property `P` as
*fairness implies `P`* in a part that takes no fair step away.

| Run | Part | Instance |
|---|---|---|
| `RelayHub` | | 2 connections, channel of 1, 3 broadcasts |
| `KickWebhook` | | 2 events, 2 handlers, queue of 1, age limit 2, clock to 7 |
| `ServerPipeline` | | 3 messages of 3 providers, queue of 2, 2 process runs |
| `SubtitleManager` | | 2 workers, all faults, 2 process runs |
| `Ingestion` | twitch | 2 notifications, 4 sockets, 2 reconnects, 1 fault, a window of 1, URLs that expire |
| | youtube | 2 messages, the second malformed, one failed request of any of 8 kinds or one failed refresh of any of 3 |
| | pages | 3 messages, the second malformed, pages cut in every way |
| | failing | 1 message, 6 recoverable failures in a row |
| | broadcasts | the YouTube watcher, 2 sessions, 4 broadcasts, 2 faults, 1 restart |
| | both | both watchers, 1 and 2 confirmations, 2 sessions, 2 broadcasts, 1 fault, 1 restart |
| `Client` | merge | 1 adapter beside one that has ended, 3 publications of 2 messages, queues of 2, a duplicate list of 1; a signal during `/exit` is left to adapters |
| | adapters | 2 adapters, 2 publications, an invalid message |
| | targets | 2 platforms, 1 message, 1 fault, 2 starts |
| | scroll | 1 platform, 3 messages on a screen of 2 |
| | emotes | 2 messages with 3 emotes, 2 rows, a cache that has some, all or none |
| | retried | 3 messages in 2 rows, an emote Kitty refuses, 1 failed download or 1 resize |
| `Commands` | every | every command once on every platform, 21 durations, 7 search results, 2 faults |
| | shared | 2 callers, bans and sends on Kick and Twitch, 3 search results, 2 faults |
| | fields | titles and categories on Kick and YouTube, 2 commands in a row, 3 search results, 2 faults |
| | clear | 2 platforms, a day of two seconds, 2 messages, one lost answer |
| `Accounts` | wizard | the YouTube key, the YouTube server, Kick and Twitch, bots on YouTube and Twitch; 3 runs, 2 applications or keys, 2 accounts |
| | single | 1 holder, 4 tokens, 3 faults, 2 crashes |
| | double | 2 holders and the wizard, 2 tokens each, 1 fault, 1 edit, 1 crash |
| | edited | 2 holders and the settings page, 1 edit, 1 crash |
| | answers | 2 commands and ordinary messages on Twitch, 5 events, a cooldown of 3 |
| | spaced | a command and alerts on YouTube, 3 events, cooldowns 1 and 2, an update, a test reply, 1 fault |
| `Desktop` | processes | a runtime by hand and one that is launched, the code's timeouts; 1 fault if there is one of the two |
| | launches | 2 launches, 1 fault |
| | requests | requests that select a target or refresh the statuses, one at a time beside the relay client; 1 page, 1 message, 2 visits |
| | relayed | the relay client with 2 faults, 3 messages, 1 page |
| `KickAcknowledged` | | 2 events: **violation**, acknowledged is not archived |
| `SubtitleRestart` | | 2 workers: **violation**, a crash can leave an unowned worker |
| `DesktopOrphan` | processes | **violation**, the local server outlives the application |

What each run shows is in `PROJECT.json`; this is what holds of each module, by the
names of the definitions:

| Module | Safety | Steps and liveness |
|---|---|---|
| `RelayHub` | `NoChannelPanic`, `StreamSafety` (`GaplessStream`, `RegisteredPeerMissesNothing`) | `ImplementsFanout`, `BroadcastNeverStalls`, `RemovedPeerIsReleased`, `StopCompletes` |
| `KickWebhook` | `AcceptedAtMostOnce`, `AnsweredWasAccepted`, `RememberedWhileAcceptable` | |
| `ServerPipeline` | `ShownIsArchived`, `ShownOnce`, `AtMostOneUnrelayedPerRun` | `NothingShownAfterFailure`, `ImplementsArchivedRelay`, `FailureEndsProcess`, `QueuedIsArchived` |
| `SubtitleManager` | `WorkersAccountedFor`, `OneWorkerAtATime` | `StoppingIsFinal`, `ExpiredIsStopped` |
| `TwitchSession` | `TakenOncePerWindow`, `RecordedIsDelivered`, `NoSocketLeak`, `SubscribedOncePerLoss`, `OldSocketKept` | `AlwaysReconnects` |
| `YouTubeIngest` | `SessionIsGapless`, `EndedChatsAreSurvived`, `ServerEndsFirst`, `BackoffFollowsFailures` | `LiveChatIsFollowed`, `SignalEnds` |
| `InputLifecycle` | `AtMostOneUnfinished`, `ActsOnlyAfterConfirmedOffline`, `AnnouncedOncePerAnswer` | `LiveInTheEnd` |
| `ClientPipeline` | `OrderedWhileWaiting`, `WaitingHasTimer`, `DuplicatesAreFarApart`, `RenderedIsLogged`, `NothingIsLeftBehind`, `ShutdownWaits` | `PipelineImplementsMerge`, `AcceptedIsRendered`, `ShutdownEnds` |
| `TerminalClient` | `ShownOnce`, `DeliveredIsAuthoritative`, `PromptIsTruthful`, `SelectionIsSaved`, `ClosedLast` | `StatusArrives`, `TerminalIsRestored` |
| `EmoteDisplay` | `OneDownloadAtATime`, `NamesUntilAccepted` | `RedrawsEnd`, `ImagesAppear`, `RowsSettle` |
| `ChannelControl` | `ReportedIsDone`, `ActsAtMostOnce`, `RefusedIsUndone`, `NeverGuesses`, `DurationIsExact`, `NoTokenPresentedTwice` | `OtherFieldIsKept`, `EveryCommandAnswers` |
| `RemoteClear` | `OnlyTheSnapshotIsDeleted`, `CountsAreTruthful`, `NoFailureMeansGone` | `ClearEnds` |
| `SetupWizard` | `SavedIsComplete` | `BotIsSomebodyElse`, `OthersUntouched` |
| `TokenStore` | `SavedOrReported`, `LockedOutOnlyByLoss`, `SectionsKeepTheirIdentity` | |
| `BotEngine` | `NoHastyAnswer`, `ExecutedIsRecorded`, `YouTubeIsSpaced`, `DisabledSoonIsQuiet` | `EveryEventIsTaken` |
| `DesktopProcesses` | `EndsWithItsServer`, `StopsInTime` | `LaunchedOneAtATime`, `QuitEnds` |
| `DesktopFeed` | `PageIsGapless`, `PublishedInOrder`, `PageIsCurrent` | `FeedImplementsFanout`, `QueuedIsPublished`, `ReconnectsUntilRefused` |

The runs of the first four modules check their safety properties and refinements one
by one (`RelayHub`'s two about streams together) and their liveness properties together: `HubGoesOn` and `PipelineGoesOn` are
the conjunctions of the liveness properties (`ExpiredIsStopped` is alone).  The five
runs over parts have one property for each subject, the conjunction of the named
ones above:

| Run | Safety of its modules | Steps and liveness |
|---|---|---|
| `Ingestion` | `TwitchSafety`, `YouTubeSafety`, `InputSafety` | `IngestionGoesOn` |
| `Client` | `PipelineSafety`, `TerminalSafety` | `PipelineImplementsMerge`, `ClientGoesOn` |
| `Commands` | `ControlSafety`, `ClearSafety` | `CommandsGoOn` |
| `Accounts` | `WizardSafety`, `TokenSafety`, `BotSafety` | `EveryEventIsTaken` |
| `Desktop` | `ProcessesSafety`, `FeedSafety` | `FeedImplementsFanout`, `DesktopGoesOn` |

Because a conjunction fails with any one of its parts, `PROJECT.json` lists a mutant
for each named conjunct, by which that conjunct fails.  The one type
invariant of a module, which includes the capacities of its queues, is a conjunct of
the safety property of its part; it keeps the abstractions honest and is not counted
among the results.

### Why the bounds are enough

With two connections one can be dropped while the other is served; three
broadcasts leave one in the hand of a stuck writer, one in the channel and one
that finds it full.  The clock of `KickWebhook` runs past the age limit plus the
sweep horizon, so entries are forgotten and replays attempted afterwards.  Two
process runs let every message be delivered before and after a restart.  Two
workers let a stale `Stop`, a late poll or a lost create meet a newer session.

Four sockets are two handovers, one of them from a socket that was itself
adopted, or a handover followed by a loss; a window of one makes forgetting
happen.  Two messages let a failure fall before, between and after them, and
three a malformed one in the middle of a page; six failures reach the cap of 30
seconds and stay there.  Two sessions and one restart let the baseline fall on an
online and an offline input, and four broadcasts more than any of the retries
binds.  Queues and a heap of two are full with messages waiting on both sides, and
three publications repeat a message across the end of a duplicate list of one.
Three messages overflow a screen of two lines.  Two
emotes in a message move each other's column, and in two rows the second message
scrolls them and the third scrolls them out.  The durations are both sides of
each provider's limit in every unit, the search results every way in which a
lookup can be ambiguous.  Two callers meet in each other's refresh.  Three runs of
the wizard set up a primary account, its bot, and the primary account anew, or both
services of YouTube's section and the bot that asks for its account.  One request at a
time beside the relay client makes two notifications that overlap in every order.  Four
tokens are three rotations, as many as saves may fail.  Five events are two
executions with an escape between.  Two launches overlap as far as they can.
Three messages are longer than the history of two, so the copy a page registers
with has lost some.

All safety properties are proved for every size (below); the bounds matter for the
liveness properties alone.  `CHECK_DEADLOCK FALSE` is set everywhere: clients
may all be gone, clocks, faults and runs are bounded, and a process that has
ended is not an error.

### Fairness

Only what the runtime gives is assumed: a goroutine that can run does run, a
`select` on one ready case takes it, tickers tick, and provider calls return
because they have timeouts.  A `sync.Mutex` starves nobody (its starvation mode
hands it to the waiter): this is strong fairness where a lock is taken and released
for ever by others, in `ChannelControl` and `SubtitleManager`.  In `RelayHub` no
behaviour is infinite, and it is enough that some owed step is taken while there is
one.  `ExpiredIsStopped` adds that a provider that is asked again and again to
delete does so in the end.  Nothing is assumed of clients, users, pages, the
network, providers' messages, operators or systemd: a message may never be
answered, a client never read, and an input never come back.

The conclusions say what is left open: `AlwaysReconnects` excepts a reconnect URL
that never answers, `LiveChatIsFollowed` an adapter that has ended,
`LiveInTheEnd` an input that goes off and a restart, `QueuedIsPublished` the end of
the application, with which the publishing goroutine returns, `EveryEventIsTaken` a sleep
longer than the bounded clock.

## Findings

1. **Acknowledged is not archived** (`KickAcknowledged`). `README.md:48` of the
   repository says that Kick events enter relay and archive exactly once.  The
   webhook answers 204 once the event is in the in-memory channel
   (`kick.go:468-478`).  A process that stops, fails or crashes before `forward`
   stores it loses the event, and Kick does not send it again.
2. **A restart may leave an unowned worker** (`SubtitleRestart`). The comment at
   `manager.go:248` says it must not.  The session is first saved after the
   provider has created the worker (`manager.go:289-317`); a process that ends in
   between leaves a worker that no file names.
3. **The local server may outlive the application** (`DesktopOrphan`).
   `README.md:25` says it "shuts down with the application".  The application
   waits three seconds for the runtime and kills it (`backend.cpp:141`); the runtime
   gives its open event streams five before its deferred `stopLocalServer` runs.

### Known divergences

While modelling, more statements of the repository turned out not to hold of
its code.  The modules state them, under the names below; none of them is among the
properties of a run, and each is refuted by TLC in the run and part named here
when the run's MC module gives it a name (with the prefix of the instance, such as
`Twitch!NothingUnreadIsClosed`) and the cfg checks that.

| Statement | Definition | Run, part | What the code does |
|---|---|---|---|
| `twitch_test.go:417`: a notification from the old socket is not lost during a reconnect | `NothingUnreadIsClosed` | `Ingestion`, twitch | the welcome closes the old socket whatever waits on it unread (`twitch.go:780`) |
| `README.md:247`: "exactly one broadcast for every new input session" | `OneBroadcastPerSession` | `Ingestion`, broadcasts | a broadcast whose bind failed has no stream, and the retry inserts another (`youtube.go:440`) |
| `README.md:249`: reconnects with the token after recoverable failures | `TokenIsKept` | `Ingestion`, youtube | after exhausted quota the next session starts with an empty token (`youtube.go:874`) |
| `README.md:249`: the service can remain running continuously | `RunsContinuously` | `Ingestion`, youtube | a body that ends early is an ordinary error, and ends adapter and server (`youtube.go:254`); so do a search for a broadcast that is answered 404 (`youtube.go:233`, `966`) and, with a configured video, one that is not live (`youtube.go:312`) |
| `main.go:755`: "ingestion stopped unexpectedly" | `ShutdownIsExpected` | `Ingestion`, pages | after a signal two cases of the select are ready, and this one may be taken |
| `README.md:342`: stores rotated refresh tokens | `NoTokenComesBack` | `Accounts`, edited | the settings page saves the whole file it has loaded before (`main.go:675`) |
| `README.md:38`: stores the resolved identity under `bot.twitch` | `SectionsKeepTheirIdentity` with `BotConfigured` false, a bot as the only holder, and the wizard | not in a part | a bot runtime that runs on the primary account's tokens decides at the save whether the file has a bot account (`runtime.go:193`) |
| `main.go:234`: "Setup cancelled; existing configuration was not changed." | `CancelledIsUnchanged` | `Accounts`, wizard | services completed before the cancelled one have been saved (`wizard.go:169`) |
| `docs/bot-architecture.md:17`: the primary YouTube credentials "remain unchanged" | `PrimaryIsUnchanged` | `Accounts`, wizard | to compare the bot with the primary account `youtube-bot` may renew the latter's token, and saves it (`wizard.go:291`, `169`) |
| `README.md:50`: YouTube spaces different bot replies | `EveryReplyIsSpaced` | `Accounts`, spaced | test replies neither wait nor count (`bot.go:270`) |
| `README.md:170`: target changes clear the old provider's data | `StatusIsOfTheTarget` | `Client`, targets | the header keeps the old status until the next tick |
| `README.md:170`: a slower response does not overwrite the new selection | `LateStatusIsDropped` | `Client`, targets | `StreamStatus` reads the selection once (`runtime.go:357`); the generation check is in a router only tests construct |
| `README.md:188`: until Kitty accepts it an emote keeps its readable name | `RowsSettle` with an emote of the first message in `Unsupported` | `Client`, emotes | one refused image keeps all names of the row, and the accepted one is drawn over them (`terminal.go:396`, `kitty.go:141`) |
| `cache.go:117`: "one deduplicated asynchronous download" | `StoredIsNotDownloaded` | `Client`, emotes | an image stored between `Lstat` and the mutex is downloaded again (`cache.go:128`) |
| `backend.cpp:90`: "The Streamchat runtime did not start." | `GivenUpIsDown` | `Desktop`, processes | the application gives up after ten seconds, the runtime gives its server fifteen (`backend.cpp:88`) |
| `relay_test.go:357`: a stopped client reports "stopped" | `StoppedIsReported` | `Desktop`, relayed | not from the retry wait (`relay.go:509`) |
| `README.md:135`: an already-absent message counts as cleared | `AbsentCountsAsCleared` | `Commands`, clear | Kick's answer that there is none counts as failed (`runtime.go:961`) |
| `README.md:137`: `/clear twitch Nd` | `TwitchWindowIsSupported` | `Commands`, clear | refused before the branch for it is reached (`runtime.go:542`) |
| `docs/bot-architecture.md:29`: a maximum lifetime is enforced | `ExpiredIsDeleted` | `SubtitleManager` | the monitor asks for one `Stop` and returns; a failed deletion is not repeated (`manager.go:411-415`) |

## The proofs

Every safety property of every run is a theorem, and so are the action properties and
the four refinements: for every value of the constants, and from an inductive
invariant that TLC has checked on the small instance before.  Nothing is taken on
trust; every step is checked by TLAPS.  The composition modules (`Ingestion`, ...)
name the properties once, for the run and for the theorem.

- **RelayHubProofs.** `IInv` is `TypeOK` with `Registered` (a peer in the hub has
  an open channel, and a range loop only has registered peers left, because the
  loop holds the mutex), `Unstarted` (a connection that was not added has nothing),
  `HandHeld` (the writer holds a payload exactly when it is writing or has failed) and
  `NotAhead` (nobody has more than was broadcast).  `NoChannelPanic` follows
  from `Registered`.  `GaplessStream` is inductive only together with
  `RegisteredPeerMissesNothing`: that the payload a broadcast appends is the
  *next* one of a stream is exactly that the peer has missed nothing.
  `HubIsOrderedFanout` uses it again for the step of the writer.  `StreamsAreWhole`
  joins the two as the run checks them.
- **ServerPipelineProofs.** `IInv` adds `CurrentIsArchived`, `CurrentIsUnshown`
  and `FailedHasExited` to the properties: the message in hand is archived and not yet
  shown once it may be shown, because `StoreNew` compared it with an archive that
  holds everything ever shown.  `KeepsPromise` maps `StoreNew` and a failed store
  that left its row to `Store`, `Relay` to `Relay`, and the end of a process to
  `Abandon`.  `OneMessageOwedPerRun` needs sizes: what is archived and not relayed
  grows by at most one message for each process that has ended.
- **SubtitleManagerProofs.** `IInv` adds `WorkersKnown`, `OneStop` (at most one
  caller holds `stopMu`, and its target is a known worker), `DeletedIsGone` and
  `NothingLeftWhenDown`.  `NeverTwoWorkers` follows from `WorkersAccountedFor` and
  `CreatingExcludesSession`.  `StoppingNeverUndone` is an action property: no step
  takes a session out of "stopping" but the one that ends it.
- **IngestionProofs.** For the webhook, `WebhookInv` has `HandlersInTime`,
  `EntriesAccepted` and `ForgottenTooOld`: an accepted event that is no longer in the
  map has a timestamp too old even for a request that passed the age check at the last
  moment.  The sweep preserves this because the horizon is twice the age limit and
  `MaxSkew + MaxHandling` is at most one such limit.  For Twitch, `SocketInv` says
  that sockets are opened in order (`OpenedInOrder`), are subscribed once each and
  only for a session that was lost (`AskedOncePerSocket`, `AskedIsPaidFor`), and what a
  handover leaves open (`HandoverKept`); what was recorded is compared with what
  was handed on and delivered.  For YouTube, `YouTubeInv` rests on `TokenIsPosition`
  and `PageIsConsecutive`: the token is the number of the last message of the page in
  hand, so what is still to be published continues what was delivered;
  `WaitsDouble` ties the wait to the failures in a row and its random part to the
  backoff, `Unfound` says that an adapter which failed for want of what it asked for
  follows no chat, and `EndedForGood` that an adapter whose end the main loop has been
  told of has ended.  For the watchers, `InputInv` has `BoundAlone` (a call
  that is about to bind finds no unfinished broadcast, because nothing else makes
  one), `ArmedIsConfirmed` and `AnnouncementsPaidFor`.
- **ClientProofs.** `PipeInv` follows a message from the heap to the log:
  `Whereabouts`, `Drying`, `Returned`, `Written` and `HeardOnce` (the main loop counts
  every adapter once) give `NothingIsLeftBehind`; `Recent` (the duplicate list is the
  end of what was accepted) gives `DuplicatesAreFarApart`.  `TermInv` has
  `LinesDelivered` and `EchoOvertaken` (while the echo of an own message is awaited, the
  delivered message that overtook it is on screen or was pushed out), `LineLimit` and `Closing` (the order of the way out).
  `ImageInv` has `CacheInv` (an emote is pending exactly while one goroutine
  downloads it), `LookupInv`, `DrawnInv` and `RefreshFinds`: between drawing a blank
  and giving back the mutex, its image is among what has been or will be found.
  `PipelineIsMerge` has one lemma for each action of `OrderedMerge`: `Recent` says that
  a message missing from the duplicate list is not known there either, `Whereabouts`
  that what arrives was published, `CountsAccepted` that the heap counts what was
  accepted, so that no two of its entries are equal and the oldest exists and is
  unique (`OldestLeaves`).  A message moves from the output to the main loop's hand and from
  there to the log without changing the three taken together.
- **CommandsProofs.** `IInv` has `AllFit` (what a command has still to do fits what it
  has done and found), `Current` (the refresh token the client holds under its mutex
  is the one the provider accepts unless an answer was lost, and the one that a refresh
  under way has presented) and `Holding`.  `SnippetsKnown` is what
  `OtherFieldKept` needs: a title is written with the category that was read, which is
  still the provider's.  `ClearInv` has `OnePath`, `OfTheSnapshot` and `Accounted`:
  what is left, done and failed add up to the snapshot.
- **AccountsProofs.** `IInv` has `AlwaysLoadable`, `SaversTouched`, `NeverMixed` (no
  section ever holds another's identity, in any copy of the file) and, for a holder
  that alone has rotated tokens, `Kept`: outside a save the file has the token in memory or the
  failure was reported, and that token works unless a new one was lost.  `BotInv` has `RemembersAnswers`, `SpacedReplies`, `Accounted` and
  `QuietOnce`; `WizardInv` has `SavedComplete`,
  `OthersAsSaved` (between two saves the memory differs from the file in the section
  being set up and in the renewals of the token that was used to ask for the primary
  account), `OwnPart` (of a shared section a service changes its part) and `Progress`.
- **DesktopProofs.** `ProcessInv` bounds the time since a runtime was told to end by
  the timer it is waiting for (`InTime`) and says that only a runtime that has started
  a server has one, and that one which ended by itself has seen to it (`Kept`); `OwnsTheRest` is what `NeverTwoLaunched` needs: every launch but the last
  is over.  `FeedInv` has `HistoryIsNewest`, `ChainInOrder` (socket, queue and history
  are consecutive), `NewestFollows` (what is about to be published is in `since`, and while no notification is under way so is the last state in the channel of a page or, if there is none, the state it shows) and `PageFits`: what a page has been sent and what
  waits for it is a row of what was published, from where it registered and up to the
  newest unless it was dropped.  `FeedIsFanout` maps `Publish` to `Publish`, a
  notification to `Drop` (it may find channels full), `Subscribe` to `Open`,
  `WriteEvent` to `Give` if the event is a message, `Leave` to `Close`, and everything
  else to a stutter.  `ChainInOrder` gives the order of the messages, `HistoryIsNewest`
  what a page opens with, and `PageFits` that the message in front of its channel is the
  next one and that a page which is dropped has everything published still to come.

What is summed or counted over a set is reasoned about without induction over data,
by the least and the greatest number of a set (from the well-foundedness of `<`) and
by how one step changes a size.

### Hypotheses

A theorem assumes the `ConstantsOK` of its module, which TLC evaluates in the run.
Most of it is types.  What is more than that:

- `KickWebhook`: `MaxSkew + MaxHandling <= MaxAge` (above).
- `ClientPipeline`: `Adapters` is finite.  `ChannelControl`: what a search finds is
  finite.  `RemoteClear`: a day is a whole number of seconds.
- `BotEngine`: a command is not another kind of event.  `SetupWizard`: a run
  selects something (an empty selection cancels it before it does anything), two services share a section only if one of them asks for nothing but its key, and the primary account of a bot is asked who it is exactly if its section names none.  `DesktopFeed`: no target is called "none".
- `TokenStore`: `SavedOrReported` and `LockedOutOnlyByLoss` speak of a holder that is
  `Alone`: nobody else has used a refresh token or loaded the file to edit it
  (`touched`).  Two writers of the file do overwrite each other's tokens (see
  `NoTokenComesBack`), and with two of them neither statement holds of every
  instance.  `SectionsKeepTheirIdentity` assumes `BotsHaveAccounts`: a bot's section
  is configured whenever a bot holds tokens.
- `OtherFieldKept` assumes `OneEditor`: no two callers give commands for YouTube.
  With two, TLC finds that the second writes back the field it read before the first
  changed it (`youtube.go` sends the whole snippet).

### Only model-checked

All liveness properties: their fairness arguments need `ENABLED`, which TLAPS does
not support.  These are `HubGoesOn`, `PipelineGoesOn`, `ExpiredIsStopped`,
`IngestionGoesOn`, `ClientGoesOn`, `CommandsGoOn`, `EveryEventIsTaken` and
`DesktopGoesOn`, of which the two conjuncts that are not liveness,
`OtherFieldIsKept` and `LaunchedOneAtATime`, are proved as `OtherFieldKept` and
`NeverTwoLaunched`.  The three violations are counterexamples and need no proof.

## Not modelled

- Data: the text of messages, signatures and parsing, HTTP status lines, JSON
  layout, the texts of announcements and replies.
- The conversion of GIFs, the bytes sent to Kitty, and the allocator of chatter
  colours: how a line looks.
- `internal/serverstatus` and `internal/streamprobe`: counters under one mutex, and
  one HTTP request; nothing interleaves with anything.
- `internal/launcher`, `internal/platform/registry.go`, packaging: they build
  command lines and adapters and keep no state.
- QML, the web pages and the line editor: presentation.
- Of modelled components: the status endpoint of the relay server, the validation of
  configuration fields, and the client-side polling loop of YouTube, which shares
  `run` with the server's.  `PROJECT.json` says for each component what is left out.
- Steps that only shorten what is modelled: a token that cannot be refreshed ends a
  clear on Kick before its first deletion; a bot's reply on YouTube whose answer is
  lost counts as not sent; a runtime that cannot make its page server returns as one
  whose address is in use does.
- What a page does with the answer to `GET /api/state`: it carries the relay state and
  the target read before the platforms were asked, so it may be older than what the
  event stream has sent the page; `app.js` asks again every minute.  `PageIsCurrent` is
  about the event stream alone.
- The data race on the selected target (`session.go:204`, `241`), which requests may
  read and write at once; the model has every read see one of the written values.

## Plan

1. *Done*: the specifications above, and the proofs of all their safety properties
   and of the four refinements.
2. *Model next*: cleaning and provisional messages in `EmoteDisplay`.
