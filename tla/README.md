# A TLA+ model of office-addin-mcp

office-addin-mcp is an MCP server that drives an Office add-in inside Excel's
WebView2 over the Chrome DevTools Protocol (CDP). A request names a tool; the
dispatcher gives the tool a *session*, which owns one CDP connection, and the
tool sends commands and reads events over it. Requests run concurrently, Excel
comes and goes, the connection and the caches of the session are shared, and
several processes share the files: that is where the difficulty is, and what
this project models.

Source paths below are relative to `src/internal/`.

## 1. Inventory

| Component | Where | State | Operations | What makes it correct |
|---|---|---|---|---|
| CDP connection | `cdp/connection.go` | pending commands, subscribers, closed flag, read loop | `Send`, `Subscribe*`, cancel, `Close`, read loop | every `Send` ends once, no channel is closed twice, an answer is never lost to a close, close wakes everyone |
| Session | `session/session.go` | connection under an RW lock, endpoint, selection, default page, snapshot, enabled domains | `Acquire`/release, setters, `EnsureEnabled`, `Close` | one dial at a time, nothing replaced under a user, nothing leaked, no state of an old connection |
| Reconnect budget | `session/session.go` 408-422 | times of recent dial attempts | check, record | never exceeded, never refused without cause |
| Event buffers | `session/eventbuf.go`, `consolelog.go`, `networklog.go` | ring, capacity, sequence number; the caller keeps the cursor | append, resize, drain, clear | no record twice, no gap that is not reported |
| Event pumps | `tools/inspecttool/eventpump.go` | mark, goroutine, enabled domains, channel, requests in flight | start, receive, join | one pump, complete, streaming when the tool says so, one record per request |
| Session pool | `session/manager.go` | named sessions | `Get`, `Drop`, `DropAll`, `Close`, idle collection | a session out of the pool is closed once |
| Dispatcher, recovery | `tools/dispatcher.go`, `mcp/server.go` | recovery lock | look up, acquire, recover once, run | every call returns; failures share one relaunch |
| Launch registry | `launch/*.go`, `tools/lifecycletool` | launches by manifest, child processes | launch, reuse, stop, stop all, recover | no child without an owner, a stop that has returned is complete, nothing foreign is stopped |
| Recorder and macros | `recorder/`, `tools/macrotool` | active recording, stored macros, replay tools | start, append, stop, replay | what was done is what is replayed; replay ends |
| Resource watcher | `resources/watcher.go` | subscriptions, fingerprints, pollers | subscribe, unsubscribe, poll, close | changes are notified, pollers end |
| Target selection, page and interaction tools | `tools/target.go`, `tools/pagetool`, `interacttool`, `inspecttool`, `addintool` | sticky page, attach cache, snapshot (in the session) | resolve, attach, select, close, snapshot, click, ... | a tool acts on the page and the node that were chosen, with its domain enabled |
| Office tools | `tools/exceltool`, `wordtool`, ..., `js/*.js` | none; the host's document | some 80 payloads | the annotations of a tool (idempotent, not destructive) are true of its payload |
| Document cache and discovery | `doccache/store.go`, `tools/officetool/discover.go` | entries in memory, a file shared by processes | discover, get, put | a hit is what was saved last and fits the document looked at, what is saved is not lost |
| Diagnostics | `tools/diagnostics.go` | none | hints looked up in the cache | - |
| Manifests, endpoint discovery, command line, fakes for tests | `addin`, `webview2`, `cmd`, `cdptest` | none that outlives a call | - | - |

How they interact. `Dispatch` looks a session up in the pool, acquires it (which
may dial), runs the tool with the read lock held, appends the call to the active
recording, and releases. A failed dial asks the server for recovery, which probes
or relaunches what the launch registry tracks and empties the pool.
`addin.launch` also launches and empties the pool, without a session. A macro is
a tool that holds its session and dispatches other calls. The watcher polls by
dispatching `<host>.discover`, which fills the document cache and so appears in
recordings. Pumps run on their own, fed by the connection's read loop through
channels.

The hard behaviours, each at its line, are the `hazards` of PROJECT.json: locks
changed in two steps, lists copied under a lock and used outside it, marks set
before the work they stand for, sessions looked up before they are acquired,
cursors, uids and caches that outlive what they belong to, recovery racing
launches, calls nested in calls, tools repeated after they failed half way, files
written whole by several processes.

## 2. Modules

| Module | Models | State and actions |
|---|---|---|
| `GoRWMutex` | `sync.RWMutex` as Session uses it (external) | `readers`, `writer`, `barred`; a waiting writer bars later readers, and leaving admits them |
| `Session` | `session/session.go` | `conn`, `epConfig` (which may be the zero endpoint, the server's default), `reconnects`, the slots of cached state as the connection each was learned from; `Acquire` is cut at every lock operation and at the dial |
| `ReconnectBudget` | `canReconnectLocked`, `recordReconnectLocked`, `dialLocked` | attempts with begin and end times, a clock |
| `CommandSpec` | what `Send` promises | a command is issued, matched, answered, failed or given up |
| `CdpConnection` | `cdp/connection.go` | steps are cut where `c.mu` is left; channels are counted closes and a held frame |
| `EventBuf` | `session/eventbuf.go` and its callers | a record is its number; callers look up, drain or clear with their cursor |
| `EventPump` | the start of the pumps, `EnsureEnabled`, the way of a console message | a call is the list of steps left to it; the browser is the domains enabled in it; a message goes over the wire to the read loop, through the channel that drops what it cannot hold, to the buffer |
| `Network` | the pump's loop and the join of a request's events | the browser's events of a request, the channel that drops what it cannot hold, `pending` with its cap, the records |
| `Dispatcher` | pool, dispatcher, recovery, launch, macro replay | each call's place; sessions reduced to lock, connection and number of dials |
| `Launch` | `launch/*.go`, `lifecycletool`, `addintool/ensurerunning.go`, `recoverConnection` | attempts by number with their two children, the registry, `stopOnce`; steps are cut at the registry's lock, at each process start and wait, at each probe |
| `Targets` | `tools/target.go`, `cdp/target.go`, page, interaction, inspection and add-in tools | pages and documents of the browser, CDP sessions, the session's slots; a tool is the sequence of its commands and accesses |
| `ExcelTools`, `OfficeTools` | every tool of the five hosts but `*.run_script` | no state: one operator per tool, from a document to the set of its outcomes |
| `Discovery` | calls of those tools, `<host>.discover`, the document store, the hints of diagnostics | documents, the file, each process's copy, whether it was read, what it missed or failed to write, each thread's step |
| `Macros` | `recorder/store.go`, `macrotool`, the recording by the dispatcher, the registration of replay tools | active recording, cache, files, frames of nested replays |
| `Watcher` | `resources/watcher.go` | EXTENDS Macros; subscriptions with fingerprint and goroutine, handlers |
| `MC*` | instances for TLC | values of the constants, symmetry where only safety is checked |
| `*Proofs` | theorems | inductive invariants and their proofs |

Compositions. Session extends GoRWMutex; CdpConnection instantiates CommandSpec
with a refinement mapping; Network extends EventPump, so that pumps start while
requests are under way; Watcher extends Macros, so that a poll is a dispatch that
is recorded; Discovery extends OfficeTools, which extends ExcelTools, so that the
documents that are cached are those the tools change. Dispatcher and Launch both
contain `recoverConnection`, seen from two sides: in Dispatcher whatever starts
or stops Excel does so in one step after its decision and what matters is the
pool; in Launch there are no sessions and what matters is the processes.

Abstractions.

- Endpoints, messages, texts, pages and calls are model values or small numbers.
  A dial, a probe, a command, a file operation succeeds or fails as it likes
  wherever the code has an error path for it.
- A tool's work is "a command answered, then its result stored" in Session,
  nothing but time in Dispatcher, its commands in Targets, its effect on the
  document in Discovery, its name in Macros.
- A connection is numbered by its dial, a CDP session by its attach, a launch by
  its cold start, a command by its id. In Dispatcher all calls use one session id.
- A subscription's channel has no contents in CdpConnection (a full one only
  drops an event); EventPump (console) and Network (requests) have its contents
  and its capacity. ChannelCap stands for the 256 of `subscriberBufSize`.
- A probe of the CDP port (1500 ms, and the context of its request) may find a
  live Excel dead, in Dispatcher as in Launch; it never finds a dead one alive.
- In Launch one CDP port is modelled, the default one: whoever serves it may
  answer the probes for any launch. Outside the process children exit, Excel opens and closes.
- In Targets the URL patterns and surfaces of a page are the *site* it shows; the
  parameters of a tool are its selector and uid.
- A document is what the tools and their annotations tell apart: sheets, the
  active one, content, table of each and whether it has a header row of its own;
  chunks of text; slides as sequences of shapes with the names they match and a
  text; pages with outlines; a mail with subject and body. Ranges, formats, charts
  and pivots are "the content of the sheet".
- History variables, which no guard reads: `polled`, `cleared` (EventBuf),
  `failed`, `early`, `dropped` (EventPump), `heard`, `evicted` (Network), `starter`,
  `missed` (Dispatcher), `acked`, `displaced` (Launch), `blind`, `unsaved`
  (Discovery), `epoch`, `made` (Macros), `ended`, `told`, `swallowed` (Watcher).
  MaxAttempts bounds arrays in ReconnectBudget and Launch.

## 3. Runs

| Run | Question | Bounds |
|---|---|---|
| `session` | what the lock protects; do Acquire and Close return as long as tool calls end | 2 threads, the zero and one named endpoint, 2 kinds of cached state, 2 connections, budget 2 |
| `cdp` | ends of a Send, closing, who can make the loop panic, refinement of CommandSpec, does Close wake everyone | 2 senders, 2 commands, a subscription to 2 methods |
| `eventbuf` | ring, gaps, cursors | 2 callers, capacities 1 and 3, drain limits 1 and 4, 5 records |
| `network` | one pump, completeness of messages and of network records | 3 calls, 3 messages, 2 requests, channels of 2, one request pending |
| `budget` | the sliding window | budget 2, window 3, 5 attempts, 8 ticks |
| `dispatcher` | pool, recovery, connections in use | a client that replays macros (of page calls and launches) and one that calls page tools, 3 sessions at a time, 2 dials each |
| `launch` | who owns a child, what a stop has done, does every call return | 2 threads, one manifest, 2 cold starts |
| `targets` | does a call act on its page, its node, with its domain enabled | 2 threads, 6 tools, 2 pages that show one site or none, one uid, 2 attachments, 3 calls |
| `discovery` | is a hit what was saved last, are the annotations of the tools true, is anything saved lost | all 5 hosts, 2 sheets, 2 texts, 2 mail items, 3 file names (one empty), 2 processes, 2 threads, 3 calls, one edit |
| `watcher` | recordings, subscriptions, notification, ends of handlers | one macro, 2 clients, one resource, 2 handlers, 2 subscriptions, one change, 4 calls and requests, one poll recorded |
| `dispatcher_macro`, `launch_displaced` | findings, below | as `dispatcher`; as `launch` |

These bounds are the smallest at which the interesting cases happen: two users
and a third party (a closer, a dialer, a page that closes), an answer in flight
while another command is given up, a ring that overflows between two drains, a
budget that is spent and a window that slides past, two cold starts of one
manifest that both miss the registry, two stops of one launch, a CDP session
replaced while another call still holds it, two processes that read the file
before either writes, a channel that is full and a request that is evicted.

In `session` one named endpoint and the zero one are enough: a change between two
named ones takes the branch that a change to the zero one takes. In `network` the
constraint `Explored` keeps two questions apart: as long as the page makes no
request, three calls overlap; while it makes some, calls run one at a time and the
page logs nothing. The two parts meet only in the mark of the
network buffer and in the channel, which a single call exercises. In `targets`
six tools stand for all: each of the others is a sequence of the same kinds of
steps, and the module has them. In `discovery` a call chooses its tool, sheet,
text and index, so that every tool of every host is taken on every document.

Deadlock is checked in `session`, `cdp`, `eventbuf`, `budget` and `launch`. In
`network`, `targets`, `discovery` and `watcher` the model stops because the
numbers of messages, calls or edits are bounded; in `dispatcher` the system
itself may stop (finding `dispatcher_macro`).

### Findings

Each is a run with expected violation; the trace is what the code does.

| Run | What happens |
|---|---|
| `dispatcher_macro` | The replay tool dispatches its steps while its own call holds the session's read lock. A step that launches, recovers or redials wants the write lock of the same session and waits for the macro itself, for ever. |
| `launch_displaced` | Two launches of one manifest both find nothing tracked and both start Excel; the second record overwrites the first, whose children no stop reaches any more. |

Elsewhere, too, the code does other than a comment of it says. There the property
names the exact exception and says that nothing else goes wrong; each is among
the hazards of PROJECT.json.

- A session whose endpoint is the zero one, the server's default, keeps its
  connection when a call names an endpoint (`session/session.go:202`); the dial
  stores the new connection over the open one (221), which nobody closes any more,
  and the selection, the snapshot and the enabled domains stay for the new one.
  When that dial fails, the endpoint is recorded already (195), and the next call
  for it gets the connection of the zero endpoint. NoConnectionLeak,
  CacheMatchesConnection and EndpointIsHonoured except connections dialed for the
  zero endpoint.
- `page.consoleLog` drains the buffer as soon as the enables are answered, while the
  replayed messages are still on their way, although "logs written before the first
  call are included" (`inspecttool/consolelog.go:56`). ConsoleIsComplete counts the
  messages on their way, and names those that a full channel drops.
- A failed enable leaves the pump's mark set (`inspecttool/eventpump.go:27`): later
  calls return without an error and nothing streams (`failed` in
  OkMeansStreamingUnlessFailed).
- "Serialized so concurrent dial failures share one relaunch" (`mcp/server.go:234`):
  a recovery whose probe is not answered in time, or whose request was cancelled
  while it waited, stops the Excel that the recovery before it has started
  (`missed` in SharedRelaunch).
- `macro.record_start` says that "Subsequent tool calls will be captured"
  (`macrotool/start.go:27`), but the dispatcher appends a call after its tool has run
  (`tools/dispatcher.go:253`), so the call of record_start is itself the first entry,
  and a replay starts a recording. RecordingIsComplete says that nothing is missing,
  not that nothing is too much.

Other behaviour the models have and the properties name or exclude:

- `Acquire` may return a connection that was closed in the gap of
  `downgradeToReadLock`; the tool then fails with a retryable error.
- A tool call whose browser command is never answered holds its session's read
  lock for ever, since no context has a deadline: `DropAll`, `Close` and whatever
  redials wait behind it. Liveness is stated under the condition that tools end.
- A call may dial a session that `DropAll` has taken out of the pool meanwhile;
  the call is served, and the connection stays open until Excel goes.
- A subscription canceled during the fan-out of an event panics the read loop,
  which closes the connection; so does a Close that closes the subscribers' channels
  while the loop sends to its copy of them (PanicNeedsCancelOrClose).
- Records lost after an empty first drain are not reported, since its cursor is 0;
  a cursor kept over a reconnect is ahead of the new buffer.
- `page.fill` before `page.consoleLog` enables Runtime, and the replay of earlier
  messages is lost (ConsoleIsComplete). A second console call may answer before
  the first has enabled anything (OkMeansStreamingUnlessFailed speaks of the state
  in which no call is under way).
- A recovery can stop an Excel that `addin.launch` has just started. The stop
  function of a displaced launch, if it is ever called, deletes the record of the
  launch that displaced it.
- A cached snapshot is served when the few counts of its fingerprint agree, under
  a key that is a name or a title; the names suggested after an error may be of
  another workbook.
- A second subscribe to a resource takes the state it finds as known: a change
  in between is not told (ChangeIsTold). The `pp` resources that the resource
  documentation lists name a host whose discover tool is not registered, so they
  cannot be subscribed to.
- A process that read the cache file before another wrote it, or that could not
  read it, overwrites it whole (SavedIsKept names both cases, HitIsLatestSaved the
  hits it gives meanwhile).
- One macro file that cannot be read leaves all macros unregistered.

### Fairness

- *Session*: goroutines run (weak fairness of each step but Release); a dial ends,
  if only by the timeouts of the HTTP client and the websocket handshake.
  `sync.RWMutex` queues writers on a mutex that does not starve them, hence strong
  fairness of `SlowLock` and `CloseLock`. Nothing makes a tool call end: the
  property is conditional (`CallsEnd => ...`).
- *CdpConnection*: the closer, the read loop and a caller whose channel is ready
  go on; nothing makes the browser answer or a context end.
- *Dispatcher*: calls go on, and the locks, which Go hands to whoever waits long
  enough, are strongly fair; a macro has finitely many entries. Nothing is assumed
  of Excel or of a tool that waits for the browser: MacroReturns, which is refuted,
  is conditional (`ToolsEnd => ...`), so that the trace is not one of a browser that
  never answers. That every other call returns is not
  among the properties checked.
- *Launch*: the steps of a call go on, since every wait (dev server, CDP, a
  killed child) has a deadline; `recoverMu` does not starve. Nothing is assumed
  of children or of Excel.
- *Watcher*: the ticks keep coming and a discover that is asked for again and
  again is answered at some time (weak fairness of `Check`); the select of a
  poller takes a cancellation eventually, though ticks may win against it any
  finite number of times (strong fairness of `Stop`); handlers that can go on do.

## 4. Proofs

TLAPS proves the following for every value of the constants, from the assumptions
that the modules name: bounds in Nat; sizes and limits positive; NoThread, NoCall,
None, NoSheet and Blank not among the values they stand apart from; the slots of
a session among the four it has; a script for each tool; External not a number; at
least one manifest, sheet, text and mail item; room for two parts in a document.
Nothing is assumed of the endpoints: the zero one may be among them or not.

| Theorem | States | Argument |
|---|---|---|
| `SessionProofs!TypeCorrect` | TypeOK | inductive |
| `SessionProofs!DialIsExclusive` | DialExcludes | inductive with: who is at a label that follows Lock is the writer, who is at one that follows RLock is a reader or barred; a writer past the readers excludes them |
| `SessionProofs!HeldConnection` | HeldConnectionIsKept | every action that changes `conn` needs the write lock, which a reader excludes |
| `SessionProofs!NoLeak`, `CacheCoherent`, `EndpointHonoured` | NoConnectionLeak, CacheMatchesConnection, EndpointIsHonoured | the above, and what the endpoint a connection was dialed for and the one recorded have to do with each other: they differ only if a dial is about to follow or the connection was dialed for the zero endpoint |
| `CdpConnectionProofs!TypeCorrect`, `HandOver` | TypeOK (no channel is closed twice), HandOverIsSafe | inductive with ChannelsInOrder: an id is in one place, pending, with the read loop, with the closer or with a frame, and its channel is open in all but the last; SubsInOrder says the same of subscribers |
| `CdpConnectionProofs!PanicNeedsCancel` | PanicNeedsCancelOrClose | a channel that a step of the loop finds closed was closed by a cancellation or by a closer, which marks the connection closed before |
| `CdpConnectionProofs!SendImplementsSpec` | SendKeepsItsPromise, the refinement of CommandSpec | step by step; a channel closed without a frame (`AwaitClosed`) was closed by a closer, so the connection is down and no answer was matched |
| `EventProofs!BufTypeCorrect`, `WindowCorrect`, `GapsAreTold` | TypeOK, RingIsWindow, NoSilentGap | the ring is the run of consecutive numbers that ends at `nextSeq`, and a cursor of a caller that has polled this buffer is not ahead of it |
| `EventProofs!NothingTwice` | NoRepeatedRecord | GivenIsPassed: a caller of a living buffer has passed every record that it was given, and a drain answers newer ones only |
| `SessionProofs!BudgetTypeCorrect`, `BudgetIsKept`, `RefusalIsDeserved` | BudgetTypeOK, WithinBudget, RefusedOnlyWhenSpent | every finished attempt is in the record or older than the window; cardinalities by FiniteSetTheorems |
| `LaunchProofs!TypeCorrect` | TypeOK | inductive |
| `LaunchProofs!ChildrenAreOwned` | NoLeakedChild | inductive with StartsAreOwned (an attempt that is being started belongs to one thread and is unknown to others) and OwnDevServers; a record that goes away otherwise than through its own stop makes its launch `displaced` |
| `LaunchProofs!StopIsComplete` | StoppedIsDead | StopsAreOwned and DoneIsDead: one thread runs the stop sequence of a launch, and Stop returns to anyone only when it is over |
| `LaunchProofs!RegistryIsLive` | TrackedCanBeStopped | TrackedUnderItsManifest: `Forget` deletes the entry under the launch's own manifest before the sequence is over |
| `LaunchProofs!ExternalIsSpared` | ExternalDevServerSurvives | only the owner of the port's listener ends it, and a child's owner is a number |
| `EventProofs!NetworkImplementsPump` | Network refines EventPump | each step joins a request or is a step of EventPump |
| `EventProofs!OnePump`, `ConsoleComplete`, `OkMeansStreaming` | NoMessageTwice, ConsoleIsComplete, OkMeansStreamingUnlessFailed | only the call that set the mark has yet to subscribe, what is sent comes through wire and channel in order or is dropped, and nothing is sent before Runtime is enabled |
| `DispatcherProofs!TypeCorrect`, `DroppedForGood` | TypeOK, DroppedIsGone | inductive; a session that `Get` makes is one that nobody can reach |
| `DispatcherProofs!RelaunchIsShared` | SharedRelaunch | `recoverMu` is held from the probe to the end of StopAll, so only a launch can start Excel meanwhile; a probe that finds a live Excel dead is remembered in `missed` |
| `DispatcherProofs!ConnectionIsKept` | UserKeepsConnection | a call that uses its session, and a macro while its step runs, holds the read lock |
| `TargetsProofs!TypeCorrect`, `NodeOnPage` | TypeOK, NodeIsOnAttachedPage | a call attaches in its first step or not at all, so a node looked up on its page stays on its page |
| `TargetsProofs!IdHonored` | TargetIdIsHonored | a cached selection by id is of that target, and the sticky default serves only the empty selector |
| `TargetsProofs!DomainsEnabled` | DomainIsEnabledBeforeUse | in what is left of a call's script, the domain of every step is enabled on its CDP session or an earlier step will enable it; checked for each script |
| `EventProofs!RecordsComplete` | RecordsAreComplete | JoinInv: the channel keeps the order of the events of a request (InOrder), each request has one entry from its first event to its end (EntriesRight) and one record after it (RecordsRight), both of which tell what was taken from the channel, unless the entry was evicted |
| `WatcherProofs!OnePoller`, `EndIsTheEnd` | OnePollerPerResource, NoLateNotification | WatchInv: a goroutine that polls is the one in the map or is in the queue of a handler that will stop it (PollersKnown), and what a handler has waited for has ended (EndedIsDone) |
| `WatcherProofs!RecordingComplete` | RecordingIsComplete | RecordInv counts the entries of the calls that began during the recording; an append keeps them and adds at most its own (AppendStep), whoever it is by: a client, a step of a macro, a poll |
| `DiscoveryProofs!HitIsSaved` | HitIsLatestSaved | CopyIsFile: a process that has read the file, missed no write and did not fail in its own last one holds what the file holds, entry by entry, through the saves, failures and restarts of all |
| `DiscoveryProofs!SavedKept` | SavedIsKept | MemKnows: a process that has read the file and missed nothing knows every document in it, and `Put` loses none (PutKeeps) |
| `DiscoveryProofs!AdditiveToolsKeep` | AdditiveToolsKeepContent | tool by tool, for every document of the host; a table may be added and its name refused, embed may fail in the workbook or at the slide |
| `DiscoveryProofs!RepeatHarmless` | RepeatIsHarmless | tool by tool: most succeed in one way only, whatever part of it a failed call has done (OneResult); a rebuilt slide finds the same shapes again (RebuiltAgain); deleting a sheet fails the second time |

The invariants are inductive only together: ChannelsInOrder, for example, needs
to know that what the closer detached is no longer pending when the loop looks it
up, and NoLeakedChild needs that two threads never start one attempt. Each module
names its strengthening (`IInv`, or `JoinInv`, `WatchInv`, `RecordInv`, `DiscInv`
for a part of it); the proofs go action by action, with frame lemmas for the
actions that leave a part alone. One module holds the proofs of one or two
neighbouring components: EventProofs those of EventPump, Network and EventBuf,
SessionProofs those of Session and ReconnectBudget, WatcherProofs those of
Watcher and Macros, DiscoveryProofs those of Discovery and the tools.

Every safety property of the passing runs, invariant or action property, is thus a
theorem. Only model-checked, and for good, is liveness (TLAPS does not prove under
fairness: AcquireAndCloseReturn, ClosedWakesEveryone, CallReturns, ChangeIsTold, HandlersReturn), and with it ENABLED. Facts by
induction over data would also stay with TLC, but no module here needs one (none is
recursive). The runs that expect a violation have nothing to prove.

## 5. Not modelled

- The `*.run_script` tools run any program in the host; `office.embed` is what it
  inserts, not its arguments.
- Tools that only read and report: `pages.list`, the manifest, target and status
  tools of the add-in, `Provider.Read` of a resource, the filters of
  `page.consoleLog` and `page.networkLog`.
- `Invalidate` of the document cache, which nothing calls; `Drop` of the one-shot
  mode, the pool's `Close`, and the idle collector, which runs only with an
  IdleTimeout that the server's command line leaves at 0.
- The active manifest and endpoint that the lifecycle tools set after a launch,
  ports other than the default one, project detection.
- The focused element, which two concurrent fills share.
- Manifests (XML), endpoint discovery (HTTP and a port scan), script building,
  schemas, wording, logging, flags: functions of one call, whose success or
  failure is a choice in the models.

## 6. Plan

What would come next, in this order: Dispatcher over Launch instead of its
one-step relaunch, with the active endpoint; Pool with several session ids, `Drop`
and the idle collector; several hosts at once in Discovery;
an abstract specification of the recorder (a recording is the sequence of the
calls that succeeded during it) that Macros implements.
