# A TLA+ model of codex-mcp-ui

codex-mcp-ui sits between an MCP client and `codex mcp-server`. A **proxy** process forwards
the JSON-RPC frames and copies them to a local **hub** process, which stores them in SQLite
and fans them out to **browser tabs** over SSE. The tabs merge stored and live events into
one history per thread.

Most of what is hard in it is concurrency: goroutines around an in-memory broker, a bounded
queue with a deadline, HTTP handlers that run several statements each without a transaction, a
React hook that joins a paged backfill with a live stream, a page that resolves a link against
lists polled at different times, and a fold that must make sense of any part of a thread.

## 1. Inventory

| Part | State | Operations | What makes it correct |
|---|---|---|---|
| SSE broker (`internal/hub/broker.go`) | ring, subscriber set, one channel per connection | Publish, Subscribe, unsubscribe | no duplicate, no silent gap, no replay before the cursor, publishers never wait |
| Stream endpoint (`hub/http/sse.go`) | its channel and replay slice | replay loop, live loop, three ways to return | writes what the broker owes it, in order |
| Bridge (`internal/proxy/bridge.go`) | two pumps | scan, observe, write, Run | forwards whatever the hub does; ends when it should |
| Observer (`proxy/observer.go`) | ship queue, `degraded` | OnFrame, worker, report | every envelope is accounted for, one warning per episode, request before answer |
| Proxy command (`cli/proxy_cmd.go`) | context, child process | handshake, spawn, register, heartbeat, run | finds or starts a hub; stops with its ends |
| Ingest (`hub/http/ingest.go`) | none: four statements per request | events, register, heartbeat | the index tables follow the events table |
| Store (`store/sqlite`, `store/query`) | tables `events`, `sessions`, `mcp_calls`, `client_sources`, `proxies` | upserts, pages, backfill | conflicts keep what must be kept; pages miss nothing that was there |
| Hub lifecycle (`hub/app.go`, `cli/hub_cmd.go`, `server_cmd.go`, `internal/process`) | shutdown channel, idle timer, port | start, touch, idle stop, admin stop, spawn | one hub per port; no stop under traffic |
| Query API (`hub/http/query.go`) | none | lists, details, event pages | one order for pages and tabs |
| History hook (`web/src/lib/session-history.ts`, `sse.ts`) | buffer, `eventsRef`, cache, state | mount, page, handoff, live event, cleanup | nothing the tab received or showed gets lost |
| Thread selection (`thread-selection.ts`, `use-hash-thread-id.ts`, `session-workbench.tsx`, the sidebar) | the URL hash, two polled lists and their cache | poll, resolve, click, navigate, write the hash | a deep link is not overwritten by a stale snapshot; the pane is of one thread; failures pass |
| Transcript projection (`assistant-projection.ts`) | none: a fold over the events | project | each event is shown once, in its turn and item; what was shown only becomes more definite |
| Runtime adapter, thread and table components (`readonly-assistant-runtime.ts`, `components/`) | none | render | out of scope, see 5 |
| Normalisation (`proxy/envelope.go`) | none | classify a frame | category, kind, thread and request id of every frame |

How they interact: the pumps call `Observer.OnFrame` before each write; the observer's worker
posts to the hub, one envelope at a time, giving up after 2 s; each post is an HTTP handler
that appends the event, derives rows and calls `Broker.Publish`; each tab has a stream
handler that called `Broker.Subscribe`, and asks for pages from the same tables.

Hard behaviours: sends after an unlock, close against send, a full channel or queue, a late
answer after a timeout, a cancelled context between two statements, a crash between them,
request ids that several clients share, a page read before the stream is registered,
state updates that React batches, a hash that an effect overwrites while the lists that would
resolve it are on their way, and deltas of two utterances in one bucket. `PROJECT.json` lists
each at its line.

## 2. Modules

| Module | Models |
|---|---|
| `Multicast` | the abstract promise: a lossy multicast with a backlog |
| `Broker` | broker and stream endpoint; refines `Multicast` |
| `WireTap` | the abstract promise of the proxy: wires that pass frames in order, with a lossy tap |
| `ProxyBridge` | bridge, observer, ship queue, worker, and the two ends; refines `WireTap` |
| `Ingest` | `eventsHandler` with its derived rows, the proxies' posts, crash and restart with the backfill |
| `SessionHistory` | the hook and its stream client, **extending `Broker`** so that it is served by the real one |
| `HubLifecycle` | hub processes and the proxies that start them: spawn, port, idle watcher, stops |
| `Workbench` | the page: sources and sessions lists, hash, selection, sidebar, what the pane is given |
| `AssistantProjection` | the fold of `assistant-projection.ts`, as operators without state |
| `ThreadStory` | the abstract promise of a transcript to its reader |
| `Transcript` | a thread as Codex sends it and a tab that gets it in any order; refines `ThreadStory` |
| `BrokerProofs`, `ProxyBridgeProofs`, `IngestProofs`, `HubLifecycleProofs`, `WorkbenchProofs`, `SessionHistoryProofs`, `TranscriptProofs` | the inductive invariants and the theorems; `SessionHistoryProofs` extends `BrokerProofs` |
| `DataLemmas` | sequences as queues, the least and the greatest of some numbers, a finite set listed in order |
| `MC...` | small instances of each, for TLC |

### Broker

One element of `Events` is one ingest handler in `Publish`, one element of `Conns` is one
stream handler. `pc`, `pending` are a publisher's position and its snapshot `subs`; `chan`,
`replay` and `conn` are a connection's channel, replay slice and position. `PublishLocked`
and `Subscribe` are the critical sections. A send is one step per subscriber:
`SendTaken`, `SendDropped` (the `default` branch), or `SendPanics` when `unsubscribe`, which
deletes under the lock and closes outside it (`ContextDone` and the two failed writes, then
`CloseChannel`), was faster. `log`, `written`, `start`, `dropped`, `before` are history.

### ProxyBridge

Each pump is `Scan`, `Observe`, (`PumpWarns`,) `Write`. `Observe` contains the queue's
`select` and the compare-and-swap of `reportDegraded`; the line it wins is written in a step of its own, because
another goroutine can flip the flag back before it. The worker is `Take`, one of three outcomes of
the post, and the same swap. `PostTimesOut` leaves the envelope with the hub, which applies
it later or not (`HubFinishesLate`). A frame is a request or its answer. Its length is data: any frame of
either direction may be the one that is over the scanner's 4 MB and ends its pump.

`TapsTheWire` maps this to `WireTap`: a wire's line is what the pump holds and then its input, a
frame is shown once the pump has passed `OnFrame`, and the copies on their way are queue,
worker and late posts together. A scan, a warning and the flag are then no step at all.

### Ingest

An event goes through `InsertEvent`, one `Derive` per statement of `derivePersistentRows`
that applies to it, and `PublishAndRespond`. A statement fails under a cancelled context, and may fail for
a reason of the store's own (busy for 5 s, a full disk): a failed insert is an error answer, a
failed derived statement is swallowed (ingest.go:133) and the next one still runs. `failed` is
history: the events of which a statement failed; a 200 for such an event does not mean that it has
its rows, and the properties say so. `Start` is `NewApp` with `BackfillSessionsFromEvents`, whose failure
is ignored.

A row of `sessions` has the source that wrote to its thread last, a row of `mcp_calls` the client that
called under its request id first. `AcknowledgedEventsAreIndexed` therefore says what an answered event
can count on: that it is stored, that its thread's row is of a client of the thread, and
that the row under its request id is of a client that called under that id, though maybe not its own.

What is data in the code (`thread_name`, the summary of a
message, tool names) is a model value; how `envelope.go` classifies a frame is given by
`KindOf`, `ThreadOf`, `RequestOf`. `Outbox` is the order in which a worker ships;
`AnsweredCallsAreCompleted` speaks of an answer that is shipped after its call, and that an answer is,
unless the worker gave up on the call, is `RequestIngestedFirst` of `ProxyBridge`.

### HubLifecycle

A proxy is `FirstHandshake`, `SpawnDetachedHub`, `Poll` until found or `GiveUp`, `Launch`, then one
`Heartbeat` per interval; it spawns at most one hub, which therefore bears its name. A hub
is `Open` (`NewApp`, and the watcher started **before** the port is bound), `Listen` or `LosePort`,
and, stopped by the watcher, `ServerStop` or a signal, `Shutdown`, which frees the port at
once, and `Drain`. Any request sets `touch`, the one-place channel of the hub that listens
(`Request`, part of every action that sends one). `TakeTouch` and `IdleStop` are the two
branches of the watcher's `select`; when both are ready it may take either.

Time: `Tick` is a fraction of the heartbeat's interval, at which due heartbeats, touches and
expiries have been handled and no start or stop is under way: those take milliseconds to 5 s,
the heartbeat 30 s, the timer of a spawned hub 30 min. Between two ticks everything
interleaves. `MaxTries` polls fit in `waitForHub`'s deadline, so a proxy may give up on a hub
that is just about to serve.

### SessionHistory

`Mount` subscribes from the latest cached event and asks for the first page at once, in that
order but without waiting, so `StreamOpens` and `ServePage` race. `answer` is a page in
flight. `UpdateEvents` is the function of that name: what it assigns, it assigns in an
updater which React runs immediately or at `Render`, and never immediately while another
update waits. `kept` is both `eventsRef.current` and the cache entry, which are assigned
together; `queued` is what they will be. Delivery from the hub to the tab is one step with
the hub's write; what a broken connection still carried is in the channel the tab left.
`Rank` stands for the order of the rows in both places. (The tab's order differs from the
store's where RFC 3339 drops trailing zeros; only the transcript depends on that, and
`AssistantProjection` has it.)

### Workbench

`registered`, `recent` and `home` are what the hub's two list queries read; the places in a list stand
for `last_seen_at`. `ReadSources` and
`SourcesArrive` or `SourcesFail` are the sources query, whose answer may be old when it arrives;
`StartFetch`, `ReadSessions` and
`SessionsArrive` or `SessionsFail` are the sessions query, one request per source joined
by `Promise.all`. `cache` is keyed by the sources **in their order**, as the query is, so that a
source that moves to the front means a query with no data. `Resolved` is
`resolveThreadSelection`; `Commit` is a render, `RunEffects` what its passive effects do:
write the hash, subscribe the history hook to the thread. `HistoryUpdate` is a late update
of that hook, whose state still names the thread that was left until then. `SetHash` writes
location and React state together, `Navigate` writes the location alone and `HashChange` is the
browser's event for it. `link` is history: the link the page was loaded with, while it is one
the properties speak of.

### AssistantProjection, ThreadStory and Transcript

`AssistantProjection` says which parts a list of events yields, in which order, with which
event ids and which status, family by family: tool calls are put together by call id, deltas by turn, a
final event terminates the bucket it finds, and everything else is a part of its own.
`Category` is how `envelope.go` sorts frames, which decides what is left out. `StampKey`
compares stamps as strings the way the tab does. What a part says is abstract.

`Transcript` sends a thread (`UserMessage`, `Speaks`, `ToolBegins`, ...) as Codex does, and
lets any of the events arrive at the tab at any time: pages, stream, drops and reconnects
can bring every subset of a thread in every order, as `SessionHistory` shows. Events of one
millisecond are ordered by their random ids, so `Send` gives a new one any place among them.
`seen` is the tab's list of what has arrived, and `screen` the fold over it.
`EndNamesReceiver` is an assumption on Codex that the code makes: whether a call reached its agent is
looked up in the end message alone (assistant-projection.ts:1091), and also when only the
begin had the field (assistant-projection.ts:1101), so that an end that left it out would turn
from a success to an error when its begin comes late. Codex's ends name the receiver where their
begins do. The refinement maps it to what `ThreadStory`
speaks of: each utterance is absent, partial or final, each call absent, running, complete or error,
and an utterance is crowded when others go into its bucket (`Sharers`).

## 3. Runs

| Run | Bounds | Shows |
|---|---|---|
| `broker` | 3 events, 2 connections, ring 2, channels 1, symmetry | every property of the broker, that publishers never wait, and that it implements `Multicast` |
| `broker_panic` (violation) | 3 events, 2 connections, ring 2, channels 1 | a subscriber that leaves at the wrong moment costs the others an event |
| `bridge` | 2 requests, queue of 1, any frame too long, symmetry | queue, flag and order properties of the proxy, and that it implements `WireTap` |
| `bridge_liveness` | 1 request, queue of 1, any frame too long | forwarding never waits; both ends closed means stopped |
| `ingest` | 6 events of 2 proxies that share a request id, 1 give-up, 1 crash, faults on any statement of 2 events | index rows and titles against the events table |
| `hub` | 2 proxies and their hubs, 2 versions, heartbeat 2, timeout 3, 2 polls, 1 visit | idle stops, heartbeats, and that starts, races and stops end |
| `history` | 2 events, 2 connections, ring 2, channels 1, pages of 1 | the handoff and the cache |
| `history_reconnect` (violation) | 3 events, 2 connections, ring 3, channels 1 | a dropped event is not caught up on by a reconnect |
| `history_batch` (violation) | 3 events, 1 connection | a live event replaces the whole backfill |
| `transcript` | 4 events, 2 turns, message, summarised and raw reasoning, a command or an agent's closing | each event once, turns apart, and the refinement of `ThreadStory` |
| `transcript_unfinished` (violation) | 5 events, 1 turn of 2 utterances | the deltas of the second utterance are not shown |
| `workbench` | 2 sources, 2 threads, 2 steps of hub, user or failure | one thread at a time, deep links, recovery |

Why the bounds are enough: three events overflow a ring of two and a channel of one, leave
two publishers overlapping while a third has finished, and give a cursor that is in the
ring, evicted, and unknown; two connections give a subscriber to leave and one to stay. A queue
of one with four frames is full, empty and refilled while both pumps and the worker are
at the flag, in several episodes (the episodes are bounded by the frames, not by a cap). For its
liveness one request is enough: its answer meets the queue that the request has filled, with a worker that
need not take anything. In
`Ingest` two proxies give every pair of statements of different handlers in both orders;
`Faulty` has a call and a rename, so that each kind of derived statement but the completion fails on its own; every
statement can fail under a cancelled context. `MaxGiveUps` and `MaxCrashes` bound the other faults, and what a crash does does not depend on an
earlier one, because everything but the tables is gone. In `hub` a timeout of 3 against a
heartbeat of 2 is the tightest pair that satisfies the assumption and still has a tick between two
heartbeats; two proxies give two hubs that race, of one version or
of two, or one that starts while the other's drains. In `history` a page holds one row,
so two rows make two pages with an insertion behind the cursor, and two connections are a
remount or a reconnect. In `transcript` four events make a prompt with a delta, its final and a second
prompt, or a call from its begin to its end with an output between; `Radix` 3, `Epoch` 2 and
`Gaps` {0, 1} make stamps that are equal, that differ, and that cross the digit where the
strings' order is not the numbers'; the two families are the one with four phases and the one
whose status depends on its begin. The other families share the code's shape and the model's,
and differ in `ToolStatus` alone. Of the three
channels the message has its bucket to itself and the other two share one. In `workbench` the page is loaded over every hub of two
sources and two threads, up to exchanging their names (`Canonical`), with any hash, so the two
steps are left for what happens after the load: two moves, a click in the middle of a
poll, two failures. A poll of the sources that brings nothing new is left out
(`ReadSources`): whenever it arrived, it would change nothing. Every safety run has `CHECK_DEADLOCK FALSE`, because all events may
be published, all connections gone and all processes ended: the systems do stop.

Fairness. `ProxyBridge`
assumes that the pumps and `Run` are scheduled, that the two ends read what is
written to them, and that codex exits some time after its stdin is closed or the context
kills it; nothing of the worker or the hub, which is the point of `ForwardingNeverWaits`.
`HubLifecycle` assumes that processes and goroutines that can run do, and that time passes;
nothing of who starts, ends or stops anything. `Workbench` assumes that the polls go on
(react-query's intervals), that requests are answered, that the browser delivers its
events and that React renders and runs effects; nothing of the user and the hub, whose steps are
bounded, so that `SelectionSettles` speaks of what follows the last of them.
The other modules state safety only; that `Publish` never waits for a subscriber is stated as
`SendNeverWaits`, without fairness: its next step is always enabled.

### What the violation runs say about the code

Four comments or tests and the code disagree; `PROJECT.json` quotes each under `findings`:

- the panic of a send on a closed channel in `Publish`;
- an event dropped for a slow subscriber, which the comment says a reconnect catches up on: the
  tab's cursor has moved past it;
- in the hook, `onEvent` merging into an `eventsRef.current` that is assigned too late;
- in the fold, a bucket that the first final event of a turn terminates for the rest of it.

Smaller remarks met on the way, without a run of their own. `Run` waits for both ends,
against the comment at bridge.go:32, so that codex and the proxy stay when only the client has
closed. A session row lost to a crash is not backfilled once any session exists, against
store.go:356. `mcp_calls` is keyed by a request id that is only unique per client, so the call of
a second client has no row of its own, though ingest.go:134 calls the table an index of the
events. A thread that became known after the page load can be lost from the hash when the sources
return to an earlier order, whose cached lists lack it. An event that is published after the first page was read and
before the stream was registered reaches the tab by neither, and a stream whose cursor the ring no longer has starts
without a sign of the gap. The stream's URL names the thread, which sse.test.ts:28
calls a filter, but the hub never reads it (sse.go:29), so that other threads' events enter the
selected thread's history and cache. A click between a commit and its
effects may be overwritten by the effect's hash. Raw and summarised reasoning share a bucket, and a
delta and its final in one millisecond may be sorted the wrong way round, so that a text is
shown twice. The comment at query.go:221 says categories are not stored; they are.

## 4. Proofs

`BrokerProofs` proves, for every finite or infinite set of events and connections and every
positive `RingCap` and `ChanCap` (assumption `CapsAssumption`): `TypeOK`, `AtMostOnce`,
`NoSilentGap`, `NothingBeforeCursor`, `SequentialPublishesStayOrdered`, and `KeepsPromise`, the
refinement of `Multicast`.

None of these is inductive. `Inv` adds what the code relies on: the log has no event twice and
contains exactly the events whose publisher has entered the critical section; the ring is
a suffix of the log; and, per connection, the three places an event can be in (written, on
its way, owed by a publisher) hold each event once, hold only events after `start`, and
together with the dropped ones hold **all** of them while the connection is registered. The
argument: an event enters a connection's places only in `PublishLocked`, for registered
connections, and in `Subscribe`, which copies what is already in the log; since each is
atomic, an event is entered by one or by the other and never by both. Every other step moves one event
from one place to the next, or, in `SendDropped`, out of them. There is one lemma per
action or family of actions, the sequence facts they use are in `DataLemmas`, and the theorems
combine `InitInv` and `NextInv` with PTL.

The order of sequential publishes needs a second invariant, `SortedInv`: when one event's publisher has
finished before another's begins, the first is ahead of the second in the log, because the
lock orders the appends, and in every line of written, channel and replay, because a finished publisher
sends no more and replay is written before live. For the refinement, `Mapping` says what a
connection's line (`Coming`) and its standing are; `RefinesInit` and `RefinesStep` map the initial
states and each action, a send to a channel that is full to a loss, and most others to a stutter.

`ProxyBridgeProofs` proves, for any set of requests and any queue capacity (`BridgeAssumption`):
`TypeOK`, `ReturnsWithNothingHeld`, `OneWarningPerEpisode`, `EnvelopesAccountedFor` and
`RequestIngestedFirst`. `Seen`, `Apart` and `PumpSeen` say that each frame that was shown to the observer is
in exactly one of the places an envelope can be in, and that a pump has not shown what it has
yet to scan. `OrderInv` follows a request and its answer: the answer exists only once the request
was shown and written, so it enters the queue behind it, and the worker, being one, takes them
in that order. `OneWarningPerEpisode` counts warnings and recoveries still in a goroutine's hands
with those written; given the types it is inductive itself.

`ImplementsWireTap` proves the refinement of `WireTap` (`TapsTheWire`). `OneWire` says once what a
step of one pump does to the mapped variables. Then each pump action has its step: the two ends `Offer` a
frame that the wire never carried, `Observe` is `Show`, with a copy or without, `Write` is
`Pass` or, when it fails, `Cut`, the last scan is `Cut` too, and any other scan leaves `WireTap`
alone, because it moves a frame from the front of the input to the hand. Of the worker and the
hub, `ShipTapped` shows that a copy is heard of or missed by one step at most; it needs `Apart` of the
invariant, without which an envelope that is gone from one place might still be in another.

`IngestProofs` proves, for any proxies, envelopes, threads, ids, crashes and posts given up on
(`IngestAssumption`), with faults on any set of events: `TypeOK`, `AcknowledgedEventsAreIndexed`, `LiveThreadsAreListed`,
`TitleGivesWayToRenamesOnly`, `LatestRenameStands` and `AnsweredCallsAreCompleted`. The
handlers commit statement by statement, so what holds of an answered event must be said of one
that is half through: `RowsAreIn`, `CompletionsAreIn` and `RenamesAreIn` say that each
statement that is no longer in `todo` has left its row, unless a statement of the event failed, and `StatementsLeft` that the session's comes
first. `RowsHaveSenders` says of every row that the client it names has sent an event that may write it, a failed
or a dead handler's included. `PostsInOrder` is what keeps two handlers of one proxy apart: the worker goes on from a post only
when it has ended or was given up on. `TablesGrow` says once, of every step, what may become of a
row: neither a crash, a restart nor another client's statement takes one back.

`HubLifecycleProofs` proves, for every number of proxies and every `BeatEvery < IdleTimeout`
(`LifecycleAssumption`): `TypeOK`, `IdleStopFollowsSilence` and `HeartbeatsKeepTheHub`. The
invariant says that the timer and the silence run down together unless a touch is waiting
(`TimerInv`), that a hub that has not bound its port has a fresh timer (`FreshInv`), and, for
each pair of a running proxy and a hub, that the timer is no further run down than the
proxy's last beat is old, or that a touch is waiting on such a timer, or was sent by a proxy
that was only just launched (`KeptInv`). The third case is the race of `select`: it is left by
the first heartbeat, because a tick, and with it the choice of `select`, lies between.

`WorkbenchProofs` proves, for all sets of sources and threads and any `MaxSteps`:
`WorkbenchTypeOK`, `PaneShowsOneThread` and `DeepLinkRestores`. The first two come from the shape of
the lists (`QueryInv`: what is cached or in flight for some sources has lists of threads for those
sources, each with its first row) and of the render (`PaneInv`). The third is not inductive: that
the link is not passed over depends on lists that have been read but not delivered.
`LinkInv` says that the linked thread is in **every** list of its source that is cached or in
flight, and its source in every list of sources, so that no resolution against any
mixture of snapshots can miss it: either the lists are not there, and the tab shows nothing and
writes nothing, or they have it.

`SessionHistoryProofs` proves, for any events, connections, page limit and capacities
(`HistoryAssumption`, `CapsAssumption`): `HistoryTypeOK`, `HandoffLeavesNoGap` and `KeptOnlyGrows`. A step of the
composed system is a step of `Broker` or leaves it alone (`BrokerSteps`), so `Inv` of
`BrokerProofs` carries over. The hook's part adds: what is logged is stored; the connections
not opened yet are new; and, while the first stream of the mount lasts and was registered before a page
was read, every event that the stream is **not** served (`Backlog`, what was logged before it) is
paged in or still will be (`Paged`), because a page is an initial segment of the rows
after its cursor and the cursor is its last row. At the last page, backlog and stream
together are the log but for what the stream's full channel dropped, which the property
names as the only exception beside `outrun`. The lemmas on pages (`PageIsSegment`, `PageHasRows`, `LatestIsMember`)
rest on the library's facts about finite sets.

`TabRunsTheBroker` and `TabIsPromisedItsStream` close the composition: hiding store and hook, every
behaviour of `SessionHistory` is one of `Broker`, so `KeepsPromise`, `NoSilentGap` and
`AtMostOnce` hold of a tab's streams although `SessionHistory` checks none of them by a run.

`TranscriptProofs` proves, for any calls, turns, events, gaps and radix, and for every choice of
families, channels and end messages (`TranscriptAssumption`, `EndNamesReceiver`,
`RadixAssumption`): `EachEventOnce`, `TurnsDoNotMix`, and `KeepsTheStory`, the
refinement of `ThreadStory`. The fold has no state to be inductive about, so the invariant is one
of its inputs: each event is of its kind's shape (`ShelfOK`), turns only grow and begin with their
prompt (`TurnsInOrder`), a call begins with its begin (`BeginsFirst`), and the tab's list is a part of
the thread, in the thread's order, without repetition (`TabOK`). From there:

- `ItemsListed`: no two items have the same key, so the sorted list has each of them once.
- `EventHasItem` and `EventHasOneItem`: an event that is not hidden belongs to exactly one item, since
  families, streams and single parts share no event and a bucket is found by one id.
  So an event is shown once, or left out as wire traffic or as a delta of a **stream** that saw a
  final event (`ShownOnceEach`).
- `StreamOfUtterance` and `HiddenAsSuperseded`: such a stream is the bucket of the utterances that
  `Sharers` names, which turns this into `EachEventOnce`.
- `NoMixing`: each item goes by its first event (`Leads`), which is its begin if it is a call. With
  stamps that tell the events apart, the items are in the order of these first events, so between items
  of two turns the later turn's prompt comes, and a prompt starts a message.
- `KeepsStory`: what the screen says of a call, and of an utterance with a bucket to itself, is a
  function of the **set** of events the tab has; of any other utterance the final wording is
  (`FinalsShown`: a final is never hidden). A step of the tab only adds to that set (`SeenGrows`), and more
  events only move on what is said of a call (`CallMoves`) and of an utterance (`WordsMove`).

The code knows buckets and no utterances: all that a channel says in a turn goes into one, and raw and
summarised reasoning into the same. That text is not taken away before its own final wording comes is therefore
promised only of an utterance that has its bucket to itself. Of the others, which `ThreadStory` calls
crowded, it is false, as the run `transcript_unfinished` shows by two messages in a turn; what holds of them is
that only a final wording of their bucket takes text away, and that a final wording stays. An
earlier version assumed such threads away (one utterance per channel and turn, at most one kind of
reasoning); both theorems now hold for every thread.

Two attempts failed for a reason and changed the model. Some `CASE`s had guards that overlap
(the kinds of single parts, the statuses of tool calls, the sidebar's states): their value is then not
determined by TLA+, though TLC takes the first; they are now nested conditions or disjoint guards, in the
code's order. And
`TurnsDoNotMix` did not ask for the begins: a command with input in one turn and output in the next is,
in a tab that lacks its begin, placed by the output, among the parts of the later turn. The
smallest case has six events, two more than the run, so that TLC had not met it.

Only model-checked: liveness under fairness (`ForwardingNeverWaits`, `BothEndsCloseStopsProxy`, `StartEnds`,
`HubServesOrEnds`, `IdleHubsStop`, `SelectionSettles`) and `SendNeverWaits`, which is about ENABLED:
both are out of the prover's reach. What the violation runs refute is TLC's as well.

## 5. Not modelled, and why

Rendering components, generated `sqlc` code, the schema migration, and reads of the process
table carry no state of their own. `readonly-assistant-runtime.ts` turns each part into the
message format of the chat library, case by case; a model would be a table of its cases.
Inside modelled files: `onParseError` (the hub only
sends what `json.Marshal` produced), status callbacks, the early returns of handlers for a
hub without a store or a broker, which `NewApp` never builds, malformed requests, the header's
title and the decoding of base64 output (text is abstract), the guess of a category for rows
older than the column, react-query's garbage collection, what `historyCache` has of a thread when
it is selected again (`Workbench`; `SessionHistory` has the cache of one thread), and
the table `proxies` with its heartbeats, which no page reads. A SQLite statement is atomic. It may fail
for reasons of the store's own in `Ingest`; in the other modules, which know the hub by its answers, a request
fails as a whole.

## 6. Plan

What is left:

1. What a transcript owes a reader whose text matters: the raw and summarised reasoning
   that share a bucket, and text under a bucket's ties.
2. A second mount of another thread over `historyCache`, which would join `Workbench` and
   `SessionHistory`, and with it the proof of what a pane's history may hold once the stream
   is filtered by thread.
