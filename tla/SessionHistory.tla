--------------------------- MODULE SessionHistory ---------------------------
(***************************************************************************)
(* One browser tab's view of a thread (web/src/lib/session-history.ts and  *)
(* sse.ts) over the hub: useSessionHistory opens the event stream, pages   *)
(* the stored events in, merges both, and keeps a cache across mounts.     *)
(* The stream is served by Broker; an event is stored before its handler   *)
(* publishes it (ingest.go).                                               *)
(*                                                                         *)
(* Connections are numbered in the order the tab opens them.  The stream   *)
(* request and the first page request leave together and reach the hub in  *)
(* either order.  Rank stands for both orders of the rows: the store's     *)
(* (occurred_at, event_id) and the tab's (timestamp, event_id).            *)
(*                                                                         *)
(* updateEvents hands React an updater function, and it is the updater     *)
(* that assigns eventsRef.current and the cache.  React runs it at once or *)
(* at the next render, as it likes, and never at once when another update  *)
(* waits for the render.                                                   *)
(***************************************************************************)
EXTENDS Broker, FiniteSets

CONSTANTS
    InThread,   \* the events of the selected thread; the others are not its
    Rank,       \* an event's place by (occurred_at, event_id)
    PageLimit   \* 500 in session-history.ts

ASSUME HistoryAssumption ==
    /\ InThread \subseteq Events
    /\ Rank \in [Events -> Nat \ {0}]
    /\ \A e, f \in Events : Rank[e] = Rank[f] => e = f
    /\ PageLimit \in Nat \ {0}
    /\ Conns \subseteq Nat \ {0}

VARIABLES
    stored,     \* table events
    status,     \* the hook: off, loading, ready, error
    live,       \* the connection the tab listens to, 0 if none
    used,       \* how many connections it has opened
    asked,      \* since, then the last event id the library saw
    page,       \* the rank the page asked for starts after
    answer,     \* that page on its way to the tab, in a sequence
    persisted,  \* the rows paged in by this mount
    buffered,   \* what onEvent got in this mount
    kept,       \* eventsRef.current, and the thread's entry in historyCache
    queued,     \* what kept is once the waiting updaters have run
    dirty,      \* an update waits for React to render it
    joinedFirst,\* history: this mount's first stream was registered before a
                \* page was read, and no page failed
    resumed,    \* history: this mount's stream was reopened
    outrun      \* history: what a waiting update had that the next one lacks

hookVars == <<status, live, used, asked, page, answer, persisted, buffered,
              kept, queued, dirty, joinedFirst, resumed, outrun>>
viewVars == <<kept, queued, dirty, outrun>>
allVars  == <<vars, stored, hookVars>>

Latest(S)  == CHOOSE e \in S : \A f \in S : Rank[f] <= Rank[e]
SinceOf(S) == IF S = {} THEN NoCursor ELSE Latest(S)

HistoryInit ==
    /\ Init
    /\ stored      = {}
    /\ status      = "off"
    /\ live        = 0
    /\ used        = 0
    /\ asked       = NoCursor
    /\ page        = 0
    /\ answer      = << >>
    /\ persisted   = {}
    /\ buffered    = {}
    /\ kept        = {}
    /\ queued      = {}
    /\ dirty       = FALSE
    /\ joinedFirst = FALSE
    /\ resumed     = FALSE
    /\ outrun      = {}

-----------------------------------------------------------------------------
(* The hub.                                                                *)

StoreEvent(e) ==
    /\ e \notin stored
    /\ stored' = stored \cup {e}
    /\ UNCHANGED <<vars, hookVars>>

\* Mutant of PublishStored: the event is published before it is stored.
PublishUnstored(e) ==
    /\ Publish(e)
    /\ UNCHANGED <<stored, hookVars>>

PublishStored(e) ==
    /\ e \in stored
    /\ Publish(e)
    /\ UNCHANGED <<stored, hookVars>>

\* The tab's stream request reaches the hub.
StreamOpens ==
    /\ live # 0
    /\ Subscribe(live, asked)
    /\ joinedFirst' = IF resumed THEN joinedFirst
                      ELSE status = "loading" /\ page = 0 /\ answer = << >>
    /\ UNCHANGED <<stored, status, live, used, asked, page, answer, persisted, buffered,
                   viewVars, resumed>>

\* The rows of a page: in order, after the cursor, at most PageLimit of them.
RowsAfter(r) == {e \in stored \cap InThread : Rank[e] > r}
PageRows(r)  == {e \in RowsAfter(r) :
                   Cardinality({f \in RowsAfter(r) : Rank[f] <= Rank[e]}) <= PageLimit}

\* sessionEventsHandler reads a page; it is full and not the last one when the
\* query's extra row is there.
ServePage ==
    /\ status = "loading" /\ answer = << >>
    /\ answer' = <<[rows |-> PageRows(page), more |-> PageRows(page) # RowsAfter(page)]>>
    /\ UNCHANGED <<vars, stored, status, live, used, asked, page, persisted,
                   buffered, viewVars, joinedFirst, resumed>>

\* What the hub writes to a connection the tab has left goes nowhere.
OrphanWrite(c) ==
    /\ c # live
    /\ StreamWrite(c)
    /\ UNCHANGED <<stored, hookVars>>

\* The stream handler of a connection the tab has left notices, now or later.
HandlerEnds(c) ==
    /\ c # live
    /\ Unsubscribe(c)
    /\ UNCHANGED <<stored, hookVars>>

-----------------------------------------------------------------------------
(* The hook.                                                               *)

\* The effect runs: the stream is asked for from the latest cached event on,
\* and the first page is requested without waiting for it.
Mount ==
    /\ status = "off"
    /\ used + 1 \in Conns
    /\ status'      = "loading"
    /\ used'        = used + 1
    /\ live'        = used + 1
    /\ asked'       = SinceOf(kept)
    /\ page'        = 0
    /\ answer'      = << >>
    /\ persisted'   = {}
    /\ buffered'    = {}
    /\ joinedFirst' = FALSE
    /\ resumed'     = FALSE
    /\ outrun'      = {}
    /\ UNCHANGED <<vars, stored, kept, queued, dirty>>

\* updateEvents: the updater runs now or at the next render.
UpdateEvents(S) ==
    /\ queued' = S
    /\ dirty'  = TRUE
    /\ kept' \in IF dirty THEN {kept} ELSE {kept, S}
    /\ outrun' = outrun \cup (queued \ S)

Render ==
    /\ dirty
    /\ kept'  = queued
    /\ dirty' = FALSE
    /\ UNCHANGED <<vars, stored, status, live, used, asked, page, answer, persisted,
                   buffered, queued, joinedFirst, resumed, outrun>>

\* onEvent: buffered until the handoff, merged into eventsRef.current after it.
\* Nothing looks at the event's thread, here or in the hub.
OnEvent ==
    /\ live # 0
    /\ StreamWrite(live)
    /\ LET e == written'[live][Len(written'[live])] IN
       /\ buffered' = buffered \cup {e}
       /\ asked'    = e
       /\ IF status = "loading"
          THEN UNCHANGED <<status, viewVars>>
          ELSE status' = "ready" /\ UpdateEvents(kept \cup {e})
    /\ UNCHANGED <<stored, live, used, page, answer, persisted, joinedFirst, resumed>>

\* A page that is not the last one names its last row as the cursor.
NextPage ==
    /\ status = "loading" /\ answer # << >>
    /\ answer[1].more
    /\ persisted' = persisted \cup answer[1].rows
    /\ page'      = Rank[Latest(answer[1].rows)]
    /\ answer'    = << >>
    /\ UNCHANGED <<vars, stored, status, live, used, asked, buffered, viewVars,
                   joinedFirst, resumed>>

\* Mutant of LastPage: what arrived during the backfill is not merged in.
LastPageUnmerged ==
    /\ status = "loading" /\ answer # << >>
    /\ ~answer[1].more
    /\ persisted' = persisted \cup answer[1].rows
    /\ answer'    = << >>
    /\ status'    = "ready"
    /\ UpdateEvents(kept \cup persisted')
    /\ UNCHANGED <<vars, stored, live, used, asked, page, buffered, joinedFirst, resumed>>

\* The last page: the handoff merges cache, pages and buffer.
LastPage ==
    /\ status = "loading" /\ answer # << >>
    /\ ~answer[1].more
    /\ persisted' = persisted \cup answer[1].rows
    /\ answer'    = << >>
    /\ status'    = "ready"
    /\ UpdateEvents(kept \cup persisted' \cup buffered)
    /\ UNCHANGED <<vars, stored, live, used, asked, page, buffered, joinedFirst, resumed>>

\* Mutant of PageFails: only the buffer is kept.
PageFailsForgets ==
    /\ status = "loading"
    /\ status' = "error"
    /\ UpdateEvents(buffered)
    /\ answer' = << >>
    /\ joinedFirst' = FALSE
    /\ UNCHANGED <<vars, stored, live, used, asked, page, persisted, buffered,
                   resumed>>

\* A page fails. The next live event makes the status "ready" all the same.
PageFails ==
    /\ status = "loading"
    /\ status' = "error"
    /\ UpdateEvents(kept \cup buffered)
    /\ answer' = << >>
    /\ joinedFirst' = FALSE
    /\ UNCHANGED <<vars, stored, live, used, asked, page, persisted, buffered,
                   resumed>>

\* The connection breaks and fetch-event-source asks again with the last event
\* id it has seen; what the old connection still carries is lost to the tab.
Reconnect ==
    /\ live # 0
    /\ used + 1 \in Conns
    /\ used'    = used + 1
    /\ live'    = used + 1
    /\ resumed' = TRUE
    /\ UNCHANGED <<vars, stored, status, asked, page, answer, persisted, buffered, viewVars,
                   joinedFirst>>

\* The effect's cleanup: the stream is aborted, a load in progress is ignored.
\* The render that changes the thread runs what waited for it.
Unmount ==
    /\ status # "off"
    /\ status' = "off"
    /\ live'   = 0
    /\ kept'   = queued
    /\ dirty'  = FALSE
    /\ answer' = << >>
    /\ UNCHANGED <<vars, stored, used, asked, page, persisted, buffered, queued,
                   joinedFirst, resumed, outrun>>

HistoryNext ==
    \/ \E e \in Events : StoreEvent(e) \/ PublishStored(e)
    \/ \E c \in Conns : OrphanWrite(c) \/ HandlerEnds(c)
    \/ StreamOpens \/ OnEvent \/ ServePage \/ Render
    \/ Mount \/ NextPage \/ LastPage \/ PageFails \/ Reconnect \/ Unmount

HistorySpec == HistoryInit /\ [][HistoryNext]_allVars

-----------------------------------------------------------------------------

HistoryTypeOK ==
    /\ TypeOK
    /\ stored \subseteq Events
    /\ status \in {"off", "loading", "ready", "error"}
    /\ live \in {0} \cup Conns /\ used \in {0} \cup Conns /\ live <= used
    /\ asked \in Events \cup {NoCursor}
    /\ page \in Nat
    /\ Len(answer) <= 1
    /\ \A i \in DOMAIN answer : answer[i] \in [rows : SUBSET stored, more : BOOLEAN]
    /\ persisted \subseteq stored /\ buffered \subseteq stored
    /\ kept \subseteq queued /\ queued \subseteq stored
    /\ outrun \subseteq stored
    /\ dirty \in BOOLEAN /\ joinedFirst \in BOOLEAN /\ resumed \in BOOLEAN

\* The tab has everything its stream has for it, nobody owes it more, and
\* React has nothing left to render.
CaughtUp ==
    /\ status = "ready" /\ ~dirty
    /\ live # 0 /\ conn[live] = "open"
    /\ replay[live] = << >> /\ chan[live] = << >> /\ Owed(live) = {}

\* With the stream registered before the first page was read, the handoff
\* leaves no gap: every published event of the thread is kept, however many
\* were stored, published or paged in meanwhile, but for what the full channel
\* dropped or an update outran (session-history.ts 191-242).
HandoffLeavesNoGap ==
    CaughtUp /\ joinedFirst /\ ~resumed
    => Range(log) \cap InThread \subseteq kept \cup outrun \cup dropped[live]

\* What the tab has of a thread never disappears: not at a handoff, not when
\* a page fails or an update outruns another, not when the thread is left and
\* selected again (the merges and the cache of session-history.ts 163-216).
KeptOnlyGrows == [][kept \subseteq kept']_allVars

\* "merges replay/live events into authoritative history"
\* (session-history.test.ts:116): once a backfill with no failed page has been
\* handed off and rendered, the tab has every event its stream gave it.
ReceivedIsKept ==
    status = "ready" /\ joinedFirst /\ ~dirty => buffered \subseteq kept

\* "Drop event on slow subscriber; the reconnect contract lets them catch up via
\* Last-Event-ID" (broker.go:63): what a full channel dropped from an earlier
\* stream of the mount, and the ring still has, the tab has once it has caught
\* up on a reopened one, if the ring knows its last event id.
ReconnectCatchesUp ==
    CaughtUp /\ joinedFirst /\ resumed /\ dropped[live] = {} /\ asked \in Range(ring) =>
        \A c \in 1 .. live - 1 :
            dropped[c] \cap Range(ring) \cap InThread \subseteq kept \cup outrun
=============================================================================
