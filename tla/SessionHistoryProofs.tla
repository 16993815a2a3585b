------------------------- MODULE SessionHistoryProofs -------------------------
(***************************************************************************)
(* Theorems about a tab over the broker, for any events, connections, page *)
(* limit and capacities.  The broker's invariant carries over, because a   *)
(* step of the composed system is one of the broker's or leaves it alone.  *)
(*                                                                         *)
(* The argument for the handoff: what a stream is not served (Backlog) was *)
(* logged, hence stored, when the stream was registered; if no page had    *)
(* been read by then, the pages that are still to come have it, because a  *)
(* page is an initial segment of the rows after its cursor.                *)
(***************************************************************************)
EXTENDS SessionHistory, BrokerProofs

-----------------------------------------------------------------------------
(* Sets of events and their ranks.                                         *)

\* A finite set of events has a latest one.
LEMMA LatestIsMember ==
    ASSUME NEW S, S \subseteq Events, IsFiniteSet(S), S # {}
    PROVE  Latest(S) \in S /\ \A f \in S : Rank[f] <= Rank[Latest(S)]
<1> DEFINE Later(e) == {f \in S : Rank[e] < Rank[f]}
           count    == [e \in S |-> Cardinality(Later(e))]
<1>1. \A e \in Events : Rank[e] \in Nat
  BY HistoryAssumption
<1>2. \A e \in S : IsFiniteSet(Later(e)) /\ count[e] = Cardinality(Later(e))
  BY FS_Subset
<1>3. \A e \in S : count[e] \in Nat
  BY <1>2, FS_CardinalityType
<1>4. PICK x \in S : \A y \in S : count[x] <= count[y]
  <2> HIDE DEF count
  <2> QED BY <1>3, LeastValue
<1>5. \A f \in S : Rank[f] <= Rank[x]
  <2> SUFFICES ASSUME NEW f \in S, Rank[x] < Rank[f] PROVE FALSE
    BY <1>1
  <2>1. Later(f) \subseteq Later(x) /\ f \in Later(x) /\ f \notin Later(f)
    BY <1>1
  <2>2. Later(f) \in SUBSET Later(x) /\ Later(f) # Later(x)
    BY <2>1
  <2>3. Cardinality(Later(f)) < Cardinality(Later(x))
    <3> HIDE DEF Later
    <3> QED BY <1>2, <2>2, FS_Subset, FS_CardinalityType
  <2> QED BY <1>2, <1>3, <1>4, <2>3
<1> QED BY <1>5 DEF Latest

\* Where a new stream is asked to start.
LEMMA SinceIsEvent ==
    ASSUME NEW S, S \subseteq Events, IsFiniteSet(S)
    PROVE  SinceOf(S) \in Events \cup {NoCursor}
BY LatestIsMember DEF SinceOf

-----------------------------------------------------------------------------
(* Pages.                                                                  *)

\* A row that is left out of a page comes after all that are in it.
LEMMA PageIsSegment ==
    ASSUME IsFiniteSet(stored), stored \subseteq Events, NEW r \in Nat,
           NEW e \in RowsAfter(r) \ PageRows(r), NEW f \in PageRows(r)
    PROVE  Rank[f] < Rank[e]
<1> DEFINE UpTo(g) == {h \in RowsAfter(r) : Rank[h] <= Rank[g]}
<1>1. f \in RowsAfter(r) /\ Cardinality(UpTo(f)) <= PageLimit
  BY DEF PageRows
<1>2. \A g \in RowsAfter(r) : g \in Events /\ Rank[g] \in Nat
  BY HistoryAssumption DEF RowsAfter
<1>3. \A g : IsFiniteSet(UpTo(g)) /\ Cardinality(UpTo(g)) \in Nat
  <2> SUFFICES ASSUME NEW g PROVE IsFiniteSet(UpTo(g)) /\ Cardinality(UpTo(g)) \in Nat
    OBVIOUS
  <2>1. UpTo(g) \in SUBSET stored
    BY DEF RowsAfter
  <2> HIDE DEF UpTo
  <2> QED BY <2>1, FS_Subset, FS_CardinalityType
<1>4. ~ (Cardinality(UpTo(e)) <= PageLimit)
  BY DEF PageRows
<1>5. Rank[e] <= Rank[f] => Cardinality(UpTo(e)) <= Cardinality(UpTo(f))
  <2> SUFFICES ASSUME Rank[e] <= Rank[f]
               PROVE  Cardinality(UpTo(e)) <= Cardinality(UpTo(f))
    OBVIOUS
  <2>1. UpTo(e) \in SUBSET UpTo(f)
    BY <1>1, <1>2
  <2> HIDE DEF UpTo
  <2> QED BY <1>3, <2>1, FS_Subset
<1>6. PageLimit \in Nat
  BY HistoryAssumption
<1>7. ~ (Rank[e] <= Rank[f])
  <2> HIDE DEF UpTo
  <2> QED BY <1>1, <1>3, <1>4, <1>5, <1>6
<1> QED BY <1>1, <1>2, <1>7

\* A page that is not the last one has a row, and so a cursor.
LEMMA PageHasRows ==
    ASSUME IsFiniteSet(stored), stored \subseteq Events, NEW r \in Nat,
           PageRows(r) # RowsAfter(r)
    PROVE  PageRows(r) # {}
<1>1. \A g \in RowsAfter(r) : g \in Events /\ Rank[g] \in Nat
  BY HistoryAssumption DEF RowsAfter
<1>2. RowsAfter(r) # {}
  BY DEF PageRows
<1>3. PICK x \in RowsAfter(r) : \A y \in RowsAfter(r) : Rank[x] <= Rank[y]
  BY <1>1, <1>2, LeastValue
<1>4. {h \in RowsAfter(r) : Rank[h] <= Rank[x]} = {x}
  BY <1>1, <1>3, HistoryAssumption
<1>5. Cardinality({x}) <= PageLimit
  <2>1. Cardinality({x}) = 1
    BY FS_Singleton
  <2>2. 1 <= PageLimit
    BY HistoryAssumption
  <2> QED BY <2>1, <2>2
<1>6. x \in PageRows(r)
  BY <1>4, <1>5 DEF PageRows
<1> QED BY <1>6

-----------------------------------------------------------------------------
(* The inductive invariant.                                                *)

\* What was logged before a stream was registered, and is not replayed to it.
Backlog(c) == Range(log) \ Served(c)

\* Only what is stored is published, paged or kept.
StoredOK ==
    /\ stored \subseteq Events /\ IsFiniteSet(stored)
    /\ Range(log) \subseteq stored
    /\ persisted \subseteq stored /\ buffered \subseteq stored
    /\ kept \subseteq queued /\ queued \subseteq stored
    /\ outrun \subseteq stored
    /\ ~dirty => kept = queued

\* The connections the tab has not opened yet are new.
StreamsOK ==
    /\ live \in {0} \cup Conns /\ used \in {0} \cup Conns /\ live <= used
    /\ \A c \in Conns : used < c => conn[c] = "new"
    /\ asked \in Events \cup {NoCursor}
    /\ live \in Conns => Range(written[live]) \subseteq buffered

PagesOK ==
    /\ page \in Nat
    /\ answer = << >> \/ \E S \in SUBSET stored, m \in BOOLEAN :
          answer = <<[rows |-> S, more |-> m]>> /\ (m => S # {})

FlagsOK ==
    /\ status \in {"off", "loading", "ready", "error"}
    /\ {dirty, joinedFirst, resumed} \subseteq BOOLEAN

\* The event has been paged in or still will be.
Paged(e) ==
    \/ e \in persisted
    \/ /\ page < Rank[e]
       /\ answer # << >> =>
             \/ e \in answer[1].rows
             \/ answer[1].more /\ \A r \in answer[1].rows : Rank[r] < Rank[e]

\* While the first stream of the mount lasts and was registered in time.
HandoffOK ==
    joinedFirst /\ ~resumed /\ live \in Conns =>
        /\ conn[live] # "new"
        /\ status \in {"loading", "ready"}
        /\ status = "loading" => \A e \in Backlog(live) \cap InThread : Paged(e)
        /\ status = "ready" =>
               (Backlog(live) \cup Range(written[live])) \cap InThread
                   \subseteq queued \cup outrun

HookInv == StoredOK /\ StreamsOK /\ PagesOK /\ FlagsOK /\ HandoffOK

HistoryInv == Inv /\ HookInv

-----------------------------------------------------------------------------
(* The broker's part of a step.                                            *)

LEMMA ConnNumbers == \A c \in Conns : c \in Nat /\ c >= 1
BY HistoryAssumption

\* Every step of the composed system is one of the broker's, or none.
LEMMA BrokerSteps == HookInv /\ [HistoryNext]_allVars => [Next]_vars
<1> SUFFICES ASSUME HookInv, [HistoryNext]_allVars PROVE [Next]_vars
  OBVIOUS
<1>1. CASE UNCHANGED allVars
  BY <1>1 DEF allVars
<1>2. ASSUME NEW e \in Events, StoreEvent(e) \/ PublishStored(e)
      PROVE  [Next]_vars
  BY <1>2 DEF StoreEvent, PublishStored, Next
<1>3. ASSUME NEW c \in Conns, OrphanWrite(c) \/ HandlerEnds(c)
      PROVE  [Next]_vars
  BY <1>3 DEF OrphanWrite, HandlerEnds, Next
<1>4. CASE StreamOpens
  <2>1. live \in Conns /\ asked \in Events \cup {NoCursor}
    BY <1>4 DEF StreamOpens, HookInv, StreamsOK
  <2> QED BY <1>4, <2>1 DEF StreamOpens, Next
<1>5. CASE OnEvent
  <2>1. live \in Conns
    BY <1>5 DEF OnEvent, HookInv, StreamsOK
  <2> QED BY <1>5, <2>1 DEF OnEvent, Next
<1>6. ASSUME ServePage \/ Render \/ Mount \/ NextPage \/ LastPage \/ PageFails
               \/ Reconnect \/ Unmount
      PROVE  [Next]_vars
  BY <1>6 DEF ServePage, Render, Mount, NextPage, LastPage, PageFails,
              Reconnect, Unmount
<1> QED BY <1>1, <1>2, <1>3, <1>4, <1>5, <1>6 DEF HistoryNext

\* What the broker's steps do to what the invariant speaks of: the log grows
\* by what is published and no stream's backlog changes.
LEMMA LogSteps ==
    ASSUME Inv, [Next]_vars
    PROVE  /\ \A c \in Conns : conn[c] # "new" =>
                 conn'[c] # "new" /\ Backlog(c)' = Backlog(c)
           /\ Range(log)' = Range(log) \/ \E e \in Events :
                 PublishLocked(e) /\ Range(log)' = Range(log) \cup {e}
<1> USE DEF pubVars, connVars
<1>1. TypeOK /\ log \in Seq(Events) /\ IsInjective(log) /\ Len(log) \in Nat
  BY DEF Inv, LogOK, TypeOK
<1>2. ASSUME NEW e \in Events, PublishLocked(e)
      PROVE  /\ \A c \in Conns : conn'[c] = conn[c] /\ Backlog(c)' = Backlog(c)
             /\ Range(log)' = Range(log) \cup {e}
  <2>1. /\ log' = Append(log, e) /\ UNCHANGED <<conn, start>>
        /\ e \notin Range(log)
    BY <1>2 DEF PublishLocked, Inv, LogOK
  <2>2. Range(log)' = Range(log) \cup {e}
    BY <1>1, <2>1, AppendElems DEF Range
  <2>3. ASSUME NEW c \in Conns PROVE Backlog(c)' = Backlog(c)
    <3>1. start[c] \in 0 .. Len(log)
      BY <1>1 DEF Inv, ConnOK, ServedOK, TypeOK
    <3>2. Served(c)' = Served(c) \cup {e}
      <4>1. Len(log') = Len(log) + 1 /\ start'[c] = start[c] /\ log'[Len(log) + 1] = e
            /\ \A i \in 1 .. Len(log) : log'[i] = log[i]
        BY <1>1, <2>1
      <4>2. start[c] + 1 .. Len(log) + 1 = (start[c] + 1 .. Len(log)) \cup {Len(log) + 1}
        BY <1>1, <3>1
      <4>3. \A i \in start[c] + 1 .. Len(log) : i \in 1 .. Len(log)
        BY <1>1, <3>1
      <4> QED BY <4>1, <4>2, <4>3 DEF Served
    <3> QED BY <2>1, <2>2, <3>2 DEF Backlog
  <2> QED BY <2>1, <2>2, <2>3
<1>3. ASSUME NEW c \in Conns, NEW cursor, Subscribe(c, cursor)
      PROVE  /\ log' = log
             /\ \A d \in Conns : conn[d] # "new" =>
                   conn'[d] # "new" /\ start'[d] = start[d]
  BY <1>1, <1>3 DEF Subscribe, TypeOK
<1>4. ASSUME NEW c \in Conns, StreamWrite(c) \/ Unsubscribe(c)
      PROVE  /\ log' = log /\ start' = start
             /\ \A d \in Conns : conn[d] # "new" => conn'[d] # "new"
  BY <1>1, <1>4 DEF StreamWrite, WriteReplay, WriteLive, Unsubscribe,
     ReplayWriteFails, LiveWriteFails, ContextDone, CloseChannel, TypeOK
<1>5. ASSUME NEW e \in Events, Publish(e), ~PublishLocked(e)
      PROVE  UNCHANGED <<log, start, conn>>
  BY <1>5 DEF Publish, SendTaken, SendDropped, SendPanics, PublishReturns
<1>6. ASSUME log' = log,
             \A d \in Conns : conn[d] # "new" =>
                 conn'[d] # "new" /\ start'[d] = start[d]
      PROVE  /\ Range(log)' = Range(log)
             /\ \A c \in Conns : conn[c] # "new" =>
                   conn'[c] # "new" /\ Backlog(c)' = Backlog(c)
  BY <1>6 DEF Range, Backlog, Served
<1>7. CASE UNCHANGED vars
  BY <1>6, <1>7 DEF vars
<1>8. ASSUME NEW e \in Events, Publish(e)
      PROVE  /\ \A c \in Conns : conn[c] # "new" =>
                   conn'[c] # "new" /\ Backlog(c)' = Backlog(c)
             /\ Range(log)' = Range(log) \/
                   (PublishLocked(e) /\ Range(log)' = Range(log) \cup {e})
  BY <1>2, <1>5, <1>6, <1>8
<1> QED BY <1>3, <1>4, <1>6, <1>7, <1>8 DEF Next

\* A stream is only ever sent what was published.
LEMMA WrittenIsLogged ==
    ASSUME Inv, NEW c \in Conns
    PROVE  /\ Range(written[c]) \subseteq Range(log)
           /\ conn[c] = "new" => Range(written[c]) = {}
<1>1. ConnOK(c)
  BY DEF Inv
<1>2. conn[c] = "new" => Range(written[c]) = {}
  BY <1>1 DEF ConnOK, FreshOK, Range
<1>3. start[c] \in Nat /\ log \in Seq(Events)
  BY DEF Inv, TypeOK
<1>4. Served(c) \subseteq Range(log)
  BY <1>3 DEF Served, Range
<1>5. conn[c] # "new" => Range(written[c]) \subseteq Served(c)
  BY <1>1 DEF ConnOK, ServedOK, Places
<1> QED BY <1>2, <1>4, <1>5

-----------------------------------------------------------------------------
(* Each action keeps the hook's part of the invariant.                     *)

LEMMA HookInit == HistoryInit => HookInv
<1> SUFFICES ASSUME HistoryInit PROVE HookInv
  OBVIOUS
<1>1. Range(log) = {}
  BY DEF HistoryInit, Init, Range
<1>2. StoredOK
  BY <1>1, FS_EmptySet DEF HistoryInit, StoredOK
<1>3. StreamsOK
  BY ConnNumbers DEF HistoryInit, Init, StreamsOK
<1>4. PagesOK /\ FlagsOK /\ HandoffOK
  BY DEF HistoryInit, PagesOK, FlagsOK, HandoffOK
<1> QED BY <1>2, <1>3, <1>4 DEF HookInv

\* An event is stored or published, or the hub serves a stream the tab left.
LEMMA HubStepInv ==
    ASSUME Inv, HookInv, [Next]_vars,
           \/ \E e \in Events : StoreEvent(e) \/ PublishStored(e)
           \/ \E c \in Conns : OrphanWrite(c) \/ HandlerEnds(c)
    PROVE  HookInv'
<1> DEFINE Steps ==
        /\ UNCHANGED hookVars
        /\ stored \subseteq stored' /\ stored' \subseteq Events
        /\ IsFiniteSet(stored') /\ Range(log)' \subseteq stored'
        /\ \A c \in Conns : conn[c] = "new" => conn'[c] = "new"
        /\ live \in Conns => written'[live] = written[live]
<1>0. TypeOK /\ stored \subseteq Events /\ IsFiniteSet(stored) /\ Range(log) \subseteq stored
  BY DEF Inv, HookInv, StoredOK
<1>1. ASSUME NEW e \in Events, StoreEvent(e) PROVE Steps
  <2>1. IsFiniteSet(stored \cup {e})
    BY <1>0, FS_AddElement
  <2>2. Range(log)' = Range(log) /\ conn' = conn /\ written' = written
    BY <1>1 DEF StoreEvent, vars, connVars, Range
  <2> QED BY <1>0, <1>1, <2>1, <2>2 DEF StoreEvent
<1>2. ASSUME NEW e \in Events, PublishStored(e) PROVE Steps
  <2>1. UNCHANGED <<stored, hookVars>> /\ e \in stored /\ Publish(e)
    BY <1>2 DEF PublishStored
  <2>2. conn' = conn /\ written' = written
    BY <2>1 DEF Publish, PublishLocked, SendTaken, SendDropped, SendPanics,
                PublishReturns, connVars
  <2>3. Range(log)' \subseteq stored
    <3>1. CASE PublishLocked(e)
      <4>1. log \in Seq(Events) /\ log' = Append(log, e)
        BY <1>0, <3>1 DEF TypeOK, PublishLocked
      <4>2. Range(log)' = Range(log) \cup {e}
        BY <4>1, AppendElems DEF Range
      <4> QED BY <1>0, <2>1, <4>2
    <3>2. CASE ~PublishLocked(e)
      <4>1. log' = log
        BY <2>1, <3>2 DEF Publish, SendTaken, SendDropped, SendPanics, PublishReturns
      <4> QED BY <1>0, <4>1 DEF Range
    <3> QED BY <3>1, <3>2
  <2> QED BY <1>0, <2>1, <2>2, <2>3
<1>3. ASSUME NEW c \in Conns, OrphanWrite(c) PROVE Steps
  <2>1. /\ UNCHANGED <<stored, hookVars, log, conn>> /\ c # live
        /\ \A d \in Conns \ {c} : written'[d] = written[d]
    BY <1>0, <1>3 DEF OrphanWrite, StreamWrite, WriteReplay, WriteLive, TypeOK
  <2>2. Range(log)' = Range(log)
    BY <2>1 DEF Range
  <2> QED BY <1>0, <2>1, <2>2
<1>4. ASSUME NEW c \in Conns, HandlerEnds(c) PROVE Steps
  <2>1. /\ UNCHANGED <<stored, hookVars, log, written>>
        /\ conn[c] # "new"
        /\ \A d \in Conns \ {c} : conn'[d] = conn[d]
    BY <1>0, <1>4 DEF HandlerEnds, Unsubscribe, ReplayWriteFails,
       LiveWriteFails, ContextDone, CloseChannel, TypeOK
  <2>2. Range(log)' = Range(log)
    BY <2>1 DEF Range
  <2> QED BY <1>0, <2>1, <2>2
<1>5. Steps
  BY <1>1, <1>2, <1>3, <1>4
<1> HIDE DEF Steps
<1> USE DEF hookVars, viewVars
<1>6. StoredOK'
  BY <1>5 DEF Steps, HookInv, StoredOK
<1>7. StreamsOK'
  <2>1. live \in Conns => Range(written[live])' = Range(written[live])
    BY <1>5 DEF Steps, Range
  <2> QED BY <1>5, <2>1 DEF Steps, HookInv, StreamsOK
<1>8. PagesOK' /\ FlagsOK'
  BY <1>5 DEF Steps, HookInv, PagesOK, FlagsOK
<1>9. HandoffOK'
  <2> SUFFICES ASSUME joinedFirst, ~resumed, live \in Conns PROVE HandoffOK'
    BY <1>5 DEF Steps, HandoffOK
  <2>1. conn[live] # "new"
    BY DEF HookInv, HandoffOK
  <2>2. conn'[live] # "new" /\ Backlog(live)' = Backlog(live)
    <3>1. \A c \in Conns : conn[c] # "new" =>
             conn'[c] # "new" /\ Backlog(c)' = Backlog(c)
      BY LogSteps
    <3>2. live' = live
      BY <1>5 DEF Steps
    <3> QED BY <2>1, <3>1, <3>2 DEF Backlog, Served, Range
  <2>3. Range(written[live])' = Range(written[live])
    BY <1>5 DEF Steps, Range
  <2>4. \A e : Paged(e) => Paged(e)'
    BY <1>5 DEF Steps, Paged
  <2> QED BY <1>5, <2>2, <2>3, <2>4 DEF Steps, HookInv, HandoffOK
<1> QED BY <1>6, <1>7, <1>8, <1>9 DEF HookInv

\* What a step that leaves the broker alone leaves alone.
LEMMA BrokerIdle ==
    ASSUME UNCHANGED vars
    PROVE  /\ Range(log)' = Range(log)
           /\ \A c \in Conns : /\ conn'[c] = conn[c]
                               /\ Range(written[c])' = Range(written[c])
                               /\ Backlog(c)' = Backlog(c)
BY DEF vars, connVars, Range, Backlog, Served

\* A stream registered before the first page was asked for: all the thread's
\* rows are still to be paged in.
LEMMA StreamOpensInv ==
    ASSUME Inv, HookInv, [Next]_vars, StreamOpens PROVE HookInv'
<1> USE DEF viewVars
<1>1. live \in Conns /\ live <= used /\ used \in {0} \cup Conns
  BY DEF StreamOpens, HookInv, StreamsOK
<1>2. /\ UNCHANGED <<log, written>>
      /\ \A d \in Conns \ {live} : conn'[d] = conn[d]
      /\ conn'[live] = "open" /\ conn[live] = "new"
  BY <1>1 DEF StreamOpens, Subscribe, Inv, TypeOK
<1>3. UNCHANGED <<stored, status, live, used, asked, page, answer, persisted,
                  buffered, kept, queued, dirty, resumed, outrun>>
  BY DEF StreamOpens
<1>4. StoredOK'
  BY <1>2, <1>3 DEF HookInv, StoredOK, Range
<1>5. StreamsOK'
  <2>1. \A c \in Conns : used < c => c # live
    BY <1>1, ConnNumbers
  <2> QED BY <1>2, <1>3, <2>1 DEF HookInv, StreamsOK, Range
<1>6. PagesOK' /\ FlagsOK'
  BY <1>3 DEF StreamOpens, HookInv, PagesOK, FlagsOK
<1>7. HandoffOK'
  <2> SUFFICES ASSUME joinedFirst', ~resumed PROVE HandoffOK'
    BY <1>3 DEF HandoffOK
  <2>1. status = "loading" /\ page = 0 /\ answer = << >>
    BY DEF StreamOpens
  <2>2. \A e \in Events : Rank[e] \in Nat /\ Rank[e] > 0
    BY HistoryAssumption
  <2>3. Backlog(live)' \subseteq Events
    BY <1>2, <1>3 DEF Backlog, Range, HookInv, StoredOK
  <2>4. \A e \in Events : Paged(e)'
    BY <1>3, <2>1, <2>2 DEF Paged
  <2> QED BY <1>2, <1>3, <2>1, <2>3, <2>4 DEF HandoffOK
<1> QED BY <1>4, <1>5, <1>6, <1>7 DEF HookInv

\* A page has every row up to its last one.
LEMMA ServePageInv ==
    ASSUME Inv, HookInv, [Next]_vars, ServePage PROVE HookInv'
<1> USE DEF viewVars
<1>1. UNCHANGED <<stored, status, live, used, asked, page, persisted, buffered,
                  kept, queued, dirty, joinedFirst, resumed, outrun>>
  BY DEF ServePage
<1>2. UNCHANGED vars
  BY DEF ServePage
<1>3. /\ stored \subseteq Events /\ IsFiniteSet(stored) /\ page \in Nat
      /\ Range(log) \subseteq stored
  BY DEF HookInv, StoredOK, PagesOK
<1>4. StoredOK' /\ FlagsOK' /\ StreamsOK'
  BY <1>1, <1>2, BrokerIdle DEF HookInv, StoredOK, FlagsOK, StreamsOK
<1>5. PagesOK'
  <2>1. PageRows(page) \subseteq stored
    BY DEF PageRows, RowsAfter
  <2>2. PageRows(page) # RowsAfter(page) => PageRows(page) # {}
    BY <1>3, PageHasRows
  <2>3. (PageRows(page) # RowsAfter(page)) \in BOOLEAN
    OBVIOUS
  <2> DEFINE S == PageRows(page)  m == PageRows(page) # RowsAfter(page)
  <2>4. answer' = <<[rows |-> S, more |-> m]>> /\ S \in SUBSET stored'
        /\ m \in BOOLEAN /\ (m => S # {})
    BY <1>1, <2>1, <2>2 DEF ServePage
  <2> HIDE DEF S, m
  <2> QED BY <1>1, <1>3, <2>4 DEF PagesOK
<1>6. HandoffOK'
  <2> SUFFICES ASSUME joinedFirst, ~resumed, live \in Conns PROVE HandoffOK'
    BY <1>1 DEF HandoffOK
  <2>1. status = "loading" /\ answer = << >>
    BY DEF ServePage
  <2>2. ASSUME NEW e \in Backlog(live) \cap InThread PROVE Paged(e)'
    <3>1. e \in stored \cap InThread /\ Paged(e)
      BY <1>3, <2>1, <2>2 DEF HookInv, HandoffOK, Backlog
    <3>2. CASE e \in persisted
      BY <1>1, <3>2 DEF Paged
    <3>3. CASE page < Rank[e]
      <4>1. e \in RowsAfter(page)
        BY <1>3, <3>1, <3>3, HistoryAssumption DEF RowsAfter
      <4>2. e \notin PageRows(page) => \A r \in PageRows(page) : Rank[r] < Rank[e]
        BY <1>3, <4>1, PageIsSegment
      <4>3. answer'[1].rows = PageRows(page)
            /\ answer'[1].more = (PageRows(page) # RowsAfter(page))
        BY DEF ServePage
      <4> QED BY <1>1, <3>3, <4>1, <4>2, <4>3 DEF Paged
    <3> QED BY <3>1, <3>2, <3>3 DEF Paged
  <2>3. conn[live] # "new"
    BY DEF HookInv, HandoffOK
  <2> QED BY <1>1, <1>2, <2>1, <2>2, <2>3, BrokerIdle DEF HandoffOK
<1> QED BY <1>4, <1>5, <1>6 DEF HookInv

\* A new effect has a connection of its own and nothing paged in.
LEMMA MountInv ==
    ASSUME Inv, HookInv, [Next]_vars, Mount PROVE HookInv'
<1>1. /\ UNCHANGED <<stored, kept, queued, dirty>> /\ UNCHANGED vars
      /\ used + 1 \in Conns /\ used' = used + 1 /\ live' = used + 1
      /\ status' = "loading" /\ page' = 0 /\ answer' = << >>
      /\ persisted' = {} /\ buffered' = {} /\ outrun' = {}
      /\ joinedFirst' = FALSE /\ resumed' = FALSE
  BY DEF Mount
<1>2. StoredOK'
  BY <1>1, BrokerIdle DEF HookInv, StoredOK
<1>3. StreamsOK'
  <2>1. used \in Nat /\ used + 1 \in Nat /\ used + 1 >= 1
    BY ConnNumbers DEF HookInv, StreamsOK
  <2>2. \A c \in Conns : used < c => conn[c] = "new"
    BY DEF HookInv, StreamsOK
  <2>3. \A c \in Conns : used + 1 < c => conn'[c] = "new"
    BY <1>1, <2>1, <2>2, ConnNumbers, BrokerIdle
  <2>4. asked' \in Events \cup {NoCursor}
    <3>1. kept \in SUBSET stored /\ kept \subseteq Events /\ IsFiniteSet(stored)
      BY DEF HookInv, StoredOK
    <3>2. IsFiniteSet(kept)
      BY <3>1, FS_Subset
    <3> QED BY <3>1, <3>2, SinceIsEvent DEF Mount
  <2>5. Range(written[live])' = {}
    <3>1. written'[live'] = written'[used + 1]
      BY <1>1
    <3>2. written' = written
      BY <1>1 DEF vars, connVars
    <3>3. Range(written[used + 1]) = {}
      BY <1>1, <2>1, <2>2, WrittenIsLogged
    <3> QED BY <3>1, <3>2, <3>3 DEF Range
  <2> QED BY <1>1, <2>1, <2>3, <2>4, <2>5 DEF StreamsOK
<1>4. PagesOK' /\ FlagsOK' /\ HandoffOK'
  BY <1>1 DEF HookInv, PagesOK, FlagsOK, HandoffOK
<1> QED BY <1>2, <1>3, <1>4 DEF HookInv

\* React runs the waiting updaters.
LEMMA RenderInv ==
    ASSUME Inv, HookInv, [Next]_vars, Render PROVE HookInv'
<1>1. /\ UNCHANGED <<stored, status, live, used, asked, page, answer, persisted,
                     buffered, queued, joinedFirst, resumed, outrun>>
      /\ UNCHANGED vars /\ kept' = queued /\ dirty' = FALSE
  BY DEF Render
<1>2. StoredOK' /\ StreamsOK' /\ PagesOK' /\ FlagsOK'
  BY <1>1, BrokerIdle DEF HookInv, StoredOK, StreamsOK, PagesOK, FlagsOK
<1>3. HandoffOK'
  BY <1>1, BrokerIdle DEF HookInv, HandoffOK, Paged
<1> QED BY <1>2, <1>3 DEF HookInv

\* The next page starts after the last row of this one: nothing is skipped.
LEMMA NextPageInv ==
    ASSUME Inv, HookInv, [Next]_vars, NextPage PROVE HookInv'
<1> USE DEF viewVars
<1>1. /\ UNCHANGED <<stored, status, live, used, asked, buffered, kept, queued,
                     dirty, joinedFirst, resumed, outrun>>
      /\ UNCHANGED vars /\ status = "loading" /\ answer # << >> /\ answer[1].more
      /\ persisted' = persisted \cup answer[1].rows /\ answer' = << >>
      /\ page' = Rank[Latest(answer[1].rows)]
  BY DEF NextPage
<1>2. PICK S \in SUBSET stored, m \in BOOLEAN :
          answer = <<[rows |-> S, more |-> m]>> /\ (m => S # {})
  BY <1>1 DEF HookInv, PagesOK
<1>3. answer[1].rows = S /\ S # {} /\ S \subseteq stored
  BY <1>1, <1>2
<1>4. Latest(S) \in S /\ S \subseteq Events
  <2>1. IsFiniteSet(stored) /\ stored \subseteq Events
    BY DEF HookInv, StoredOK
  <2>2. IsFiniteSet(S) /\ S \subseteq Events
    BY <1>3, <2>1, FS_Subset
  <2> QED BY <1>3, <2>2, LatestIsMember
<1>5. StoredOK'
  BY <1>1, <1>3, BrokerIdle DEF HookInv, StoredOK
<1>6. StreamsOK' /\ FlagsOK'
  BY <1>1, BrokerIdle DEF HookInv, StreamsOK, FlagsOK
<1>7. PagesOK'
  BY <1>1, <1>3, <1>4, HistoryAssumption DEF PagesOK
<1>8. HandoffOK'
  <2> SUFFICES ASSUME joinedFirst, ~resumed, live \in Conns PROVE HandoffOK'
    BY <1>1 DEF HandoffOK
  <2>1. conn[live] # "new" /\ \A e \in Backlog(live) \cap InThread : Paged(e)
    BY <1>1 DEF HookInv, HandoffOK
  <2>2. \A e : Paged(e) => Paged(e)'
    BY <1>1, <1>3, <1>4 DEF Paged
  <2> QED BY <1>1, <2>1, <2>2, BrokerIdle DEF HandoffOK
<1> QED BY <1>5, <1>6, <1>7, <1>8 DEF HookInv

\* The last page completes what the stream was not served.
LEMMA LastPageInv ==
    ASSUME Inv, HookInv, [Next]_vars, LastPage PROVE HookInv'
<1>1. /\ UNCHANGED <<stored, live, used, asked, page, buffered, joinedFirst, resumed>>
      /\ UNCHANGED vars /\ status = "loading" /\ answer # << >> /\ ~answer[1].more
      /\ persisted' = persisted \cup answer[1].rows /\ answer' = << >>
      /\ status' = "ready"
      /\ UpdateEvents(kept \cup persisted' \cup buffered)
  BY DEF LastPage
<1>2. PICK S \in SUBSET stored, m \in BOOLEAN :
          answer = <<[rows |-> S, more |-> m]>> /\ (m => S # {})
  BY <1>1 DEF HookInv, PagesOK
<1>3. answer[1].rows = S /\ persisted' = persisted \cup S /\ S \subseteq stored
  BY <1>1, <1>2
<1>4. /\ queued' = kept \cup persisted' \cup buffered /\ dirty' = TRUE
      /\ kept' \in {kept, queued'}
      /\ outrun' = outrun \cup (queued \ queued')
  BY <1>1 DEF UpdateEvents
<1>5. StoredOK'
  BY <1>1, <1>3, <1>4, BrokerIdle DEF HookInv, StoredOK
<1>6. StreamsOK' /\ PagesOK' /\ FlagsOK'
  BY <1>1, <1>4, BrokerIdle DEF HookInv, StreamsOK, PagesOK, FlagsOK
<1>7. HandoffOK'
  <2> SUFFICES ASSUME joinedFirst, ~resumed, live \in Conns PROVE HandoffOK'
    BY <1>1 DEF HandoffOK
  <2>1. conn[live] # "new" /\ \A e \in Backlog(live) \cap InThread : Paged(e)
    BY <1>1 DEF HookInv, HandoffOK
  <2>2. \A e \in Backlog(live) \cap InThread : e \in persisted'
    BY <1>1, <1>3, <2>1 DEF Paged
  <2>3. Range(written[live]) \subseteq buffered
    BY DEF HookInv, StreamsOK
  <2> QED BY <1>1, <1>4, <2>1, <2>2, <2>3, BrokerIdle DEF HandoffOK
<1> QED BY <1>5, <1>6, <1>7 DEF HookInv

LEMMA PageFailsInv ==
    ASSUME Inv, HookInv, [Next]_vars, PageFails PROVE HookInv'
<1>1. /\ UNCHANGED <<stored, live, used, asked, page, persisted, buffered, resumed>>
      /\ UNCHANGED vars /\ status' = "error" /\ answer' = << >>
      /\ joinedFirst' = FALSE
      /\ UpdateEvents(kept \cup buffered)
  BY DEF PageFails
<1>2. /\ queued' = kept \cup buffered /\ dirty' = TRUE
      /\ kept' \in {kept, queued'}
      /\ outrun' = outrun \cup (queued \ queued')
  BY <1>1 DEF UpdateEvents
<1>3. StoredOK'
  BY <1>1, <1>2, BrokerIdle DEF HookInv, StoredOK
<1>4. StreamsOK' /\ PagesOK' /\ FlagsOK' /\ HandoffOK'
  BY <1>1, <1>2, BrokerIdle DEF HookInv, StreamsOK, PagesOK, FlagsOK, HandoffOK
<1> QED BY <1>3, <1>4 DEF HookInv

\* A reopened stream is a new connection that nothing was written to.
LEMMA ReconnectInv ==
    ASSUME Inv, HookInv, [Next]_vars, Reconnect PROVE HookInv'
<1> USE DEF viewVars
<1>1. /\ UNCHANGED <<stored, status, asked, page, answer, persisted, buffered,
                     kept, queued, dirty, joinedFirst, outrun>>
      /\ UNCHANGED vars /\ used + 1 \in Conns
      /\ used' = used + 1 /\ live' = used + 1 /\ resumed' = TRUE
  BY DEF Reconnect
<1>2. StoredOK' /\ PagesOK' /\ FlagsOK' /\ HandoffOK'
  BY <1>1, BrokerIdle DEF HookInv, StoredOK, PagesOK, FlagsOK, HandoffOK
<1>3. StreamsOK'
  <2>1. used \in Nat /\ used + 1 \in Nat
    BY ConnNumbers DEF HookInv, StreamsOK
  <2>2. \A c \in Conns : used < c => conn[c] = "new"
    BY DEF HookInv, StreamsOK
  <2>3. \A c \in Conns : used + 1 < c => conn'[c] = "new"
    BY <1>1, <2>1, <2>2, ConnNumbers, BrokerIdle
  <2>4. Range(written[live])' = {}
    <3>1. written'[live'] = written'[used + 1] /\ written' = written
      BY <1>1 DEF vars, connVars
    <3>2. Range(written[used + 1]) = {}
      BY <1>1, <2>1, <2>2, WrittenIsLogged
    <3> QED BY <3>1, <3>2 DEF Range
  <2> QED BY <1>1, <2>1, <2>3, <2>4 DEF HookInv, StreamsOK
<1> QED BY <1>2, <1>3 DEF HookInv

LEMMA UnmountInv ==
    ASSUME Inv, HookInv, [Next]_vars, Unmount PROVE HookInv'
<1>1. /\ UNCHANGED <<stored, used, asked, page, persisted, buffered, queued,
                     joinedFirst, resumed, outrun>>
      /\ UNCHANGED vars /\ status' = "off" /\ live' = 0 /\ answer' = << >>
      /\ kept' = queued /\ dirty' = FALSE
  BY DEF Unmount
<1>2. 0 \notin Conns
  BY ConnNumbers
<1>3. StoredOK' /\ PagesOK' /\ FlagsOK' /\ HandoffOK'
  BY <1>1, <1>2, BrokerIdle DEF HookInv, StoredOK, PagesOK, FlagsOK, HandoffOK
<1>4. StreamsOK'
  BY <1>1, <1>2, ConnNumbers, BrokerIdle DEF HookInv, StreamsOK
<1> QED BY <1>3, <1>4 DEF HookInv

\* What a stream is sent next was published.
LEMMA WrittenNext ==
    ASSUME Inv, NEW c \in Conns, StreamWrite(c)
    PROVE  /\ conn[c] = "open" /\ UNCHANGED <<conn, log, start>>
           /\ LET e == written'[c][Len(written'[c])]
              IN  e \in Range(log) /\ Range(written[c])' = Range(written[c]) \cup {e}
<1>1. /\ written[c] \in Seq(Events) /\ replay[c] \in Seq(Events)
      /\ chan[c] \in Seq(Events) /\ log \in Seq(Events) /\ start[c] \in Nat
      /\ written \in [Conns -> Seq(Events)]
  BY DEF Inv, TypeOK
<1>2. conn[c] = "open" /\ UNCHANGED <<conn, log, start>>
  BY DEF StreamWrite, WriteReplay, WriteLive
<1>3. PICK x \in Range(replay[c]) \cup Range(chan[c]) :
          written' = [written EXCEPT ![c] = Append(@, x)]
  <2>1. replay[c] # << >> => Head(replay[c]) \in Range(replay[c])
    BY <1>1 DEF Range
  <2>2. chan[c] # << >> => Head(chan[c]) \in Range(chan[c])
    BY <1>1 DEF Range
  <2> QED BY <2>1, <2>2 DEF StreamWrite, WriteReplay, WriteLive
<1>4. x \in Events
  BY <1>1, <1>3 DEF Range
<1>5. written'[c] = Append(written[c], x)
  BY <1>1, <1>3
<1>6. written'[c][Len(written'[c])] = x
  BY <1>1, <1>4, <1>5
<1>7. Range(written[c])' = Range(written[c]) \cup {x}
  <2>1. Range(Append(written[c], x)) = Range(written[c]) \cup {x}
    BY <1>1, <1>4, AppendElems
  <2> QED BY <1>5, <2>1 DEF Range
<1>8. x \in Range(log)
  <2>1. ConnOK(c)
    BY DEF Inv
  <2>2. x \in Served(c)
    BY <1>2, <1>3, <2>1 DEF ConnOK, ServedOK, Places
  <2> QED BY <1>1, <2>2 DEF Served, Range
<1> QED BY <1>2, <1>6, <1>7, <1>8

\* An event of the stream is buffered, and shown once the handoff is over.
LEMMA OnEventInv ==
    ASSUME Inv, HookInv, [Next]_vars, OnEvent PROVE HookInv'
<1> USE DEF viewVars
<1> DEFINE e == written'[live][Len(written'[live])]
<1>1. /\ UNCHANGED <<stored, live, used, page, answer, persisted, joinedFirst, resumed>>
      /\ live # 0 /\ StreamWrite(live)
      /\ buffered' = buffered \cup {e} /\ asked' = e
  BY DEF OnEvent
<1>2. live \in Conns
  BY <1>1 DEF HookInv, StreamsOK
<1>3. /\ UNCHANGED <<conn, log, start>>
      /\ e \in Range(log) /\ Range(written[live])' = Range(written[live]) \cup {e}
  BY <1>1, <1>2, WrittenNext
<1>4. \/ status = "loading" /\ UNCHANGED <<status, kept, queued, dirty, outrun>>
      \/ status # "loading" /\ status' = "ready" /\ UpdateEvents(kept \cup {e})
  BY DEF OnEvent
<1> HIDE DEF e
<1>5. Range(log)' = Range(log) /\ \A c \in Conns : Backlog(c)' = Backlog(c)
  BY <1>3 DEF Range, Backlog, Served
<1>6. e \in stored /\ stored \subseteq Events
  BY <1>3 DEF HookInv, StoredOK
<1>7. UpdateEvents(kept \cup {e}) =>
          /\ queued' = kept \cup {e} /\ dirty' = TRUE
          /\ kept' \in {kept, queued'}
          /\ outrun' = outrun \cup (queued \ queued')
  BY DEF UpdateEvents
<1>8. StoredOK'
  <2>1. CASE UNCHANGED <<kept, queued, dirty, outrun>>
    BY <1>1, <1>5, <1>6, <2>1 DEF HookInv, StoredOK
  <2>2. CASE UpdateEvents(kept \cup {e})
    BY <1>1, <1>5, <1>6, <1>7, <2>2 DEF HookInv, StoredOK
  <2> QED BY <1>4, <2>1, <2>2
<1>9. StreamsOK'
  BY <1>1, <1>3, <1>6 DEF HookInv, StreamsOK
<1>10. PagesOK' /\ FlagsOK'
  BY <1>1, <1>4, <1>7 DEF HookInv, PagesOK, FlagsOK
<1>11. HandoffOK'
  <2> SUFFICES ASSUME joinedFirst, ~resumed PROVE HandoffOK'
    BY <1>1 DEF HandoffOK
  <2>1. conn'[live] # "new" /\ status \in {"loading", "ready"}
    BY <1>2, <1>3 DEF HookInv, HandoffOK
  <2>2. CASE status = "loading"
    <3>1. \A f \in Backlog(live) \cap InThread : Paged(f)
      BY <1>2, <2>2 DEF HookInv, HandoffOK
    <3>2. \A f : Paged(f) => Paged(f)'
      BY <1>1 DEF Paged
    <3> QED BY <1>1, <1>2, <1>4, <1>5, <2>1, <2>2, <3>1, <3>2 DEF HandoffOK
  <2>3. CASE status = "ready"
    <3>1. (Backlog(live) \cup Range(written[live])) \cap InThread
              \subseteq queued \cup outrun
      BY <1>2, <2>3 DEF HookInv, HandoffOK
    <3>2. queued \cup outrun \cup {e} \subseteq queued' \cup outrun' /\ status' = "ready"
      BY <1>4, <1>7, <2>3
    <3> QED BY <1>1, <1>2, <1>3, <1>5, <2>1, <3>1, <3>2 DEF HandoffOK
  <2> QED BY <2>1, <2>2, <2>3
<1> QED BY <1>8, <1>9, <1>10, <1>11 DEF HookInv

LEMMA HistoryNextInv == HistoryInv /\ [HistoryNext]_allVars => HistoryInv'
<1> SUFFICES ASSUME HistoryInv, [HistoryNext]_allVars PROVE HistoryInv'
  OBVIOUS
<1>1. Inv /\ HookInv /\ [Next]_vars
  BY BrokerSteps DEF HistoryInv
<1>2. Inv'
  BY <1>1, NextInv
<1>3. CASE UNCHANGED allVars
  <2>1. UNCHANGED <<vars, stored, hookVars>>
    BY <1>3 DEF allVars
  <2>2. StoredOK' /\ StreamsOK' /\ PagesOK' /\ FlagsOK' /\ HandoffOK'
    BY <1>1, <2>1, BrokerIdle DEF hookVars, HookInv, StoredOK, StreamsOK,
       PagesOK, FlagsOK, HandoffOK, Paged
  <2> QED BY <1>2, <2>2 DEF HistoryInv, HookInv
<1>4. CASE HistoryNext
  <2>1. HookInv'
    BY <1>1, <1>4, HubStepInv, StreamOpensInv, ServePageInv, MountInv, RenderInv,
       NextPageInv, LastPageInv, PageFailsInv, ReconnectInv, UnmountInv,
       OnEventInv DEF HistoryNext
  <2> QED BY <1>2, <2>1 DEF HistoryInv
<1> QED BY <1>3, <1>4

-----------------------------------------------------------------------------
(* The theorems.                                                           *)

THEOREM HistoryInvHolds == HistorySpec => []HistoryInv
<1>1. HistoryInit => HistoryInv
  BY InitInv, HookInit DEF HistoryInit, HistoryInv
<1> QED BY <1>1, HistoryNextInv, PTL DEF HistorySpec

\* The hook's state is of its types, and it only ever holds stored events.
THEOREM HistoryTypeCorrect == HistorySpec => []HistoryTypeOK
<1>1. ASSUME HistoryInv PROVE HistoryTypeOK
  <2>1. TypeOK /\ StoredOK /\ StreamsOK /\ PagesOK /\ FlagsOK
    BY <1>1 DEF HistoryInv, HookInv, Inv
  <2>2. Len(answer) <= 1
        /\ \A i \in DOMAIN answer : answer[i] \in [rows : SUBSET stored, more : BOOLEAN]
    <3>1. CASE answer = << >>
      BY <3>1
    <3>2. ASSUME NEW S \in SUBSET stored, NEW m \in BOOLEAN,
                 answer = <<[rows |-> S, more |-> m]>>
          PROVE  Len(answer) <= 1
                 /\ \A i \in DOMAIN answer :
                       answer[i] \in [rows : SUBSET stored, more : BOOLEAN]
      BY <3>2
    <3> QED BY <2>1, <3>1, <3>2 DEF PagesOK
  <2> QED BY <2>1, <2>2 DEF HistoryTypeOK, StoredOK, StreamsOK, PagesOK, FlagsOK
<1> QED BY <1>1, HistoryInvHolds, PTL

\* The merge of stream and pages (session-history.ts 191-242) leaves no gap:
\* a tab whose first stream was registered before a page was read, and that has
\* caught up, has every published event of its thread but what its full channel
\* dropped or an update outran.
THEOREM HandoffIsComplete == HistorySpec => []HandoffLeavesNoGap
<1>1. ASSUME HistoryInv PROVE HandoffLeavesNoGap
  <2> SUFFICES ASSUME CaughtUp, joinedFirst, ~resumed,
                      NEW e \in Range(log) \cap InThread, e \notin dropped[live]
               PROVE  e \in kept \cup outrun
    BY DEF HandoffLeavesNoGap
  <2>1. live \in Conns /\ Inv /\ HookInv
    BY <1>1 DEF CaughtUp, HistoryInv, HookInv, StreamsOK
  <2>2. (Backlog(live) \cup Range(written[live])) \cap InThread \subseteq queued \cup outrun
    BY <2>1 DEF CaughtUp, HookInv, HandoffOK
  <2>3. kept = queued
    BY <2>1 DEF CaughtUp, HookInv, StoredOK
  <2>4. e \in Served(live) => e \in Range(written[live])
    <3>1. Served(live) \subseteq Places(live)
      BY <2>1 DEF Inv, ConnOK, ServedOK, CaughtUp
    <3>2. Places(live) = Range(written[live]) \cup dropped[live]
      BY DEF CaughtUp, Places, Range
    <3> QED BY <3>1, <3>2
  <2> QED BY <2>2, <2>3, <2>4 DEF Backlog
<1> QED BY <1>1, HistoryInvHolds, PTL

\* No step takes an event of the thread away from the tab.
THEOREM KeptNeverShrinks == HistorySpec => KeptOnlyGrows
<1>1. HistoryInv /\ [HistoryNext]_allVars => [kept \subseteq kept']_allVars
  <2> SUFFICES ASSUME HistoryInv, HistoryNext PROVE kept \subseteq kept'
    OBVIOUS
  <2>1. kept \subseteq queued
    BY DEF HistoryInv, HookInv, StoredOK
  <2> QED BY <2>1 DEF HistoryNext, StoreEvent, PublishStored, OrphanWrite, HandlerEnds,
       StreamOpens, OnEvent, ServePage, Render, Mount, NextPage, LastPage,
       PageFails, Reconnect, Unmount, UpdateEvents, hookVars, viewVars
<1> QED BY <1>1, HistoryInvHolds, PTL DEF HistorySpec, KeptOnlyGrows

\* The tab drives the broker only as the broker's own specification allows:
\* hiding store and hook, every behaviour of the composed system is one of
\* Broker's, although the tab chooses when to open, leave and reopen its
\* streams, and which cursor each asks from (session-history.ts, sse.ts).
THEOREM TabRunsTheBroker == HistorySpec => Spec
<1>1. HistoryInit => Init
  BY DEF HistoryInit
<1>2. HistoryInv /\ [HistoryNext]_allVars => [Next]_vars
  BY BrokerSteps DEF HistoryInv
<1> QED BY <1>1, <1>2, HistoryInvHolds, PTL DEF HistorySpec, Spec

\* So the streams of a tab are promised what Multicast promises any listener,
\* and miss nothing silently, across remounts and reconnections.
THEOREM TabIsPromisedItsStream ==
    HistorySpec => KeepsPromise /\ []NoSilentGap /\ []AtMostOnce
BY TabRunsTheBroker, ImplementsMulticast, LeavesNoSilentGap, DeliversAtMostOnce, PTL
=============================================================================
