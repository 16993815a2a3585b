------------------------------- MODULE Broker -------------------------------
(***************************************************************************)
(* The hub's in-memory SSE fanout (src/internal/hub/broker.go) with the    *)
(* goroutines that use it: one ingest handler per event, which calls       *)
(* Publish once, and one stream handler per SSE connection (sse.go).       *)
(*                                                                         *)
(* A step is what runs without losing the lock or the processor in a way   *)
(* another goroutine can see: the critical section of Publish, ONE send to *)
(* ONE snapshot subscriber, the critical section of Subscribe, one write   *)
(* to the client, and the two halves of unsubscribe.                       *)
(***************************************************************************)
EXTENDS Integers, Sequences, Functions

CONSTANTS
    Events,    \* the events whose ingest handlers run; an event id is a
               \* primary key of the store, so each is published at most once
    Conns,     \* the SSE requests; a reconnect is another element
    NoCursor,  \* the empty Last-Event-ID
    RingCap,   \* 512 in the hub (app.go)
    ChanCap    \* 32 in the hub (broker.go:73)

ASSUME CapsAssumption ==
    /\ RingCap \in Nat \ {0}
    /\ ChanCap \in Nat \ {0}
    /\ NoCursor \notin Events

VARIABLES
    ring,      \* Broker.ring
    pc,        \* the handler of each event: where it is in Publish
    pending,   \* Publish's local subs: the snapshot not yet sent to
    conn,      \* the stream handler of each connection
    chan,      \* the connection's channel
    replay,    \* what the replay loop has yet to write
    written,   \* history: the events written to the client, in order
    log,       \* history: every event ever appended to the ring
    start,     \* history: the log position a connection is served from
    dropped,   \* history: the events a full channel lost
    before     \* history: the publishes already finished when one began

pubVars  == <<pc, pending, before>>
connVars == <<conn, chan, replay, written, start, dropped>>
vars     == <<ring, log, pubVars, connVars>>

\* Mutant of Subs: a channel is registered before the ring is copied for it.
SubsTooEarly == {c \in Conns : conn[c] \in {"new", "open"}}

\* Registered in Broker.subs.
Subs == {c \in Conns : conn[c] = "open"}

Finished == {e \in Events : pc[e] \in {"done", "panicked"}}

\* Mutants of Trim: keeps one too many; keeps the oldest instead of the newest.
TrimLate(s) == IF Len(s) > RingCap + 1
               THEN SubSeq(s, Len(s) - RingCap, Len(s))
               ELSE s
TrimWrongEnd(s) == IF Len(s) > RingCap THEN SubSeq(s, 1, RingCap) ELSE s

\* ring[len(ring)-ringCap:] when it is longer than ringCap.
Trim(s) == IF Len(s) > RingCap
           THEN SubSeq(s, Len(s) - RingCap + 1, Len(s))
           ELSE s

\* Mutant of After: the replay starts with the cursor's own event.
AfterInclusive(s, cursor) ==
    IF cursor \in Range(s)
    THEN SubSeq(s, CHOOSE i \in DOMAIN s : s[i] = cursor, Len(s))
    ELSE << >>

\* The replay of Subscribe: nothing when the cursor is not in the ring.
After(s, cursor) ==
    IF cursor \in Range(s)
    THEN SubSeq(s, (CHOOSE i \in DOMAIN s : s[i] = cursor) + 1, Len(s))
    ELSE << >>

\* History: how much of the log is not owed to a new connection.
Position(cursor) ==
    IF cursor \in Range(ring)
    THEN CHOOSE i \in DOMAIN log : log[i] = cursor
    ELSE Len(log)

-----------------------------------------------------------------------------

Init ==
    /\ ring    = << >>
    /\ log     = << >>
    /\ pc      = [e \in Events |-> "idle"]
    /\ pending = [e \in Events |-> {}]
    /\ before  = [e \in Events |-> {}]
    /\ conn    = [c \in Conns |-> "new"]
    /\ chan    = [c \in Conns |-> << >>]
    /\ replay  = [c \in Conns |-> << >>]
    /\ written = [c \in Conns |-> << >>]
    /\ start   = [c \in Conns |-> 0]
    /\ dropped = [c \in Conns |-> {}]

\* Publish, under b.mu: append, trim, snapshot the subscribers.
PublishLocked(e) ==
    /\ pc[e] = "idle"
    /\ ring'    = Trim(Append(ring, e))
    /\ log'     = Append(log, e)
    /\ pc'      = [pc EXCEPT ![e] = "sending"]
    /\ pending' = [pending EXCEPT ![e] = Subs]
    /\ before'  = [before EXCEPT ![e] = Finished]
    /\ UNCHANGED connVars

\* One iteration of Publish's loop: the channel takes the event ...
SendTaken(e, c) ==
    /\ pc[e] = "sending"
    /\ c \in pending[e]
    /\ conn[c] # "closed"
    /\ Len(chan[c]) < ChanCap
    /\ chan'    = [chan EXCEPT ![c] = Append(@, e)]
    /\ pending' = [pending EXCEPT ![e] = @ \ {c}]
    /\ UNCHANGED <<ring, log, pc, before, conn, replay, written, start, dropped>>

\* Mutant of SendDropped: the select has no default branch, the send waits.
SendWaits(e, c) == FALSE /\ UNCHANGED vars

\* ... or it is full and the default branch drops the event ...
SendDropped(e, c) ==
    /\ pc[e] = "sending"
    /\ c \in pending[e]
    /\ conn[c] # "closed"
    /\ Len(chan[c]) >= ChanCap
    /\ dropped' = [dropped EXCEPT ![c] = @ \cup {e}]
    /\ pending' = [pending EXCEPT ![e] = @ \ {c}]
    /\ UNCHANGED <<ring, log, pc, before, conn, chan, replay, written, start>>

\* ... or unsubscribe has closed it since the snapshot: a send on a closed
\* channel panics, select or not, and net/http ends the handler there.
SendPanics(e, c) ==
    /\ pc[e] = "sending"
    /\ c \in pending[e]
    /\ conn[c] = "closed"
    /\ pc' = [pc EXCEPT ![e] = "panicked"]
    /\ UNCHANGED <<ring, log, pending, before, connVars>>

PublishReturns(e) ==
    /\ pc[e] = "sending"
    /\ pending[e] = {}
    /\ pc' = [pc EXCEPT ![e] = "done"]
    /\ UNCHANGED <<ring, log, pending, before, connVars>>

\* Subscribe, under b.mu: register and copy the ring after the cursor.
Subscribe(c, cursor) ==
    /\ conn[c] = "new"
    /\ conn'   = [conn EXCEPT ![c] = "open"]
    /\ replay' = [replay EXCEPT ![c] = After(ring, cursor)]
    /\ start'  = [start EXCEPT ![c] = Position(cursor)]
    /\ UNCHANGED <<ring, log, pubVars, chan, written, dropped>>

WriteReplay(c) ==
    /\ conn[c] = "open"
    /\ replay[c] # << >>
    /\ written' = [written EXCEPT ![c] = Append(@, Head(replay[c]))]
    /\ replay'  = [replay EXCEPT ![c] = Tail(@)]
    /\ UNCHANGED <<ring, log, pubVars, conn, chan, start, dropped>>

\* Mutant of WriteLive: live events are not held back until the replay is out.
WriteLiveDuringReplay(c) ==
    /\ conn[c] = "open"
    /\ chan[c] # << >>
    /\ written' = [written EXCEPT ![c] = Append(@, Head(chan[c]))]
    /\ chan'    = [chan EXCEPT ![c] = Tail(@)]
    /\ UNCHANGED <<ring, log, pubVars, conn, replay, start, dropped>>

WriteLive(c) ==
    /\ conn[c] = "open"
    /\ replay[c] = << >>
    /\ chan[c] # << >>
    /\ written' = [written EXCEPT ![c] = Append(@, Head(chan[c]))]
    /\ chan'    = [chan EXCEPT ![c] = Tail(@)]
    /\ UNCHANGED <<ring, log, pubVars, conn, replay, start, dropped>>

\* The handler returns and its deferred unsub deletes the channel under b.mu:
\* on a failed replay write, on a failed live write (the event is consumed),
\* or on the request's context being done, which only the live loop watches.
ReplayWriteFails(c) ==
    /\ conn[c] = "open"
    /\ replay[c] # << >>
    /\ conn' = [conn EXCEPT ![c] = "deleted"]
    /\ replay' = [replay EXCEPT ![c] = Tail(@)]
    /\ UNCHANGED <<ring, log, pubVars, chan, written, start, dropped>>

LiveWriteFails(c) ==
    /\ conn[c] = "open"
    /\ replay[c] = << >>
    /\ chan[c] # << >>
    /\ conn' = [conn EXCEPT ![c] = "deleted"]
    /\ chan' = [chan EXCEPT ![c] = Tail(@)]
    /\ UNCHANGED <<ring, log, pubVars, replay, written, start, dropped>>

ContextDone(c) ==
    /\ conn[c] = "open"
    /\ replay[c] = << >>
    /\ conn' = [conn EXCEPT ![c] = "deleted"]
    /\ UNCHANGED <<ring, log, pubVars, chan, replay, written, start, dropped>>

\* close(ch), after b.mu was released.
CloseChannel(c) ==
    /\ conn[c] = "deleted"
    /\ conn' = [conn EXCEPT ![c] = "closed"]
    /\ UNCHANGED <<ring, log, pubVars, chan, replay, written, start, dropped>>

Publish(e) ==
    \/ PublishLocked(e)
    \/ \E c \in Conns : SendTaken(e, c)
    \/ \E c \in Conns : SendDropped(e, c)
    \/ \E c \in Conns : SendPanics(e, c)
    \/ PublishReturns(e)

StreamWrite(c) == WriteReplay(c) \/ WriteLive(c)

Unsubscribe(c) ==
    \/ ReplayWriteFails(c)
    \/ LiveWriteFails(c)
    \/ ContextDone(c)
    \/ CloseChannel(c)

Next ==
    \/ \E e \in Events : Publish(e)
    \/ \E c \in Conns :
          \/ \E cursor \in Events \cup {NoCursor} : Subscribe(c, cursor)
          \/ StreamWrite(c)
          \/ Unsubscribe(c)

Spec == Init /\ [][Next]_vars

-----------------------------------------------------------------------------

PublishPCs == {"idle", "sending", "done", "panicked"}
ConnStates == {"new", "open", "deleted", "closed"}

TypeOK ==
    /\ ring \in Seq(Events)
    /\ log \in Seq(Events)
    /\ pc \in [Events -> PublishPCs]
    /\ pending \in [Events -> SUBSET Conns]
    /\ before \in [Events -> SUBSET Events]
    /\ conn \in [Conns -> ConnStates]
    /\ chan \in [Conns -> Seq(Events)]
    /\ replay \in [Conns -> Seq(Events)]
    /\ written \in [Conns -> Seq(Events)]
    /\ start \in [Conns -> Nat]
    /\ dropped \in [Conns -> SUBSET Events]
    /\ Len(ring) <= RingCap
    /\ \A c \in Conns : Len(chan[c]) <= ChanCap

\* What the publishers still hold, or held when they panicked, for c.
Owed(c) == {e \in Events : c \in pending[e]}

\* Everything the connection has been or will be sent, in order.
Outbound(c) == written[c] \o replay[c] \o chan[c]

\* A connection gets an event at most once, whether it comes from the replay
\* or live: registering and copying the ring are one critical section.
AtMostOnce == \A c \in Conns : IsInjective(Outbound(c))

\* No silent gap: while a connection is registered, every event logged after
\* the position it is served from has been written, or is on its way, or was
\* dropped by a full channel, or is still owed by a publisher.
NoSilentGap ==
    \A c \in Subs : \A i \in DOMAIN log :
        i > start[c] => \/ log[i] \in Range(Outbound(c))
                        \/ log[i] \in dropped[c]
                        \/ log[i] \in Owed(c)

\* Nothing at or before the cursor is sent again.
NothingBeforeCursor ==
    \A c \in Conns : \A i \in DOMAIN log :
        log[i] \in Range(Outbound(c)) => i > start[c]

\* Events whose publishes did not overlap arrive in the order of the publishes
\* on every connection; overlapping ones may be swapped after the unlock.
SequentialPublishesStayOrdered ==
    \A c \in Conns : \A i, j \in DOMAIN Outbound(c) :
        Outbound(c)[i] \in before[Outbound(c)[j]] => i < j

-----------------------------------------------------------------------------
(* What a connection is promised, whatever the buffers do: see Multicast.  *)

AbstractOwed ==
    [c \in Conns |-> IF conn[c] = "open"
                     THEN Range(replay[c]) \cup Range(chan[c]) \cup Owed(c)
                     ELSE {}]

AbstractState ==
    [c \in Conns |-> CASE conn[c] = "new"  -> "absent"
                       [] conn[c] = "open" -> "listening"
                       [] OTHER            -> "gone"]

Promise == INSTANCE Multicast WITH Listeners <- Conns, sent <- log,
                                   state <- AbstractState,
                                   owed <- AbstractOwed, heard <- written

\* Every step of the broker is a step of Multicast or leaves it alone: a
\* listener hears only what it is owed, each event once, and is owed a
\* contiguous backlog and everything announced while it listens.
KeepsPromise == Promise!Spec

-----------------------------------------------------------------------------

\* The comment on Publish (broker.go:46): it notifies live subscribers. Once
\* it has ended, a registered subscriber of its snapshot has the event or was
\* too slow for it.
NotifiesLiveSubscribers ==
    \A e \in Finished : \A c \in Subs : c \notin pending[e]

\* Publish never waits for a subscriber (broker.go:61-66): whoever has stopped
\* reading, been deleted or closed, and whichever channels are full, a publisher
\* between two sends can make its next step.
SendNeverWaits == \A e \in Events : pc[e] = "sending" => ENABLED Publish(e)
=============================================================================
