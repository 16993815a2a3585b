---------------------------- MODULE BrokerProofs ----------------------------
(***************************************************************************)
(* Theorems about Broker, for any events, connections and capacities.      *)
(*                                                                         *)
(* For each connection an event is in at most one place: written, still to *)
(* be replayed, in the channel, owed by a publisher, or dropped.  Every    *)
(* step moves an event from one place to the next, so the places stay      *)
(* apart, and while the connection is registered they hold exactly the     *)
(* log after the position it is served from.                               *)
(***************************************************************************)
EXTENDS Broker, DataLemmas

-----------------------------------------------------------------------------
(* The inductive invariant.                                                *)

\* The log after the position a connection is served from.
Served(c) == {log[i] : i \in start[c] + 1 .. Len(log)}

\* The log holds exactly the events whose publish began, each once.
LogOK ==
    /\ IsInjective(log)
    /\ \A e \in Events : e \in Range(log) <=> pc[e] # "idle"

\* The ring is the end of the log.
RingOK ==
    /\ Len(ring) <= Len(log)
    /\ \A i \in 1 .. Len(ring) : ring[i] = log[Len(log) - Len(ring) + i]

\* A connection that has not subscribed yet has nothing anywhere.
FreshOK(c) ==
    conn[c] = "new" => /\ written[c] = << >>
                       /\ replay[c] = << >>
                       /\ chan[c] = << >>
                       /\ dropped[c] = {}
                       /\ Owed(c) = {}

\* No event is in two places, nor twice in one.
ApartOK(c) ==
    /\ IsInjective(written[c]) /\ IsInjective(replay[c]) /\ IsInjective(chan[c])
    /\ Range(written[c]) \cap Range(replay[c]) = {}
    /\ Range(written[c]) \cap Range(chan[c]) = {}
    /\ Range(replay[c]) \cap Range(chan[c]) = {}
    /\ (Range(written[c]) \cup Range(replay[c]) \cup Range(chan[c]))
         \cap Owed(c) = {}
    /\ dropped[c] \cap Owed(c) = {}

Places(c) == Range(written[c]) \cup Range(replay[c]) \cup Range(chan[c])
               \cup Owed(c) \cup dropped[c]

\* Every place is filled from the served part of the log, and while the
\* connection is registered that part is nowhere else.
ServedOK(c) ==
    /\ start[c] <= Len(log)
    /\ conn[c] # "new" => Places(c) \subseteq Served(c)
    /\ conn[c] = "open" => Served(c) \subseteq Places(c)

ConnOK(c) == FreshOK(c) /\ ApartOK(c) /\ ServedOK(c)

Inv == TypeOK /\ LogOK /\ RingOK /\ (\A c \in Conns : ConnOK(c))

\* A step that keeps a connection's places, its position and the log keeps
\* what the invariant says of the connection.
LEMMA ConnUntouched ==
    ASSUME NEW c \in Conns, ConnOK(c),
           written'[c] = written[c], replay'[c] = replay[c],
           chan'[c] = chan[c], dropped'[c] = dropped[c],
           Owed(c)' = Owed(c), start'[c] = start[c], log' = log,
           conn'[c] = conn[c] \/ (conn[c] # "new" /\ conn'[c] \in {"deleted", "closed"})
    PROVE  ConnOK(c)'
<1>1. FreshOK(c)'
  BY DEF ConnOK, FreshOK
<1>2. ApartOK(c)'
  BY DEF ConnOK, ApartOK, Range, IsInjective
<1>3. Places(c)' = Places(c) /\ Served(c)' = Served(c)
  BY DEF Places, Served, Range
<1>4. ServedOK(c)'
  BY <1>3 DEF ConnOK, ServedOK
<1>. QED BY <1>1, <1>2, <1>4 DEF ConnOK

\* A broker with no events and no connections satisfies the invariant.
LEMMA InitInv == Init => Inv
<1>. SUFFICES ASSUME Init PROVE Inv
  OBVIOUS
<1>1. TypeOK
  BY CapsAssumption DEF Init, TypeOK, PublishPCs, ConnStates
<1>2. LogOK
  BY DEF Init, LogOK, IsInjective, Range
<1>3. RingOK
  BY DEF Init, RingOK
<1>4. ASSUME NEW c \in Conns PROVE ConnOK(c)
  BY DEF Init, ConnOK, FreshOK, ApartOK, ServedOK, IsInjective, Range, Owed
<1>. QED BY <1>1, <1>2, <1>3, <1>4 DEF Inv

\* What is written, replayed and queued, taken together, has no duplicates
\* and is part of the places.
LEMMA OutboundElems ==
    ASSUME Inv, NEW c \in Conns
    PROVE  /\ IsInjective(Outbound(c))
           /\ Range(Outbound(c)) =
                Range(written[c]) \cup Range(replay[c]) \cup Range(chan[c])
<1>1. written[c] \in Seq(Events) /\ replay[c] \in Seq(Events) /\ chan[c] \in Seq(Events)
  BY DEF Inv, TypeOK
<1>2. ApartOK(c)
  BY DEF Inv, ConnOK
<1>3. /\ written[c] \o replay[c] \in Seq(Events)
      /\ Range(written[c] \o replay[c]) = Range(written[c]) \cup Range(replay[c])
      /\ IsInjective(written[c] \o replay[c])
  BY <1>1, <1>2, ConcatElems DEF ApartOK
<1>4. (Range(written[c]) \cup Range(replay[c])) \cap Range(chan[c]) = {}
  BY <1>2 DEF ApartOK
<1>. DEFINE front == written[c] \o replay[c]
<1>5. /\ Range(front \o chan[c]) = Range(front) \cup Range(chan[c])
      /\ IsInjective(front \o chan[c])
  <2>. HIDE DEF front
  <2>1. front \in Seq(Events) /\ IsInjective(front) /\ Range(front) \cap Range(chan[c]) = {}
    BY <1>3, <1>4 DEF front
  <2>. QED BY <2>1, <1>1, <1>2, ConcatElems DEF ApartOK
<1>. QED BY <1>3, <1>5 DEF Outbound

-----------------------------------------------------------------------------
(* Each action preserves the invariant.                                    *)

\* What a publish appends: the ring stays the end of the log.
LEMMA TrimSuffix ==
    ASSUME Inv, NEW e \in Events, NEW new, new = Trim(Append(ring, e))
    PROVE  /\ new \in Seq(Events)
           /\ Len(new) <= RingCap
           /\ Len(new) <= Len(log) + 1
           /\ \A i \in 1 .. Len(new) :
                 new[i] = Append(log, e)[Len(log) + 1 - Len(new) + i]
<1>1. /\ ring \in Seq(Events) /\ log \in Seq(Events)
      /\ RingCap \in Nat \ {0}
      /\ Len(ring) <= Len(log)
      /\ \A i \in 1 .. Len(ring) : ring[i] = log[Len(log) - Len(ring) + i]
      /\ Len(ring) \in Nat /\ Len(log) \in Nat /\ Len(ring) <= RingCap
  BY CapsAssumption DEF Inv, TypeOK, RingOK
<1>2. PICK long : long = Append(ring, e)
  OBVIOUS
<1>3. /\ long \in Seq(Events)
      /\ Len(long) = Len(ring) + 1
      /\ \A i \in 1 .. Len(ring) : long[i] = ring[i]
      /\ long[Len(ring) + 1] = e
  BY <1>1, <1>2
<1>4. ASSUME NEW i \in 1 .. Len(ring) + 1
      PROVE  long[i] = Append(log, e)[Len(log) - Len(ring) + i]
  <2>1. CASE i = Len(ring) + 1
    BY <2>1, <1>1, <1>3
  <2>2. CASE i \in 1 .. Len(ring)
    <3>1. Len(log) - Len(ring) + i \in 1 .. Len(log)
      BY <2>2, <1>1
    <3>2. Append(log, e)[Len(log) - Len(ring) + i] = log[Len(log) - Len(ring) + i]
      BY <3>1, <1>1
    <3>. QED BY <3>2, <2>2, <1>1, <1>3
  <2>. QED BY <2>1, <2>2, <1>1
<1>5. CASE Len(long) > RingCap
  <2>1. PICK m : m = Len(long) - RingCap + 1
    OBVIOUS
  <2>2. new = SubSeq(long, m, Len(long))
    BY <1>2, <1>5, <2>1 DEF Trim
  <2>3. /\ m \in 1 .. Len(long)
        /\ m \in Int /\ Len(long) \in Int
        /\ \A i \in m .. Len(long) : long[i] \in Events
    BY <1>1, <1>3, <1>5, <2>1, ElementOfSeq
  <2>4. /\ SubSeq(long, m, Len(long)) \in Seq(Events)
        /\ Len(SubSeq(long, m, Len(long))) = Len(long) - m + 1
        /\ \A i \in 1 .. Len(long) - m + 1 :
              SubSeq(long, m, Len(long))[i] = long[m + i - 1]
    BY <2>3, SubSeqProperties
  <2>5. /\ new \in Seq(Events)
        /\ Len(new) = RingCap
        /\ \A i \in 1 .. RingCap : new[i] = long[m + i - 1]
    BY <2>1, <2>2, <2>4, <1>1, <1>3
  <2>6. ASSUME NEW i \in 1 .. Len(new)
        PROVE  new[i] = Append(log, e)[Len(log) + 1 - Len(new) + i]
    <3>1. m + i - 1 \in 1 .. Len(ring) + 1
      BY <1>1, <1>3, <1>5, <2>1, <2>5
    <3>2. Len(log) - Len(ring) + (m + i - 1) = Len(log) + 1 - Len(new) + i
      BY <1>1, <1>3, <2>1, <2>5
    <3>3. new[i] = long[m + i - 1]
      BY <2>5
    <3>. QED BY <3>1, <3>2, <3>3, <1>4
  <2>7. Len(new) <= RingCap /\ Len(new) <= Len(log) + 1
    BY <2>5, <1>1, <1>3, <1>5
  <2>. QED BY <2>5, <2>6, <2>7
<1>6. CASE ~(Len(long) > RingCap)
  <2>1. new = long
    BY <1>2, <1>6 DEF Trim
  <2>2. Len(long) <= RingCap
    BY <1>1, <1>3, <1>6
  <2>3. ASSUME NEW i \in 1 .. Len(new)
        PROVE  new[i] = Append(log, e)[Len(log) + 1 - Len(new) + i]
    <3>0. Len(new) = Len(ring) + 1
      BY <2>1, <1>3
    <3>1. Len(log) + 1 - Len(new) + i = Len(log) - Len(ring) + i
      BY <1>1, <3>0
    <3>2. i \in 1 .. Len(ring) + 1
      BY <2>1, <1>3
    <3>. QED BY <3>1, <3>2, <2>1, <1>4
  <2>4. Len(new) <= Len(log) + 1
    BY <2>1, <1>1, <1>3
  <2>. QED BY <2>1, <2>2, <2>3, <2>4, <1>3
<1>. QED BY <1>5, <1>6

\* The critical section of Publish: the ring stays the end of the log, and
\* every registered connection is owed the new event.
LEMMA PublishLockedInv ==
    ASSUME Inv, NEW e \in Events, PublishLocked(e)
    PROVE  Inv'
<1>. USE DEF PublishLocked, connVars
<1>1. /\ log \in Seq(Events) /\ log' = Append(log, e)
      /\ e \notin Range(log) /\ IsInjective(log)
  BY DEF Inv, TypeOK, LogOK
<1>2. /\ log' \in Seq(Events)
      /\ Len(log') = Len(log) + 1
      /\ Range(log') = Range(log) \cup {e}
      /\ IsInjective(log')
      /\ \A i \in 1 .. Len(log) : log'[i] = log[i]
      /\ log'[Len(log) + 1] = e
      /\ Len(log) \in Nat
  BY <1>1, AppendElems
<1>3. TypeOK'
  <2>1. ring' \in Seq(Events) /\ Len(ring') <= RingCap
    BY TrimSuffix DEF PublishLocked
  <2>2. pc' \in [Events -> PublishPCs]
    BY DEF Inv, TypeOK, PublishPCs
  <2>3. pending' \in [Events -> SUBSET Conns] /\ before' \in [Events -> SUBSET Events]
    BY DEF Inv, TypeOK, Subs, Finished
  <2>. QED BY <2>1, <2>2, <2>3, <1>2 DEF Inv, TypeOK
<1>4. LogOK'
  BY <1>2 DEF Inv, TypeOK, LogOK, Range
<1>5. RingOK'
  <2>1. ring' = Trim(Append(ring, e))
    OBVIOUS
  <2>2. /\ Len(ring') <= Len(log) + 1
        /\ \A i \in 1 .. Len(ring') :
              ring'[i] = Append(log, e)[Len(log) + 1 - Len(ring') + i]
    BY <2>1, TrimSuffix
  <2>3. /\ Len(ring') <= Len(log')
        /\ \A i \in 1 .. Len(ring') : ring'[i] = log'[Len(log') - Len(ring') + i]
    <3>. HIDE DEF PublishLocked
    <3>1. Len(log') = Len(log) + 1
      BY <1>2
    <3>2. log' = Append(log, e)
      BY <1>1
    <3>3. Len(ring') <= Len(log')
      BY <2>2, <3>1
    <3>4. ASSUME NEW i \in 1 .. Len(ring')
          PROVE  ring'[i] = log'[Len(log') - Len(ring') + i]
      <4>1. ring'[i] = Append(log, e)[Len(log) + 1 - Len(ring') + i]
        BY <2>2
      <4>2. Len(log') - Len(ring') + i = Len(log) + 1 - Len(ring') + i
        <5>1. Len(log) \in Int /\ Len(ring') \in Int /\ i \in Int
          BY <1>2, TrimSuffix DEF PublishLocked
        <5>. QED BY <5>1, <3>1
      <4>. QED BY <4>1, <4>2, <3>2, Zenon
    <3>. QED BY <3>3, <3>4
  <2>. QED BY <2>3 DEF RingOK
<1>6. ASSUME NEW c \in Conns PROVE ConnOK(c)'
  <2>1. ConnOK(c) /\ TypeOK
    BY DEF Inv
  <2>2. start[c] \in Nat /\ start[c] <= Len(log)
    BY <2>1 DEF ConnOK, ServedOK, TypeOK
  <2>3. Served(c)' = Served(c) \cup {e}
    <3>1. ASSUME NEW y \in Served(c)' PROVE y \in Served(c) \cup {e}
      BY <1>2, <2>2 DEF Served
    <3>2. ASSUME NEW y \in Served(c) PROVE y \in Served(c)'
      BY <1>2, <2>2 DEF Served
    <3>3. e \in Served(c)'
      BY <1>2, <2>2 DEF Served
    <3>. QED BY <3>1, <3>2, <3>3
  <2>4. /\ Served(c) \subseteq Range(log)
    BY <1>1, <2>2 DEF Served, Range
  <2>5. e \notin Places(c)
    <3>1. CASE conn[c] = "new"
      BY <3>1, <2>1 DEF ConnOK, FreshOK, Places, Range
    <3>2. CASE conn[c] # "new"
      BY <3>2, <2>1, <2>4, <1>1 DEF ConnOK, ServedOK
    <3>. QED BY <3>1, <3>2
  <2>6. /\ conn[c] = "open" => Owed(c)' = Owed(c) \cup {e}
        /\ conn[c] # "open" => Owed(c)' = Owed(c)
    BY <2>1, <2>5 DEF Owed, Subs, TypeOK, Places
  <2>7. FreshOK(c)'
    BY <2>1, <2>6 DEF ConnOK, FreshOK
  <2>8. ApartOK(c)'
    <3>1. /\ Range(written[c])' = Range(written[c])
          /\ Range(replay[c])' = Range(replay[c])
          /\ Range(chan[c])' = Range(chan[c])
          /\ IsInjective(written[c])' = IsInjective(written[c])
          /\ IsInjective(replay[c])' = IsInjective(replay[c])
          /\ IsInjective(chan[c])' = IsInjective(chan[c])
      BY DEF Range, IsInjective
    <3>2. Owed(c)' \subseteq Owed(c) \cup {e}
      BY <2>6
    <3>. QED BY <3>1, <3>2, <2>1, <2>5 DEF ConnOK, ApartOK, Places
  <2>9. ServedOK(c)'
    <3>1. Range(written[c])' = Range(written[c]) /\ Range(replay[c])' = Range(replay[c])
          /\ Range(chan[c])' = Range(chan[c])
      BY DEF Range
    <3>. QED BY <3>1, <2>1, <2>2, <2>3, <2>6, <1>2 DEF ConnOK, ServedOK, Places
  <2>. QED BY <2>7, <2>8, <2>9 DEF ConnOK
<1>. QED BY <1>3, <1>4, <1>5, <1>6 DEF Inv

\* A send to one connection concerns no other: what the others are owed stays.
LEMMA OwedAfterSend ==
    ASSUME Inv, NEW e \in Events, NEW c \in Conns, e \in Owed(c),
           pending' = [pending EXCEPT ![e] = @ \ {c}]
    PROVE  /\ Owed(c)' = Owed(c) \ {e}
           /\ \A d \in Conns \ {c} : Owed(d)' = Owed(d)
BY DEF Inv, TypeOK, Owed

\* A send that the channel takes: what was owed is now on its way.
LEMMA SendTakenInv ==
    ASSUME Inv, NEW e \in Events, NEW c \in Conns, SendTaken(e, c)
    PROVE  Inv'
<1>. USE DEF SendTaken
<1>1. /\ e \in Owed(c)
      /\ chan[c] \in Seq(Events)
      /\ chan'[c] = Append(chan[c], e)
      /\ \A d \in Conns \ {c} : chan'[d] = chan[d]
      /\ ConnOK(c)
  BY DEF Inv, TypeOK, Owed
<1>2. /\ Owed(c)' = Owed(c) \ {e}
      /\ \A d \in Conns \ {c} : Owed(d)' = Owed(d)
  BY <1>1, OwedAfterSend
<1>3. /\ chan'[c] \in Seq(Events)
      /\ Len(chan'[c]) = Len(chan[c]) + 1
      /\ Range(chan'[c]) = Range(chan[c]) \cup {e}
      /\ IsInjective(chan[c]) /\ e \notin Range(chan[c]) => IsInjective(chan'[c])
  BY <1>1, AppendElems
<1>4. TypeOK'
  <2>1. chan' \in [Conns -> Seq(Events)] /\ pending' \in [Events -> SUBSET Conns]
    BY <1>1, <1>3 DEF Inv, TypeOK
  <2>2. \A d \in Conns : Len(chan'[d]) <= ChanCap
    BY <1>1, <1>3, CapsAssumption DEF Inv, TypeOK
  <2>. QED BY <2>1, <2>2 DEF Inv, TypeOK
<1>5. LogOK' /\ RingOK'
  BY DEF Inv, LogOK, RingOK, IsInjective, Range
<1>6. ConnOK(c)'
  <2>1. FreshOK(c)'
    BY <1>1 DEF ConnOK, FreshOK
  <2>2. /\ Range(written[c])' = Range(written[c])
        /\ Range(replay[c])' = Range(replay[c])
        /\ Range(chan[c])' = Range(chan[c]) \cup {e}
        /\ IsInjective(written[c])' = IsInjective(written[c])
        /\ IsInjective(replay[c])' = IsInjective(replay[c])
        /\ IsInjective(chan[c])'
        /\ e \notin Range(written[c]) /\ e \notin Range(replay[c])
        /\ e \notin Range(chan[c]) /\ e \notin dropped[c]
    BY <1>1, <1>3 DEF ConnOK, ApartOK, Range, IsInjective
  <2>3. ApartOK(c)'
    BY <1>1, <1>2, <2>2 DEF ConnOK, ApartOK
  <2>4. Places(c)' = Places(c) /\ Served(c)' = Served(c)
    BY <1>1, <1>2, <2>2 DEF Places, Served
  <2>5. ServedOK(c)'
    BY <1>1, <2>4 DEF ConnOK, ServedOK
  <2>. QED BY <2>1, <2>3, <2>5 DEF ConnOK
<1>7. ASSUME NEW d \in Conns \ {c} PROVE ConnOK(d)'
  BY <1>1, <1>2, ConnUntouched DEF Inv
<1>. QED BY <1>4, <1>5, <1>6, <1>7 DEF Inv

\* A send that finds the channel full: what was owed is now dropped.
LEMMA SendDroppedInv ==
    ASSUME Inv, NEW e \in Events, NEW c \in Conns, SendDropped(e, c)
    PROVE  Inv'
<1>. USE DEF SendDropped
<1>1. /\ e \in Owed(c)
      /\ dropped'[c] = dropped[c] \cup {e}
      /\ \A d \in Conns \ {c} : dropped'[d] = dropped[d]
      /\ ConnOK(c)
  BY DEF Inv, TypeOK, Owed
<1>2. /\ Owed(c)' = Owed(c) \ {e}
      /\ \A d \in Conns \ {c} : Owed(d)' = Owed(d)
  BY <1>1, OwedAfterSend
<1>3. TypeOK'
  BY DEF Inv, TypeOK
<1>4. LogOK' /\ RingOK'
  BY DEF Inv, LogOK, RingOK, IsInjective, Range
<1>5. ConnOK(c)'
  <2>1. FreshOK(c)'
    BY <1>1 DEF ConnOK, FreshOK
  <2>2. /\ Range(written[c])' = Range(written[c])
        /\ Range(replay[c])' = Range(replay[c])
        /\ Range(chan[c])' = Range(chan[c])
        /\ IsInjective(written[c])' = IsInjective(written[c])
        /\ IsInjective(replay[c])' = IsInjective(replay[c])
        /\ IsInjective(chan[c])' = IsInjective(chan[c])
    BY DEF Range, IsInjective
  <2>3. ApartOK(c)'
    BY <1>1, <1>2, <2>2 DEF ConnOK, ApartOK
  <2>4. Places(c)' = Places(c) /\ Served(c)' = Served(c)
    BY <1>1, <1>2, <2>2 DEF Places, Served
  <2>5. ServedOK(c)'
    BY <1>1, <2>4 DEF ConnOK, ServedOK
  <2>. QED BY <2>1, <2>3, <2>5 DEF ConnOK
<1>6. ASSUME NEW d \in Conns \ {c} PROVE ConnOK(d)'
  BY <1>1, <1>2, ConnUntouched DEF Inv
<1>. QED BY <1>3, <1>4, <1>5, <1>6 DEF Inv

\* The steps of a publisher that only end it.
LEMMA PublisherEndsInv ==
    ASSUME Inv, NEW e \in Events,
           PublishReturns(e) \/ (\E c \in Conns : SendPanics(e, c))
    PROVE  Inv'
<1>. USE DEF PublishReturns, SendPanics, connVars
<1>1. /\ pc[e] = "sending"
      /\ pc' \in [Events -> PublishPCs]
      /\ \A f \in Events : pc'[f] = "idle" <=> pc[f] = "idle"
  BY DEF Inv, TypeOK, PublishPCs
<1>2. TypeOK'
  BY <1>1 DEF Inv, TypeOK
<1>3. LogOK' /\ RingOK'
  BY <1>1 DEF Inv, LogOK, RingOK, IsInjective, Range
<1>4. ASSUME NEW c \in Conns PROVE ConnOK(c)'
  <2>1. Owed(c)' = Owed(c)
    BY DEF Owed
  <2>. QED BY <2>1, ConnUntouched DEF Inv
<1>. QED BY <1>2, <1>3, <1>4 DEF Inv

\* A step of one stream handler after it subscribed: what it takes from the
\* replay or the channel is written or lost, and nothing else moves.
LEMMA HandlerInv ==
    ASSUME Inv, NEW c \in Conns,
           \/ WriteReplay(c) \/ WriteLive(c)
           \/ ReplayWriteFails(c) \/ LiveWriteFails(c)
           \/ ContextDone(c) \/ CloseChannel(c)
    PROVE  Inv'
<1>. USE DEF WriteReplay, WriteLive, ReplayWriteFails, LiveWriteFails,
             ContextDone, CloseChannel, pubVars
<1>1. /\ written[c] \in Seq(Events) /\ replay[c] \in Seq(Events)
      /\ chan[c] \in Seq(Events) /\ Len(chan[c]) <= ChanCap
      /\ ConnOK(c) /\ TypeOK /\ conn[c] # "new"
      /\ UNCHANGED <<ring, log, pc, pending, before, start, dropped>>
  BY DEF Inv, TypeOK
<1>2. \A d \in Conns : Owed(d)' = Owed(d)
  BY <1>1 DEF Owed
<1>3. /\ IsInjective(written[c]) /\ IsInjective(replay[c]) /\ IsInjective(chan[c])
  BY <1>1 DEF ConnOK, ApartOK
<1>4. /\ conn' \in [Conns -> ConnStates]
      /\ conn'[c] # "new"
      /\ conn'[c] = "open" => conn[c] = "open"
      /\ \A d \in Conns \ {c} : conn'[d] = conn[d]
  BY <1>1 DEF TypeOK, ConnStates
<1>0. /\ Range(written[c])' = Range(written'[c])
      /\ Range(replay[c])' = Range(replay'[c])
      /\ Range(chan[c])' = Range(chan'[c])
      /\ IsInjective(written[c])' <=> IsInjective(written'[c])
      /\ IsInjective(replay[c])' <=> IsInjective(replay'[c])
      /\ IsInjective(chan[c])' <=> IsInjective(chan'[c])
  BY DEF Range, IsInjective
<1>5. CASE WriteReplay(c)
  <2>1. /\ Head(replay[c]) \in Events
        /\ Head(replay[c]) \in Range(replay[c])
        /\ Tail(replay[c]) \in Seq(Events)
        /\ IsInjective(Tail(replay[c]))
        /\ Range(Tail(replay[c])) = Range(replay[c]) \ {Head(replay[c])}
    BY <1>1, <1>3, <1>5, TailElems
  <2>2. Head(replay[c]) \notin Range(written[c])
    BY <1>1, <2>1 DEF ConnOK, ApartOK
  <2>3. PICK x : x = Head(replay[c])
    OBVIOUS
  <2>4. /\ Append(written[c], x) \in Seq(Events)
        /\ Range(Append(written[c], x)) = Range(written[c]) \cup {x}
        /\ IsInjective(Append(written[c], x))
    BY <1>1, <1>3, <2>1, <2>2, <2>3, AppendElems
  <2>5. /\ written'[c] = Append(written[c], x)
        /\ replay'[c] = Tail(replay[c])
        /\ chan' = chan /\ conn' = conn
        /\ \A d \in Conns \ {c} : written'[d] = written[d] /\ replay'[d] = replay[d]
        /\ written' \in [Conns -> Seq(Events)]
        /\ replay' \in [Conns -> Seq(Events)]
    BY <1>1, <1>5, <2>1, <2>3, <2>4 DEF TypeOK
  <2>6. /\ Range(written[c])' = Range(written[c]) \cup {x}
        /\ Range(replay[c])' = Range(replay[c]) \ {x}
        /\ Range(chan[c])' = Range(chan[c])
        /\ IsInjective(written[c])' /\ IsInjective(replay[c])' /\ IsInjective(chan[c])'
    BY <1>0, <1>3, <2>1, <2>3, <2>4, <2>5
  <2>7. TypeOK'
    BY <1>1, <2>5 DEF TypeOK
  <2>8. LogOK' /\ RingOK'
    BY <1>1 DEF Inv, LogOK, RingOK, IsInjective, Range
  <2>9. ConnOK(c)'
    <3>1. ApartOK(c)'
      BY <1>1, <1>2, <2>1, <2>3, <2>6 DEF ConnOK, ApartOK
    <3>2. Places(c)' = Places(c) /\ Served(c)' = Served(c)
      BY <1>1, <1>2, <2>1, <2>3, <2>6 DEF Places, Served
    <3>3. ServedOK(c)'
      BY <1>1, <1>4, <3>2 DEF ConnOK, ServedOK
    <3>. QED BY <1>4, <3>1, <3>3 DEF ConnOK, FreshOK
  <2>10. ASSUME NEW d \in Conns \ {c} PROVE ConnOK(d)'
    BY <1>1, <1>2, <2>5, ConnUntouched DEF Inv
  <2>. QED BY <2>7, <2>8, <2>9, <2>10 DEF Inv
<1>6. CASE WriteLive(c)
  <2>1. /\ Head(chan[c]) \in Events
        /\ Head(chan[c]) \in Range(chan[c])
        /\ Tail(chan[c]) \in Seq(Events)
        /\ Len(Tail(chan[c])) = Len(chan[c]) - 1
        /\ IsInjective(Tail(chan[c]))
        /\ Range(Tail(chan[c])) = Range(chan[c]) \ {Head(chan[c])}
    BY <1>1, <1>3, <1>6, TailElems
  <2>2. Head(chan[c]) \notin Range(written[c])
    BY <1>1, <2>1 DEF ConnOK, ApartOK
  <2>3. PICK x : x = Head(chan[c])
    OBVIOUS
  <2>4. /\ Append(written[c], x) \in Seq(Events)
        /\ Range(Append(written[c], x)) = Range(written[c]) \cup {x}
        /\ IsInjective(Append(written[c], x))
    BY <1>1, <1>3, <2>1, <2>2, <2>3, AppendElems
  <2>5. /\ written'[c] = Append(written[c], x)
        /\ chan'[c] = Tail(chan[c])
        /\ replay' = replay /\ conn' = conn
        /\ \A d \in Conns \ {c} : written'[d] = written[d] /\ chan'[d] = chan[d]
        /\ written' \in [Conns -> Seq(Events)]
        /\ chan' \in [Conns -> Seq(Events)]
    BY <1>1, <1>6, <2>1, <2>3, <2>4 DEF TypeOK
  <2>6. /\ Range(written[c])' = Range(written[c]) \cup {x}
        /\ Range(chan[c])' = Range(chan[c]) \ {x}
        /\ Range(replay[c])' = Range(replay[c])
        /\ IsInjective(written[c])' /\ IsInjective(replay[c])' /\ IsInjective(chan[c])'
    BY <1>0, <1>3, <2>1, <2>3, <2>4, <2>5
  <2>7. TypeOK'
    <3>0. Len(chan[c]) \in Nat /\ ChanCap \in Nat
      BY <1>1, CapsAssumption
    <3>1. \A d \in Conns : Len(chan'[d]) <= ChanCap
      <4>1. Len(chan'[c]) <= ChanCap
        BY <3>0, <1>1, <2>1, <2>5
      <4>2. ASSUME NEW d \in Conns \ {c} PROVE Len(chan'[d]) <= ChanCap
        BY <1>1, <2>5 DEF TypeOK
      <4>. QED BY <4>1, <4>2
    <3>. QED BY <3>1, <1>1, <2>5 DEF TypeOK
  <2>8. LogOK' /\ RingOK'
    BY <1>1 DEF Inv, LogOK, RingOK, IsInjective, Range
  <2>9. ConnOK(c)'
    <3>1. ApartOK(c)'
      BY <1>1, <1>2, <2>1, <2>3, <2>6 DEF ConnOK, ApartOK
    <3>2. Places(c)' = Places(c) /\ Served(c)' = Served(c)
      BY <1>1, <1>2, <2>1, <2>3, <2>6 DEF Places, Served
    <3>3. ServedOK(c)'
      BY <1>1, <1>4, <3>2 DEF ConnOK, ServedOK
    <3>. QED BY <1>4, <3>1, <3>3 DEF ConnOK, FreshOK
  <2>10. ASSUME NEW d \in Conns \ {c} PROVE ConnOK(d)'
    BY <1>1, <1>2, <2>5, ConnUntouched DEF Inv
  <2>. QED BY <2>7, <2>8, <2>9, <2>10 DEF Inv
<1>7. CASE ReplayWriteFails(c) \/ LiveWriteFails(c) \/ ContextDone(c) \/ CloseChannel(c)
  <2>1. /\ written' = written
        /\ replay'[c] \in Seq(Events) /\ chan'[c] \in Seq(Events)
        /\ Len(chan'[c]) <= ChanCap
        /\ IsInjective(replay'[c]) /\ IsInjective(chan'[c])
        /\ Range(replay'[c]) \subseteq Range(replay[c])
        /\ Range(chan'[c]) \subseteq Range(chan[c])
        /\ conn'[c] # "open"
        /\ \A d \in Conns \ {c} : replay'[d] = replay[d] /\ chan'[d] = chan[d]
        /\ replay' \in [Conns -> Seq(Events)]
        /\ chan' \in [Conns -> Seq(Events)]
    <3>1. CASE ReplayWriteFails(c)
      <4>1. /\ replay'[c] = Tail(replay[c]) /\ chan' = chan /\ written' = written
            /\ replay[c] # << >>
            /\ conn'[c] = "deleted"
            /\ replay' = [replay EXCEPT ![c] = Tail(@)]
        BY <3>1, <1>1 DEF TypeOK
      <4>2. /\ Tail(replay[c]) \in Seq(Events)
            /\ IsInjective(Tail(replay[c]))
            /\ Range(Tail(replay[c])) \subseteq Range(replay[c])
        BY <4>1, <1>1, <1>3, TailElems
      <4>. QED BY <4>1, <4>2, <1>1, <1>3 DEF TypeOK
    <3>2. CASE LiveWriteFails(c)
      <4>1. /\ chan'[c] = Tail(chan[c]) /\ replay' = replay /\ written' = written
            /\ chan[c] # << >>
            /\ conn'[c] = "deleted"
            /\ chan' = [chan EXCEPT ![c] = Tail(@)]
        BY <3>2, <1>1 DEF TypeOK
      <4>2. /\ Tail(chan[c]) \in Seq(Events)
            /\ Len(Tail(chan[c])) = Len(chan[c]) - 1
            /\ IsInjective(Tail(chan[c]))
            /\ Range(Tail(chan[c])) \subseteq Range(chan[c])
        BY <4>1, <1>1, <1>3, TailElems
      <4>3. Len(Tail(chan[c])) <= ChanCap
        BY <4>2, <1>1, CapsAssumption
      <4>. QED BY <4>1, <4>2, <4>3, <1>1, <1>3 DEF TypeOK
    <3>3. CASE ContextDone(c) \/ CloseChannel(c)
      BY <3>3, <1>1, <1>3 DEF TypeOK
    <3>. QED BY <1>7, <3>1, <3>2, <3>3
  <2>2. TypeOK'
    <3>1. \A d \in Conns : Len(chan'[d]) <= ChanCap
      BY <1>1, <2>1 DEF TypeOK
    <3>. QED BY <3>1, <1>1, <1>4, <2>1 DEF TypeOK
  <2>3. LogOK' /\ RingOK'
    BY <1>1 DEF Inv, LogOK, RingOK, IsInjective, Range
  <2>4. ConnOK(c)'
    <3>1. /\ Range(written[c])' = Range(written[c])
          /\ Range(replay[c])' \subseteq Range(replay[c])
          /\ Range(chan[c])' \subseteq Range(chan[c])
          /\ IsInjective(written[c])' /\ IsInjective(replay[c])' /\ IsInjective(chan[c])'
      BY <1>0, <1>3, <2>1
    <3>2. ApartOK(c)'
      BY <1>1, <1>2, <3>1 DEF ConnOK, ApartOK
    <3>3. Places(c)' \subseteq Places(c) /\ Served(c)' = Served(c)
      BY <1>1, <1>2, <3>1 DEF Places, Served
    <3>4. ServedOK(c)'
      BY <1>1, <2>1, <3>3 DEF ConnOK, ServedOK
    <3>. QED BY <1>4, <3>2, <3>4 DEF ConnOK, FreshOK
  <2>5. ASSUME NEW d \in Conns \ {c} PROVE ConnOK(d)'
    BY <1>1, <1>2, <1>4, <2>1, ConnUntouched DEF Inv
  <2>. QED BY <2>2, <2>3, <2>4, <2>5 DEF Inv
<1>. QED BY <1>5, <1>6, <1>7

\* What Subscribe replays is the log after the position it serves from.
LEMMA ReplayIsServed ==
    ASSUME Inv, NEW cursor, NEW rest, rest = After(ring, cursor),
           NEW p, p = Position(cursor)
    PROVE  /\ rest \in Seq(Events)
           /\ p \in 0 .. Len(log)
           /\ IsInjective(rest)
           /\ Range(rest) = {log[i] : i \in p + 1 .. Len(log)}
           /\ \A i \in DOMAIN rest : p + i \in DOMAIN log /\ rest[i] = log[p + i]
<1>1. /\ ring \in Seq(Events) /\ log \in Seq(Events)
      /\ Len(ring) <= Len(log)
      /\ \A i \in 1 .. Len(ring) : ring[i] = log[Len(log) - Len(ring) + i]
      /\ Len(ring) \in Nat /\ Len(log) \in Nat
      /\ DOMAIN ring = 1 .. Len(ring) /\ DOMAIN log = 1 .. Len(log)
      /\ IsInjective(log)
  BY DEF Inv, TypeOK, RingOK, LogOK
<1>2. CASE cursor \notin Range(ring)
  <2>1. rest = << >> /\ p = Len(log)
    BY <1>2 DEF After, Position
  <2>2. {log[i] : i \in p + 1 .. Len(log)} = {}
    BY <2>1, <1>1
  <2>. QED BY <2>1, <2>2, <1>1 DEF IsInjective, Range
<1>3. CASE cursor \in Range(ring)
  <2>1. PICK q : q = CHOOSE i \in DOMAIN ring : ring[i] = cursor
    OBVIOUS
  <2>2. q \in 1 .. Len(ring) /\ ring[q] = cursor
    BY <1>1, <1>3, <2>1 DEF Range
  <2>3. rest = SubSeq(ring, q + 1, Len(ring))
    BY <1>3, <2>1 DEF After
  <2>4. p = Len(log) - Len(ring) + q
    <3>1. Len(log) - Len(ring) + q \in DOMAIN log
          /\ log[Len(log) - Len(ring) + q] = cursor
      BY <1>1, <2>2
    <3>2. p = CHOOSE i \in DOMAIN log : log[i] = cursor
      BY <1>3 DEF Position
    <3>3. p \in DOMAIN log /\ log[p] = cursor
      BY <3>1, <3>2
    <3>. QED BY <3>1, <3>3, <1>1 DEF IsInjective
  <2>5. /\ rest \in Seq(Events)
        /\ Len(rest) = Len(ring) - q
        /\ \A i \in 1 .. Len(ring) - q : rest[i] = ring[q + i]
        /\ DOMAIN rest = 1 .. Len(ring) - q
    <3>1. \A i \in q + 1 .. Len(ring) : ring[i] \in Events
      BY <1>1, <2>2, ElementOfSeq
    <3>2. /\ SubSeq(ring, q + 1, Len(ring)) \in Seq(Events)
          /\ Len(SubSeq(ring, q + 1, Len(ring))) =
               IF q + 1 <= Len(ring) THEN Len(ring) - (q + 1) + 1 ELSE 0
          /\ \A i \in 1 .. Len(ring) - (q + 1) + 1 :
                SubSeq(ring, q + 1, Len(ring))[i] = ring[q + 1 + i - 1]
      BY <3>1, <1>1, <2>2, SubSeqProperties
    <3>3. Len(rest) = Len(ring) - q
      BY <3>2, <2>3, <1>1, <2>2
    <3>4. rest \in Seq(Events) /\ DOMAIN rest = 1 .. Len(ring) - q
      BY <3>2, <3>3, <2>3, LenProperties
    <3>5. ASSUME NEW i \in 1 .. Len(ring) - q PROVE rest[i] = ring[q + i]
      <4>1. i \in 1 .. Len(ring) - (q + 1) + 1 /\ q + 1 + i - 1 = q + i
        BY <1>1, <2>2
      <4>. QED BY <4>1, <3>2, <2>3
    <3>. QED BY <3>3, <3>4, <3>5
  <2>6. \A i \in 1 .. Len(ring) - q : rest[i] = log[p + i]
    <3>1. ASSUME NEW i \in 1 .. Len(ring) - q PROVE rest[i] = log[p + i]
      <4>1. q + i \in 1 .. Len(ring)
        BY <1>1, <2>2
      <4>2. Len(log) - Len(ring) + (q + i) = p + i
        BY <1>1, <2>2, <2>4
      <4>. QED BY <4>1, <4>2, <2>5, <1>1
    <3>. QED BY <3>1
  <2>7. p \in 0 .. Len(log) /\ Len(log) - p = Len(ring) - q
    BY <1>1, <2>2, <2>4
  <2>8. IsInjective(rest)
    <3>1. ASSUME NEW i \in 1 .. Len(ring) - q, NEW j \in 1 .. Len(ring) - q,
                 rest[i] = rest[j]
          PROVE  i = j
      <4>1. p + i \in 1 .. Len(log) /\ p + j \in 1 .. Len(log)
        BY <1>1, <2>2, <2>7
      <4>2. p + i \in DOMAIN log /\ p + j \in DOMAIN log /\ log[p + i] = log[p + j]
        BY <1>1, <2>6, <3>1, <4>1
      <4>3. p + i = p + j
        BY <4>2, <1>1 DEF IsInjective
      <4>. QED BY <4>3, <2>7, <1>1
    <3>. QED BY <3>1, <2>5 DEF IsInjective
  <2>9. ASSUME NEW y \in Range(rest) PROVE y \in {log[i] : i \in p + 1 .. Len(log)}
    <3>1. PICK i \in 1 .. Len(ring) - q : y = rest[i]
      BY <2>5 DEF Range
    <3>2. p + i \in p + 1 .. Len(log) /\ y = log[p + i]
      BY <3>1, <2>2, <2>6, <2>7, <1>1
    <3>. QED BY <3>2
  <2>10. ASSUME NEW i \in p + 1 .. Len(log) PROVE log[i] \in Range(rest)
    <3>1. i - p \in 1 .. Len(ring) - q /\ p + (i - p) = i
      BY <2>2, <2>7, <1>1
    <3>2. rest[i - p] = log[i]
      BY <3>1, <2>6
    <3>. QED BY <3>1, <3>2, <2>5 DEF Range
  <2>11. ASSUME NEW i \in DOMAIN rest PROVE p + i \in DOMAIN log /\ rest[i] = log[p + i]
    <3>1. i \in 1 .. Len(ring) - q
      BY <2>5
    <3>2. p + i \in 1 .. Len(log)
      BY <3>1, <2>2, <2>7, <1>1
    <3>. QED BY <3>1, <3>2, <2>6, <1>1
  <2>. QED BY <2>5, <2>7, <2>8, <2>9, <2>10, <2>11
<1>. QED BY <1>2, <1>3

\* The critical section of Subscribe: the new connection has exactly the log
\* after the position it is served from.
LEMMA SubscribeInv ==
    ASSUME Inv, NEW c \in Conns, NEW cursor, Subscribe(c, cursor)
    PROVE  Inv'
<1>1. PICK rest : rest = After(ring, cursor)
  OBVIOUS
<1>2. PICK p : p = Position(cursor)
  OBVIOUS
<1>3. /\ rest \in Seq(Events)
      /\ p \in 0 .. Len(log)
      /\ IsInjective(rest)
      /\ Range(rest) = {log[i] : i \in p + 1 .. Len(log)}
  BY <1>1, <1>2, ReplayIsServed
<1>4. /\ conn[c] = "new"
      /\ conn'   = [conn EXCEPT ![c] = "open"]
      /\ replay' = [replay EXCEPT ![c] = rest]
      /\ start'  = [start EXCEPT ![c] = p]
      /\ UNCHANGED <<ring, log, pc, pending, before, chan, written, dropped>>
  BY <1>1, <1>2 DEF Subscribe, pubVars
<1>5. TypeOK /\ ConnOK(c) /\ FreshOK(c)
  BY DEF Inv, ConnOK
<1>6. TypeOK'
  <2>1. Len(log) \in Nat
    BY <1>5 DEF TypeOK
  <2>. QED BY <1>3, <1>4, <1>5, <2>1 DEF TypeOK, ConnStates
<1>7. LogOK' /\ RingOK'
  BY <1>4 DEF Inv, LogOK, RingOK, IsInjective, Range
<1>8. \A d \in Conns : Owed(d)' = Owed(d)
  BY <1>4 DEF Owed
<1>9. ConnOK(c)'
  <2>1. conn'[c] = "open" /\ replay'[c] = rest /\ start'[c] = p
        /\ written'[c] = << >> /\ chan'[c] = << >> /\ dropped'[c] = {}
        /\ Owed(c)' = {}
    BY <1>4, <1>5, <1>8 DEF TypeOK, FreshOK
  <2>2. /\ Range(written[c])' = {} /\ Range(chan[c])' = {}
        /\ Range(replay[c])' = Range(rest)
        /\ IsInjective(written[c])' /\ IsInjective(chan[c])' /\ IsInjective(replay[c])'
    BY <2>1, <1>3 DEF Range, IsInjective
  <2>3. Served(c)' = Range(rest)
    BY <1>3, <1>4, <2>1 DEF Served
  <2>4. FreshOK(c)'
    BY <2>1 DEF FreshOK
  <2>5. ApartOK(c)'
    BY <2>1, <2>2 DEF ApartOK
  <2>6. ServedOK(c)'
    BY <1>3, <1>4, <2>1, <2>2, <2>3 DEF ServedOK, Places
  <2>. QED BY <2>4, <2>5, <2>6 DEF ConnOK
<1>10. ASSUME NEW d \in Conns \ {c} PROVE ConnOK(d)'
  <2>1. /\ conn'[d] = conn[d] /\ replay'[d] = replay[d] /\ start'[d] = start[d]
    BY <1>4, <1>5 DEF TypeOK
  <2>. QED BY <2>1, <1>4, <1>8, ConnUntouched DEF Inv
<1>. QED BY <1>6, <1>7, <1>9, <1>10 DEF Inv

\* The invariant speaks of nothing but the variables.
LEMMA StutterInv == ASSUME Inv, UNCHANGED vars PROVE Inv'
<1>. USE DEF vars, pubVars, connVars
<1>1. TypeOK' /\ LogOK' /\ RingOK'
  BY DEF Inv, TypeOK, LogOK, RingOK, IsInjective, Range
<1>2. ASSUME NEW c \in Conns PROVE ConnOK(c)'
  <2>1. Owed(c)' = Owed(c)
    BY DEF Owed
  <2>. QED BY <2>1, ConnUntouched DEF Inv
<1>. QED BY <1>1, <1>2 DEF Inv

\* Every step of the broker keeps the invariant.
LEMMA NextInv == ASSUME Inv, [Next]_vars PROVE Inv'
<1>1. CASE UNCHANGED vars
  BY <1>1, StutterInv
<1>2. ASSUME NEW e \in Events, Publish(e) PROVE Inv'
  BY <1>2, PublishLockedInv, SendTakenInv, SendDroppedInv, PublisherEndsInv
     DEF Publish
<1>3. ASSUME NEW c \in Conns, NEW cursor \in Events \cup {NoCursor},
             Subscribe(c, cursor)
      PROVE  Inv'
  BY <1>3, SubscribeInv
<1>4. ASSUME NEW c \in Conns, StreamWrite(c) \/ Unsubscribe(c) PROVE Inv'
  BY <1>4, HandlerInv DEF StreamWrite, Unsubscribe
<1>. QED BY <1>1, <1>2, <1>3, <1>4 DEF Next

-----------------------------------------------------------------------------
(* The theorems.                                                           *)

\* The inductive invariant holds in every state the broker can reach.
THEOREM InvHolds == Spec => []Inv
<1>1. Init => Inv
  BY InitInv
<1>2. Inv /\ [Next]_vars => Inv'
  BY NextInv
<1>. QED BY <1>1, <1>2, PTL DEF Spec

\* Publish and Subscribe keep the ring and the channels within their caps.
THEOREM TypeCorrect == Spec => []TypeOK
<1>1. Inv => TypeOK
  BY DEF Inv
<1>. QED BY <1>1, InvHolds, PTL

\* No connection is ever sent an event twice, by replay, live or both.
THEOREM DeliversAtMostOnce == Spec => []AtMostOnce
<1>1. Inv => AtMostOnce
  BY OutboundElems DEF AtMostOnce
<1>. QED BY <1>1, InvHolds, PTL

\* A registered connection misses only what its full channel dropped or what
\* a publisher that panicked still owed it.
THEOREM LeavesNoSilentGap == Spec => []NoSilentGap
<1>1. ASSUME Inv PROVE NoSilentGap
  <2>. SUFFICES ASSUME NEW c \in Subs, NEW i \in DOMAIN log, i > start[c]
                PROVE  \/ log[i] \in Range(Outbound(c))
                       \/ log[i] \in dropped[c]
                       \/ log[i] \in Owed(c)
    BY DEF NoSilentGap
  <2>1. c \in Conns /\ conn[c] = "open"
    BY DEF Subs
  <2>2. start[c] \in Nat /\ log \in Seq(Events)
    BY <1>1, <2>1 DEF Inv, TypeOK
  <2>3. log[i] \in Served(c)
    BY <2>2 DEF Served
  <2>4. log[i] \in Places(c)
    BY <1>1, <2>1, <2>3 DEF Inv, ConnOK, ServedOK
  <2>. QED BY <1>1, <2>1, <2>4, OutboundElems DEF Places
<1>. QED BY <1>1, InvHolds, PTL

\* Resuming from a cursor never sends the cursor's event or an older one again.
THEOREM ResumesAfterCursor == Spec => []NothingBeforeCursor
<1>1. ASSUME Inv PROVE NothingBeforeCursor
  <2>. SUFFICES ASSUME NEW c \in Conns, NEW i \in DOMAIN log,
                       log[i] \in Range(Outbound(c))
                PROVE  i > start[c]
    BY DEF NothingBeforeCursor
  <2>1. log[i] \in Places(c)
    BY <1>1, OutboundElems DEF Places
  <2>2. conn[c] # "new"
    <3>. SUFFICES ASSUME conn[c] = "new" PROVE FALSE
      OBVIOUS
    <3>1. FreshOK(c)
      BY <1>1 DEF Inv, ConnOK
    <3>2. Places(c) = {}
      BY <3>1 DEF FreshOK, Places, Range
    <3>. QED BY <3>2, <2>1
  <2>3. log[i] \in Served(c)
    BY <1>1, <2>1, <2>2 DEF Inv, ConnOK, ServedOK
  <2>4. PICK j \in start[c] + 1 .. Len(log) : log[i] = log[j]
    BY <2>3 DEF Served
  <2>5. start[c] \in Nat /\ log \in Seq(Events) /\ IsInjective(log)
    BY <1>1 DEF Inv, TypeOK, LogOK
  <2>6. j \in DOMAIN log
    BY <2>4, <2>5
  <2>. QED BY <2>4, <2>5, <2>6 DEF IsInjective
<1>. QED BY <1>1, InvHolds, PTL

-----------------------------------------------------------------------------
(* The broker implements Multicast.                                        *)

\* What a connection is still owed, in the terms of the broker.
Coming(c) == IF conn[c] = "open"
             THEN Range(replay[c]) \cup Range(chan[c]) \cup Owed(c)
             ELSE {}

Standing(c) == CASE conn[c] = "new"  -> "absent"
                 [] conn[c] = "open" -> "listening"
                 [] OTHER            -> "gone"

\* The refinement mapping, before and after a step, connection by connection.
LEMMA Mapping ==
    /\ AbstractOwed = [c \in Conns |-> Coming(c)]
    /\ AbstractState = [c \in Conns |-> Standing(c)]
    /\ AbstractOwed' = [c \in Conns |-> Coming(c)']
    /\ AbstractState' = [c \in Conns |-> Standing(c)']
BY DEF AbstractOwed, AbstractState, Coming, Standing

LEMMA RefinesInit == Init => Promise!Init
<1> SUFFICES ASSUME Init PROVE Promise!Init
  OBVIOUS
<1>1. \A c \in Conns : Coming(c) = {} /\ Standing(c) = "absent"
  BY DEF Init, Coming, Standing
<1>2. AbstractOwed = [c \in Conns |-> {}] /\ AbstractState = [c \in Conns |-> "absent"]
  BY <1>1, Mapping
<1> QED BY <1>2 DEF Init, Promise!Init

\* A step that concerns one connection at most, and announces nothing.
LEMMA MappedStep ==
    ASSUME NEW c \in Conns, NEW S, NEW st,
           \A d \in Conns \ {c} : Coming(d)' = Coming(d) /\ Standing(d)' = Standing(d),
           Coming(c)' = S, Standing(c)' = st
    PROVE  /\ AbstractOwed' = [AbstractOwed EXCEPT ![c] = S]
           /\ AbstractState' = [AbstractState EXCEPT ![c] = st]
           /\ AbstractOwed[c] = Coming(c) /\ AbstractState[c] = Standing(c)
           /\ S = Coming(c) => AbstractOwed' = AbstractOwed
           /\ st = Standing(c) => AbstractState' = AbstractState
<1> HIDE DEF Coming, Standing
<1>1. AbstractOwed = [d \in Conns |-> Coming(d)] /\ AbstractState = [d \in Conns |-> Standing(d)]
  BY Mapping
<1>2. AbstractOwed' = [d \in Conns |-> Coming(d)'] /\ AbstractState' = [d \in Conns |-> Standing(d)']
  BY Mapping
<1>3. AbstractOwed' = [AbstractOwed EXCEPT ![c] = S]
  BY <1>1, <1>2
<1>4. AbstractState' = [AbstractState EXCEPT ![c] = st]
  BY <1>1, <1>2
<1>5. S = Coming(c) => AbstractOwed' = AbstractOwed
  BY <1>1, <1>2
<1>6. st = Standing(c) => AbstractState' = AbstractState
  BY <1>1, <1>2
<1> QED BY <1>1, <1>3, <1>4, <1>5, <1>6

\* Publish's critical section announces, to those who listen.
LEMMA PublishAnnounces ==
    ASSUME Inv, NEW e \in Events, PublishLocked(e)
    PROVE  Promise!Announce(e)
<1>1. /\ log' = Append(log, e) /\ UNCHANGED <<conn, chan, replay, written>>
      /\ pending' = [pending EXCEPT ![e] = Subs]
  BY DEF PublishLocked, connVars
<1>2. e \notin Range(log)
  BY DEF Inv, LogOK, PublishLocked
<1>3. ASSUME NEW c \in Conns
      PROVE  /\ Standing(c)' = Standing(c)
             /\ Coming(c)' = IF Standing(c) = "listening" THEN Coming(c) \cup {e} ELSE Coming(c)
  <2>1. conn[c] = "open" => Owed(c)' = Owed(c) \cup {e}
    BY <1>1 DEF Inv, TypeOK, Owed, Subs
  <2>2. Range(replay[c])' = Range(replay[c]) /\ Range(chan[c])' = Range(chan[c])
    BY <1>1 DEF Range
  <2>3. Standing(c)' = Standing(c) /\ (Standing(c) = "listening" <=> conn[c] = "open")
    BY <1>1 DEF Standing
  <2> QED BY <1>1, <2>1, <2>2, <2>3 DEF Coming
<1>4. AbstractState' = AbstractState
  BY <1>3, Mapping
<1>5. AbstractOwed' = [c \in Conns |-> IF AbstractState[c] = "listening"
                                       THEN AbstractOwed[c] \cup {e} ELSE AbstractOwed[c]]
  BY <1>3, Mapping
<1> QED BY <1>1, <1>2, <1>4, <1>5 DEF Promise!Announce, Promise!Announced, Range

\* A send changes what is owed only if it drops; a publisher that ends, nothing.
LEMMA SendRefines ==
    ASSUME Inv, NEW e \in Events, NEW c \in Conns,
           SendTaken(e, c) \/ SendDropped(e, c)
    PROVE  Promise!Miss(c, e) \/ UNCHANGED Promise!mvars
<1>1. /\ e \in Owed(c) /\ conn' = conn /\ log' = log /\ written' = written /\ replay' = replay
      /\ chan \in [Conns -> Seq(Events)] /\ pending' = [pending EXCEPT ![e] = @ \ {c}]
      /\ ApartOK(c)
  BY DEF Inv, TypeOK, Owed, SendTaken, SendDropped, ConnOK
<1>2. /\ Owed(c)' = Owed(c) \ {e}
      /\ \A d \in Conns \ {c} : Owed(d)' = Owed(d)
  BY <1>1, OwedAfterSend
<1>3. \A d \in Conns : Standing(d)' = Standing(d) /\ Range(replay[d])' = Range(replay[d])
  BY <1>1 DEF Standing, Range
<1>4. CASE SendTaken(e, c)
  <2>1. chan'[c] = Append(chan[c], e) /\ \A d \in Conns \ {c} : chan'[d] = chan[d]
    BY <1>1, <1>4 DEF SendTaken
  <2>2. Range(chan[c])' = Range(chan[c]) \cup {e}
    <3>1. Range(Append(chan[c], e)) = Range(chan[c]) \cup {e}
      BY <1>1, AppendElems
    <3> QED BY <2>1, <3>1 DEF Range
  <2>3. ASSUME NEW d \in Conns \ {c} PROVE Coming(d)' = Coming(d)
    <3>1. Range(chan[d])' = Range(chan[d])
      BY <2>1 DEF Range
    <3> QED BY <1>1, <1>2, <1>3, <3>1 DEF Coming
  <2>4. Coming(c)' = Coming(c)
    BY <1>1, <1>2, <1>3, <2>2 DEF Coming
  <2>5. AbstractOwed' = AbstractOwed /\ AbstractState' = AbstractState
    BY <1>3, <2>3, <2>4, MappedStep
  <2> QED BY <1>1, <2>5 DEF Promise!mvars
<1>5. CASE SendDropped(e, c)
  <2>1. chan' = chan
    BY <1>5 DEF SendDropped
  <2>2. \A d \in Conns : Range(chan[d])' = Range(chan[d])
    BY <2>1 DEF Range
  <2>3. ASSUME NEW d \in Conns \ {c} PROVE Coming(d)' = Coming(d)
    BY <1>1, <1>2, <1>3, <2>2 DEF Coming
  <2>4. Coming(c)' = Coming(c) \ {e}
    BY <1>1, <1>2, <1>3, <2>2 DEF Coming, ApartOK
  <2>5. /\ AbstractOwed' = [AbstractOwed EXCEPT ![c] = Coming(c) \ {e}]
        /\ AbstractOwed[c] = Coming(c) /\ AbstractState' = AbstractState
    BY <1>3, <2>3, <2>4, MappedStep
  <2>6. CASE conn[c] = "open"
    <3>1. e \in AbstractOwed[c]
      BY <1>1, <2>5, <2>6 DEF Coming
    <3> QED BY <1>1, <2>5, <3>1 DEF Promise!Miss
  <2>7. CASE conn[c] # "open"
    <3>1. Coming(c)' = Coming(c)
      BY <2>4, <2>7 DEF Coming
    <3>2. AbstractOwed' = AbstractOwed
      BY <1>3, <2>3, <3>1, MappedStep
    <3> QED BY <1>1, <2>5, <3>2 DEF Promise!mvars
  <2> QED BY <2>6, <2>7
<1> QED BY <1>4, <1>5

\* Subscribe's critical section joins.
LEMMA SubscribeJoins ==
    ASSUME Inv, NEW c \in Conns, NEW cursor, Subscribe(c, cursor)
    PROVE  \E from \in 0 .. Len(log) : Promise!Join(c, from)
<1>1. PICK rest : rest = After(ring, cursor)
  OBVIOUS
<1>2. PICK p : p = Position(cursor)
  OBVIOUS
<1>3. p \in 0 .. Len(log) /\ Range(rest) = {log[i] : i \in p + 1 .. Len(log)}
  BY <1>1, <1>2, ReplayIsServed
<1>4. /\ conn[c] = "new" /\ conn' = [conn EXCEPT ![c] = "open"]
      /\ replay' = [replay EXCEPT ![c] = rest]
      /\ UNCHANGED <<log, pending, chan, written>>
      /\ conn \in [Conns -> ConnStates] /\ replay \in [Conns -> Seq(Events)]
      /\ FreshOK(c)
  BY <1>1 DEF Subscribe, pubVars, Inv, TypeOK, ConnOK
<1>5. \A d \in Conns : Owed(d)' = Owed(d) /\ Range(chan[d])' = Range(chan[d])
  BY <1>4 DEF Owed, Range
<1>6. ASSUME NEW d \in Conns \ {c} PROVE Coming(d)' = Coming(d) /\ Standing(d)' = Standing(d)
  <2>1. conn'[d] = conn[d] /\ replay'[d] = replay[d]
    BY <1>4
  <2> QED BY <1>5, <2>1 DEF Coming, Standing, Range
<1>7. conn'[c] = "open" /\ replay'[c] = rest /\ Range(chan[c]) = {} /\ Owed(c) = {}
  BY <1>4 DEF FreshOK, Range
<1>8. Coming(c)' = Range(rest)
  <2>1. Range(replay[c])' = Range(rest)
    BY <1>7 DEF Range
  <2> QED BY <1>5, <1>7, <2>1 DEF Coming
<1>9. Standing(c)' = "listening" /\ Standing(c) = "absent"
  BY <1>4, <1>7 DEF Standing
<1>10. /\ AbstractOwed' = [AbstractOwed EXCEPT ![c] = Range(rest)]
       /\ AbstractState' = [AbstractState EXCEPT ![c] = "listening"]
       /\ AbstractState[c] = "absent"
  BY <1>6, <1>8, <1>9, MappedStep
<1>11. Promise!Join(c, p)
  BY <1>3, <1>4, <1>10 DEF Promise!Join
<1> QED BY <1>3, <1>11

\* A stream handler hears or leaves.
LEMMA HandlerRefines ==
    ASSUME Inv, NEW c \in Conns, StreamWrite(c) \/ Unsubscribe(c)
    PROVE  \/ \E e \in Events : Promise!Hear(c, e)
           \/ Promise!Leave(c)
           \/ UNCHANGED Promise!mvars
<1> USE DEF pubVars
<1>1. /\ written \in [Conns -> Seq(Events)] /\ replay \in [Conns -> Seq(Events)]
      /\ chan \in [Conns -> Seq(Events)] /\ conn \in [Conns -> ConnStates]
      /\ replay[c] \in Seq(Events) /\ chan[c] \in Seq(Events) /\ ApartOK(c)
      /\ UNCHANGED <<log, pending>>
  BY DEF Inv, TypeOK, ConnOK, StreamWrite, WriteReplay, WriteLive, Unsubscribe, ReplayWriteFails,
     LiveWriteFails, ContextDone, CloseChannel
<1>2. \A d \in Conns : Owed(d)' = Owed(d)
  BY <1>1 DEF Owed
<1>3. ASSUME NEW d \in Conns \ {c} PROVE Coming(d)' = Coming(d) /\ Standing(d)' = Standing(d)
  <2>1. conn'[d] = conn[d] /\ replay'[d] = replay[d] /\ chan'[d] = chan[d]
    BY <1>1 DEF StreamWrite, WriteReplay, WriteLive, Unsubscribe, ReplayWriteFails,
       LiveWriteFails, ContextDone, CloseChannel
  <2> QED BY <1>2, <2>1 DEF Coming, Standing, Range
<1>4. ASSUME NEW x \in Events, x \in Coming(c), conn[c] = "open", conn' = conn,
             Coming(c)' = Coming(c) \ {x},
             written' = [written EXCEPT ![c] = Append(@, x)]
      PROVE  Promise!Hear(c, x)
  <2>1. Standing(c)' = Standing(c) /\ Standing(c) = "listening"
    BY <1>4 DEF Standing
  <2>2. /\ AbstractOwed' = [AbstractOwed EXCEPT ![c] = Coming(c) \ {x}]
        /\ AbstractState' = AbstractState
        /\ AbstractOwed[c] = Coming(c) /\ AbstractState[c] = "listening"
    BY <1>3, <1>4, <2>1, MappedStep
  <2> QED BY <1>1, <1>4, <2>2 DEF Promise!Hear
<1>5. CASE WriteReplay(c)
  <2>1. PICK x : x = Head(replay[c])
    OBVIOUS
  <2>2. /\ x \in Events /\ x \in Range(replay[c]) /\ conn[c] = "open" /\ conn' = conn
        /\ Range(Tail(replay[c])) = Range(replay[c]) \ {x}
        /\ replay'[c] = Tail(replay[c]) /\ chan' = chan
        /\ written' = [written EXCEPT ![c] = Append(@, x)]
    BY <1>1, <1>5, <2>1, TailElems DEF WriteReplay, ApartOK
  <2>3. Range(replay[c])' = Range(replay[c]) \ {x} /\ Range(chan[c])' = Range(chan[c])
    BY <2>2 DEF Range
  <2>4. x \notin Range(chan[c]) \cup Owed(c)
    BY <1>1, <2>2 DEF ApartOK
  <2>5. x \in Coming(c) /\ Coming(c)' = Coming(c) \ {x}
    BY <1>2, <2>2, <2>3, <2>4 DEF Coming
  <2> QED BY <1>4, <2>2, <2>5
<1>6. CASE WriteLive(c)
  <2>1. PICK x : x = Head(chan[c])
    OBVIOUS
  <2>2. /\ x \in Events /\ x \in Range(chan[c]) /\ conn[c] = "open" /\ conn' = conn
        /\ Range(Tail(chan[c])) = Range(chan[c]) \ {x}
        /\ chan'[c] = Tail(chan[c]) /\ replay' = replay
        /\ written' = [written EXCEPT ![c] = Append(@, x)]
    BY <1>1, <1>6, <2>1, TailElems DEF WriteLive, ApartOK
  <2>3. Range(chan[c])' = Range(chan[c]) \ {x} /\ Range(replay[c])' = Range(replay[c])
    BY <2>2 DEF Range
  <2>4. x \notin Range(replay[c]) \cup Owed(c)
    BY <1>1, <2>2 DEF ApartOK
  <2>5. x \in Coming(c) /\ Coming(c)' = Coming(c) \ {x}
    BY <1>2, <2>2, <2>3, <2>4 DEF Coming
  <2> QED BY <1>4, <2>2, <2>5
<1>7. CASE ReplayWriteFails(c) \/ LiveWriteFails(c) \/ ContextDone(c)
  <2>1. conn[c] = "open" /\ conn'[c] = "deleted" /\ written' = written
    BY <1>1, <1>7 DEF ReplayWriteFails, LiveWriteFails, ContextDone
  <2>2. Coming(c)' = {} /\ Standing(c)' = "gone" /\ Standing(c) = "listening"
    BY <2>1 DEF Coming, Standing
  <2>3. /\ AbstractOwed' = [AbstractOwed EXCEPT ![c] = {}]
        /\ AbstractState' = [AbstractState EXCEPT ![c] = "gone"]
        /\ AbstractState[c] = "listening"
    BY <1>3, <2>2, MappedStep
  <2> QED BY <1>1, <2>1, <2>3 DEF Promise!Leave
<1>8. CASE CloseChannel(c)
  <2>1. conn[c] = "deleted" /\ conn'[c] = "closed" /\ written' = written
    BY <1>1, <1>8 DEF CloseChannel
  <2>2. Coming(c)' = Coming(c) /\ Standing(c)' = Standing(c)
    BY <2>1 DEF Coming, Standing
  <2>3. AbstractOwed' = AbstractOwed /\ AbstractState' = AbstractState
    BY <1>3, <2>2, MappedStep
  <2> QED BY <1>1, <2>1, <2>3 DEF Promise!mvars
<1> QED BY <1>5, <1>6, <1>7, <1>8 DEF StreamWrite, Unsubscribe

LEMMA RefinesStep ==
    ASSUME Inv, [Next]_vars PROVE [Promise!Next]_(Promise!mvars)
<1>1. ASSUME UNCHANGED vars \/ \E e \in Events : PublishReturns(e)
                                   \/ \E c \in Conns : SendPanics(e, c)
      PROVE  UNCHANGED Promise!mvars
  <2>1. UNCHANGED <<log, written, conn, chan, replay, pending>>
    BY <1>1 DEF vars, pubVars, connVars, PublishReturns, SendPanics
  <2> QED BY <2>1 DEF Promise!mvars, AbstractOwed, AbstractState, Owed, Range
<1>2. ASSUME NEW e \in Events, PublishLocked(e) PROVE Promise!Next
  BY <1>2, PublishAnnounces DEF Promise!Next
<1>3. ASSUME NEW e \in Events, NEW c \in Conns, SendTaken(e, c) \/ SendDropped(e, c)
      PROVE  [Promise!Next]_(Promise!mvars)
  BY <1>3, SendRefines DEF Promise!Next
<1>4. ASSUME NEW c \in Conns, NEW cursor \in Events \cup {NoCursor}, Subscribe(c, cursor)
      PROVE  Promise!Next
  BY <1>4, SubscribeJoins DEF Promise!Next
<1>5. ASSUME NEW c \in Conns, StreamWrite(c) \/ Unsubscribe(c)
      PROVE  [Promise!Next]_(Promise!mvars)
  BY <1>5, HandlerRefines DEF Promise!Next
<1> QED BY <1>1, <1>2, <1>3, <1>4, <1>5 DEF Next, Publish

\* Ring, channels, locks and cursors promise their listeners a lossy multicast
\* and nothing less (KeepsPromise).
THEOREM ImplementsMulticast == Spec => KeepsPromise
<1>1. Inv /\ [Next]_vars => [Promise!Next]_(Promise!mvars)
  BY RefinesStep
<1> QED BY <1>1, RefinesInit, InvHolds, PTL DEF Spec, KeepsPromise, Promise!Spec

-----------------------------------------------------------------------------
(* Publishes that do not overlap.                                          *)

\* Nothing in s comes after an event that began when it had finished.
Sorted(B, s) == \A i, j \in DOMAIN s : s[i] \in B[s[j]] => i < j

\* No event of Y had finished when one of X began.
NoneBefore(B, X, Y) == \A x \in X, y \in Y : y \notin B[x]

SortedConn(c) ==
    /\ Sorted(before, written[c]) /\ Sorted(before, replay[c]) /\ Sorted(before, chan[c])
    /\ NoneBefore(before, Range(written[c]), Range(replay[c]))
    /\ NoneBefore(before, Range(written[c]), Range(chan[c]))
    /\ NoneBefore(before, Range(replay[c]), Range(chan[c]))

\* The log is sorted because the lock orders the appends, a channel because a
\* finished publisher sends no more.
SortedInv ==
    /\ \A e \in Events : before[e] \subseteq Finished
    /\ Sorted(before, log)
    /\ \A c \in Conns : SortedConn(c)

LEMMA SortedAppend ==
    ASSUME NEW B, NEW S, NEW s \in Seq(S), NEW x \in S,
           Sorted(B, s), NoneBefore(B, Range(s), {x}), x \notin B[x]
    PROVE  Sorted(B, Append(s, x))
<1>1. /\ DOMAIN Append(s, x) = 1 .. Len(s) + 1 /\ DOMAIN s = 1 .. Len(s) /\ Len(s) \in Nat
      /\ \A i \in 1 .. Len(s) : Append(s, x)[i] = s[i]
      /\ Append(s, x)[Len(s) + 1] = x
  OBVIOUS
<1>2. ASSUME NEW i \in 1 .. Len(s) + 1, NEW j \in 1 .. Len(s) + 1,
             Append(s, x)[i] \in B[Append(s, x)[j]]
      PROVE  i < j
  <2>1. CASE i <= Len(s) /\ j <= Len(s)
    BY <1>1, <1>2, <2>1 DEF Sorted
  <2>2. CASE i <= Len(s) /\ j = Len(s) + 1
    BY <1>1, <2>2
  <2>3. CASE i = Len(s) + 1 /\ j <= Len(s)
    <3>1. x \in B[s[j]] /\ s[j] \in Range(s)
      BY <1>1, <1>2, <2>3 DEF Range
    <3>. QED BY <3>1 DEF NoneBefore
  <2>4. CASE i = Len(s) + 1 /\ j = Len(s) + 1
    BY <1>1, <1>2, <2>4
  <2>. QED BY <1>1, <2>1, <2>2, <2>3, <2>4
<1>. QED BY <1>1, <1>2 DEF Sorted

LEMMA SortedTail ==
    ASSUME NEW B, NEW S, NEW s \in Seq(S), s # << >>, Sorted(B, s)
    PROVE  /\ Sorted(B, Tail(s))
           /\ NoneBefore(B, {Head(s)}, Range(Tail(s)) \cup {Head(s)})
<1>1. /\ \A i \in 1 .. Len(s) - 1 : Tail(s)[i] = s[i + 1]
      /\ DOMAIN Tail(s) = 1 .. Len(s) - 1
      /\ DOMAIN s = 1 .. Len(s)
      /\ Len(s) \in Nat \ {0}
      /\ Head(s) = s[1]
  BY HeadTailProperties, EmptySeq, LenProperties
<1>2. ASSUME NEW i \in 1 .. Len(s) - 1, NEW j \in 1 .. Len(s) - 1,
             Tail(s)[i] \in B[Tail(s)[j]]
      PROVE  i < j
  <2>1. i + 1 \in DOMAIN s /\ j + 1 \in DOMAIN s /\ s[i + 1] \in B[s[j + 1]]
    BY <1>1, <1>2
  <2>2. i + 1 < j + 1
    BY <2>1 DEF Sorted
  <2>. QED BY <2>2
<1>3. ASSUME NEW j \in DOMAIN s PROVE s[j] \notin B[s[1]]
  <2>1. s[j] \in B[s[1]] => j < 1
    BY <1>1 DEF Sorted
  <2>. QED BY <1>1, <2>1
<1>4. ASSUME NEW y \in Range(Tail(s)) \cup {Head(s)} PROVE \E j \in DOMAIN s : y = s[j]
  <2>1. CASE y = Head(s)
    BY <1>1, <2>1
  <2>2. CASE y \in Range(Tail(s))
    <3>1. PICK i \in 1 .. Len(s) - 1 : y = Tail(s)[i]
      BY <1>1, <2>2 DEF Range
    <3>2. i + 1 \in DOMAIN s /\ y = s[i + 1]
      BY <1>1, <3>1
    <3>. QED BY <3>2
  <2>. QED BY <1>4, <2>1, <2>2
<1>5. Sorted(B, Tail(s))
  BY <1>1, <1>2 DEF Sorted
<1>. QED BY <1>1, <1>3, <1>4, <1>5 DEF NoneBefore

LEMMA SortedConcat ==
    ASSUME NEW B, NEW S, NEW s \in Seq(S), NEW t \in Seq(S),
           Sorted(B, s), Sorted(B, t), NoneBefore(B, Range(s), Range(t))
    PROVE  Sorted(B, s \o t)
<1>1. /\ DOMAIN (s \o t) = 1 .. Len(s) + Len(t)
      /\ \A i \in 1 .. Len(s) : (s \o t)[i] = s[i]
      /\ \A i \in Len(s) + 1 .. Len(s) + Len(t) : (s \o t)[i] = t[i - Len(s)]
      /\ DOMAIN s = 1 .. Len(s)
      /\ DOMAIN t = 1 .. Len(t)
      /\ Len(s) \in Nat
      /\ Len(t) \in Nat
  BY ConcatProperties, LenProperties
<1>2. ASSUME NEW i \in 1 .. Len(s) + Len(t), NEW j \in 1 .. Len(s) + Len(t),
             (s \o t)[i] \in B[(s \o t)[j]]
      PROVE  i < j
  <2>1. CASE i <= Len(s) /\ j <= Len(s)
    BY <1>1, <1>2, <2>1 DEF Sorted
  <2>2. CASE i <= Len(s) /\ j > Len(s)
    BY <1>1, <2>2
  <2>3. CASE i > Len(s) /\ j > Len(s)
    <3>1. /\ i - Len(s) \in DOMAIN t /\ j - Len(s) \in DOMAIN t
          /\ t[i - Len(s)] \in B[t[j - Len(s)]]
      BY <1>1, <1>2, <2>3
    <3>2. i - Len(s) < j - Len(s)
      BY <3>1 DEF Sorted
    <3>. QED BY <1>1, <3>2
  <2>4. CASE i > Len(s) /\ j <= Len(s)
    <3>1. i - Len(s) \in DOMAIN t /\ j \in DOMAIN s /\ t[i - Len(s)] \in B[s[j]]
      BY <1>1, <1>2, <2>4
    <3>2. t[i - Len(s)] \in Range(t) /\ s[j] \in Range(s)
      BY <3>1 DEF Range
    <3>. QED BY <3>1, <3>2 DEF NoneBefore
  <2>. QED BY <1>1, <2>1, <2>2, <2>3, <2>4
<1>. QED BY <1>1, <1>2 DEF Sorted

LEMMA SortedInit == Init => SortedInv
<1>. SUFFICES ASSUME Init PROVE SortedInv
  OBVIOUS
<1>1. Range(<< >>) = {} /\ \A B : Sorted(B, << >>)
  BY DEF Range, Sorted
<1>2. ASSUME NEW c \in Conns PROVE SortedConn(c)
  BY <1>1 DEF Init, SortedConn, NoneBefore
<1>. QED BY <1>1, <1>2 DEF Init, SortedInv

\* Events of the past keep their order when another one begins.
LEMMA SortedPublish ==
    ASSUME Inv, SortedInv, NEW e \in Events, PublishLocked(e)
    PROVE  SortedInv'
<1>1. /\ log' = Append(log, e) /\ log \in Seq(Events) /\ pc[e] = "idle" /\ e \notin Range(log)
      /\ before' = [before EXCEPT ![e] = Finished] /\ before \in [Events -> SUBSET Events]
      /\ pc' = [pc EXCEPT ![e] = "sending"] /\ pc \in [Events -> PublishPCs]
      /\ UNCHANGED <<conn, chan, replay, written>>
  BY DEF PublishLocked, connVars, Inv, TypeOK, LogOK
<1>2. Finished' = Finished /\ e \notin Finished
  BY <1>1 DEF Finished
<1>3. \A x \in Events : x # e => before'[x] = before[x]
  BY <1>1
<1>4. before'[e] = Finished
  BY <1>1
<1>5. ASSUME NEW s \in Seq(Events), Sorted(before, s), e \notin Range(s) PROVE Sorted(before', s)
  <2>1. \A j \in DOMAIN s : before'[s[j]] = before[s[j]]
    BY <1>3, <1>5 DEF Range
  <2>. QED BY <1>5, <2>1 DEF Sorted
<1>6. \A x \in Events : before'[x] \subseteq Finished'
  BY <1>2, <1>3, <1>4 DEF SortedInv
<1>7. Sorted(before', log')
  <2>1. Sorted(before', log)
    BY <1>1, <1>5 DEF SortedInv
  <2>2. NoneBefore(before', Range(log), {e})
    <3>1. Range(log) \subseteq Events
      BY <1>1 DEF Range
    <3>. QED BY <1>2, <1>6, <3>1 DEF NoneBefore
  <2>3. e \notin before'[e]
    BY <1>2, <1>4
  <2>. QED BY <1>1, <2>1, <2>2, <2>3, SortedAppend
<1>8. ASSUME NEW c \in Conns PROVE SortedConn(c)'
  <2>1. /\ written[c] \in Seq(Events) /\ replay[c] \in Seq(Events) /\ chan[c] \in Seq(Events)
        /\ ConnOK(c) /\ SortedConn(c)
    BY DEF Inv, TypeOK, SortedInv
  <2>2. e \notin Range(written[c]) \cup Range(replay[c]) \cup Range(chan[c])
    <3>1. CASE conn[c] = "new"
      BY <2>1, <3>1 DEF ConnOK, FreshOK, Range
    <3>2. CASE conn[c] # "new"
      <4>1. Served(c) \subseteq Range(log)
        <5>1. start[c] \in Nat
          BY DEF Inv, TypeOK
        <5>. QED BY <1>1, <5>1 DEF Served, Range
      <4>. QED BY <1>1, <2>1, <3>2, <4>1 DEF ConnOK, ServedOK, Places
    <3>. QED BY <3>1, <3>2
  <2>3. /\ Range(written[c]) \subseteq Events /\ Range(replay[c]) \subseteq Events
        /\ Range(chan[c]) \subseteq Events
    BY <2>1 DEF Range
  <2>4. /\ Sorted(before', written[c]) /\ Sorted(before', replay[c]) /\ Sorted(before', chan[c])
    BY <1>5, <2>1, <2>2 DEF SortedConn
  <2>5. /\ NoneBefore(before', Range(written[c]), Range(replay[c]))
        /\ NoneBefore(before', Range(written[c]), Range(chan[c]))
        /\ NoneBefore(before', Range(replay[c]), Range(chan[c]))
    BY <1>3, <2>1, <2>2, <2>3 DEF SortedConn, NoneBefore
  <2>. QED BY <1>1, <2>4, <2>5 DEF SortedConn, Sorted, NoneBefore, Range
<1>. QED BY <1>6, <1>7, <1>8 DEF SortedInv

\* An event that is sent has not finished, so it is before none.
LEMMA SortedSend ==
    ASSUME Inv, SortedInv, NEW e \in Events, NEW c \in Conns, SendTaken(e, c)
    PROVE  SortedInv'
<1>1. /\ chan[c] \in Seq(Events) /\ chan'[c] = Append(chan[c], e)
      /\ \A d \in Conns \ {c} : chan'[d] = chan[d]
      /\ UNCHANGED <<log, pc, before, replay, written>>
      /\ written[c] \in Seq(Events) /\ replay[c] \in Seq(Events)
      /\ pc[e] = "sending" /\ SortedConn(c)
  BY DEF SendTaken, Inv, TypeOK, SortedInv
<1>2. \A x \in Events : e \notin before[x]
  BY <1>1 DEF SortedInv, Finished
<1>3. /\ Range(written[c]) \subseteq Events /\ Range(replay[c]) \subseteq Events
      /\ Range(chan[c]) \subseteq Events
  BY <1>1 DEF Range
<1>4. Sorted(before, Append(chan[c], e)) /\ Range(Append(chan[c], e)) = Range(chan[c]) \cup {e}
  <2>1. NoneBefore(before, Range(chan[c]), {e}) /\ e \notin before[e] /\ Sorted(before, chan[c])
    BY <1>1, <1>2, <1>3 DEF NoneBefore, SortedConn
  <2>. QED BY <1>1, <2>1, SortedAppend, AppendElems
<1>5. SortedConn(c)'
  <2>1. /\ NoneBefore(before, Range(written[c]), Range(chan[c]) \cup {e})
        /\ NoneBefore(before, Range(replay[c]), Range(chan[c]) \cup {e})
    BY <1>1, <1>2, <1>3 DEF SortedConn, NoneBefore
  <2>2. /\ Sorted(before, written'[c]) /\ Sorted(before, replay'[c]) /\ Sorted(before, chan'[c])
        /\ NoneBefore(before, Range(written'[c]), Range(replay'[c]))
        /\ NoneBefore(before, Range(written'[c]), Range(chan'[c]))
        /\ NoneBefore(before, Range(replay'[c]), Range(chan'[c]))
    BY <1>1, <1>4, <2>1 DEF SortedConn
  <2>. QED BY <1>1, <2>2 DEF SortedConn, Sorted, NoneBefore, Range
<1>6. ASSUME NEW d \in Conns \ {c} PROVE SortedConn(d)'
  <2>1. SortedConn(d)
    BY DEF SortedInv
  <2>. QED BY <1>1, <2>1 DEF SortedConn, Sorted, NoneBefore, Range
<1>. QED BY <1>1, <1>5, <1>6 DEF SortedInv, Sorted, Finished

\* A replay is a piece of the log.
LEMMA SortedSubscribe ==
    ASSUME Inv, SortedInv, NEW c \in Conns, NEW cursor, Subscribe(c, cursor)
    PROVE  SortedInv'
<1>1. PICK rest : rest = After(ring, cursor)
  OBVIOUS
<1>2. PICK p : p = Position(cursor)
  OBVIOUS
<1>3. /\ rest \in Seq(Events) /\ p \in 0 .. Len(log) /\ log \in Seq(Events)
      /\ \A i \in DOMAIN rest : p + i \in DOMAIN log /\ rest[i] = log[p + i]
  BY <1>1, <1>2, ReplayIsServed DEF Inv, TypeOK
<1>4. Sorted(before, rest)
  <2>1. ASSUME NEW i \in DOMAIN rest, NEW j \in DOMAIN rest, rest[i] \in before[rest[j]]
        PROVE  i < j
    <3>1. p + i < p + j
      BY <1>3, <2>1 DEF SortedInv, Sorted
    <3>2. p \in Int /\ i \in Int /\ j \in Int
      BY <1>3
    <3>. QED BY <3>1, <3>2
  <2>. QED BY <2>1 DEF Sorted
<1>5. /\ replay'[c] = rest /\ \A d \in Conns \ {c} : replay'[d] = replay[d]
      /\ UNCHANGED <<log, pc, before, chan, written>>
      /\ written[c] = << >> /\ chan[c] = << >>
  BY <1>1 DEF Subscribe, pubVars, Inv, TypeOK, ConnOK, FreshOK
<1>6. SortedConn(c)'
  <2>1. Range(<< >>) = {} /\ Sorted(before, << >>)
    BY DEF Range, Sorted
  <2>2. /\ Sorted(before, written'[c]) /\ Sorted(before, replay'[c]) /\ Sorted(before, chan'[c])
        /\ NoneBefore(before, Range(written'[c]), Range(replay'[c]))
        /\ NoneBefore(before, Range(written'[c]), Range(chan'[c]))
        /\ NoneBefore(before, Range(replay'[c]), Range(chan'[c]))
    BY <1>4, <1>5, <2>1 DEF NoneBefore
  <2>. QED BY <1>5, <2>2 DEF SortedConn, Sorted, NoneBefore, Range
<1>7. ASSUME NEW d \in Conns \ {c} PROVE SortedConn(d)'
  <2>1. SortedConn(d)
    BY DEF SortedInv
  <2>. QED BY <1>5, <2>1 DEF SortedConn, Sorted, NoneBefore, Range
<1>. QED BY <1>5, <1>6, <1>7 DEF SortedInv, Sorted, Finished

\* A handler takes from the front and appends to what is all before it.
LEMMA SortedHandler ==
    ASSUME Inv, SortedInv, NEW c \in Conns, StreamWrite(c) \/ Unsubscribe(c)
    PROVE  SortedInv'
<1>. USE DEF pubVars
<1>1. /\ written[c] \in Seq(Events) /\ replay[c] \in Seq(Events) /\ chan[c] \in Seq(Events)
      /\ SortedConn(c) /\ ApartOK(c)
      /\ UNCHANGED <<log, pc, before>>
      /\ \A d \in Conns \ {c} :
            written'[d] = written[d] /\ replay'[d] = replay[d] /\ chan'[d] = chan[d]
  BY DEF Inv, TypeOK, ConnOK, SortedInv, StreamWrite, WriteReplay, WriteLive, Unsubscribe,
     ReplayWriteFails, LiveWriteFails, ContextDone, CloseChannel
\* It is enough to look at this connection's sequences.
<1>2. ASSUME NEW w, NEW r, NEW h, written'[c] = w, replay'[c] = r, chan'[c] = h,
             Sorted(before, w), Sorted(before, r), Sorted(before, h),
             NoneBefore(before, Range(w), Range(r)), NoneBefore(before, Range(w), Range(h)),
             NoneBefore(before, Range(r), Range(h))
      PROVE  SortedInv'
  <2>1. SortedConn(c)'
    <3>1. /\ Sorted(before', written'[c]) /\ Sorted(before', replay'[c])
          /\ Sorted(before', chan'[c])
          /\ NoneBefore(before', Range(written'[c]), Range(replay'[c]))
          /\ NoneBefore(before', Range(written'[c]), Range(chan'[c]))
          /\ NoneBefore(before', Range(replay'[c]), Range(chan'[c]))
      BY <1>1, <1>2
    <3>. QED BY <3>1 DEF SortedConn, Sorted, NoneBefore, Range
  <2>2. ASSUME NEW d \in Conns \ {c} PROVE SortedConn(d)'
    <3>1. SortedConn(d)
      BY DEF SortedInv
    <3>. QED BY <1>1, <3>1 DEF SortedConn, Sorted, NoneBefore, Range
  <2>. QED BY <1>1, <2>1, <2>2 DEF SortedInv, Sorted, Finished
<1>3. ASSUME replay[c] # << >>
      PROVE  /\ Sorted(before, Tail(replay[c]))
             /\ NoneBefore(before, {Head(replay[c])}, Range(Tail(replay[c])) \cup {Head(replay[c])})
             /\ Head(replay[c]) \in Events /\ Head(replay[c]) \in Range(replay[c])
             /\ Range(Tail(replay[c])) \subseteq Range(replay[c])
  <2>1. Sorted(before, replay[c]) /\ IsInjective(replay[c])
    BY <1>1 DEF SortedConn, ApartOK
  <2>2. /\ Sorted(before, Tail(replay[c]))
        /\ NoneBefore(before, {Head(replay[c])}, Range(Tail(replay[c])) \cup {Head(replay[c])})
    BY <1>1, <1>3, <2>1, SortedTail
  <2>3. /\ Head(replay[c]) \in Events /\ Head(replay[c]) \in Range(replay[c])
        /\ Range(Tail(replay[c])) \subseteq Range(replay[c])
    BY <1>1, <1>3, <2>1, TailElems
  <2>. QED BY <2>2, <2>3
<1>4. ASSUME chan[c] # << >>
      PROVE  /\ Sorted(before, Tail(chan[c]))
             /\ NoneBefore(before, {Head(chan[c])}, Range(Tail(chan[c])) \cup {Head(chan[c])})
             /\ Head(chan[c]) \in Events /\ Head(chan[c]) \in Range(chan[c])
             /\ Range(Tail(chan[c])) \subseteq Range(chan[c])
  <2>1. Sorted(before, chan[c]) /\ IsInjective(chan[c])
    BY <1>1 DEF SortedConn, ApartOK
  <2>2. /\ Sorted(before, Tail(chan[c]))
        /\ NoneBefore(before, {Head(chan[c])}, Range(Tail(chan[c])) \cup {Head(chan[c])})
    BY <1>1, <1>4, <2>1, SortedTail
  <2>3. /\ Head(chan[c]) \in Events /\ Head(chan[c]) \in Range(chan[c])
        /\ Range(Tail(chan[c])) \subseteq Range(chan[c])
    BY <1>1, <1>4, <2>1, TailElems
  <2>. QED BY <2>2, <2>3
<1>5. CASE WriteReplay(c)
  <2>1. PICK x : x = Head(replay[c])
    OBVIOUS
  <2>2. /\ replay[c] # << >> /\ written'[c] = Append(written[c], x)
        /\ replay'[c] = Tail(replay[c]) /\ chan'[c] = chan[c]
    BY <1>5, <2>1 DEF WriteReplay, Inv, TypeOK
  <2>3. NoneBefore(before, Range(written[c]), {x}) /\ x \notin before[x] /\ x \in Events
    BY <1>1, <1>3, <2>1, <2>2 DEF SortedConn, NoneBefore
  <2>4. Sorted(before, written[c])
    BY <1>1 DEF SortedConn
  <2>5. /\ Sorted(before, Append(written[c], x))
        /\ Range(Append(written[c], x)) = Range(written[c]) \cup {x}
    BY <1>1, <2>3, <2>4, SortedAppend, AppendElems
  <2>6. /\ NoneBefore(before, Range(written[c]) \cup {x}, Range(Tail(replay[c])))
        /\ NoneBefore(before, Range(written[c]) \cup {x}, Range(chan[c]))
        /\ NoneBefore(before, Range(Tail(replay[c])), Range(chan[c]))
    BY <1>1, <1>3, <2>1, <2>2 DEF SortedConn, NoneBefore
  <2>7. Sorted(before, Tail(replay[c])) /\ Sorted(before, chan[c])
    BY <1>1, <1>3, <2>2 DEF SortedConn
  <2>. QED BY <1>2, <2>2, <2>5, <2>6, <2>7
<1>6. CASE WriteLive(c)
  <2>1. PICK x : x = Head(chan[c])
    OBVIOUS
  <2>2. /\ chan[c] # << >> /\ written'[c] = Append(written[c], x)
        /\ chan'[c] = Tail(chan[c]) /\ replay'[c] = replay[c] /\ replay[c] = << >>
    BY <1>6, <2>1 DEF WriteLive, Inv, TypeOK
  <2>3. NoneBefore(before, Range(written[c]), {x}) /\ x \notin before[x] /\ x \in Events
    BY <1>1, <1>4, <2>1, <2>2 DEF SortedConn, NoneBefore
  <2>4. Sorted(before, written[c])
    BY <1>1 DEF SortedConn
  <2>5. /\ Sorted(before, Append(written[c], x))
        /\ Range(Append(written[c], x)) = Range(written[c]) \cup {x}
    BY <1>1, <2>3, <2>4, SortedAppend, AppendElems
  <2>6. Range(replay[c]) = {}
    BY <2>2 DEF Range
  <2>7. /\ NoneBefore(before, Range(written[c]) \cup {x}, Range(replay[c]))
        /\ NoneBefore(before, Range(written[c]) \cup {x}, Range(Tail(chan[c])))
        /\ NoneBefore(before, Range(replay[c]), Range(Tail(chan[c])))
    BY <1>1, <1>4, <2>1, <2>2, <2>6 DEF SortedConn, NoneBefore
  <2>8. Sorted(before, Tail(chan[c])) /\ Sorted(before, replay[c])
    BY <1>1, <1>4, <2>2 DEF SortedConn
  <2>. QED BY <1>2, <2>2, <2>5, <2>7, <2>8
<1>7. CASE ReplayWriteFails(c)
  <2>1. /\ replay[c] # << >> /\ replay'[c] = Tail(replay[c])
        /\ written'[c] = written[c] /\ chan'[c] = chan[c]
    BY <1>7 DEF ReplayWriteFails, Inv, TypeOK
  <2>2. /\ NoneBefore(before, Range(written[c]), Range(Tail(replay[c])))
        /\ NoneBefore(before, Range(Tail(replay[c])), Range(chan[c]))
    BY <1>1, <1>3, <2>1 DEF SortedConn, NoneBefore
  <2>. QED BY <1>1, <1>2, <1>3, <2>1, <2>2 DEF SortedConn
<1>8. CASE LiveWriteFails(c)
  <2>1. /\ chan[c] # << >> /\ chan'[c] = Tail(chan[c])
        /\ written'[c] = written[c] /\ replay'[c] = replay[c]
    BY <1>8 DEF LiveWriteFails, Inv, TypeOK
  <2>2. /\ NoneBefore(before, Range(written[c]), Range(Tail(chan[c])))
        /\ NoneBefore(before, Range(replay[c]), Range(Tail(chan[c])))
    BY <1>1, <1>4, <2>1 DEF SortedConn, NoneBefore
  <2>. QED BY <1>1, <1>2, <1>4, <2>1, <2>2 DEF SortedConn
<1>9. CASE ContextDone(c) \/ CloseChannel(c)
  <2>1. written'[c] = written[c] /\ replay'[c] = replay[c] /\ chan'[c] = chan[c]
    BY <1>9 DEF ContextDone, CloseChannel
  <2>. QED BY <1>1, <1>2, <2>1 DEF SortedConn
<1>. QED BY <1>5, <1>6, <1>7, <1>8, <1>9 DEF StreamWrite, Unsubscribe

LEMMA SortedStep == ASSUME Inv, SortedInv, [Next]_vars PROVE SortedInv'
<1>1. ASSUME UNCHANGED <<log, before, chan, replay, written>>, Finished \subseteq Finished'
      PROVE  SortedInv'
  <2>1. \A e \in Events : before'[e] \subseteq Finished'
    BY <1>1 DEF SortedInv
  <2>. QED BY <1>1, <2>1 DEF SortedInv, SortedConn, Sorted, NoneBefore, Range
<1>2. ASSUME NEW e \in Events,
             \/ PublishReturns(e) \/ \E c \in Conns : SendPanics(e, c)
             \/ \E c \in Conns : SendDropped(e, c)
      PROVE  SortedInv'
  <2>1. UNCHANGED <<log, before, chan, replay, written>>
    BY <1>2 DEF PublishReturns, SendPanics, SendDropped, connVars
  <2>2. Finished \subseteq Finished'
    BY <1>2 DEF PublishReturns, SendPanics, SendDropped, Finished, Inv, TypeOK
  <2>. QED BY <1>1, <2>1, <2>2
<1>3. CASE UNCHANGED vars
  BY <1>1, <1>3 DEF vars, pubVars, connVars, Finished
<1>. QED BY <1>2, <1>3, SortedPublish, SortedSend, SortedSubscribe, SortedHandler DEF Next, Publish

\* Two publishes that do not overlap reach every connection in their order
\* (SequentialPublishesStayOrdered).
THEOREM KeepsSequentialOrder == Spec => []SequentialPublishesStayOrdered
<1>1. ASSUME Inv, SortedInv PROVE SequentialPublishesStayOrdered
  <2>. SUFFICES ASSUME NEW c \in Conns PROVE Sorted(before, Outbound(c))
    BY DEF SequentialPublishesStayOrdered, Sorted
  <2>1. /\ written[c] \in Seq(Events) /\ replay[c] \in Seq(Events) /\ chan[c] \in Seq(Events)
        /\ SortedConn(c)
    BY <1>1 DEF Inv, TypeOK, SortedInv
  <2>. DEFINE front == written[c] \o replay[c]
  <2>2. /\ front \in Seq(Events) /\ Sorted(before, front)
        /\ Range(front) = Range(written[c]) \cup Range(replay[c])
    BY <2>1, SortedConcat, ConcatElems DEF SortedConn
  <2>. HIDE DEF front
  <2>3. NoneBefore(before, Range(front), Range(chan[c]))
    BY <2>1, <2>2 DEF SortedConn, NoneBefore
  <2>4. Sorted(before, front \o chan[c])
    BY <2>1, <2>2, <2>3, SortedConcat DEF SortedConn
  <2>. QED BY <2>4 DEF Outbound, front
<1>. QED BY <1>1, InvHolds, InitInv, NextInv, SortedInit, SortedStep, PTL DEF Spec
=============================================================================
