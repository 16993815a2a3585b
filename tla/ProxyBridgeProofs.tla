-------------------------- MODULE ProxyBridgeProofs --------------------------
(***************************************************************************)
(* Theorems about ProxyBridge, for any requests, any of them oversized, and *)
(* any capacity of the ship queue.                                         *)
(*                                                                         *)
(* What the observer has seen of a direction is what its pump has got past *)
(* Observe with; each such frame is in one place behind it, and the queue  *)
(* and the single worker keep a request ahead of its answer.               *)
(***************************************************************************)
EXTENDS ProxyBridge, DataLemmas

-----------------------------------------------------------------------------
(* Types.                                                                  *)

FramesOf(d) == {d} \X Requests

\* A pump holds one frame, of its own direction, from its scan to its write.
PumpOK(d) ==
    /\ incoming[d] \in Seq(FramesOf(d))
    /\ forwarded[d] \in Seq(FramesOf(d))
    /\ IF pump[d] \in {"observe", "warn", "write"}
       THEN \E f \in FramesOf(d) : held[d] = <<f>>
       ELSE held[d] = << >>

\* The worker holds one envelope while it posts it.
WorkerOK ==
    IF worker = "post" THEN \E f \in Frames : shipping = <<f>> ELSE shipping = << >>

TypeInv ==
    /\ TypeOK
    /\ \A d \in Directions : PumpOK(d)
    /\ WorkerOK
    /\ returned => \A d \in Directions : pump[d] = "ended"

LEMMA OneFrame == ASSUME NEW f PROVE Range(<<f>>) = {f} /\ Range(<< >>) = {}
BY DEF Range

LEMMA SameAt ==
    ASSUME NEW S, NEW T, NEW f \in [S -> T], NEW x \in S
    PROVE  f = [f EXCEPT ![x] = f[x]]
OBVIOUS

LEMMA TypeInit == Init => TypeInv
<1> SUFFICES ASSUME Init PROVE TypeInv
  OBVIOUS
<1>1. QueueCap \in Nat /\ Len(queue) = 0 /\ Len(shipping) = 0
  BY BridgeAssumption DEF Init
<1>2. \A d \in Directions : PumpOK(d)
  BY DEF Init, PumpOK
<1>3. /\ incoming \in [Directions -> Seq(Frames)] /\ ended \in [Directions -> BOOLEAN]
      /\ broken \in [Directions -> BOOLEAN] /\ held \in [Directions -> Seq(Frames)]
      /\ forwarded \in [Directions -> Seq(Frames)]
      /\ pump \in [Directions -> {"scan", "observe", "warn", "write", "ended"}]
  BY DEF Init
<1>4. /\ queue \in Seq(Frames) /\ Len(queue) <= QueueCap
      /\ shipping \in Seq(Frames) /\ Len(shipping) <= 1 /\ ingested \in Seq(Frames)
  BY <1>1 DEF Init
<1>5. TypeOK
  BY <1>3, <1>4 DEF Init, TypeOK
<1> QED BY <1>2, <1>5 DEF Init, TypeInv, WorkerOK

\* The ends, the signal and the process.
LEMMA EndsType ==
    ASSUME TypeInv,
           \/ \E r \in Requests : ClientSends(r) \/ CodexAnswers(r)
           \/ ClientCloses \/ CodexExits \/ Cancel \/ RunReturns \/ ProcessExits
           \/ HubFlips
    PROVE  TypeInv'
<1> USE DEF pipeVars, runVars, logVars, hubVars
<1>1. ASSUME NEW d \in Directions, NEW f \in FramesOf(d),
             incoming' = [incoming EXCEPT ![d] = Append(@, f)],
             UNCHANGED <<ended, broken, forwarded, pump, held, runVars, queue, worker,
                   shipping, degraded, hubVars, logVars, lost>>
      PROVE  TypeInv'
  <2>1. incoming' \in [Directions -> Seq(Frames)]
    BY <1>1 DEF TypeInv, TypeOK, FramesOf, Frames
  <2>2. \A e \in Directions : incoming'[e] \in Seq(FramesOf(e))
    BY <1>1 DEF TypeInv, TypeOK, PumpOK
  <2> QED BY <1>1, <2>1, <2>2 DEF TypeInv, TypeOK, PumpOK, WorkerOK
<1>2. ASSUME NEW r \in Requests, ClientSends(r) \/ CodexAnswers(r)
      PROVE  TypeInv'
  <2>1. <<"up", r>> \in FramesOf("up") /\ <<"down", r>> \in FramesOf("down")
        /\ {"up", "down"} \subseteq Directions
    BY DEF FramesOf, Directions
  <2> QED BY <1>1, <1>2, <2>1 DEF ClientSends, CodexAnswers
<1>3. ASSUME \/ ClientCloses \/ CodexExits \/ Cancel \/ RunReturns \/ ProcessExits
             \/ HubFlips
      PROVE  TypeInv'
  <2>1. UNCHANGED <<incoming, forwarded, pump, held, queue, worker, shipping, degraded,
                    late, ingested, timedOut, logVars, lost>>
        /\ (returned' => \A d \in Directions : pump[d] = "ended")
    BY <1>3 DEF TypeInv, ClientCloses, CodexExits, Cancel, RunReturns, ProcessExits, HubFlips
  <2>2. /\ ended' \in [Directions -> BOOLEAN] /\ broken' \in [Directions -> BOOLEAN]
        /\ returned' \in BOOLEAN /\ cancelled' \in BOOLEAN /\ exited' \in BOOLEAN
        /\ codex' \in {"running", "exited"} /\ hubUp' \in BOOLEAN
    BY <1>3 DEF TypeInv, TypeOK, ClientCloses, CodexExits, Cancel, RunReturns,
       ProcessExits, HubFlips
  <2> QED BY <2>1, <2>2 DEF TypeInv, TypeOK, PumpOK, WorkerOK
<1> QED BY <1>2, <1>3

\* A pump takes a frame from the head of its input to the end of its output.
LEMMA PumpType ==
    ASSUME TypeInv, NEW d \in Directions, Pump(d)
    PROVE  TypeInv'
<1> USE DEF pipeVars, runVars, logVars, hubVars
<1>1. /\ PumpOK(d) /\ pump \in [Directions -> {"scan", "observe", "warn", "write", "ended"}]
      /\ held \in [Directions -> Seq(Frames)] /\ incoming \in [Directions -> Seq(Frames)]
      /\ forwarded \in [Directions -> Seq(Frames)]
      /\ FramesOf(d) \subseteq Frames
  BY DEF TypeInv, TypeOK, FramesOf, Frames
<1>2. returned => pump[d] = "ended"
  BY DEF TypeInv
<1>3. pump[d] # "ended"
  BY DEF Pump, Scan, ScanEOF, Observe, PumpWarns, Write
\* What is left to show once the step is known to touch this pump alone.
<1>4. ASSUME NEW p \in {"scan", "observe", "warn", "write", "ended"},
             NEW h \in Seq(FramesOf(d)), NEW i \in Seq(FramesOf(d)), NEW o \in Seq(FramesOf(d)),
             incoming' = [incoming EXCEPT ![d] = i], forwarded' = [forwarded EXCEPT ![d] = o],
             held' = [held EXCEPT ![d] = h], pump' = [pump EXCEPT ![d] = p],
             IF p \in {"observe", "warn", "write"}
             THEN \E f \in FramesOf(d) : h = <<f>> ELSE h = << >>,
             queue' \in Seq(Frames), Len(queue') <= QueueCap,
             degraded' \in BOOLEAN, lost' \subseteq Frames,
             episodes' \in Nat, warnings' \in Nat,
             UNCHANGED <<ended, broken, runVars, worker, shipping, hubVars, recoveries>>
      PROVE  TypeInv'
  <2>1. /\ incoming' \in [Directions -> Seq(Frames)]
        /\ forwarded' \in [Directions -> Seq(Frames)]
        /\ held' \in [Directions -> Seq(Frames)]
        /\ pump' \in [Directions -> {"scan", "observe", "warn", "write", "ended"}]
    BY <1>1, <1>4
  <2>2. \A e \in Directions : PumpOK(e)'
    <3>1. PumpOK(d)'
      BY <1>1, <1>4 DEF PumpOK
    <3>2. ASSUME NEW e \in Directions, e # d PROVE PumpOK(e)'
      BY <1>1, <1>4, <3>2 DEF TypeInv, PumpOK
    <3> QED BY <3>1, <3>2
  <2>3. ~returned'
    BY <1>2, <1>3, <1>4
  <2>4. TypeOK'
    BY <1>4, <2>1 DEF TypeInv, TypeOK
  <2> QED BY <1>4, <2>2, <2>3, <2>4 DEF TypeInv, WorkerOK
<1>5. /\ incoming = [incoming EXCEPT ![d] = incoming[d]]
      /\ forwarded = [forwarded EXCEPT ![d] = forwarded[d]]
      /\ held = [held EXCEPT ![d] = held[d]]
      /\ incoming[d] \in Seq(FramesOf(d)) /\ forwarded[d] \in Seq(FramesOf(d))
      /\ held[d] \in Seq(FramesOf(d))
  <2>1. /\ incoming = [incoming EXCEPT ![d] = incoming[d]]
        /\ forwarded = [forwarded EXCEPT ![d] = forwarded[d]]
        /\ held = [held EXCEPT ![d] = held[d]]
    BY <1>1, SameAt
  <2>2. held[d] \in Seq(FramesOf(d))
    <3>1. CASE pump[d] \in {"observe", "warn", "write"}
      <4>1. PICK f \in FramesOf(d) : held[d] = <<f>>
        BY <1>1, <3>1 DEF PumpOK
      <4> QED BY <4>1
    <3>2. CASE pump[d] \notin {"observe", "warn", "write"}
      BY <1>1, <3>2 DEF PumpOK
    <3> QED BY <3>1, <3>2
  <2> QED BY <1>1, <2>1, <2>2 DEF PumpOK
<1>6. /\ queue \in Seq(Frames) /\ Len(queue) <= QueueCap /\ Len(queue) \in Nat
      /\ degraded \in BOOLEAN
      /\ lost \subseteq Frames /\ episodes \in Nat /\ warnings \in Nat
      /\ QueueCap \in Nat
  BY BridgeAssumption DEF TypeInv, TypeOK
<1>7. CASE Scan(d)
  <2>1. incoming[d] # << >> /\ pump[d] = "scan" /\ held[d] = << >>
    BY <1>1, <1>7 DEF Scan, PumpOK
  <2>2. Head(incoming[d]) \in FramesOf(d) /\ Tail(incoming[d]) \in Seq(FramesOf(d))
        /\ <<Head(incoming[d])>> \in Seq(FramesOf(d))
    BY <1>5, <2>1, TailElems
  <2>3. CASE pump' = [pump EXCEPT ![d] = "ended"] /\ UNCHANGED <<incoming, held>>
    BY <1>4, <1>5, <1>6, <1>7, <2>1, <2>3 DEF Scan
  <2>4. CASE /\ pump' = [pump EXCEPT ![d] = "observe"]
             /\ held' = [held EXCEPT ![d] = <<Head(incoming[d])>>]
             /\ incoming' = [incoming EXCEPT ![d] = Tail(incoming[d])]
    BY <1>4, <1>5, <1>6, <1>7, <2>2, <2>4 DEF Scan
  <2> QED BY <1>7, <2>3, <2>4 DEF Scan
<1>8. CASE ScanEOF(d)
  <2>1. held[d] = << >>
    BY <1>1, <1>8 DEF ScanEOF, PumpOK
  <2> QED BY <1>4, <1>5, <1>6, <1>8, <2>1 DEF ScanEOF
<1>9. CASE Observe(d)
  <2>1. PICK f \in FramesOf(d) : held[d] = <<f>>
    BY <1>1, <1>9 DEF Observe, PumpOK
  <2>2. f \in Frames /\ queue \o <<f>> \in Seq(Frames) /\ Len(queue \o <<f>>) = Len(queue) + 1
        /\ Range(held[d]) = {f}
    BY <1>1, <1>6, <2>1, OneFrame
  <2>3. CASE Len(queue) < QueueCap
    <3>1. /\ queue' = queue \o <<f>> /\ pump' = [pump EXCEPT ![d] = "write"]
          /\ UNCHANGED <<degraded, episodes, lost>>
      BY <1>9, <2>1, <2>3 DEF Observe
    <3>2. Len(queue') <= QueueCap
      BY <1>6, <2>2, <2>3, <3>1
    <3>3. /\ UNCHANGED <<incoming, forwarded, held>> /\ queue' \in Seq(Frames)
          /\ UNCHANGED <<ended, broken, runVars, worker, shipping, hubVars, recoveries>>
          /\ degraded' \in BOOLEAN /\ lost' \subseteq Frames
          /\ episodes' \in Nat /\ warnings' \in Nat
      BY <1>6, <1>9, <2>2, <3>1 DEF Observe
    <3> QED BY <1>4, <1>5, <2>1, <3>1, <3>2, <3>3
  <2>4. CASE ~(Len(queue) < QueueCap)
    <3>1. PICK p \in {"warn", "write"} : pump' = [pump EXCEPT ![d] = p]
      BY <1>9, <2>4 DEF Observe
    <3>2. /\ lost' = lost \cup {f} /\ degraded' = TRUE /\ queue' = queue
          /\ episodes' \in Nat
      BY <1>6, <1>9, <2>2, <2>4 DEF Observe
    <3>3. /\ UNCHANGED <<incoming, forwarded, held>>
          /\ queue' \in Seq(Frames) /\ Len(queue') <= QueueCap
          /\ UNCHANGED <<ended, broken, runVars, worker, shipping, hubVars, recoveries>>
          /\ degraded' \in BOOLEAN /\ lost' \subseteq Frames /\ warnings' \in Nat
      BY <1>6, <1>9, <2>2, <3>2 DEF Observe
    <3> QED BY <1>4, <1>5, <2>1, <3>1, <3>2, <3>3
  <2> QED BY <2>3, <2>4
<1>10. CASE PumpWarns(d)
  <2>1. PICK f \in FramesOf(d) : held[d] = <<f>>
    BY <1>1, <1>10 DEF PumpWarns, PumpOK
  <2>2. /\ pump' = [pump EXCEPT ![d] = "write"] /\ UNCHANGED <<incoming, forwarded, held>>
        /\ queue' \in Seq(Frames) /\ Len(queue') <= QueueCap
        /\ UNCHANGED <<ended, broken, runVars, worker, shipping, hubVars, recoveries>>
        /\ degraded' \in BOOLEAN /\ lost' \subseteq Frames
        /\ episodes' \in Nat /\ warnings' \in Nat
    BY <1>6, <1>10 DEF PumpWarns
  <2> QED BY <1>4, <1>5, <2>1, <2>2
<1>11. CASE Write(d)
  <2>1. forwarded[d] \o held[d] \in Seq(FramesOf(d)) /\ << >> \in Seq(FramesOf(d))
    BY <1>5
  <2>2. CASE broken[d]
    BY <1>4, <1>5, <1>6, <1>11, <2>1, <2>2 DEF Write
  <2>3. CASE ~broken[d]
    <3>1. forwarded' = [forwarded EXCEPT ![d] = forwarded[d] \o held[d]]
          /\ pump' = [pump EXCEPT ![d] = "scan"]
      BY <1>11, <2>3 DEF Write
    <3> QED BY <1>4, <1>5, <1>6, <1>11, <2>1, <3>1 DEF Write
  <2> QED BY <2>2, <2>3
<1> QED BY <1>7, <1>8, <1>9, <1>10, <1>11 DEF Pump

LEMMA ShipType ==
    ASSUME TypeInv, Ship \/ \E f \in Frames : HubFinishesLate(f)
    PROVE  TypeInv'
<1> USE DEF pipeVars, runVars, logVars, hubVars
<1>1. /\ queue \in Seq(Frames) /\ Len(queue) <= QueueCap /\ Len(queue) \in Nat
      /\ QueueCap \in Nat /\ ingested \in Seq(Frames) /\ shipping \in Seq(Frames)
  BY BridgeAssumption DEF TypeInv, TypeOK
\* None of these steps touches a pump.
<1>2. ASSUME UNCHANGED <<pipeVars, pump, held, runVars>>, WorkerOK',
             queue' \in Seq(Frames), Len(queue') <= QueueCap,
             ingested' \in Seq(Frames),
             worker' \in {"idle", "post", "accepted", "failed", "warn", "recover"},
             degraded' \in BOOLEAN, hubUp' \in BOOLEAN,
             late' \subseteq Frames, lost' \subseteq Frames, timedOut' \subseteq Frames,
             episodes' \in Nat, warnings' \in Nat, recoveries' \in Nat
      PROVE  TypeInv'
  <2>1. shipping' \in Seq(Frames) /\ Len(shipping') <= 1
    <3>1. CASE worker' = "post"
      <4>1. PICK f \in Frames : shipping' = <<f>>
        BY <1>2, <3>1 DEF WorkerOK
      <4> QED BY <4>1
    <3>2. CASE worker' # "post"
      <4>1. shipping' = << >>
        BY <1>2, <3>2 DEF WorkerOK
      <4> QED BY <4>1
    <3> QED BY <3>1, <3>2
  <2> QED BY <1>2, <2>1 DEF TypeInv, TypeOK, PumpOK
<1>3. CASE Take
  <2>1. worker = "idle" /\ queue # << >> /\ shipping' = <<Head(queue)>> /\ queue' = Tail(queue)
        /\ worker' = "post"
    BY <1>3 DEF Take
  <2>2. Head(queue) \in Frames /\ Tail(queue) \in Seq(Frames) /\ Len(Tail(queue)) = Len(queue) - 1
    BY <1>1, <2>1, TailElems
  <2>3. Len(queue') <= QueueCap
    BY <1>1, <2>1, <2>2
  <2> QED BY <1>2, <1>3, <2>1, <2>2, <2>3 DEF Take, WorkerOK, TypeInv, TypeOK
<1>4. CASE PostAccepted \/ PostRefused \/ PostTimesOut
  <2>1. worker = "post" /\ shipping' = << >> /\ worker' \in {"accepted", "failed"}
    BY <1>4 DEF PostAccepted, PostRefused, PostTimesOut
  <2>2. PICK f \in Frames : shipping = <<f>>
    BY <2>1 DEF TypeInv, WorkerOK
  <2>3. Range(shipping) \subseteq Frames /\ ingested \o shipping \in Seq(Frames)
    BY <1>1, <2>2, OneFrame
  <2> QED BY <1>2, <1>4, <2>1, <2>3 DEF PostAccepted, PostRefused, PostTimesOut, WorkerOK,
      TypeInv, TypeOK
<1>5. CASE WorkerFails \/ WorkerSucceeds \/ WorkerLogs
  <2>1. UNCHANGED shipping /\ shipping = << >> /\ worker' \in {"idle", "warn", "recover"}
    BY <1>5 DEF WorkerFails, WorkerSucceeds, WorkerLogs, TypeInv, WorkerOK
  <2>2. /\ episodes \in Nat /\ warnings \in Nat /\ recoveries \in Nat /\ degraded \in BOOLEAN
    BY DEF TypeInv, TypeOK
  <2>3. episodes' \in Nat /\ warnings' \in Nat /\ recoveries' \in Nat /\ degraded' \in BOOLEAN
    <3>1. CASE WorkerFails
      BY <2>2, <3>1 DEF WorkerFails
    <3>2. CASE WorkerSucceeds
      BY <2>2, <3>2 DEF WorkerSucceeds
    <3>3. CASE WorkerLogs
      BY <2>2, <3>3 DEF WorkerLogs
    <3> QED BY <1>5, <3>1, <3>2, <3>3
  <2>4. /\ UNCHANGED <<pipeVars, pump, held, runVars, queue, hubVars, lost>>
    BY <1>5 DEF WorkerFails, WorkerSucceeds, WorkerLogs
  <2>5. hubUp \in BOOLEAN /\ late \subseteq Frames /\ lost \subseteq Frames
        /\ timedOut \subseteq Frames
    BY DEF TypeInv, TypeOK
  <2>6. WorkerOK'
    BY <2>1 DEF WorkerOK
  <2> QED BY <1>1, <1>2, <2>1, <2>3, <2>4, <2>5, <2>6
<1>6. ASSUME NEW f \in Frames, HubFinishesLate(f) PROVE TypeInv'
  <2>1. Append(ingested, f) \in Seq(Frames)
    BY <1>1
  <2> QED BY <1>2, <1>6, <2>1 DEF HubFinishesLate, WorkerOK, TypeInv, TypeOK
<1> QED BY <1>3, <1>4, <1>5, <1>6 DEF Ship

LEMMA TypeStep == ASSUME TypeInv, [Next]_vars PROVE TypeInv'
<1>1. CASE UNCHANGED vars
  BY <1>1 DEF vars, pipeVars, runVars, logVars, hubVars, TypeInv, TypeOK, PumpOK, WorkerOK
<1>2. CASE Next
  BY <1>2, EndsType, PumpType, ShipType DEF Next
<1> QED BY <1>1, <1>2

THEOREM TypeCorrect == Spec => []TypeOK
<1>1. TypeInv => TypeOK
  BY DEF TypeInv
<1> QED BY TypeInit, TypeStep, <1>1, PTL DEF Spec

\* A returned Run holds no frame (ReturnsWithNothingHeld).
THEOREM NothingIsHeld == Spec => []ReturnsWithNothingHeld
<1>1. TypeInv => ReturnsWithNothingHeld
  BY DEF TypeInv, PumpOK, ReturnsWithNothingHeld
<1> QED BY TypeInit, TypeStep, <1>1, PTL DEF Spec

-----------------------------------------------------------------------------
(* Warnings.                                                               *)

\* A step that is none of these writes no line and swaps no flag.
LEMMA CountStep == ASSUME TypeInv, OneWarningPerEpisode, [Next]_vars
                   PROVE  OneWarningPerEpisode'
<1> USE DEF pipeVars, runVars, logVars, hubVars
<1>1. /\ episodes \in Nat /\ warnings \in Nat /\ recoveries \in Nat /\ degraded \in BOOLEAN
      /\ pump \in [Directions -> {"scan", "observe", "warn", "write", "ended"}]
      /\ worker \in {"idle", "post", "accepted", "failed", "warn", "recover"}
  BY DEF TypeInv, TypeOK
<1>2. ASSUME UNCHANGED <<episodes, warnings, recoveries, degraded, worker>>,
             \A d \in Directions : pump'[d] = "warn" <=> pump[d] = "warn"
      PROVE  OneWarningPerEpisode'
  BY <1>2 DEF OneWarningPerEpisode, WarningsDue, RecoveriesDue, Directions
<1>3. ASSUME UNCHANGED vars \/ ClientCloses \/ CodexExits \/ Cancel \/ RunReturns
             \/ ProcessExits \/ HubFlips
      PROVE  OneWarningPerEpisode'
  BY <1>2, <1>3 DEF vars, ClientCloses, CodexExits, Cancel, RunReturns, ProcessExits, HubFlips
<1>4. ASSUME NEW r \in Requests, ClientSends(r) \/ CodexAnswers(r)
      PROVE  OneWarningPerEpisode'
  BY <1>2, <1>4 DEF ClientSends, CodexAnswers
<1>5. ASSUME NEW f \in Frames, HubFinishesLate(f) PROVE OneWarningPerEpisode'
  BY <1>2, <1>5 DEF HubFinishesLate
<1>6. ASSUME NEW d \in Directions, Pump(d) PROVE OneWarningPerEpisode'
  <2>1. ASSUME NEW p \in {"scan", "observe", "write", "ended"}, pump[d] # "warn",
               pump' = [pump EXCEPT ![d] = p],
               UNCHANGED <<episodes, warnings, recoveries, degraded, worker>>
        PROVE  OneWarningPerEpisode'
    <3>1. \A e \in Directions : pump'[e] = "warn" <=> pump[e] = "warn"
      BY <1>1, <2>1
    <3> QED BY <1>2, <2>1, <3>1
  <2>2. CASE Scan(d)
    BY <2>1, <2>2 DEF Scan
  <2>3. CASE ScanEOF(d)
    BY <2>1, <2>3 DEF ScanEOF
  <2>4. CASE Observe(d)
    <3>1. CASE Len(queue) < QueueCap
      BY <2>1, <2>4, <3>1 DEF Observe
    <3>2. CASE ~(Len(queue) < QueueCap) /\ degraded
      BY <1>1, <2>1, <2>4, <3>2 DEF Observe
    <3>3. CASE ~(Len(queue) < QueueCap) /\ ~degraded
      BY <1>1, <2>4, <3>3 DEF Observe, OneWarningPerEpisode, WarningsDue, RecoveriesDue,
         Directions
    <3> QED BY <3>1, <3>2, <3>3
  <2>5. CASE PumpWarns(d)
    BY <1>1, <2>5 DEF PumpWarns, OneWarningPerEpisode, WarningsDue, RecoveriesDue, Directions
  <2>6. CASE Write(d)
    BY <2>1, <2>6 DEF Write
  <2> QED BY <1>6, <2>2, <2>3, <2>4, <2>5, <2>6 DEF Pump
<1>7. CASE Take \/ PostAccepted \/ PostRefused \/ PostTimesOut
  BY <1>1, <1>7 DEF Take, PostAccepted, PostRefused, PostTimesOut, OneWarningPerEpisode,
     WarningsDue, RecoveriesDue
<1>8. CASE WorkerFails
  BY <1>1, <1>8 DEF WorkerFails, OneWarningPerEpisode, WarningsDue, RecoveriesDue
<1>9. CASE WorkerSucceeds
  BY <1>1, <1>9 DEF WorkerSucceeds, OneWarningPerEpisode, WarningsDue, RecoveriesDue
<1>10. CASE WorkerLogs
  BY <1>1, <1>10 DEF WorkerLogs, OneWarningPerEpisode, WarningsDue, RecoveriesDue
<1> QED BY <1>3, <1>4, <1>5, <1>6, <1>7, <1>8, <1>9, <1>10 DEF Next, Ship

\* Three goroutines race on the flag of OneWarningPerEpisode.
THEOREM EpisodesAreReported == Spec => []OneWarningPerEpisode
<1>1. Init => OneWarningPerEpisode
  BY DEF Init, OneWarningPerEpisode, WarningsDue, RecoveriesDue, Directions
<1> QED BY TypeInit, TypeStep, <1>1, CountStep, PTL DEF Spec

-----------------------------------------------------------------------------
(* Where the envelopes are.                                                *)

\* What the observer has been shown, wherever it is now.
Seen == Range(queue) \cup Range(shipping) \cup late \cup Range(ingested) \cup lost

Apart ==
    /\ IsInjective(queue) /\ IsInjective(ingested)
    /\ Range(queue) \cap (Range(shipping) \cup late \cup Range(ingested) \cup lost) = {}
    /\ Range(shipping) \cap (late \cup Range(ingested) \cup lost) = {}
    /\ late \cap (Range(ingested) \cup lost) = {}
    /\ Range(ingested) \cap lost = {}

\* A pump shows a frame before it writes it, and has not shown what it has yet
\* to scan; while it runs it writes all it shows.
PumpSeen(d) ==
    /\ Range(forwarded[d]) \subseteq Seen
    /\ pump[d] \in {"warn", "write"} => Range(held[d]) \subseteq Seen
    /\ pump[d] = "observe" => Range(held[d]) \cap Seen = {}
    /\ pump[d] # "ended" =>
          /\ IsInjective(incoming[d])
          /\ Range(incoming[d]) \cap (Seen \cup Range(held[d])) = {}
          /\ Seen \cap FramesOf(d) \subseteq Range(held[d]) \cup Range(forwarded[d])

SeenInv == Apart /\ \A d \in Directions : PumpSeen(d)

LEMMA InRange == ASSUME NEW S, NEW s \in Seq(S) PROVE Range(s) \subseteq S
BY DEF Range

LEMMA EmptyIsInjective == IsInjective(<< >>)
BY DEF IsInjective

LEMMA SeenInit == Init => SeenInv
<1> SUFFICES ASSUME Init PROVE SeenInv
  OBVIOUS
<1>1. Seen = {}
  BY OneFrame DEF Init, Seen
<1>2. Apart
  BY OneFrame, EmptyIsInjective DEF Init, Apart
<1>3. \A d \in Directions : PumpSeen(d)
  BY <1>1, OneFrame, EmptyIsInjective DEF Init, PumpSeen
<1> QED BY <1>2, <1>3 DEF SeenInv

\* The worker and the hub hand envelopes on, each to one place.
LEMMA PlacesMove ==
    ASSUME TypeInv, Apart, Ship \/ \E f \in Frames : HubFinishesLate(f)
    PROVE  Apart' /\ Seen' = Seen
<1> USE DEF pipeVars, runVars, logVars, hubVars
<1>1. queue \in Seq(Frames) /\ ingested \in Seq(Frames)
  BY DEF TypeInv, TypeOK
<1>2. CASE Take
  <2>1. /\ queue # << >> /\ shipping = << >> /\ shipping' = <<Head(queue)>>
        /\ queue' = Tail(queue) /\ UNCHANGED <<late, ingested, lost>>
    BY <1>2 DEF Take, TypeInv, WorkerOK
  <2>2. /\ Range(shipping) = {} /\ Range(shipping') = {Head(queue)}
        /\ Head(queue) \in Range(queue)
        /\ IsInjective(queue') /\ Range(queue') = Range(queue) \ {Head(queue)}
    BY <1>1, <2>1, OneFrame, TailElems DEF Apart
  <2> QED BY <2>1, <2>2 DEF Apart, Seen
<1>3. CASE PostAccepted \/ PostRefused \/ PostTimesOut
  <2>1. worker = "post" /\ shipping' = << >> /\ UNCHANGED queue
    BY <1>3 DEF PostAccepted, PostRefused, PostTimesOut
  <2>2. PICK f \in Frames : shipping = <<f>>
    BY <2>1 DEF TypeInv, WorkerOK
  <2>3. Range(shipping) = {f} /\ Range(shipping') = {}
    BY <2>1, <2>2, OneFrame
  <2>4. CASE PostAccepted
    <3>1. ingested' = Append(ingested, f) /\ UNCHANGED <<late, lost>>
      BY <1>1, <2>2, <2>4 DEF PostAccepted
    <3>2. f \notin Range(ingested)
      BY <2>3 DEF Apart
    <3>3. IsInjective(ingested') /\ Range(ingested') = Range(ingested) \cup {f}
      BY <1>1, <3>1, <3>2, AppendElems DEF Apart
    <3> QED BY <2>1, <2>3, <3>1, <3>3 DEF Apart, Seen
  <2>5. CASE PostRefused
    <3>1. lost' = lost \cup {f} /\ UNCHANGED <<late, ingested>>
      BY <2>3, <2>5 DEF PostRefused
    <3> QED BY <2>1, <2>3, <3>1 DEF Apart, Seen
  <2>6. CASE PostTimesOut
    <3>1. late' = late \cup {f} /\ UNCHANGED <<lost, ingested>>
      BY <2>3, <2>6 DEF PostTimesOut
    <3> QED BY <2>1, <2>3, <3>1 DEF Apart, Seen
  <2> QED BY <1>3, <2>4, <2>5, <2>6
<1>4. CASE WorkerFails \/ WorkerSucceeds \/ WorkerLogs
  <2>1. UNCHANGED <<queue, shipping, late, ingested, lost>>
    BY <1>4 DEF WorkerFails, WorkerSucceeds, WorkerLogs
  <2> QED BY <2>1 DEF Apart, Seen
<1>5. ASSUME NEW f \in Frames, HubFinishesLate(f) PROVE Apart' /\ Seen' = Seen
  <2>1. f \in late /\ late' = late \ {f} /\ UNCHANGED <<queue, shipping>>
    BY <1>5 DEF HubFinishesLate
  <2>2. CASE ingested' = Append(ingested, f) /\ UNCHANGED lost
    <3>1. f \notin Range(ingested)
      BY <2>1 DEF Apart
    <3>2. IsInjective(ingested') /\ Range(ingested') = Range(ingested) \cup {f}
      BY <1>1, <2>2, <3>1, AppendElems DEF Apart
    <3> QED BY <2>1, <2>2, <3>2 DEF Apart, Seen
  <2>3. CASE lost' = lost \cup {f} /\ UNCHANGED ingested
    BY <2>1, <2>3 DEF Apart, Seen
  <2> QED BY <1>5, <2>2, <2>3 DEF HubFinishesLate
<1> QED BY <1>2, <1>3, <1>4, <1>5 DEF Ship

\* A pump adds what it holds, which was nowhere.
LEMMA PlacesObserve ==
    ASSUME TypeInv, SeenInv, NEW d \in Directions, Observe(d)
    PROVE  Apart' /\ Seen' = Seen \cup Range(held[d])
<1> USE DEF pipeVars, runVars, logVars, hubVars
<1>1. queue \in Seq(Frames) /\ FramesOf(d) \subseteq Frames
  BY DEF TypeInv, TypeOK, FramesOf, Frames
<1>2. PICK f \in FramesOf(d) : held[d] = <<f>>
  BY DEF TypeInv, PumpOK, Observe
<1>3. Range(held[d]) = {f} /\ f \notin Seen
  BY <1>2, OneFrame DEF SeenInv, PumpSeen, Observe
<1>4. UNCHANGED <<shipping, late, ingested>>
  BY DEF Observe
<1>5. CASE queue' = queue \o held[d] /\ UNCHANGED lost
  <2>1. queue' = Append(queue, f)
    BY <1>1, <1>2, <1>5
  <2>2. f \notin Range(queue)
    BY <1>3 DEF Seen
  <2>3. IsInjective(queue') /\ Range(queue') = Range(queue) \cup {f}
    BY <1>1, <2>1, <2>2, AppendElems DEF SeenInv, Apart
  <2> QED BY <1>3, <1>4, <1>5, <2>3 DEF SeenInv, Apart, Seen
<1>6. CASE lost' = lost \cup Range(held[d]) /\ UNCHANGED queue
  BY <1>3, <1>4, <1>6 DEF SeenInv, Apart, Seen
<1> QED BY <1>5, <1>6 DEF Observe

\* The ends and the signal show nothing; what they send has not been sent.
LEMMA SeenEnds ==
    ASSUME TypeInv, SeenInv,
           \/ \E r \in Requests : ClientSends(r) \/ CodexAnswers(r)
           \/ ClientCloses \/ CodexExits \/ Cancel \/ RunReturns \/ ProcessExits
           \/ HubFlips \/ UNCHANGED vars
    PROVE  SeenInv' /\ Seen' = Seen
<1> USE DEF pipeVars, runVars, logVars, hubVars
<1>1. UNCHANGED <<queue, shipping, late, ingested, lost, forwarded, pump, held>>
  BY DEF ClientSends, CodexAnswers, ClientCloses, CodexExits, Cancel, RunReturns, ProcessExits,
     HubFlips, vars
<1>2. Seen' = Seen /\ Apart'
  BY <1>1 DEF Seen, SeenInv, Apart
<1>3. ASSUME NEW d \in Directions, incoming'[d] = incoming[d] PROVE PumpSeen(d)'
  BY <1>1, <1>2, <1>3 DEF SeenInv, PumpSeen
<1>4. ASSUME NEW d \in Directions, NEW f \in FramesOf(d), f \notin Sent(d),
             incoming' = [incoming EXCEPT ![d] = Append(@, f)]
      PROVE  \A e \in Directions : PumpSeen(e)'
  <2>1. incoming'[d] = Append(incoming[d], f) /\ incoming[d] \in Seq(FramesOf(d))
    BY <1>4 DEF TypeInv, TypeOK, PumpOK
  <2>2. /\ f \notin Range(incoming[d])
        /\ f \notin Range(held[d]) \cup Range(forwarded[d])
    BY <1>4 DEF Sent
  <2>3. pump[d] # "ended" => f \notin Seen
    BY <2>2 DEF SeenInv, PumpSeen
  <2>4. /\ Range(incoming'[d]) = Range(incoming[d]) \cup {f}
        /\ IsInjective(incoming[d]) => IsInjective(incoming'[d])
    BY <2>1, <2>2, AppendElems
  <2>5. PumpSeen(d)'
    BY <1>1, <1>2, <2>2, <2>3, <2>4 DEF SeenInv, PumpSeen
  <2>6. ASSUME NEW e \in Directions, e # d PROVE PumpSeen(e)'
    BY <1>3, <1>4, <2>6 DEF TypeInv, TypeOK
  <2> QED BY <2>5, <2>6
<1>5. ASSUME NEW r \in Requests, ClientSends(r) \/ CodexAnswers(r)
      PROVE  \A e \in Directions : PumpSeen(e)'
  <2>1. <<"up", r>> \in FramesOf("up") /\ <<"down", r>> \in FramesOf("down")
        /\ {"up", "down"} \subseteq Directions
    BY DEF FramesOf, Directions
  <2> QED BY <1>4, <1>5, <2>1 DEF ClientSends, CodexAnswers
<1>6. ASSUME UNCHANGED incoming PROVE \A e \in Directions : PumpSeen(e)'
  BY <1>3, <1>6
<1> QED BY <1>2, <1>5, <1>6 DEF SeenInv, ClientCloses, CodexExits, Cancel, RunReturns,
    ProcessExits, HubFlips, vars

LEMMA SeenPump ==
    ASSUME TypeInv, SeenInv, NEW d \in Directions, Pump(d)
    PROVE  SeenInv' /\ Seen' = Seen \cup (IF Observe(d) THEN Range(held[d]) ELSE {})
<1> USE DEF pipeVars, runVars, logVars, hubVars
<1>1. /\ PumpOK(d) /\ PumpSeen(d) /\ incoming[d] \in Seq(FramesOf(d))
      /\ forwarded[d] \in Seq(FramesOf(d))
      /\ pump \in [Directions -> {"scan", "observe", "warn", "write", "ended"}]
      /\ held \in [Directions -> Seq(Frames)] /\ incoming \in [Directions -> Seq(Frames)]
      /\ forwarded \in [Directions -> Seq(Frames)]
  BY DEF TypeInv, TypeOK, SeenInv, PumpOK
<1>2. \A e \in Directions \ {d} : /\ pump'[e] = pump[e] /\ held'[e] = held[e]
                                  /\ incoming'[e] = incoming[e]
                                  /\ forwarded'[e] = forwarded[e]
  BY <1>1 DEF Pump, Scan, ScanEOF, Observe, PumpWarns, Write
<1>3. CASE Observe(d)
  <2>1. Apart' /\ Seen' = Seen \cup Range(held[d])
    BY <1>3, PlacesObserve
  <2>2. PICK f \in FramesOf(d) : held[d] = <<f>>
    BY <1>1, <1>3 DEF PumpOK, Observe
  <2>3. Range(held[d]) = {f}
    BY <2>2, OneFrame
  <2>4. /\ pump'[d] \in {"warn", "write"} /\ pump[d] = "observe"
        /\ UNCHANGED <<held, incoming, forwarded>>
    BY <1>1, <1>3 DEF Observe
  <2>5. PumpSeen(d)'
    BY <1>1, <2>1, <2>3, <2>4 DEF PumpSeen
  <2>6. ASSUME NEW e \in Directions, e # d PROVE PumpSeen(e)'
    <3>1. /\ Range(incoming[e]) \subseteq FramesOf(e)
          /\ f \notin FramesOf(e)
      BY <2>6, InRange DEF TypeInv, PumpOK, FramesOf
    <3>2. Range(held[e]) \subseteq FramesOf(e)
      <4>1. CASE pump[e] \in {"observe", "warn", "write"}
        <5>1. PICK g \in FramesOf(e) : held[e] = <<g>>
          BY <4>1 DEF TypeInv, PumpOK
        <5> QED BY <5>1, OneFrame
      <4>2. CASE pump[e] \notin {"observe", "warn", "write"}
        BY <4>2, OneFrame DEF TypeInv, PumpOK
      <4> QED BY <4>1, <4>2
    <3> QED BY <1>2, <2>1, <2>3, <2>6, <3>1, <3>2 DEF SeenInv, PumpSeen
  <2> QED BY <1>3, <2>1, <2>5, <2>6 DEF SeenInv
<1>4. ASSUME UNCHANGED <<queue, shipping, late, ingested, lost>>, PumpSeen(d)', ~Observe(d)
      PROVE  SeenInv' /\ Seen' = Seen \cup (IF Observe(d) THEN Range(held[d]) ELSE {})
  <2>1. Seen' = Seen /\ Apart'
    BY <1>4 DEF Seen, SeenInv, Apart
  <2>2. ASSUME NEW e \in Directions, e # d PROVE PumpSeen(e)'
    BY <1>2, <2>1, <2>2 DEF SeenInv, PumpSeen
  <2> QED BY <1>4, <2>1, <2>2 DEF SeenInv
<1>5. CASE Scan(d)
  <2>1. UNCHANGED <<queue, shipping, late, ingested, lost, forwarded>> /\ ~Observe(d)
        /\ pump[d] = "scan" /\ incoming[d] # << >> /\ Seen' = Seen
    BY <1>5 DEF Scan, Observe, Seen
  <2>2. Range(held[d]) = {}
    BY <1>1, <2>1, OneFrame DEF PumpOK
  <2>3. CASE pump' = [pump EXCEPT ![d] = "ended"]
    <3>1. pump'[d] = "ended"
      BY <1>1, <2>3
    <3>2. PumpSeen(d)'
      BY <1>1, <2>1, <3>1 DEF PumpSeen
    <3> QED BY <1>4, <2>1, <3>2
  <2>4. CASE /\ pump' = [pump EXCEPT ![d] = "observe"]
             /\ held' = [held EXCEPT ![d] = <<Head(incoming[d])>>]
             /\ incoming' = [incoming EXCEPT ![d] = Tail(@)]
    <3>1. /\ pump'[d] = "observe" /\ held'[d] = <<Head(incoming[d])>>
          /\ incoming'[d] = Tail(incoming[d])
      BY <1>1, <2>4
    <3>2. /\ IsInjective(incoming'[d]) /\ Head(incoming[d]) \in Range(incoming[d])
          /\ Range(incoming'[d]) = Range(incoming[d]) \ {Head(incoming[d])}
      BY <1>1, <2>1, <3>1, TailElems DEF PumpSeen
    <3>3. Range(held'[d]) = {Head(incoming[d])}
      BY <3>1, OneFrame
    <3>4. PumpSeen(d)'
      BY <1>1, <2>1, <2>2, <3>1, <3>2, <3>3 DEF PumpSeen
    <3> QED BY <1>4, <2>1, <3>4
  <2> QED BY <1>5, <2>3, <2>4 DEF Scan
<1>6. CASE ScanEOF(d)
  <2>1. UNCHANGED <<queue, shipping, late, ingested, lost, forwarded>> /\ ~Observe(d)
        /\ pump'[d] = "ended" /\ Seen' = Seen
    BY <1>1, <1>6 DEF ScanEOF, Observe, Seen
  <2>2. PumpSeen(d)'
    BY <1>1, <2>1 DEF PumpSeen
  <2> QED BY <1>4, <2>1, <2>2
<1>7. CASE PumpWarns(d)
  <2>1. /\ UNCHANGED <<queue, shipping, late, ingested, lost, forwarded, held, incoming>>
        /\ ~Observe(d) /\ pump[d] = "warn" /\ pump'[d] = "write" /\ Seen' = Seen
    BY <1>1, <1>7 DEF PumpWarns, Observe, Seen
  <2>2. PumpSeen(d)'
    BY <1>1, <2>1 DEF PumpSeen
  <2> QED BY <1>4, <2>1, <2>2
<1>8. CASE Write(d)
  <2>1. /\ UNCHANGED <<queue, shipping, late, ingested, lost, incoming>>
        /\ ~Observe(d) /\ pump[d] = "write" /\ Seen' = Seen /\ held'[d] = << >>
    BY <1>1, <1>8 DEF Write, Observe, Seen
  <2>2. Range(held'[d]) = {}
    BY <2>1, OneFrame
  <2>3. CASE broken[d]
    <3>1. pump'[d] = "ended" /\ UNCHANGED forwarded
      BY <1>1, <1>8, <2>3 DEF Write
    <3>2. PumpSeen(d)'
      BY <1>1, <2>1, <2>2, <3>1 DEF PumpSeen
    <3> QED BY <1>4, <2>1, <3>2
  <2>4. CASE ~broken[d]
    <3>1. pump'[d] = "scan" /\ forwarded'[d] = forwarded[d] \o held[d]
      BY <1>1, <1>8, <2>4 DEF Write
    <3>2. PICK f \in FramesOf(d) : held[d] = <<f>>
      BY <1>1, <2>1 DEF PumpOK
    <3>3. Range(forwarded'[d]) = Range(forwarded[d]) \cup Range(held[d])
      <4>1. held[d] \in Seq(FramesOf(d))
        BY <3>2
      <4> QED BY <1>1, <3>1, <4>1, ConcatElems
    <3>4. /\ Range(forwarded'[d]) \subseteq Seen
          /\ IsInjective(incoming[d]) /\ Range(incoming[d]) \cap Seen = {}
          /\ Seen \cap FramesOf(d) \subseteq Range(forwarded'[d])
      BY <1>1, <2>1, <3>3 DEF PumpSeen
    <3>5. incoming'[d] = incoming[d]
      BY <2>1
    <3>6. PumpSeen(d)'
      BY <2>1, <2>2, <3>1, <3>4, <3>5 DEF PumpSeen
    <3> QED BY <1>4, <2>1, <3>6
  <2> QED BY <2>3, <2>4
<1> QED BY <1>3, <1>5, <1>6, <1>7, <1>8 DEF Pump

LEMMA SeenStep == ASSUME TypeInv, SeenInv, [Next]_vars PROVE SeenInv'
<1>1. ASSUME Ship \/ \E f \in Frames : HubFinishesLate(f) PROVE SeenInv'
  <2>1. Apart' /\ Seen' = Seen
    BY <1>1, PlacesMove DEF SeenInv
  <2>2. UNCHANGED <<pump, held, incoming, forwarded>>
    BY <1>1 DEF Ship, Take, PostAccepted, PostRefused, PostTimesOut, WorkerFails,
       WorkerSucceeds, WorkerLogs, HubFinishesLate, pipeVars
  <2> QED BY <2>1, <2>2 DEF SeenInv, PumpSeen
<1> QED BY <1>1, SeenEnds, SeenPump DEF Next

\* The five places of an envelope (EnvelopesAccountedFor): none is in two, none
\* was taken twice, and none that was forwarded is in none.
THEOREM EnvelopesAreAccountedFor == Spec => []EnvelopesAccountedFor
<1>1. TypeInv /\ SeenInv => EnvelopesAccountedFor
  <2> SUFFICES ASSUME TypeInv, SeenInv PROVE EnvelopesAccountedFor
    OBVIOUS
  <2> DEFINE places == <<Range(queue), Range(shipping), late, Range(ingested), lost>>
  <2>1. \A i, j \in DOMAIN ingested : ingested[i] = ingested[j] => i = j
    BY DEF SeenInv, Apart, IsInjective
  <2>2. /\ DOMAIN places = 1 .. 5
        /\ places[1] = Range(queue) /\ places[2] = Range(shipping) /\ places[3] = late
        /\ places[4] = Range(ingested) /\ places[5] = lost
    OBVIOUS
  <2> HIDE DEF places
  <2>3. \A x, y \in DOMAIN places : x # y => places[x] \cap places[y] = {}
    <3>1. /\ places[1] \cap places[2] = {} /\ places[1] \cap places[3] = {}
          /\ places[1] \cap places[4] = {} /\ places[1] \cap places[5] = {}
          /\ places[2] \cap places[3] = {} /\ places[2] \cap places[4] = {}
          /\ places[2] \cap places[5] = {} /\ places[3] \cap places[4] = {}
          /\ places[3] \cap places[5] = {} /\ places[4] \cap places[5] = {}
      BY <2>2 DEF SeenInv, Apart
    <3>2. ASSUME NEW x \in 1 .. 5, NEW y \in 1 .. 5, x < y
          PROVE  places[x] \cap places[y] = {}
      BY <3>1, <3>2
    <3>3. ASSUME NEW x \in 1 .. 5, NEW y \in 1 .. 5, x # y
          PROVE  places[x] \cap places[y] = {}
      <4>1. CASE x < y
        BY <3>2, <4>1
      <4>2. CASE y < x
        BY <3>2, <4>2
      <4> QED BY <3>3, <4>1, <4>2
    <3> QED BY <2>2, <3>3
  <2>4. \A d \in Directions : Range(forwarded[d]) \subseteq UNION Range(places)
    <3>1. Seen \subseteq UNION Range(places)
      <4>1. \A i \in 1 .. 5 : places[i] \in Range(places)
        BY <2>2 DEF Range
      <4>2. \A i \in 1 .. 5 : places[i] \subseteq UNION Range(places)
        BY <4>1
      <4>3. /\ places[1] \subseteq UNION Range(places)
            /\ places[2] \subseteq UNION Range(places)
            /\ places[3] \subseteq UNION Range(places)
            /\ places[4] \subseteq UNION Range(places)
            /\ places[5] \subseteq UNION Range(places)
        BY <4>2
      <4> QED BY <2>2, <4>3 DEF Seen
    <3> QED BY <3>1 DEF SeenInv, PumpSeen
  <2> QED BY <2>1, <2>3, <2>4 DEF EnvelopesAccountedFor, places
<1> QED BY TypeInit, TypeStep, SeenInit, SeenStep, <1>1, PTL DEF Spec

-----------------------------------------------------------------------------
(* Order.                                                                  *)

\* y comes after every x.
After(s, x, y) == \A i, j \in DOMAIN s : s[i] = y /\ s[j] = x => j < i

\* The worker has got as far as this envelope.
Handed == Range(shipping) \cup late \cup Range(ingested)

Ordered(q, a) ==
    /\ After(queue, q, a)
    /\ After(ingested, q, a)
    /\ a \in Handed => q \notin Range(queue) \cup Range(shipping)

\* An answer exists only once its request was forwarded, thus shown; from then
\* on the request is ahead of it, unless the worker gave up on the request.
OrderInv ==
    /\ late \subseteq timedOut
    /\ \A r \in Requests :
          /\ <<"down", r>> \in Sent("down") \cup Seen => <<"up", r>> \in Seen
          /\ <<"up", r>> \notin timedOut => Ordered(<<"up", r>>, <<"down", r>>)

LEMMA AfterAppend ==
    ASSUME NEW S, NEW s \in Seq(S), NEW x \in S, NEW y, NEW z \in S, x # y,
           After(s, x, y), z = x => y \notin Range(s)
    PROVE  After(Append(s, z), x, y)
<1>1. /\ DOMAIN Append(s, z) = 1 .. Len(s) + 1 /\ DOMAIN s = 1 .. Len(s) /\ Len(s) \in Nat
      /\ \A i \in 1 .. Len(s) : Append(s, z)[i] = s[i]
      /\ Append(s, z)[Len(s) + 1] = z
  OBVIOUS
<1>2. ASSUME NEW i \in 1 .. Len(s) + 1, NEW j \in 1 .. Len(s) + 1,
             Append(s, z)[i] = y, Append(s, z)[j] = x
      PROVE  j < i
  <2>1. CASE i <= Len(s) /\ j <= Len(s)
    BY <1>1, <1>2, <2>1 DEF After
  <2>2. CASE i <= Len(s) /\ j = Len(s) + 1
    <3>1. z = x /\ s[i] = y /\ i \in DOMAIN s
      BY <1>1, <1>2, <2>2
    <3> QED BY <3>1 DEF Range
  <2>3. CASE i = Len(s) + 1
    BY <1>1, <1>2, <2>3
  <2> QED BY <1>1, <2>1, <2>2, <2>3
<1> QED BY <1>1, <1>2 DEF After

LEMMA AfterTail ==
    ASSUME NEW S, NEW s \in Seq(S), NEW x, NEW y, s # << >>, After(s, x, y)
    PROVE  /\ After(Tail(s), x, y)
           /\ Head(s) = y => x \notin Range(s)
<1>1. /\ \A i \in 1 .. Len(s) - 1 : Tail(s)[i] = s[i + 1]
      /\ DOMAIN Tail(s) = 1 .. Len(s) - 1
      /\ DOMAIN s = 1 .. Len(s)
      /\ Len(s) \in Nat \ {0}
      /\ Head(s) = s[1]
  BY HeadTailProperties, EmptySeq, LenProperties
<1>2. ASSUME NEW i \in 1 .. Len(s) - 1, NEW j \in 1 .. Len(s) - 1,
             Tail(s)[i] = y, Tail(s)[j] = x
      PROVE  j < i
  <2>1. i + 1 \in DOMAIN s /\ j + 1 \in DOMAIN s /\ s[i + 1] = y /\ s[j + 1] = x
    BY <1>1, <1>2
  <2>2. j + 1 < i + 1
    BY <2>1 DEF After
  <2> QED BY <2>2
<1>3. ASSUME Head(s) = y, NEW j \in DOMAIN s, s[j] = x PROVE FALSE
  <2>1. j < 1
    BY <1>1, <1>3 DEF After
  <2> QED BY <1>1, <2>1
<1>4. After(Tail(s), x, y)
  BY <1>1, <1>2 DEF After
<1> QED BY <1>3, <1>4 DEF Range

LEMMA OrderInit == Init => OrderInv
<1> SUFFICES ASSUME Init PROVE OrderInv
  OBVIOUS
<1>1. "down" \in Directions
  BY DEF Directions
<1>2. Sent("down") = {} /\ Seen = {}
  BY <1>1, OneFrame DEF Init, Sent, Seen
<1>3. ASSUME NEW q, NEW a PROVE Ordered(q, a)
  <2>1. queue = << >> /\ ingested = << >> /\ Handed = {}
    BY OneFrame DEF Init, Handed
  <2>2. After(<< >>, q, a)
    BY DEF After
  <2> QED BY <2>1, <2>2 DEF Ordered
<1> QED BY <1>2, <1>3 DEF OrderInv, Init

\* A frame gets into Sent from outside, and nowhere else.
LEMMA SentStep ==
    ASSUME TypeInv, Next, NEW r \in Requests, <<"down", r>> \in Sent("down")'
    PROVE  <<"down", r>> \in Sent("down") \/ CodexAnswers(r)
<1> USE DEF pipeVars, runVars, logVars, hubVars
<1> DEFINE a == <<"down", r>>
<1>0. /\ "down" \in Directions /\ "up" \in Directions
      /\ incoming \in [Directions -> Seq(Frames)] /\ held \in [Directions -> Seq(Frames)]
      /\ forwarded \in [Directions -> Seq(Frames)]
      /\ incoming["down"] \in Seq(Frames) /\ held["down"] \in Seq(Frames)
      /\ forwarded["down"] \in Seq(Frames)
  BY DEF TypeInv, TypeOK, Directions
<1>1. ASSUME UNCHANGED <<incoming, held, forwarded>> PROVE a \in Sent("down")
  BY <1>1 DEF Sent
<1>2. ASSUME NEW r2 \in Requests, ClientSends(r2) PROVE a \in Sent("down")
  BY <1>0, <1>2 DEF ClientSends, Sent
<1>3. ASSUME NEW r2 \in Requests, CodexAnswers(r2)
      PROVE  a \in Sent("down") \/ CodexAnswers(r)
  <2>1. /\ incoming'["down"] = Append(incoming["down"], <<"down", r2>>)
        /\ UNCHANGED <<held, forwarded>> /\ <<"down", r2>> \in Frames
    BY <1>0, <1>3 DEF CodexAnswers, Frames
  <2>2. Range(incoming'["down"]) = Range(incoming["down"]) \cup {<<"down", r2>>}
    <3>1. PICK x \in Frames : x = <<"down", r2>>
      BY <2>1
    <3>2. Range(Append(incoming["down"], x)) = Range(incoming["down"]) \cup {x}
      BY <1>0, AppendElems
    <3> QED BY <2>1, <3>1, <3>2
  <2>3. CASE r2 = r
    BY <1>3, <2>3
  <2>4. CASE r2 # r
    BY <2>1, <2>2, <2>4 DEF Sent
  <2> QED BY <2>3, <2>4
<1>4. ASSUME Pump("down") PROVE a \in Sent("down")
  <2>1. CASE Scan("down")
    <3>1. incoming["down"] # << >> /\ UNCHANGED forwarded
      BY <2>1 DEF Scan
    <3>2. /\ Head(incoming["down"]) \in Range(incoming["down"])
          /\ Range(Tail(incoming["down"])) \subseteq Range(incoming["down"])
      <4>1. Head(incoming["down"]) \in Range(incoming["down"])
        BY <1>0, <3>1, TailElems
      <4>2. /\ DOMAIN Tail(incoming["down"]) = 1 .. Len(incoming["down"]) - 1
            /\ DOMAIN incoming["down"] = 1 .. Len(incoming["down"])
            /\ \A i \in 1 .. Len(incoming["down"]) - 1 :
                  Tail(incoming["down"])[i] = incoming["down"][i + 1]
            /\ Len(incoming["down"]) \in Nat
        BY <1>0, <3>1, HeadTailProperties, LenProperties
      <4>3. Range(Tail(incoming["down"])) \subseteq Range(incoming["down"])
        BY <4>2 DEF Range
      <4> QED BY <4>1, <4>3
    <3>3. CASE UNCHANGED <<incoming, held>>
      BY <1>1, <3>1, <3>3
    <3>4. CASE /\ held' = [held EXCEPT !["down"] = <<Head(incoming["down"])>>]
               /\ incoming' = [incoming EXCEPT !["down"] = Tail(@)]
      <4>1. held'["down"] = <<Head(incoming["down"])>> /\ incoming'["down"] = Tail(incoming["down"])
        BY <1>0, <3>4
      <4>2. Range(held'["down"]) = {Head(incoming["down"])}
        BY <4>1, OneFrame
      <4> QED BY <3>1, <3>2, <4>1, <4>2 DEF Sent
    <3> QED BY <2>1, <3>3, <3>4 DEF Scan
  <2>2. CASE ScanEOF("down") \/ Observe("down") \/ PumpWarns("down")
    BY <1>1, <2>2 DEF ScanEOF, Observe, PumpWarns
  <2>3. CASE Write("down")
    <3>1. held'["down"] = << >> /\ UNCHANGED incoming
      BY <1>0, <2>3 DEF Write
    <3>2. Range(held'["down"]) = {}
      BY <3>1, OneFrame
    <3>3. Range(forwarded'["down"]) \subseteq Range(forwarded["down"]) \cup Range(held["down"])
      <4>1. CASE UNCHANGED forwarded
        BY <4>1
      <4>2. CASE forwarded' = [forwarded EXCEPT !["down"] = @ \o held["down"]]
        <5>1. forwarded'["down"] = forwarded["down"] \o held["down"]
          BY <1>0, <4>2
        <5> QED BY <1>0, <5>1, ConcatElems
      <4> QED BY <2>3, <4>1, <4>2 DEF Write
    <3> QED BY <3>1, <3>2, <3>3 DEF Sent
  <2> QED BY <1>4, <2>1, <2>2, <2>3 DEF Pump
<1>5. ASSUME Pump("up") PROVE a \in Sent("down")
  <2>1. /\ incoming'["down"] = incoming["down"] /\ held'["down"] = held["down"]
        /\ forwarded'["down"] = forwarded["down"]
    BY <1>0, <1>5 DEF Pump, Scan, ScanEOF, Observe, PumpWarns, Write
  <2> QED BY <2>1 DEF Sent
<1>6. ASSUME \/ ClientCloses \/ CodexExits \/ Cancel \/ RunReturns \/ ProcessExits
             \/ HubFlips \/ Ship \/ \E f \in Frames : HubFinishesLate(f)
      PROVE  a \in Sent("down")
  BY <1>1, <1>6 DEF ClientCloses, CodexExits, Cancel, RunReturns, ProcessExits, HubFlips, Ship,
     Take, PostAccepted, PostRefused, PostTimesOut, WorkerFails, WorkerSucceeds, WorkerLogs,
     HubFinishesLate
<1> HIDE DEF a
<1> QED BY <1>2, <1>3, <1>4, <1>5, <1>6 DEF Next, Directions, a

LEMMA OrderedStep ==
    ASSUME TypeInv, SeenInv, OrderInv, Next,
           NEW r \in Requests, <<"up", r>> \notin timedOut'
    PROVE  Ordered(<<"up", r>>, <<"down", r>>)'
<1> USE DEF pipeVars, runVars, logVars, hubVars
<1> DEFINE q == <<"up", r>>
           a == <<"down", r>>
<1>1. /\ queue \in Seq(Frames) /\ ingested \in Seq(Frames) /\ shipping \in Seq(Frames)
      /\ q \in Frames /\ a \in Frames /\ q # a
  BY DEF TypeInv, TypeOK, Frames, Directions
<1>2. timedOut \subseteq timedOut'
  BY DEF Next, ClientSends, CodexAnswers, ClientCloses, CodexExits, Cancel, RunReturns,
     ProcessExits, HubFlips, Pump, Scan, ScanEOF, Observe, PumpWarns, Write, Ship, Take,
     PostAccepted, PostRefused, PostTimesOut, WorkerFails, WorkerSucceeds, WorkerLogs,
     HubFinishesLate
<1>3. q \notin timedOut /\ Ordered(q, a) /\ late \subseteq timedOut
  BY <1>2 DEF OrderInv
<1>4. /\ a \in Seen => q \in Seen
      /\ a \in Sent("down") => q \in Seen
  BY DEF OrderInv
<1> HIDE DEF q, a
<1>5. ASSUME UNCHANGED <<queue, shipping, late, ingested>> PROVE Ordered(q, a)'
  BY <1>3, <1>5 DEF Ordered, Handed, After
<1>6. ASSUME NEW d \in Directions, Observe(d) PROVE Ordered(q, a)'
  <2>1. PICK f \in FramesOf(d) : held[d] = <<f>>
    BY <1>6 DEF TypeInv, PumpOK, Observe
  <2>2. /\ f \in Frames /\ Range(held[d]) = {f} /\ f \notin Seen
        /\ UNCHANGED <<shipping, late, ingested>>
    BY <1>6, <2>1, OneFrame DEF SeenInv, PumpSeen, Observe, FramesOf, Frames
  <2>3. CASE queue' = queue \o held[d]
    <3>1. queue' = Append(queue, f)
      BY <1>1, <2>1, <2>3
    <3>2. Range(queue') = Range(queue) \cup {f}
      BY <1>1, <2>2, <3>1, AppendElems
    <3>3. f = q => a \notin Seen
      BY <1>4, <2>2
    <3>4. After(queue', q, a)
      <4>1. f = q => a \notin Range(queue)
        BY <3>3 DEF Seen
      <4> QED BY <1>1, <1>3, <2>2, <3>1, <4>1, AfterAppend DEF Ordered
    <3>5. a \in Handed => q \notin Range(queue') \cup Range(shipping)
      BY <1>3, <3>2, <3>3 DEF Ordered, Handed, Seen
    <3>6. After(ingested', q, a) /\ Handed' = Handed
      BY <1>3, <2>2 DEF Ordered, Handed
    <3> QED BY <2>2, <3>4, <3>5, <3>6 DEF Ordered
  <2>4. CASE UNCHANGED queue
    BY <1>5, <2>2, <2>4
  <2> QED BY <1>6, <2>3, <2>4 DEF Observe
<1>7. ASSUME Take PROVE Ordered(q, a)'
  <2>1. /\ queue # << >> /\ shipping = << >> /\ shipping' = <<Head(queue)>>
        /\ queue' = Tail(queue) /\ UNCHANGED <<late, ingested>>
    BY <1>7 DEF Take, TypeInv, WorkerOK
  <2>2. /\ Range(shipping) = {} /\ Range(shipping') = {Head(queue)}
        /\ Head(queue) \in Range(queue)
        /\ Range(queue') = Range(queue) \ {Head(queue)}
    BY <1>1, <2>1, OneFrame, TailElems DEF SeenInv, Apart
  <2>3. After(queue', q, a) /\ (Head(queue) = a => q \notin Range(queue))
    BY <1>1, <1>3, <2>1, AfterTail DEF Ordered
  <2>4. After(ingested', q, a)
    BY <1>3, <2>1 DEF Ordered
  <2>5. Handed' = Handed \cup {Head(queue)}
    BY <2>1, <2>2 DEF Handed
  <2>6. a \in Handed' => q \notin Range(queue') \cup Range(shipping')
    <3>1. CASE Head(queue) = a
      BY <1>1, <2>2, <2>3, <3>1
    <3>2. CASE Head(queue) # a
      BY <1>3, <2>2, <2>5, <3>2 DEF Ordered
    <3> QED BY <3>1, <3>2
  <2> QED BY <2>3, <2>4, <2>6 DEF Ordered
<1>8. ASSUME PostAccepted \/ PostRefused \/ PostTimesOut PROVE Ordered(q, a)'
  <2>1. worker = "post" /\ shipping' = << >> /\ UNCHANGED queue
    BY <1>8 DEF PostAccepted, PostRefused, PostTimesOut
  <2>2. PICK f \in Frames : shipping = <<f>>
    BY <2>1 DEF TypeInv, WorkerOK
  <2>3. Range(shipping) = {f} /\ Range(shipping') = {}
    BY <2>1, <2>2, OneFrame
  <2>4. CASE PostAccepted
    <3>1. ingested' = Append(ingested, f) /\ UNCHANGED late
      BY <1>1, <2>2, <2>4 DEF PostAccepted
    <3>2. Range(ingested') = Range(ingested) \cup {f}
      BY <1>1, <3>1, AppendElems
    <3>3. f = q => a \notin Range(ingested)
      BY <1>3, <2>3 DEF Ordered, Handed
    <3>4. After(ingested', q, a)
      BY <1>1, <1>3, <3>1, <3>3, AfterAppend DEF Ordered
    <3>5. Handed' = Handed
      BY <2>3, <3>1, <3>2 DEF Handed
    <3>6. After(queue', q, a)
      BY <1>3, <2>1 DEF Ordered
    <3>7. a \in Handed' => q \notin Range(queue') \cup Range(shipping')
      BY <1>3, <2>1, <2>3, <3>5 DEF Ordered
    <3> QED BY <3>4, <3>6, <3>7 DEF Ordered
  <2>5. CASE PostRefused \/ PostTimesOut
    <3>1. UNCHANGED ingested /\ late' \subseteq late \cup {f}
      BY <2>3, <2>5 DEF PostRefused, PostTimesOut
    <3>2. Handed' \subseteq Handed
      BY <2>3, <3>1 DEF Handed
    <3>3. After(queue', q, a) /\ After(ingested', q, a)
      BY <1>3, <2>1, <3>1 DEF Ordered
    <3>4. a \in Handed' => q \notin Range(queue') \cup Range(shipping')
      BY <1>3, <2>1, <2>3, <3>2 DEF Ordered
    <3> QED BY <3>3, <3>4 DEF Ordered
  <2> QED BY <1>8, <2>4, <2>5
<1>9. ASSUME NEW f \in Frames, HubFinishesLate(f) PROVE Ordered(q, a)'
  <2>1. f \in late /\ late' = late \ {f} /\ UNCHANGED <<queue, shipping>> /\ f # q
    BY <1>3, <1>9 DEF HubFinishesLate
  <2>2. CASE ingested' = Append(ingested, f)
    <3>1. Range(ingested') = Range(ingested) \cup {f}
      BY <1>1, <2>2, AppendElems
    <3>2. After(ingested', q, a)
      BY <1>1, <1>3, <2>1, <2>2, AfterAppend DEF Ordered
    <3>3. Handed' = Handed
      BY <2>1, <3>1 DEF Handed
    <3>4. After(queue', q, a)
      BY <1>3, <2>1 DEF Ordered
    <3> QED BY <1>3, <2>1, <3>2, <3>3, <3>4 DEF Ordered
  <2>3. CASE UNCHANGED ingested
    <3>1. Handed' \subseteq Handed
      BY <2>1, <2>3 DEF Handed
    <3>2. After(queue', q, a) /\ After(ingested', q, a)
      BY <1>3, <2>1, <2>3 DEF Ordered
    <3> QED BY <1>3, <2>1, <3>1, <3>2 DEF Ordered
  <2> QED BY <1>9, <2>2, <2>3 DEF HubFinishesLate
<1>10. ASSUME \/ \E r2 \in Requests : ClientSends(r2) \/ CodexAnswers(r2)
              \/ ClientCloses \/ CodexExits \/ Cancel \/ RunReturns \/ ProcessExits
              \/ HubFlips \/ WorkerFails \/ WorkerSucceeds \/ WorkerLogs
              \/ \E d \in Directions : Scan(d) \/ ScanEOF(d) \/ PumpWarns(d) \/ Write(d)
       PROVE  Ordered(q, a)'
  <2>1. UNCHANGED <<queue, shipping, late, ingested>>
    BY <1>10 DEF ClientSends, CodexAnswers, ClientCloses, CodexExits, Cancel, RunReturns,
       ProcessExits, HubFlips, WorkerFails, WorkerSucceeds, WorkerLogs, Scan, ScanEOF,
       PumpWarns, Write
  <2> QED BY <1>5, <2>1
<1>11. Ordered(q, a)'
  BY <1>6, <1>7, <1>8, <1>9, <1>10 DEF Next, Pump, Ship
<1> QED BY <1>11 DEF q, a

LEMMA OrderStep == ASSUME TypeInv, SeenInv, OrderInv, [Next]_vars PROVE OrderInv'
<1> USE DEF pipeVars, runVars, logVars, hubVars
<1>1. CASE UNCHANGED vars
  BY <1>1 DEF vars, OrderInv, Ordered, After, Handed, Seen, Sent
<1>2. CASE Next
  <2>1. Seen \subseteq Seen'
    BY <1>2, SeenEnds, SeenPump, PlacesMove DEF Next, SeenInv
  <2>2. \A f \in Seen' \ Seen : \E d \in Directions : Observe(d) /\ f \in Range(held[d])
    <3>1. ASSUME NEW d \in Directions, Pump(d), NEW f \in Seen' \ Seen
          PROVE  Observe(d) /\ f \in Range(held[d])
      BY <3>1, SeenPump
    <3> QED BY <1>2, <3>1, SeenEnds, PlacesMove DEF Next, SeenInv
  <2>3. late' \subseteq timedOut'
    <3>1. late \subseteq timedOut
      BY DEF OrderInv
    <3> QED BY <1>2, <3>1 DEF Next, ClientSends, CodexAnswers, ClientCloses, CodexExits, Cancel,
        RunReturns, ProcessExits, HubFlips, Pump, Scan, ScanEOF, Observe, PumpWarns, Write,
        Ship, Take, PostAccepted, PostRefused, PostTimesOut, WorkerFails, WorkerSucceeds,
        WorkerLogs, HubFinishesLate
  <2>4. ASSUME NEW r \in Requests, <<"down", r>> \in Sent("down")' \cup Seen'
        PROVE  <<"up", r>> \in Seen'
    <3>1. CASE <<"down", r>> \in Sent("down") \cup Seen
      BY <2>1, <3>1 DEF OrderInv
    <3>2. CASE CodexAnswers(r)
      BY <2>1, <3>2 DEF CodexAnswers, SeenInv, PumpSeen, Directions
    <3>3. CASE <<"down", r>> \in Seen' \ Seen
      <4>1. PICK d \in Directions : Observe(d) /\ <<"down", r>> \in Range(held[d])
        BY <2>2, <3>3
      <4>2. PICK f \in FramesOf(d) : held[d] = <<f>>
        BY <4>1 DEF TypeInv, PumpOK, Observe
      <4>3. <<"down", r>> \in FramesOf(d)
        BY <4>1, <4>2, OneFrame
      <4>4. d = "down"
        BY <4>3 DEF FramesOf
      <4>5. <<"down", r>> \in Sent("down")
        BY <4>1, <4>4 DEF Sent
      <4> QED BY <2>1, <4>5 DEF OrderInv
    <3> QED BY <1>2, <2>4, <3>1, <3>2, <3>3, SentStep
  <2>5. ASSUME NEW r \in Requests, <<"up", r>> \notin timedOut'
        PROVE  Ordered(<<"up", r>>, <<"down", r>>)'
    BY <1>2, <2>5, OrderedStep
  <2> QED BY <2>3, <2>4, <2>5 DEF OrderInv
<1> QED BY <1>1, <1>2

\* The hub reads a conversation forwards (RequestIngestedFirst), whatever is
\* full, late or cut off.
THEOREM RequestsAreIngestedFirst == Spec => []RequestIngestedFirst
<1>1. OrderInv => RequestIngestedFirst
  BY DEF OrderInv, Ordered, After, RequestIngestedFirst
<1> QED BY TypeInit, TypeStep, SeenInit, SeenStep, OrderInit, OrderStep, <1>1, PTL DEF Spec

-----------------------------------------------------------------------------
(* The proxy implements WireTap.                                           *)

LEMMA Sequel ==
    ASSUME NEW S, NEW s \in Seq(S), NEW x \in S
    PROVE  /\ << >> \o s = s
           /\ Head(<<x>> \o s) = x /\ Tail(<<x>> \o s) = s /\ <<x>> \o s # << >>
           /\ s \o <<x>> = Append(s, x)
           /\ s # << >> => <<Head(s)>> \o Tail(s) = s
<1>1. << >> \o s = s
  OBVIOUS
<1>2. Head(<<x>> \o s) = x /\ Tail(<<x>> \o s) = s /\ <<x>> \o s # << >>
  OBVIOUS
<1>3. s \o <<x>> = Append(s, x)
  OBVIOUS
<1>4. s # << >> => <<Head(s)>> \o Tail(s) = s
  OBVIOUS
<1> QED BY <1>1, <1>2, <1>3, <1>4

LEMMA AppendBehind ==
    ASSUME NEW S, NEW s \in Seq(S), NEW t \in Seq(S), NEW x \in S
    PROVE  s \o Append(t, x) = Append(s \o t, x)
<1>1. s \o t \in Seq(S) /\ <<x>> \in Seq(S)
  BY ConcatElems
<1>2. Append(t, x) = t \o <<x>> /\ Append(s \o t, x) = (s \o t) \o <<x>>
  BY <1>1, AppendIsConcat
<1>3. (s \o t) \o <<x>> = s \o (t \o <<x>>)
  BY <1>1, ConcatAssociative
<1> QED BY <1>2, <1>3

\* The mapping before and after a step of one pump and its wire.
LEMMA OneWire ==
    ASSUME TypeInv, TypeInv', NEW d \in Directions,
           \A e \in Directions \ {d} :
               incoming'[e] = incoming[e] /\ held'[e] = held[e] /\ pump'[e] = pump[e]
    PROVE  /\ Unwritten' = [Unwritten EXCEPT ![d] = held'[d] \o incoming'[d]]
           /\ Unwritten[d] = held[d] \o incoming[d]
           /\ held'[d] \o incoming'[d] = held[d] \o incoming[d] => Unwritten' = Unwritten
           /\ d \in Observed <=> pump[d] \in {"warn", "write"}
           /\ d \in Finished <=> pump[d] = "ended"
           /\ Observed' = IF pump'[d] \in {"warn", "write"} THEN Observed \cup {d}
                                                             ELSE Observed \ {d}
           /\ Finished' = IF pump'[d] = "ended" THEN Finished \cup {d} ELSE Finished \ {d}
<1>1. Unwritten' = [e \in Directions |-> held'[e] \o incoming'[e]]
  BY DEF Unwritten
<1>2. Unwritten' = [Unwritten EXCEPT ![d] = held'[d] \o incoming'[d]]
  BY <1>1 DEF Unwritten
<1>3. Unwritten[d] = held[d] \o incoming[d]
  BY DEF Unwritten
<1>4. held'[d] \o incoming'[d] = held[d] \o incoming[d] => Unwritten' = Unwritten
  BY <1>1 DEF Unwritten
<1>5. /\ d \in Observed <=> pump[d] \in {"warn", "write"}
      /\ Observed' = IF pump'[d] \in {"warn", "write"} THEN Observed \cup {d}
                                                        ELSE Observed \ {d}
  BY DEF Observed
<1>6. /\ d \in Finished <=> pump[d] = "ended"
      /\ Finished' = IF pump'[d] = "ended" THEN Finished \cup {d} ELSE Finished \ {d}
  BY DEF Finished
<1> QED BY <1>2, <1>3, <1>4, <1>5, <1>6

LEMMA TapInit == Init => Tap!Init
<1> SUFFICES ASSUME Init PROVE Tap!Init
  OBVIOUS
<1>1. \A d \in Directions : held[d] \o incoming[d] = << >>
  BY DEF Init
<1>2. Unwritten = [d \in Directions |-> << >>]
  BY <1>1 DEF Unwritten
<1>3. Observed = {} /\ Finished = {}
  BY DEF Init, Observed, Finished
<1>4. InFlight = {}
  BY OneFrame DEF Init, InFlight
<1> QED BY <1>2, <1>3, <1>4 DEF Init, Tap!Init

\* The two ends put a frame at the end of a wire that never carried it.
LEMMA EndsOffer ==
    ASSUME TypeInv, TypeInv', NEW r \in Requests, ClientSends(r) \/ CodexAnswers(r)
    PROVE  \E d \in Directions, f \in Frames : Tap!Offer(d, f)
<1> USE DEF pipeVars, runVars, logVars, hubVars
<1>1. ASSUME NEW d \in Directions, NEW f \in FramesOf(d), f \notin Sent(d),
             incoming' = [incoming EXCEPT ![d] = Append(@, f)],
             UNCHANGED <<forwarded, pump, held, queue, shipping, late, ingested>>
      PROVE  Tap!Offer(d, f)
  <2>1. /\ incoming \in [Directions -> Seq(Frames)] /\ incoming[d] \in Seq(Frames)
        /\ held[d] \in Seq(Frames) /\ f \in Frames
    <3>1. f \in Frames
      BY DEF FramesOf, Frames
    <3> QED BY <3>1 DEF TypeInv, TypeOK
  <2>2. incoming'[d] = Append(incoming[d], f) /\ held'[d] = held[d]
    BY <1>1, <2>1
  <2>3. held[d] \o Append(incoming[d], f) = Append(held[d] \o incoming[d], f)
    <3>1. PICK h \in Seq(Frames), i \in Seq(Frames) : h = held[d] /\ i = incoming[d]
      BY <2>1
    <3>2. h \o Append(i, f) = Append(h \o i, f)
      BY <2>1, AppendBehind
    <3> QED BY <3>1, <3>2
  <2>4. /\ Unwritten' = [Unwritten EXCEPT ![d] = Append(@, f)]
        /\ Unwritten[d] = held[d] \o incoming[d]
    <3>1. \A e \in Directions \ {d} :
              incoming'[e] = incoming[e] /\ held'[e] = held[e] /\ pump'[e] = pump[e]
      BY <1>1, <2>1
    <3>2. /\ Unwritten' = [Unwritten EXCEPT ![d] = held'[d] \o incoming'[d]]
          /\ Unwritten[d] = held[d] \o incoming[d]
      BY <3>1, OneWire
    <3> QED BY <2>2, <2>3, <3>2
  <2>5. UNCHANGED <<Observed, forwarded, Finished, InFlight, ingested>>
    BY <1>1 DEF Observed, Finished, InFlight
  <2>6. Range(Unwritten[d]) = Range(held[d]) \cup Range(incoming[d])
    BY <2>1, <2>4, ConcatElems
  <2>7. Tap!Given(d) = Sent(d)
    BY <2>6 DEF Tap!Given, Sent, Range
  <2> QED BY <1>1, <2>4, <2>5, <2>7 DEF Tap!Offer
<1>2. /\ <<"up", r>> \in FramesOf("up") /\ <<"down", r>> \in FramesOf("down")
      /\ "up" \in Directions /\ "down" \in Directions
      /\ \A d \in Directions : FramesOf(d) \subseteq Frames
  BY DEF FramesOf, Directions, Frames
<1>3. CASE ClientSends(r)
  <2>1. Tap!Offer("up", <<"up", r>>)
    BY <1>1, <1>2, <1>3 DEF ClientSends
  <2> QED BY <1>2, <2>1
<1>4. CASE CodexAnswers(r)
  <2>1. Tap!Offer("down", <<"down", r>>)
    BY <1>1, <1>2, <1>4 DEF CodexAnswers
  <2> QED BY <1>2, <2>1
<1> QED BY <1>3, <1>4

\* A pump's scan moves a frame from its input to its hand, or is its last.
LEMMA ScanTapped ==
    ASSUME TypeInv, TypeInv', NEW d \in Directions, Scan(d) \/ ScanEOF(d)
    PROVE  Tap!Cut(d) \/ UNCHANGED Tap!wvars
<1> USE DEF pipeVars, runVars, logVars, hubVars
<1>1. /\ pump[d] = "scan" /\ held[d] = << >> /\ incoming[d] \in Seq(Frames)
      /\ incoming \in [Directions -> Seq(Frames)] /\ held \in [Directions -> Seq(Frames)]
      /\ pump \in [Directions -> {"scan", "observe", "warn", "write", "ended"}]
  BY DEF TypeInv, TypeOK, PumpOK, Scan, ScanEOF
<1>2. UNCHANGED <<forwarded, InFlight, ingested>>
  <2>1. UNCHANGED <<forwarded, queue, shipping, late, ingested>>
    BY DEF Scan, ScanEOF
  <2> QED BY <2>1 DEF InFlight
<1>3. \A e \in Directions \ {d} :
          incoming'[e] = incoming[e] /\ held'[e] = held[e] /\ pump'[e] = pump[e]
  BY <1>1 DEF Scan, ScanEOF
<1>4. d \notin Observed /\ d \notin Finished
  BY <1>1, <1>3, OneWire
<1>5. CASE pump'[d] = "ended"
  <2>1. UNCHANGED <<incoming, held>>
    BY <1>1, <1>5 DEF Scan, ScanEOF
  <2>2. UNCHANGED Unwritten
    BY <2>1 DEF Unwritten
  <2>3. Finished' = Finished \cup {d} /\ Observed' = Observed \ {d}
    BY <1>3, <1>5, OneWire
  <2> QED BY <1>2, <1>4, <2>2, <2>3 DEF Tap!Cut
<1>6. CASE pump'[d] # "ended"
  <2>1. /\ incoming[d] # << >> /\ pump'[d] = "observe"
        /\ held'[d] = <<Head(incoming[d])>> /\ incoming'[d] = Tail(incoming[d])
    BY <1>1, <1>6 DEF Scan, ScanEOF
  <2>2. Head(incoming[d]) \in Frames
    BY <1>1, <2>1, TailElems
  <2>3. held'[d] \o incoming'[d] = held[d] \o incoming[d]
    BY <1>1, <2>1, <2>2, Sequel
  <2>4. Unwritten' = Unwritten /\ Observed' = Observed /\ Finished' = Finished
    <3>1. Observed' = Observed \ {d} /\ Finished' = Finished \ {d} /\ Unwritten' = Unwritten
      BY <1>3, <2>1, <2>3, OneWire
    <3> QED BY <1>4, <3>1
  <2> QED BY <1>2, <2>4 DEF Tap!wvars
<1> QED BY <1>5, <1>6

\* OnFrame shows what is held, with a copy in the queue or without.
LEMMA ObserveShows ==
    ASSUME TypeInv, TypeInv', NEW d \in Directions, Observe(d)
    PROVE  Tap!Show(d)
<1> USE DEF pipeVars, runVars, logVars, hubVars
<1>1. PICK f \in FramesOf(d) : held[d] = <<f>>
  BY DEF TypeInv, PumpOK, Observe
<1>2. /\ f \in Frames /\ incoming[d] \in Seq(Frames) /\ queue \in Seq(Frames)
      /\ pump \in [Directions -> {"scan", "observe", "warn", "write", "ended"}]
      /\ pump[d] = "observe" /\ Range(held[d]) = {f}
  BY <1>1, OneFrame DEF TypeInv, TypeOK, FramesOf, Frames, Observe
<1>3. /\ UNCHANGED <<incoming, held, forwarded, shipping, late, ingested>>
      /\ pump'[d] \in {"warn", "write"}
      /\ \A e \in Directions \ {d} : pump'[e] = pump[e]
  BY <1>2 DEF Observe
<1>4. /\ Unwritten[d] = held[d] \o incoming[d] /\ d \notin Observed /\ d \notin Finished
      /\ Observed' = Observed \cup {d} /\ Finished' = Finished \ {d} /\ Unwritten' = Unwritten
  BY <1>2, <1>3, OneWire
<1>5. Unwritten[d] # << >> /\ Head(Unwritten[d]) = f
  BY <1>1, <1>2, <1>4, Sequel
<1>6. InFlight' \in {InFlight, InFlight \cup {f}}
  <2>1. CASE queue' = queue \o held[d]
    <3>1. queue' = Append(queue, f)
      BY <1>1, <1>2, <2>1
    <3>2. Range(queue') = Range(queue) \cup {f}
      BY <1>2, <3>1, AppendElems
    <3>3. InFlight' = Range(queue') \cup Range(shipping) \cup late
      BY <1>3 DEF InFlight
    <3> QED BY <3>2, <3>3 DEF InFlight
  <2>2. CASE UNCHANGED queue
    BY <1>3, <2>2 DEF InFlight
  <2> QED BY <2>1, <2>2 DEF Observe
<1> QED BY <1>3, <1>4, <1>5, <1>6 DEF Tap!Show

\* A pump's write passes what it holds on, or cuts its wire.
LEMMA WritePasses ==
    ASSUME TypeInv, TypeInv', NEW d \in Directions, Write(d)
    PROVE  Tap!Pass(d) \/ Tap!Cut(d)
<1> USE DEF pipeVars, runVars, logVars, hubVars
<1>1. PICK f \in FramesOf(d) : held[d] = <<f>>
  BY DEF TypeInv, PumpOK, Write
<1>2. /\ f \in Frames /\ incoming[d] \in Seq(Frames) /\ forwarded[d] \in Seq(Frames)
      /\ pump \in [Directions -> {"scan", "observe", "warn", "write", "ended"}]
      /\ held \in [Directions -> Seq(Frames)] /\ forwarded \in [Directions -> Seq(Frames)]
      /\ pump[d] = "write"
  BY <1>1 DEF TypeInv, TypeOK, FramesOf, Frames, Write
<1>3. /\ UNCHANGED <<incoming, queue, shipping, late, ingested>>
      /\ held'[d] = << >> /\ pump'[d] \in {"scan", "ended"}
      /\ \A e \in Directions \ {d} :
             incoming'[e] = incoming[e] /\ held'[e] = held[e] /\ pump'[e] = pump[e]
  BY <1>2 DEF Write
<1>4. UNCHANGED <<InFlight, ingested>>
  BY <1>3 DEF InFlight
<1>5. /\ Unwritten[d] = <<f>> \o incoming[d] /\ d \in Observed /\ d \notin Finished
      /\ Unwritten' = [Unwritten EXCEPT ![d] = << >> \o incoming[d]]
      /\ Observed' = Observed \ {d}
      /\ Finished' = IF pump'[d] = "ended" THEN Finished \cup {d} ELSE Finished \ {d}
  BY <1>1, <1>2, <1>3, OneWire
<1>6. /\ Unwritten' = [Unwritten EXCEPT ![d] = Tail(Unwritten[d])]
      /\ Head(Unwritten[d]) = f
  <2>1. << >> \o incoming[d] = Tail(Unwritten[d]) /\ Head(Unwritten[d]) = f
    BY <1>2, <1>5, Sequel
  <2> QED BY <1>5, <2>1
<1>7. CASE broken[d]
  <2>1. pump'[d] = "ended" /\ UNCHANGED forwarded
    BY <1>2, <1>7 DEF Write
  <2>2. Finished' = Finished \cup {d}
    BY <1>5, <2>1
  <2> QED BY <1>4, <1>5, <1>6, <2>1, <2>2 DEF Tap!Cut
<1>8. CASE ~broken[d]
  <2>1. pump'[d] = "scan" /\ forwarded' = [forwarded EXCEPT ![d] = forwarded[d] \o <<f>>]
    BY <1>1, <1>2, <1>8 DEF Write
  <2>2. Finished' = Finished
    BY <1>5, <2>1
  <2>3. forwarded' = [forwarded EXCEPT ![d] = Append(forwarded[d], Head(Unwritten[d]))]
    BY <1>2, <1>6, <2>1, Sequel
  <2> QED BY <1>4, <1>5, <1>6, <2>2, <2>3 DEF Tap!Pass
<1> QED BY <1>7, <1>8

\* The worker and the hub: a copy stays on its way, is heard of or is missed.
LEMMA ShipTapped ==
    ASSUME TypeInv, Apart, Ship \/ \E f \in Frames : HubFinishesLate(f)
    PROVE  (\E f \in Frames : Tap!Hear(f) \/ Tap!Miss(f)) \/ UNCHANGED Tap!wvars
<1> USE DEF pipeVars, runVars, logVars, hubVars
<1>1. queue \in Seq(Frames) /\ ingested \in Seq(Frames)
  BY DEF TypeInv, TypeOK
<1>2. UNCHANGED <<Unwritten, Observed, forwarded, Finished>>
  <2>1. UNCHANGED <<incoming, held, pump, forwarded>>
    BY DEF Ship, Take, PostAccepted, PostRefused, PostTimesOut, WorkerFails, WorkerSucceeds,
       WorkerLogs, HubFinishesLate
  <2> QED BY <2>1 DEF Unwritten, Observed, Finished
<1>3. CASE Take
  <2>1. /\ queue # << >> /\ shipping = << >> /\ shipping' = <<Head(queue)>>
        /\ queue' = Tail(queue) /\ UNCHANGED <<late, ingested>>
    BY <1>3 DEF Take, TypeInv, WorkerOK
  <2>2. /\ Range(shipping) = {} /\ Range(shipping') = {Head(queue)}
        /\ Range(queue) = {Head(queue)} \cup Range(queue')
    BY <1>1, <2>1, OneFrame, TailElems
  <2>3. InFlight' = Range(queue') \cup Range(shipping') \cup late
    BY <2>1 DEF InFlight
  <2>4. InFlight' = InFlight
    BY <2>2, <2>3 DEF InFlight
  <2> QED BY <1>2, <2>1, <2>4 DEF Tap!wvars
<1>4. CASE PostAccepted \/ PostRefused \/ PostTimesOut
  <2>1. worker = "post" /\ shipping' = << >> /\ UNCHANGED queue
    BY <1>4 DEF PostAccepted, PostRefused, PostTimesOut
  <2>2. PICK f \in Frames : shipping = <<f>>
    BY <2>1 DEF TypeInv, WorkerOK
  <2>3. Range(shipping) = {f} /\ Range(shipping') = {} /\ f \in InFlight
    BY <2>1, <2>2, OneFrame DEF InFlight
  <2>4. InFlight' = Range(queue) \cup late'
    BY <2>1, <2>3 DEF InFlight
  <2>5. CASE PostTimesOut
    <3>1. UNCHANGED ingested /\ InFlight' = InFlight
      BY <2>3, <2>4, <2>5 DEF PostTimesOut, InFlight
    <3> QED BY <1>2, <3>1 DEF Tap!wvars
  <2>6. CASE PostAccepted \/ PostRefused
    <3>1. InFlight' = InFlight \ {f}
      <4>1. UNCHANGED late
        BY <2>6 DEF PostAccepted, PostRefused
      <4> QED BY <2>3, <2>4, <4>1 DEF Apart, InFlight
    <3>2. CASE ingested' = ingested \o shipping
      <4>1. ingested' = Append(ingested, f)
        BY <1>1, <2>2, <3>2
      <4> QED BY <1>2, <2>3, <3>1, <4>1 DEF Tap!Hear
    <3>3. CASE UNCHANGED ingested
      BY <1>2, <2>3, <3>1, <3>3 DEF Tap!Miss
    <3> QED BY <2>6, <3>2, <3>3 DEF PostAccepted, PostRefused
  <2> QED BY <1>4, <2>5, <2>6
<1>5. CASE WorkerFails \/ WorkerSucceeds \/ WorkerLogs
  <2>1. UNCHANGED <<queue, shipping, late, ingested>>
    BY <1>5 DEF WorkerFails, WorkerSucceeds, WorkerLogs
  <2>2. UNCHANGED InFlight
    BY <2>1 DEF InFlight
  <2> QED BY <1>2, <2>1, <2>2 DEF Tap!wvars
<1>6. ASSUME NEW f \in Frames, HubFinishesLate(f) PROVE Tap!Hear(f) \/ Tap!Miss(f)
  <2>1. f \in late /\ late' = late \ {f} /\ UNCHANGED <<queue, shipping>>
    BY <1>6 DEF HubFinishesLate
  <2>2. f \in InFlight /\ InFlight' = InFlight \ {f}
    BY <2>1 DEF Apart, InFlight
  <2>3. CASE ingested' = Append(ingested, f)
    BY <1>2, <2>2, <2>3 DEF Tap!Hear
  <2>4. CASE UNCHANGED ingested
    BY <1>2, <2>2, <2>4 DEF Tap!Miss
  <2> QED BY <1>6, <2>3, <2>4 DEF HubFinishesLate
<1> QED BY <1>3, <1>4, <1>5, <1>6 DEF Ship

LEMMA TapStep ==
    ASSUME TypeInv, TypeInv', SeenInv, [Next]_vars
    PROVE  [Tap!Next]_(Tap!wvars)
<1> USE DEF pipeVars, runVars, logVars, hubVars
<1>1. ASSUME \/ UNCHANGED vars
             \/ ClientCloses \/ CodexExits \/ Cancel \/ RunReturns \/ ProcessExits \/ HubFlips
      PROVE  UNCHANGED Tap!wvars
  <2>1. UNCHANGED <<incoming, held, pump, forwarded, queue, shipping, late, ingested>>
    BY <1>1 DEF vars, ClientCloses, CodexExits, Cancel, RunReturns, ProcessExits, HubFlips
  <2> QED BY <2>1 DEF Tap!wvars, Unwritten, Observed, Finished, InFlight
<1>2. ASSUME NEW r \in Requests, ClientSends(r) \/ CodexAnswers(r) PROVE Tap!Next
  BY <1>2, EndsOffer DEF Tap!Next
<1>3. ASSUME NEW d \in Directions, PumpWarns(d) PROVE UNCHANGED Tap!wvars
  <2>1. /\ UNCHANGED <<incoming, held, forwarded, queue, shipping, late, ingested>>
        /\ pump[d] = "warn" /\ pump' = [pump EXCEPT ![d] = "write"]
        /\ pump \in [Directions -> {"scan", "observe", "warn", "write", "ended"}]
    BY <1>3 DEF PumpWarns, TypeInv, TypeOK
  <2>2. UNCHANGED <<Observed, Finished>>
    BY <2>1 DEF Observed, Finished
  <2>3. UNCHANGED <<Unwritten, InFlight>>
    BY <2>1 DEF Unwritten, InFlight
  <2> QED BY <2>1, <2>2, <2>3 DEF Tap!wvars
<1>4. ASSUME NEW d \in Directions, Pump(d) PROVE [Tap!Next]_(Tap!wvars)
  BY <1>3, <1>4, ScanTapped, ObserveShows, WritePasses DEF Pump, Tap!Next
<1>5. ASSUME Ship \/ \E f \in Frames : HubFinishesLate(f) PROVE [Tap!Next]_(Tap!wvars)
  BY <1>5, ShipTapped DEF SeenInv, Tap!Next
<1> QED BY <1>1, <1>2, <1>4, <1>5 DEF Next

\* Pumps, queue, worker, deadline and signals promise the client, codex and the
\* hub a lossy tap on two wires, and nothing less (TapsTheWire).
THEOREM ImplementsWireTap == Spec => TapsTheWire
<1>1. TypeInv /\ TypeInv' /\ SeenInv /\ [Next]_vars => [Tap!Next]_(Tap!wvars)
  BY TapStep
<1> QED BY TypeInit, TypeStep, SeenInit, SeenStep, TapInit, <1>1, PTL
    DEF Spec, TapsTheWire, Tap!Spec
=============================================================================
