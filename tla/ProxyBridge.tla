----------------------------- MODULE ProxyBridge -----------------------------
(***************************************************************************)
(* The proxy process between an MCP client and `codex mcp-server`: the two *)
(* pumps of the bridge (src/internal/proxy/bridge.go), the observer they   *)
(* call on every frame, with its ship queue and its worker (observer.go),  *)
(* and the hub as the worker sees it.                                      *)
(*                                                                         *)
(* Direction "up" is client to codex, "down" is codex to client.  The      *)
(* client sends requests; codex answers the ones it has read.  A request   *)
(* and its answer are the two frames <<"up", r>> and <<"down", r>>.        *)
(***************************************************************************)
EXTENDS Integers, Sequences, Functions

CONSTANTS
    Requests,    \* the requests the client may send, each once
    QueueCap     \* shipQueueSize: 1024 in observer.go

ASSUME BridgeAssumption == QueueCap \in Nat \ {0}

Directions == {"up", "down"}
Frames     == Directions \X Requests

VARIABLES
    incoming,   \* what each pump's reader has to offer
    ended,      \* the writing end of that reader is closed
    broken,     \* the reading end of the pump's writer is gone
    pump,       \* where each pump goroutine is
    held,       \* the frame it copied out of the scanner, in a sequence
    forwarded,  \* what each pump wrote
    returned,   \* Bridge.Run returned, the deferred calls run
    cancelled,  \* the context: an interrupt or SIGTERM
    codex,      \* the downstream process
    exited,     \* the proxy process is gone
    queue,      \* Observer.queue
    worker,     \* where the worker goroutine is
    shipping,   \* the envelope it posts, in a sequence
    degraded,   \* Observer.degraded
    hubUp,      \* the hub answers
    late,       \* posts given up on after 2 s that the hub still works on
    ingested,   \* the envelopes the hub has taken, in order
    episodes,   \* history: how often degraded became true
    warnings,   \* history: "hub ingest degraded" lines
    recoveries, \* history: "hub ingest recovered" lines
    lost,       \* history: envelopes a full queue or a failed post lost
    timedOut    \* history: envelopes the worker gave up on

pipeVars == <<incoming, ended, broken, forwarded>>
runVars  == <<returned, cancelled, codex, exited>>
logVars  == <<episodes, warnings, recoveries>>
hubVars  == <<hubUp, late, ingested, timedOut>>
vars     == <<pipeVars, pump, held, runVars, queue, worker, shipping,
              degraded, hubVars, logVars, lost>>

Init ==
    /\ incoming   = [d \in Directions |-> << >>]
    /\ ended      = [d \in Directions |-> FALSE]
    /\ broken     = [d \in Directions |-> FALSE]
    /\ pump       = [d \in Directions |-> "scan"]
    /\ held       = [d \in Directions |-> << >>]
    /\ forwarded  = [d \in Directions |-> << >>]
    /\ returned   = FALSE
    /\ cancelled  = FALSE
    /\ codex      = "running"
    /\ exited     = FALSE
    /\ queue      = << >>
    /\ worker     = "idle"
    /\ shipping   = << >>
    /\ degraded   = FALSE
    /\ hubUp      \in BOOLEAN
    /\ late       = {}
    /\ ingested   = << >>
    /\ episodes   = 0
    /\ warnings   = 0
    /\ recoveries = 0
    /\ lost       = {}
    /\ timedOut   = {}

Sent(d) == Range(incoming[d]) \cup Range(held[d]) \cup Range(forwarded[d])

-----------------------------------------------------------------------------
(* The two ends and the signal.                                            *)

ClientSends(r) ==
    /\ ~ended["up"]
    /\ <<"up", r>> \notin Sent("up")
    /\ incoming' = [incoming EXCEPT !["up"] = Append(@, <<"up", r>>)]
    /\ UNCHANGED <<ended, broken, forwarded, pump, held, runVars, queue, worker,
                   shipping, degraded, hubVars, logVars, lost>>

\* The client closes its half, or dies and stops reading too.
ClientCloses ==
    /\ ~ended["up"]
    /\ ended' = [ended EXCEPT !["up"] = TRUE]
    /\ broken' \in {broken, [broken EXCEPT !["down"] = TRUE]}
    /\ UNCHANGED <<incoming, forwarded, pump, held, runVars, queue, worker,
                   shipping, degraded, hubVars, logVars, lost>>

CodexAnswers(r) ==
    /\ codex = "running"
    /\ <<"up", r>> \in Range(forwarded["up"])
    /\ <<"down", r>> \notin Sent("down")
    /\ incoming' = [incoming EXCEPT !["down"] = Append(@, <<"down", r>>)]
    /\ UNCHANGED <<ended, broken, forwarded, pump, held, runVars, queue, worker,
                   shipping, degraded, hubVars, logVars, lost>>

CodexExits ==
    /\ codex = "running"
    /\ codex'  = "exited"
    /\ ended'  = [ended EXCEPT !["down"] = TRUE]
    /\ broken' = [broken EXCEPT !["up"] = TRUE]
    /\ UNCHANGED <<incoming, forwarded, pump, held, returned, cancelled, exited,
                   queue, worker, shipping, degraded, hubVars, logVars, lost>>

\* exec.CommandContext kills codex some time later: CodexExits.
Cancel ==
    /\ ~cancelled
    /\ cancelled' = TRUE
    /\ UNCHANGED <<pipeVars, pump, held, returned, codex, exited, queue, worker,
                   shipping, degraded, hubVars, logVars, lost>>

-----------------------------------------------------------------------------
(* Bridge.                                                                 *)

\* scanner.Scan and, after it, the look at the context. The pump ends when the
\* context is done, or when the frame is over the scanner's 4 MB, which any
\* frame of either direction may be.
Scan(d) ==
    /\ pump[d] = "scan"
    /\ incoming[d] # << >>
    /\ \/ /\ ~cancelled
          /\ pump'     = [pump EXCEPT ![d] = "observe"]
          /\ held'     = [held EXCEPT ![d] = <<Head(incoming[d])>>]
          /\ incoming' = [incoming EXCEPT ![d] = Tail(@)]
       \/ /\ pump' = [pump EXCEPT ![d] = "ended"]
          /\ UNCHANGED <<incoming, held>>
    /\ UNCHANGED <<ended, broken, forwarded, runVars, queue, worker, shipping,
                   degraded, hubVars, logVars, lost>>

\* Mutant of ScanEOF: the end of the input only counts once cancelled.
ScanEOFIgnored(d) ==
    /\ pump[d] = "scan"
    /\ incoming[d] = << >>
    /\ ended[d] /\ cancelled
    /\ pump' = [pump EXCEPT ![d] = "ended"]
    /\ UNCHANGED <<pipeVars, held, runVars, queue, worker, shipping, degraded,
                   hubVars, logVars, lost>>

ScanEOF(d) ==
    /\ pump[d] = "scan"
    /\ incoming[d] = << >>
    /\ ended[d]
    /\ pump' = [pump EXCEPT ![d] = "ended"]
    /\ UNCHANGED <<pipeVars, held, runVars, queue, worker, shipping, degraded,
                   hubVars, logVars, lost>>

\* Mutant of Observe: enqueue waits for room.
ObserveWaits(d) ==
    /\ pump[d] = "observe"
    /\ Len(queue) < QueueCap
    /\ queue' = queue \o held[d]
    /\ pump'  = [pump EXCEPT ![d] = "write"]
    /\ UNCHANGED <<pipeVars, held, runVars, worker, shipping, degraded, hubVars,
                   logVars, lost>>

\* Mutant of Observe: one envelope too many is queued.
ObserveOverfills(d) ==
    /\ pump[d] = "observe"
    /\ Len(queue) <= QueueCap
    /\ queue' = queue \o held[d]
    /\ pump'  = [pump EXCEPT ![d] = "write"]
    /\ UNCHANGED <<pipeVars, held, runVars, worker, shipping, degraded, hubVars,
                   logVars, lost>>

\* Mutant of Observe: degraded is read, then stored: no compare-and-swap.
ObserveWarnsAlways(d) ==
    /\ pump[d] = "observe"
    /\ IF Len(queue) < QueueCap
       THEN /\ queue' = queue \o held[d]
            /\ pump'  = [pump EXCEPT ![d] = "write"]
            /\ UNCHANGED <<degraded, episodes, lost>>
       ELSE /\ lost'     = lost \cup Range(held[d])
            /\ pump'     = [pump EXCEPT ![d] = "warn"]
            /\ degraded' = TRUE
            /\ episodes' = IF degraded THEN episodes ELSE episodes + 1
            /\ UNCHANGED queue
    /\ UNCHANGED <<pipeVars, held, runVars, worker, shipping, hubVars,
                   warnings, recoveries>>

\* OnFrame: the envelope is queued, or dropped with the compare-and-swap of
\* reportDegraded, whose winner has the line to write.
Observe(d) ==
    /\ pump[d] = "observe"
    /\ IF Len(queue) < QueueCap
       THEN /\ queue' = queue \o held[d]
            /\ pump'  = [pump EXCEPT ![d] = "write"]
            /\ UNCHANGED <<degraded, episodes, lost>>
       ELSE /\ lost'     = lost \cup Range(held[d])
            /\ pump'     = [pump EXCEPT ![d] = IF degraded THEN "write" ELSE "warn"]
            /\ degraded' = TRUE
            /\ episodes' = IF degraded THEN episodes ELSE episodes + 1
            /\ UNCHANGED queue
    /\ UNCHANGED <<pipeVars, held, runVars, worker, shipping, hubVars,
                   warnings, recoveries>>

PumpWarns(d) ==
    /\ pump[d] = "warn"
    /\ warnings' = warnings + 1
    /\ pump' = [pump EXCEPT ![d] = "write"]
    /\ UNCHANGED <<pipeVars, held, runVars, queue, worker, shipping, degraded,
                   hubVars, episodes, recoveries, lost>>

\* Mutant of Write: a failed write is skipped and the pump goes on.
WriteErrorIgnored(d) ==
    /\ pump[d] = "write"
    /\ held' = [held EXCEPT ![d] = << >>]
    /\ pump' = [pump EXCEPT ![d] = "scan"]
    /\ forwarded' = IF broken[d] THEN forwarded
                    ELSE [forwarded EXCEPT ![d] = @ \o held[d]]
    /\ UNCHANGED <<incoming, ended, broken, runVars, queue, worker, shipping,
                   degraded, hubVars, logVars, lost>>

Write(d) ==
    /\ pump[d] = "write"
    /\ held' = [held EXCEPT ![d] = << >>]
    /\ IF broken[d]
       THEN /\ pump' = [pump EXCEPT ![d] = "ended"]
            /\ UNCHANGED forwarded
       ELSE /\ pump'      = [pump EXCEPT ![d] = "scan"]
            /\ forwarded' = [forwarded EXCEPT ![d] = @ \o held[d]]
    /\ UNCHANGED <<incoming, ended, broken, runVars, queue, worker, shipping,
                   degraded, hubVars, logVars, lost>>

\* Mutant of RunReturns: Run waits for the upstream pump alone.
RunReturnsEarly ==
    /\ ~returned
    /\ pump["up"] = "ended"
    /\ returned' = TRUE
    /\ UNCHANGED <<pipeVars, pump, held, cancelled, codex, exited, queue, worker,
                   shipping, degraded, hubVars, logVars, lost>>

\* wg.Wait: Run returns when BOTH pumps have ended; only then does the deferred
\* call of runProxyCmd close codex's stdin and wait for it.
RunReturns ==
    /\ ~returned
    /\ \A d \in Directions : pump[d] = "ended"
    /\ returned' = TRUE
    /\ UNCHANGED <<pipeVars, pump, held, cancelled, codex, exited, queue, worker,
                   shipping, degraded, hubVars, logVars, lost>>

\* The process ends with its queue: nothing flushes it.
ProcessExits ==
    /\ returned
    /\ codex = "exited"
    /\ ~exited
    /\ exited' = TRUE
    /\ UNCHANGED <<pipeVars, pump, held, returned, cancelled, codex, queue,
                   worker, shipping, degraded, hubVars, logVars, lost>>

Pump(d) == Scan(d) \/ ScanEOF(d) \/ Observe(d) \/ PumpWarns(d) \/ Write(d)

-----------------------------------------------------------------------------
(* Observer: the worker goroutine, and the hub it posts to.                *)

\* Mutant of Take: each envelope is posted by a goroutine of its own.
TakeConcurrently ==
    /\ ~exited
    /\ queue # << >>
    /\ late'  = late \cup {Head(queue)}
    /\ queue' = Tail(queue)
    /\ UNCHANGED <<pipeVars, pump, held, runVars, worker, shipping, degraded,
                   hubUp, ingested, timedOut, logVars, lost>>

Take ==
    /\ ~exited
    /\ worker = "idle"
    /\ queue # << >>
    /\ shipping' = <<Head(queue)>>
    /\ queue'    = Tail(queue)
    /\ worker'   = "post"
    /\ UNCHANGED <<pipeVars, pump, held, runVars, degraded, hubVars, logVars, lost>>

PostAccepted ==
    /\ ~exited
    /\ worker = "post"
    /\ hubUp
    /\ ingested' = ingested \o shipping
    /\ shipping' = << >>
    /\ worker'   = "accepted"
    /\ UNCHANGED <<pipeVars, pump, held, runVars, queue, degraded, hubUp, late,
                   timedOut, logVars, lost>>

PostRefused ==
    /\ ~exited
    /\ worker = "post"
    /\ ~hubUp
    /\ lost'     = lost \cup Range(shipping)
    /\ shipping' = << >>
    /\ worker'   = "failed"
    /\ UNCHANGED <<pipeVars, pump, held, runVars, queue, degraded, hubVars, logVars>>

\* Mutant of PostTimesOut: the envelope is queued again.
PostTimesOutRetries ==
    /\ ~exited
    /\ worker = "post"
    /\ hubUp
    /\ Len(queue) < QueueCap
    /\ late'     = late \cup Range(shipping)
    /\ queue'    = queue \o shipping
    /\ shipping' = << >>
    /\ worker'   = "failed"
    /\ UNCHANGED <<pipeVars, pump, held, runVars, degraded, hubUp, ingested,
                   timedOut, logVars, lost>>

\* The 2 s are over; the hub may be anywhere in the request.
PostTimesOut ==
    /\ ~exited
    /\ worker = "post"
    /\ hubUp
    /\ late'     = late \cup Range(shipping)
    /\ timedOut' = timedOut \cup Range(shipping)
    /\ shipping' = << >>
    /\ worker'   = "failed"
    /\ UNCHANGED <<pipeVars, pump, held, runVars, queue, degraded, hubUp,
                   ingested, logVars, lost>>

\* reportDegraded in ship.
WorkerFails ==
    /\ ~exited
    /\ worker = "failed"
    /\ degraded' = TRUE
    /\ episodes' = IF degraded THEN episodes ELSE episodes + 1
    /\ worker'   = IF degraded THEN "idle" ELSE "warn"
    /\ UNCHANGED <<pipeVars, pump, held, runVars, queue, shipping, hubVars,
                   warnings, recoveries, lost>>

WorkerSucceeds ==
    /\ ~exited
    /\ worker = "accepted"
    /\ degraded' = FALSE
    /\ worker'   = IF degraded THEN "recover" ELSE "idle"
    /\ UNCHANGED <<pipeVars, pump, held, runVars, queue, shipping, hubVars,
                   logVars, lost>>

WorkerLogs ==
    /\ ~exited
    /\ worker \in {"warn", "recover"}
    /\ IF worker = "warn"
       THEN warnings' = warnings + 1 /\ UNCHANGED recoveries
       ELSE recoveries' = recoveries + 1 /\ UNCHANGED warnings
    /\ worker' = "idle"
    /\ UNCHANGED <<pipeVars, pump, held, runVars, queue, shipping, degraded,
                   hubVars, episodes, lost>>

Ship == \/ Take \/ PostAccepted \/ PostRefused \/ PostTimesOut
        \/ WorkerFails \/ WorkerSucceeds \/ WorkerLogs

HubFlips ==
    /\ hubUp' = ~hubUp
    /\ UNCHANGED <<pipeVars, pump, held, runVars, queue, worker, shipping,
                   degraded, late, ingested, timedOut, logVars, lost>>

\* A post the worker no longer waits for is applied after all, or the hub sees
\* the closed connection first.
HubFinishesLate(f) ==
    /\ f \in late
    /\ late' = late \ {f}
    /\ \/ ingested' = Append(ingested, f) /\ UNCHANGED lost
       \/ lost' = lost \cup {f} /\ UNCHANGED ingested
    /\ UNCHANGED <<pipeVars, pump, held, runVars, queue, worker, shipping,
                   degraded, hubUp, timedOut, logVars>>

Next ==
    \/ \E r \in Requests : ClientSends(r) \/ CodexAnswers(r)
    \/ ClientCloses \/ CodexExits \/ Cancel
    \/ \E d \in Directions : Pump(d)
    \/ RunReturns \/ ProcessExits
    \/ Ship
    \/ HubFlips
    \/ \E f \in Frames : HubFinishesLate(f)

Spec == Init /\ [][Next]_vars

\* The pumps and Run are scheduled, and the two ends read what is written to
\* them. Nothing is assumed of the worker, the hub, or of codex except that it
\* ends once its stdin is closed or the context kills it.
BridgeFairness ==
    /\ \A d \in Directions : WF_vars(Pump(d))
    /\ WF_vars(RunReturns)
    /\ WF_vars((returned \/ cancelled) /\ CodexExits)

FairSpec == Spec /\ BridgeFairness

-----------------------------------------------------------------------------

TypeOK ==
    /\ incoming \in [Directions -> Seq(Frames)]
    /\ ended \in [Directions -> BOOLEAN]
    /\ broken \in [Directions -> BOOLEAN]
    /\ pump \in [Directions -> {"scan", "observe", "warn", "write", "ended"}]
    /\ held \in [Directions -> Seq(Frames)]
    /\ forwarded \in [Directions -> Seq(Frames)]
    /\ returned \in BOOLEAN /\ cancelled \in BOOLEAN /\ exited \in BOOLEAN
    /\ codex \in {"running", "exited"}
    /\ queue \in Seq(Frames) /\ Len(queue) <= QueueCap
    /\ worker \in {"idle", "post", "accepted", "failed", "warn", "recover"}
    /\ shipping \in Seq(Frames) /\ Len(shipping) <= 1
    /\ degraded \in BOOLEAN /\ hubUp \in BOOLEAN
    /\ late \subseteq Frames /\ lost \subseteq Frames /\ timedOut \subseteq Frames
    /\ ingested \in Seq(Frames)
    /\ episodes \in Nat /\ warnings \in Nat /\ recoveries \in Nat

\* Warnings still to be written by the goroutines that won the swap.
WarningsDue ==
      (IF pump["up"] = "warn" THEN 1 ELSE 0)
    + (IF pump["down"] = "warn" THEN 1 ELSE 0)
    + (IF worker = "warn" THEN 1 ELSE 0)

RecoveriesDue == IF worker = "recover" THEN 1 ELSE 0

\* "once per degradation episode" (observer.go:82): with three goroutines
\* racing on one flag, each episode gets one warning and each end of an
\* episode one recovery line, up to the lines about to be written.
OneWarningPerEpisode ==
    /\ warnings + WarningsDue = episodes
    /\ recoveries + RecoveriesDue = IF degraded THEN episodes - 1 ELSE episodes

\* The hub takes a request before its answer, unless the worker gave up on the
\* request: OnFrame runs before Write, and one worker empties the queue.
RequestIngestedFirst ==
    \A r \in Requests : \A i, j \in DOMAIN ingested :
        /\ ingested[i] = <<"down", r>>
        /\ ingested[j] = <<"up", r>>
        /\ <<"up", r>> \notin timedOut
        => j < i

\* An envelope is in one place: waiting, being posted, late at the hub, taken
\* by it, or lost. It is never taken twice (nothing retries) and the ones the
\* pumps have seen are all accounted for.
EnvelopesAccountedFor ==
    /\ \A i, j \in DOMAIN ingested : ingested[i] = ingested[j] => i = j
    /\ LET places == <<Range(queue), Range(shipping), late, Range(ingested), lost>>
       IN  /\ \A a, b \in DOMAIN places : a # b => places[a] \cap places[b] = {}
           /\ \A d \in Directions :
                 Range(forwarded[d]) \subseteq UNION Range(places)

\* Run never returns on a frame that a pump has shown to the observer and still
\* holds: by then its write has succeeded or failed (wg.Wait, bridge.go:48).
ReturnsWithNothingHeld ==
    returned => \A d \in Directions : held[d] = << >>

-----------------------------------------------------------------------------
(* What the two ends and the hub are promised: see WireTap.                *)

\* What a pump has yet to write: the frame it holds, then its input.
Unwritten == [d \in Directions |-> held[d] \o incoming[d]]
Observed  == {d \in Directions : pump[d] \in {"warn", "write"}}
Finished  == {d \in Directions : pump[d] = "ended"}
InFlight  == Range(queue) \cup Range(shipping) \cup late

Tap == INSTANCE WireTap WITH
    Wires  <- Directions,
    line   <- Unwritten,
    shown  <- Observed,
    passed <- forwarded,
    cut    <- Finished,
    copies <- InFlight,
    heard  <- ingested

\* Every step of the proxy is a step of WireTap or leaves it alone: each pump
\* passes the frames of its end on in order and without gaps until it ends for
\* good (bridge.go:56-75), a frame is shown to the observer before it is
\* written, and the hub hears of it at most once, whatever becomes of the queue,
\* the worker and its posts.
TapsTheWire == Tap!Spec

-----------------------------------------------------------------------------

\* Traffic never waits for the hub (bridge.go:18): whatever the worker and the
\* hub do, a frame that reached a pump is forwarded, or its pump has ended.
ForwardingNeverWaits ==
    \A d \in Directions, f \in Frames :
        f \in Range(incoming[d]) ~> (f \in Range(forwarded[d]) \/ pump[d] = "ended")

\* Run ends when both ends have closed, and then so does codex.
BothEndsCloseStopsProxy ==
    (ended["up"] /\ ended["down"]) ~> (returned /\ codex = "exited")
=============================================================================
