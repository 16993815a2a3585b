--------------------------- MODULE HubLifecycle ---------------------------
(* How hub processes come and go: runProxyCmd up to the launch of codex      *)
(* (internal/cli/proxy_cmd.go), the hub it spawns (internal/process/         *)
(* self_spawn.go, hub_cmd.go), the idle watcher (internal/hub/app.go) that   *)
(* every API request touches (hub/http/router.go), and `server stop`.        *)
(*                                                                           *)
(* A proxy spawns at most one hub, so a hub has the name of its proxy. Time  *)
(* is counted in ticks, of which a heartbeat takes BeatEvery and the idle    *)
(* timer IdleTimeout; starts (5 s), stops (3 s) and the goroutines that are  *)
(* ready to run take less than a tick, in any order.                         *)
EXTENDS Integers

CONSTANTS Proxies,      \* proxy processes; also the hubs they may spawn
          Majors,       \* major versions an executable may have
          BeatEvery,    \* ticks between two heartbeats of a proxy
          IdleTimeout,  \* ticks without a request that stop a hub
          MaxTries,     \* polls that fit in the 5 s of waitForHub
          MaxVisits,    \* bound: requests of tabs and of `server status`
          None          \* no hub

\* The ticker of the heartbeat runs every 30 s. A spawned hub has the default
\* idle timeout of 30 min, because SpawnDetachedHub passes it no other.
ASSUME LifecycleAssumption ==
    /\ None \notin Proxies
    /\ BeatEvery \in Nat \ {0}
    /\ IdleTimeout \in Nat /\ BeatEvery < IdleTimeout
    /\ MaxTries \in Nat \ {0} /\ MaxVisits \in Nat

VARIABLES proxy,     \* where each proxy process is
          tries,     \* polls left before its deadline
          beat,      \* ticks until its next heartbeat
          major,     \* the version of its executable, and of its hub's
          hub,       \* where each hub process is
          port,      \* the hub that listens on the UI port
          stopping,  \* ShutdownCh is closed
          touch,     \* touchCh, of capacity one, is full
          idle,      \* ticks left on the idle timer
          fired,     \* the timer's channel is full
          visits,    \* bounded by MaxVisits
          silence,   \* history: ticks since the hub's last request, capped
          beaten     \* history: the hub that took the proxy's last heartbeat

starts == <<proxy, tries, beat, major, beaten>>
timers == <<touch, idle, fired, silence>>
hubs   == <<hub, port, stopping>>
vars   == <<starts, hubs, timers, visits>>

Starting == {"spawning", "waiting", "found"}

TypeOK ==
    /\ proxy \in [Proxies -> Starting \cup {"new", "running", "failed", "exited"}]
    /\ tries \in [Proxies -> 0..MaxTries]
    /\ beat \in [Proxies -> 0..BeatEvery]
    /\ major \in [Proxies -> Majors]
    /\ hub \in [Proxies -> {"off", "opening", "open", "serving", "draining", "ended"}]
    /\ port \in Proxies \cup {None}
    /\ \A h \in Proxies : hub[h] = "serving" <=> port = h
    /\ stopping \in [Proxies -> BOOLEAN]
    /\ touch \in [Proxies -> BOOLEAN]
    /\ idle \in [Proxies -> 0..IdleTimeout]
    /\ fired \in [Proxies -> BOOLEAN]
    /\ visits \in 0..MaxVisits
    /\ silence \in [Proxies -> 0..IdleTimeout]
    /\ beaten \in [Proxies -> Proxies \cup {None}]

Init ==
    /\ proxy = [p \in Proxies |-> "new"]
    /\ tries = [p \in Proxies |-> MaxTries]
    /\ beat = [p \in Proxies |-> 0]
    /\ major \in [Proxies -> Majors]
    /\ hub = [h \in Proxies |-> "off"]
    /\ port = None
    /\ stopping = [h \in Proxies |-> FALSE]
    /\ touch = [h \in Proxies |-> FALSE]
    /\ idle = [h \in Proxies |-> IdleTimeout]
    /\ fired = [h \in Proxies |-> FALSE]
    /\ visits = 0
    /\ silence = [h \in Proxies |-> 0]
    /\ beaten = [p \in Proxies |-> None]

---------------------------------------------------------------------------
\* A request reaches whatever hub listens, whose middleware touches the watcher.

\* touchMiddleware: the send has a default, so a full touchCh stays as it is.
Request ==
    /\ touch' = [h \in Proxies |-> touch[h] \/ h = port]
    /\ silence' = [h \in Proxies |-> IF h = port THEN 0 ELSE silence[h]]
    /\ UNCHANGED <<idle, fired>>

\* ValidateHandshake: a hub answers, of the same service and major version.
Handshake(p) == port # None /\ major[port] = major[p]

---------------------------------------------------------------------------
\* A proxy: runProxyCmd until codex runs, then its heartbeats.

FirstHandshake(p) ==
    /\ proxy[p] = "new"
    /\ proxy' = [proxy EXCEPT ![p] = IF Handshake(p) THEN "found" ELSE "spawning"]
    /\ Request
    /\ UNCHANGED <<tries, beat, major, beaten, hubs, visits>>

SpawnDetachedHub(p) ==
    /\ proxy[p] = "spawning"
    /\ \/ /\ proxy' = [proxy EXCEPT ![p] = "waiting"]
          /\ hub' = [hub EXCEPT ![p] = "opening"]
       \/ /\ proxy' = [proxy EXCEPT ![p] = "failed"]
          /\ UNCHANGED hub
    /\ UNCHANGED <<tries, beat, major, beaten, port, stopping, timers, visits>>

\* Mutant of Poll: the deadline is computed anew in every round.
PollForever(p) ==
    /\ proxy[p] = "waiting"
    /\ Request
    /\ proxy' = [proxy EXCEPT ![p] = IF Handshake(p) THEN "found" ELSE "waiting"]
    /\ UNCHANGED <<tries, beat, major, beaten, hubs, visits>>

\* One round of waitForHub.
Poll(p) ==
    /\ proxy[p] = "waiting" /\ tries[p] > 0
    /\ Request
    /\ IF Handshake(p)
       THEN proxy' = [proxy EXCEPT ![p] = "found"] /\ UNCHANGED tries
       ELSE tries' = [tries EXCEPT ![p] = @ - 1] /\ UNCHANGED proxy
    /\ UNCHANGED <<beat, major, beaten, hubs, visits>>

\* The deadline of waitForHub.
GiveUp(p) ==
    /\ proxy[p] = "waiting" /\ tries[p] = 0
    /\ proxy' = [proxy EXCEPT ![p] = "failed"]
    /\ UNCHANGED <<tries, beat, major, beaten, hubs, timers, visits>>

\* A signal while it waits, or codex that does not start, under a signal or not.
StartFails(p) ==
    /\ proxy[p] \in {"waiting", "found"}
    /\ proxy' = [proxy EXCEPT ![p] = "failed"]
    /\ UNCHANGED <<tries, beat, major, beaten, hubs, timers, visits>>

\* Register, whose error is ignored, and the launch of codex.
Launch(p) ==
    /\ proxy[p] = "found"
    /\ proxy' = [proxy EXCEPT ![p] = "running"]
    /\ beat' = [beat EXCEPT ![p] = BeatEvery]
    /\ Request
    /\ UNCHANGED <<tries, major, beaten, hubs, visits>>

\* Mutant of Heartbeat: the ingest routes are not behind the middleware.
HeartbeatUntouched(p) ==
    /\ proxy[p] = "running" /\ beat[p] = 0
    /\ beat' = [beat EXCEPT ![p] = BeatEvery]
    /\ beaten' = [beaten EXCEPT ![p] = port]
    /\ UNCHANGED <<proxy, tries, major, hubs, visits, timers>>

\* heartbeatLoop, whose errors are ignored as well.
Heartbeat(p) ==
    /\ proxy[p] = "running" /\ beat[p] = 0
    /\ beat' = [beat EXCEPT ![p] = BeatEvery]
    /\ beaten' = [beaten EXCEPT ![p] = port]
    /\ Request
    /\ UNCHANGED <<proxy, tries, major, hubs, visits>>

Exit(p) ==
    /\ proxy[p] = "running"
    /\ proxy' = [proxy EXCEPT ![p] = "exited"]
    /\ beat' = [beat EXCEPT ![p] = 0]
    /\ beaten' = [beaten EXCEPT ![p] = None]
    /\ UNCHANGED <<tries, major, hubs, timers, visits>>

---------------------------------------------------------------------------
\* A hub: RunE of `hub serve`.

\* The process is gone, and its memory with it.
End(h) ==
    /\ hub' = [hub EXCEPT ![h] = "ended"]
    /\ stopping' = [stopping EXCEPT ![h] = FALSE]
    /\ touch' = [touch EXCEPT ![h] = FALSE]
    /\ fired' = [fired EXCEPT ![h] = FALSE]
    /\ idle' = [idle EXCEPT ![h] = IdleTimeout]
    /\ silence' = [silence EXCEPT ![h] = 0]
    /\ UNCHANGED <<starts, port, visits>>

\* NewApp and StartIdleWatcher, before the port is bound.
Open(h) ==
    /\ hub[h] = "opening"
    /\ hub' = [hub EXCEPT ![h] = "open"]
    /\ UNCHANGED <<starts, port, stopping, timers, visits>>

\* NewApp returns an error.
OpenFails(h) == hub[h] = "opening" /\ End(h)

\* ListenAndServe binds the port.
Listen(h) ==
    /\ hub[h] = "open" /\ port = None
    /\ port' = h
    /\ hub' = [hub EXCEPT ![h] = "serving"]
    /\ UNCHANGED <<starts, stopping, timers, visits>>

\* ListenAndServe finds the port taken, and RunE returns the error.
LosePort(h) == hub[h] = "open" /\ port # None /\ End(h)

\* Mutant of Shutdown: the listener stays open while connections drain.
ShutdownKeepsPort(h) ==
    /\ hub' = [hub EXCEPT ![h] = "draining"]
    /\ UNCHANGED <<starts, port, stopping, timers, visits>>

\* srv.Shutdown closes the listener at once.
Shutdown(h) ==
    /\ hub' = [hub EXCEPT ![h] = "draining"]
    /\ port' = IF port = h THEN None ELSE port
    /\ UNCHANGED <<starts, stopping, timers, visits>>

\* Mutant of StopServing: RunE waits for signals and errors only.
StopServingNever(h) == FALSE

\* RunE sees ShutdownCh closed.
StopServing(h) == hub[h] \in {"open", "serving"} /\ stopping[h] /\ Shutdown(h)

\* SIGINT or SIGTERM. A crash is this and Drain with nothing in between.
Interrupt(h) == hub[h] \in {"open", "serving"} /\ Shutdown(h)

\* Mutant of Drain: Shutdown without a deadline, next to a stream that stays.
DrainForever(h) == FALSE

\* Shutdown returns: no connection is active, or 3 s are over.
Drain(h) == hub[h] = "draining" /\ End(h)

---------------------------------------------------------------------------
\* The idle watcher's select, which takes either when both are ready.

Watching(h) == hub[h] \in {"open", "serving"} /\ ~stopping[h]

\* Mutant of TakeTouch: the timer's channel is not emptied.
TakeTouchKeepsExpiry(h) ==
    /\ Watching(h) /\ touch[h]
    /\ touch' = [touch EXCEPT ![h] = FALSE]
    /\ idle' = [idle EXCEPT ![h] = IdleTimeout]
    /\ UNCHANGED <<starts, hubs, visits, silence, fired>>

\* A touch: stop the timer, empty its channel, start it again.
TakeTouch(h) ==
    /\ Watching(h) /\ touch[h]
    /\ touch' = [touch EXCEPT ![h] = FALSE]
    /\ fired' = [fired EXCEPT ![h] = FALSE]
    /\ idle' = [idle EXCEPT ![h] = IdleTimeout]
    /\ UNCHANGED <<starts, hubs, visits, silence>>

\* The timer: TriggerShutdown.
IdleStop(h) ==
    /\ Watching(h) /\ fired[h]
    /\ fired' = [fired EXCEPT ![h] = FALSE]
    /\ stopping' = [stopping EXCEPT ![h] = TRUE]
    /\ UNCHANGED <<starts, hub, port, touch, idle, silence, visits>>

---------------------------------------------------------------------------
\* Requests of others, and time.

\* A tab's request or `server status`.
Visit ==
    /\ port # None /\ visits < MaxVisits
    /\ visits' = visits + 1
    /\ Request
    /\ UNCHANGED <<starts, hubs>>

\* `server stop`, once its handshake is validated: shutdownHandler.
ServerStop ==
    /\ port # None
    /\ stopping' = [stopping EXCEPT ![port] = TRUE]
    /\ Request
    /\ UNCHANGED <<starts, hub, port, visits>>

Tick ==
    /\ \A p \in Proxies : /\ proxy[p] \notin Starting
                          /\ proxy[p] = "running" => beat[p] > 0
    /\ \A h \in Proxies : /\ hub[h] \in {"off", "serving", "ended"}
                          /\ hub[h] = "serving" => ~stopping[h]
                          /\ Watching(h) => ~touch[h] /\ ~fired[h]
    /\ beat' = [p \in Proxies |-> IF proxy[p] = "running" THEN beat[p] - 1 ELSE beat[p]]
    /\ idle' = [h \in Proxies |-> IF Watching(h) THEN idle[h] - 1 ELSE idle[h]]
    /\ fired' = [h \in Proxies |-> IF Watching(h) THEN idle[h] = 1 ELSE fired[h]]
    /\ silence' = [h \in Proxies |-> IF Watching(h) /\ silence[h] < IdleTimeout
                                     THEN silence[h] + 1 ELSE silence[h]]
    /\ UNCHANGED <<proxy, tries, major, beaten, hubs, touch, visits>>

ProxyStep(p) == SpawnDetachedHub(p) \/ Poll(p) \/ GiveUp(p) \/ Launch(p) \/ Heartbeat(p)
HubStep(h) == \/ Open(h) \/ OpenFails(h) \/ Listen(h) \/ LosePort(h)
              \/ StopServing(h) \/ Drain(h)
WatcherStep(h) == TakeTouch(h) \/ IdleStop(h)

Next ==
    \/ \E p \in Proxies : \/ FirstHandshake(p) \/ ProxyStep(p)
                          \/ StartFails(p) \/ Exit(p)
    \/ \E h \in Proxies : HubStep(h) \/ WatcherStep(h) \/ Interrupt(h)
    \/ Visit \/ ServerStop \/ Tick

Spec == Init /\ [][Next]_vars

\* Processes that can run do, and time passes. Nothing is assumed of who
\* starts proxies, ends them, stops hubs or visits them.
FairSpec ==
    /\ Spec
    /\ \A p \in Proxies : WF_vars(ProxyStep(p))
    /\ \A h \in Proxies : WF_vars(HubStep(h)) /\ WF_vars(WatcherStep(h))
    /\ WF_vars(Tick)

---------------------------------------------------------------------------
\* Properties.

\* The idle watcher stops a hub only after a full IdleTimeout without a
\* request (app.go:103), or when the timer and a later touch were both ready
\* and select took the timer: an expiry left over from before a reset never
\* stops a hub, whatever requests arrive around the reset.
IdleStopFollowsSilence ==
    [][\A h \in Proxies :
          IdleStop(h) => touch[h] \/ silence[h] >= IdleTimeout]_vars

\* Once a hub has taken a heartbeat of a proxy, it does not stop for idleness
\* while that proxy runs, unless another hub took over (router.go:12).
HeartbeatsKeepTheHub ==
    [][\A h \in Proxies :
          IdleStop(h) => \A p \in Proxies : proxy[p] = "running" => beaten[p] # h]_vars

\* A proxy that is started ends up running or with an error, even next to an
\* incompatible hub that keeps the port (waitForHub).
StartEnds ==
    \A p \in Proxies : proxy[p] \in Starting ~> proxy[p] \in {"running", "failed", "exited"}

\* A spawned hub gets the port or ends: nobody waits for a detached process,
\* so the one that loses the port must not stay behind with the database open.
HubServesOrEnds ==
    \A h \in Proxies : hub[h] # "off" ~> hub[h] \in {"serving", "ended"}

\* When no proxy runs any more, no hub goes on for ever (README.md:37), in
\* whichever order touches, the timer and stops arrived.
IdleHubsStop ==
    <>[](\A p \in Proxies : proxy[p] # "running") => <>[](port = None)
=============================================================================
