------------------------ MODULE HubLifecycleProofs ------------------------
(* The inductive invariant of HubLifecycle and what follows from it: the     *)
(* idle watcher and the heartbeats, for any number of proxies and any        *)
(* intervals of which a heartbeat is the shorter.                            *)
EXTENDS HubLifecycle, TLAPS

\* A proxy has no hub before it spawned one.
UnspawnedInv == \A p \in Proxies : proxy[p] \in {"new", "spawning"} => hub[p] = "off"

\* A hub that does not serve yet has a fresh timer, touched by nobody.
Fresh(h) == /\ ~touch[h] /\ ~fired[h] /\ ~stopping[h]
            /\ idle[h] = IdleTimeout /\ silence[h] = 0

FreshInv == \A h \in Proxies : hub[h] \in {"off", "opening", "open"} => Fresh(h)

\* The timer runs down with the silence, unless a touch is waiting.
TimerInv ==
    \A h \in Proxies : Watching(h) =>
        /\ fired[h] <=> idle[h] = 0
        /\ touch[h] => silence[h] = 0
        /\ ~touch[h] => silence[h] = IdleTimeout - idle[h]

BeatenInv == \A p \in Proxies : proxy[p] # "running" => beaten[p] = None

\* The timer of a hub is at least as far from its end as the last beat of a
\* running proxy is recent, or a touch is waiting: on a timer that far from its
\* end, or sent by a proxy that was just launched.
Kept(p, h) ==
    \/ idle[h] >= IdleTimeout - BeatEvery + beat[p]
    \/ touch[h] /\ idle[h] >= IdleTimeout - BeatEvery
    \/ touch[h] /\ beat[p] = BeatEvery /\ beaten[p] # h

KeptInv == \A p, h \in Proxies : proxy[p] = "running" /\ Watching(h) => Kept(p, h)

Inv == TypeOK /\ UnspawnedInv /\ FreshInv /\ TimerInv /\ BeatenInv /\ KeptInv

---------------------------------------------------------------------------
\* The invariant holds at the start.
LEMMA InitInv == Init => Inv
BY LifecycleAssumption
   DEF Init, Inv, TypeOK, UnspawnedInv, FreshInv, Fresh, TimerInv, Watching,
       BeatenInv, KeptInv, Starting

\* A hub that watches and does not listen has not bound its port yet.
LEMMA WatchingUnbound ==
    ASSUME Inv, NEW h \in Proxies, Watching(h), h # port
    PROVE  Fresh(h)
BY DEF Inv, TypeOK, FreshInv, Watching

\* The first handshake.
LEMMA FirstHandshakeInv ==
    ASSUME Inv, NEW p \in Proxies, FirstHandshake(p) PROVE Inv'
<1>1. TypeOK'
  BY LifecycleAssumption
     DEF FirstHandshake, Request, hubs, Inv, TypeOK, Starting
<1>2. UnspawnedInv'
  BY DEF FirstHandshake, hubs, Inv, UnspawnedInv
<1>3. FreshInv'
  BY DEF FirstHandshake, Request, hubs, Inv, TypeOK, FreshInv, Fresh
<1>4. TimerInv'
  BY DEF FirstHandshake, Request, hubs, Inv, TimerInv, Watching
<1>5. BeatenInv'
  BY DEF FirstHandshake, Inv, BeatenInv
<1>6. KeptInv'
  BY DEF FirstHandshake, Request, hubs, Inv, TypeOK, KeptInv, Kept, Watching
<1> QED BY <1>1, <1>2, <1>3, <1>4, <1>5, <1>6 DEF Inv

\* A spawn, of a hub that was off.
LEMMA SpawnDetachedHubInv ==
    ASSUME Inv, NEW p \in Proxies, SpawnDetachedHub(p) PROVE Inv'
<1>1. TypeOK'
  BY DEF SpawnDetachedHub, timers, Inv, TypeOK, Starting, UnspawnedInv
<1>2. UnspawnedInv'
  BY DEF SpawnDetachedHub, Inv, TypeOK, UnspawnedInv
<1>3. FreshInv'
  BY DEF SpawnDetachedHub, timers, Inv, TypeOK, FreshInv, Fresh, UnspawnedInv
<1>4. TimerInv'
  BY DEF SpawnDetachedHub, timers, Inv, TypeOK, TimerInv, Watching
<1>5. BeatenInv'
  BY DEF SpawnDetachedHub, Inv, TypeOK, BeatenInv
<1>6. KeptInv'
  BY DEF SpawnDetachedHub, timers, Inv, TypeOK, KeptInv, Kept, Watching
<1> QED BY <1>1, <1>2, <1>3, <1>4, <1>5, <1>6 DEF Inv

\* A round of waitForHub.
LEMMA PollInv ==
    ASSUME Inv, NEW p \in Proxies, Poll(p) PROVE Inv'
<1>1. TypeOK'
  BY LifecycleAssumption
     DEF Poll, Request, hubs, Inv, TypeOK, Starting
<1>2. UnspawnedInv'
  BY DEF Poll, hubs, Inv, TypeOK, UnspawnedInv
<1>3. FreshInv'
  BY DEF Poll, Request, hubs, Inv, TypeOK, FreshInv, Fresh
<1>4. TimerInv'
  BY DEF Poll, Request, hubs, Inv, TimerInv, Watching
<1>5. BeatenInv'
  BY DEF Poll, Inv, TypeOK, BeatenInv
<1>6. KeptInv'
  BY DEF Poll, Request, hubs, Inv, TypeOK, KeptInv, Kept, Watching
<1> QED BY <1>1, <1>2, <1>3, <1>4, <1>5, <1>6 DEF Inv

\* Its deadline.
LEMMA GiveUpInv ==
    ASSUME Inv, NEW p \in Proxies, GiveUp(p) PROVE Inv'
<1>1. TypeOK'
  BY DEF GiveUp, hubs, timers, Inv, TypeOK
<1>2. UnspawnedInv'
  BY DEF GiveUp, hubs, Inv, UnspawnedInv
<1>3. FreshInv'
  BY DEF GiveUp, hubs, timers, Inv, FreshInv, Fresh
<1>4. TimerInv'
  BY DEF GiveUp, hubs, timers, Inv, TimerInv, Watching
<1>5. BeatenInv'
  BY DEF GiveUp, Inv, BeatenInv
<1>6. KeptInv'
  BY DEF GiveUp, hubs, timers, Inv, KeptInv, Kept, Watching
<1> QED BY <1>1, <1>2, <1>3, <1>4, <1>5, <1>6 DEF Inv

\* A start that fails.
LEMMA StartFailsInv ==
    ASSUME Inv, NEW p \in Proxies, StartFails(p) PROVE Inv'
<1>1. TypeOK'
  BY DEF StartFails, hubs, timers, Inv, TypeOK
<1>2. UnspawnedInv'
  BY DEF StartFails, hubs, Inv, UnspawnedInv
<1>3. FreshInv'
  BY DEF StartFails, hubs, timers, Inv, FreshInv, Fresh
<1>4. TimerInv'
  BY DEF StartFails, hubs, timers, Inv, TimerInv, Watching
<1>5. BeatenInv'
  BY DEF StartFails, Inv, BeatenInv
<1>6. KeptInv'
  BY DEF StartFails, hubs, timers, Inv, KeptInv, Kept, Watching
<1> QED BY <1>1, <1>2, <1>3, <1>4, <1>5, <1>6 DEF Inv

\* A launch: its touch waits at the hub, which has no heartbeat of the proxy yet.
LEMMA LaunchInv ==
    ASSUME Inv, NEW p \in Proxies, Launch(p) PROVE Inv'
<1>1. TypeOK'
  BY LifecycleAssumption
     DEF Launch, Request, hubs, Inv, TypeOK
<1>2. UnspawnedInv'
  BY DEF Launch, hubs, Inv, UnspawnedInv
<1>3. FreshInv'
  BY DEF Launch, Request, hubs, Inv, TypeOK, FreshInv, Fresh
<1>4. TimerInv'
  BY DEF Launch, Request, hubs, Inv, TimerInv, Watching
<1>5. BeatenInv'
  BY DEF Launch, Inv, BeatenInv
<1>6. KeptInv'
  <2> SUFFICES ASSUME NEW q \in Proxies, NEW h \in Proxies,
                      proxy'[q] = "running", Watching(h)'
               PROVE  Kept(q, h)'
    BY DEF KeptInv
  <2>1. Watching(h)
    BY DEF Launch, Watching, hubs
  <2>2. CASE q # p
    BY <2>1, <2>2 DEF Launch, Request, Inv, TypeOK, KeptInv, Kept
  <2>3. CASE q = p /\ h = port
    BY <2>3, LifecycleAssumption DEF Launch, Request, Inv, TypeOK, BeatenInv, Kept
  <2>4. CASE q = p /\ h # port
    BY <2>1, <2>4, WatchingUnbound, LifecycleAssumption
       DEF Launch, Request, Inv, TypeOK, Fresh, Kept
  <2> QED BY <2>2, <2>3, <2>4
<1> QED BY <1>1, <1>2, <1>3, <1>4, <1>5, <1>6 DEF Inv

\* A heartbeat, which finds the timer less than BeatEvery ticks run down.
LEMMA HeartbeatInv ==
    ASSUME Inv, NEW p \in Proxies, Heartbeat(p) PROVE Inv'
<1>1. TypeOK'
  BY LifecycleAssumption
     DEF Heartbeat, Request, hubs, Inv, TypeOK
<1>2. UnspawnedInv'
  BY DEF Heartbeat, hubs, Inv, UnspawnedInv
<1>3. FreshInv'
  BY DEF Heartbeat, Request, hubs, Inv, TypeOK, FreshInv, Fresh
<1>4. TimerInv'
  BY DEF Heartbeat, Request, hubs, Inv, TimerInv, Watching
<1>5. BeatenInv'
  BY DEF Heartbeat, Inv, BeatenInv
<1>6. KeptInv'
  <2> SUFFICES ASSUME NEW q \in Proxies, NEW h \in Proxies,
                      proxy'[q] = "running", Watching(h)'
               PROVE  Kept(q, h)'
    BY DEF KeptInv
  <2>1. Watching(h) /\ proxy[q] = "running"
    BY DEF Heartbeat, Watching, hubs
  <2>2. CASE q # p
    BY <2>1, <2>2 DEF Heartbeat, Request, Inv, TypeOK, KeptInv, Kept
  <2>3. CASE q = p /\ h = port
    <3>1. idle[h] >= IdleTimeout - BeatEvery
      BY <2>1, <2>3, LifecycleAssumption DEF Heartbeat, Inv, KeptInv, Kept
    <3> QED BY <2>3, <3>1 DEF Heartbeat, Request, Inv, TypeOK, Kept
  <2>4. CASE q = p /\ h # port
    BY <2>1, <2>4, WatchingUnbound, LifecycleAssumption
       DEF Heartbeat, Request, Fresh, Kept
  <2> QED BY <2>2, <2>3, <2>4
<1> QED BY <1>1, <1>2, <1>3, <1>4, <1>5, <1>6 DEF Inv

\* The end of a proxy.
LEMMA ExitInv ==
    ASSUME Inv, NEW p \in Proxies, Exit(p) PROVE Inv'
<1>1. TypeOK'
  BY LifecycleAssumption
     DEF Exit, hubs, timers, Inv, TypeOK
<1>2. UnspawnedInv'
  BY DEF Exit, hubs, Inv, UnspawnedInv
<1>3. FreshInv'
  BY DEF Exit, hubs, timers, Inv, FreshInv, Fresh
<1>4. TimerInv'
  BY DEF Exit, hubs, timers, Inv, TimerInv, Watching
<1>5. BeatenInv'
  BY DEF Exit, Inv, TypeOK, BeatenInv
<1>6. KeptInv'
  BY DEF Exit, hubs, timers, Inv, TypeOK, KeptInv, Kept, Watching
<1> QED BY <1>1, <1>2, <1>3, <1>4, <1>5, <1>6 DEF Inv

\* A hub opens.
LEMMA OpenInv ==
    ASSUME Inv, NEW h \in Proxies, Open(h) PROVE Inv'
<1>1. TypeOK'
  BY DEF Open, starts, timers, Inv, TypeOK
<1>2. UnspawnedInv'
  BY DEF Open, starts, Inv, UnspawnedInv
<1>3. FreshInv'
  BY DEF Open, timers, Inv, FreshInv, Fresh
<1>4. TimerInv'
  BY LifecycleAssumption
     DEF Open, timers, Inv, FreshInv, Fresh, TimerInv, Watching
<1>5. BeatenInv'
  BY DEF Open, starts, Inv, BeatenInv
<1>6. KeptInv'
  BY LifecycleAssumption
     DEF Open, starts, timers, Inv, TypeOK, FreshInv, Fresh, KeptInv, Kept, Watching
<1> QED BY <1>1, <1>2, <1>3, <1>4, <1>5, <1>6 DEF Inv

\* A hub fails to open.
LEMMA OpenFailsInv ==
    ASSUME Inv, NEW h \in Proxies, OpenFails(h) PROVE Inv'
<1>1. TypeOK'
  BY LifecycleAssumption
     DEF OpenFails, End, starts, Inv, TypeOK
<1>2. UnspawnedInv'
  BY DEF OpenFails, End, starts, Inv, UnspawnedInv
<1>3. FreshInv'
  BY DEF OpenFails, End, Inv, FreshInv, Fresh
<1>4. TimerInv'
  BY DEF OpenFails, End, Inv, TimerInv, Watching
<1>5. BeatenInv'
  BY DEF OpenFails, End, starts, Inv, BeatenInv
<1>6. KeptInv'
  BY DEF OpenFails, End, starts, Inv, KeptInv, Kept, Watching
<1> QED BY <1>1, <1>2, <1>3, <1>4, <1>5, <1>6 DEF Inv

\* A hub binds the port, with a fresh timer.
LEMMA ListenInv ==
    ASSUME Inv, NEW h \in Proxies, Listen(h) PROVE Inv'
<1>1. TypeOK'
  BY LifecycleAssumption
     DEF Listen, starts, timers, Inv, TypeOK
<1>2. UnspawnedInv'
  BY DEF Listen, starts, Inv, UnspawnedInv
<1>3. FreshInv'
  BY DEF Listen, timers, Inv, FreshInv, Fresh
<1>4. TimerInv'
  BY DEF Listen, timers, Inv, TimerInv, Watching
<1>5. BeatenInv'
  BY DEF Listen, starts, Inv, BeatenInv
<1>6. KeptInv'
  BY DEF Listen, starts, timers, Inv, KeptInv, Kept, Watching
<1> QED BY <1>1, <1>2, <1>3, <1>4, <1>5, <1>6 DEF Inv

\* A hub loses the port.
LEMMA LosePortInv ==
    ASSUME Inv, NEW h \in Proxies, LosePort(h) PROVE Inv'
<1>1. TypeOK'
  BY LifecycleAssumption
     DEF LosePort, End, starts, Inv, TypeOK
<1>2. UnspawnedInv'
  BY DEF LosePort, End, starts, Inv, UnspawnedInv
<1>3. FreshInv'
  BY DEF LosePort, End, Inv, FreshInv, Fresh
<1>4. TimerInv'
  BY DEF LosePort, End, Inv, FreshInv, Fresh, TimerInv, Watching
<1>5. BeatenInv'
  BY DEF LosePort, End, starts, Inv, BeatenInv
<1>6. KeptInv'
  BY DEF LosePort, End, starts, Inv, FreshInv, Fresh, KeptInv, Kept, Watching
<1> QED BY <1>1, <1>2, <1>3, <1>4, <1>5, <1>6 DEF Inv

\* A hub that was told to stop.
LEMMA StopServingInv ==
    ASSUME Inv, NEW h \in Proxies, StopServing(h) PROVE Inv'
<1>1. TypeOK'
  BY LifecycleAssumption
     DEF StopServing, Shutdown, starts, timers, Inv, TypeOK
<1>2. UnspawnedInv'
  BY DEF StopServing, Shutdown, starts, Inv, UnspawnedInv
<1>3. FreshInv'
  BY DEF StopServing, Shutdown, timers, Inv, FreshInv, Fresh
<1>4. TimerInv'
  BY DEF StopServing, Shutdown, timers, Inv, TimerInv, Watching
<1>5. BeatenInv'
  BY DEF StopServing, Shutdown, starts, Inv, BeatenInv
<1>6. KeptInv'
  BY DEF StopServing, Shutdown, starts, timers, Inv, KeptInv, Kept, Watching
<1> QED BY <1>1, <1>2, <1>3, <1>4, <1>5, <1>6 DEF Inv

\* A signal.
LEMMA InterruptInv ==
    ASSUME Inv, NEW h \in Proxies, Interrupt(h) PROVE Inv'
<1>1. TypeOK'
  BY LifecycleAssumption
     DEF Interrupt, Shutdown, starts, timers, Inv, TypeOK
<1>2. UnspawnedInv'
  BY DEF Interrupt, Shutdown, starts, Inv, UnspawnedInv
<1>3. FreshInv'
  BY DEF Interrupt, Shutdown, timers, Inv, FreshInv, Fresh
<1>4. TimerInv'
  BY DEF Interrupt, Shutdown, timers, Inv, TimerInv, Watching
<1>5. BeatenInv'
  BY DEF Interrupt, Shutdown, starts, Inv, BeatenInv
<1>6. KeptInv'
  BY DEF Interrupt, Shutdown, starts, timers, Inv, KeptInv, Kept, Watching
<1> QED BY <1>1, <1>2, <1>3, <1>4, <1>5, <1>6 DEF Inv

\* The end of a hub.
LEMMA DrainInv ==
    ASSUME Inv, NEW h \in Proxies, Drain(h) PROVE Inv'
<1>1. TypeOK'
  BY LifecycleAssumption
     DEF Drain, End, starts, Inv, TypeOK
<1>2. UnspawnedInv'
  BY DEF Drain, End, starts, Inv, UnspawnedInv
<1>3. FreshInv'
  BY DEF Drain, End, Inv, FreshInv, Fresh
<1>4. TimerInv'
  BY DEF Drain, End, Inv, TimerInv, Watching
<1>5. BeatenInv'
  BY DEF Drain, End, starts, Inv, BeatenInv
<1>6. KeptInv'
  BY DEF Drain, End, starts, Inv, KeptInv, Kept, Watching
<1> QED BY <1>1, <1>2, <1>3, <1>4, <1>5, <1>6 DEF Inv

\* A touch taken: the timer starts again.
LEMMA TakeTouchInv ==
    ASSUME Inv, NEW h \in Proxies, TakeTouch(h) PROVE Inv'
<1>1. TypeOK'
  BY LifecycleAssumption
     DEF TakeTouch, starts, hubs, Inv, TypeOK
<1>2. UnspawnedInv'
  BY DEF TakeTouch, starts, hubs, Inv, UnspawnedInv
<1>3. FreshInv'
  BY DEF TakeTouch, hubs, Inv, FreshInv, Fresh
<1>4. TimerInv'
  BY LifecycleAssumption
     DEF TakeTouch, hubs, Inv, TypeOK, TimerInv, Watching
<1>5. BeatenInv'
  BY DEF TakeTouch, starts, Inv, BeatenInv
<1>6. KeptInv'
  BY LifecycleAssumption
     DEF TakeTouch, starts, hubs, Inv, TypeOK, KeptInv, Kept, Watching
<1> QED BY <1>1, <1>2, <1>3, <1>4, <1>5, <1>6 DEF Inv

\* The timer taken.
LEMMA IdleStopInv ==
    ASSUME Inv, NEW h \in Proxies, IdleStop(h) PROVE Inv'
<1>1. TypeOK'
  BY DEF IdleStop, starts, Inv, TypeOK
<1>2. UnspawnedInv'
  BY DEF IdleStop, starts, Inv, UnspawnedInv
<1>3. FreshInv'
  BY DEF IdleStop, Inv, FreshInv, Fresh
<1>4. TimerInv'
  BY DEF IdleStop, Inv, TypeOK, TimerInv, Watching
<1>5. BeatenInv'
  BY DEF IdleStop, starts, Inv, BeatenInv
<1>6. KeptInv'
  BY DEF IdleStop, starts, Inv, KeptInv, Kept, Watching
<1> QED BY <1>1, <1>2, <1>3, <1>4, <1>5, <1>6 DEF Inv

\* A request of somebody else.
LEMMA VisitInv ==
    ASSUME Inv, Visit PROVE Inv'
<1>1. TypeOK'
  BY LifecycleAssumption
     DEF Visit, Request, starts, hubs, Inv, TypeOK
<1>2. UnspawnedInv'
  BY DEF Visit, starts, hubs, Inv, UnspawnedInv
<1>3. FreshInv'
  BY DEF Visit, Request, hubs, Inv, TypeOK, FreshInv, Fresh
<1>4. TimerInv'
  BY DEF Visit, Request, hubs, Inv, TimerInv, Watching
<1>5. BeatenInv'
  BY DEF Visit, starts, Inv, BeatenInv
<1>6. KeptInv'
  BY DEF Visit, Request, starts, hubs, Inv, KeptInv, Kept, Watching
<1> QED BY <1>1, <1>2, <1>3, <1>4, <1>5, <1>6 DEF Inv

\* A stop.
LEMMA ServerStopInv ==
    ASSUME Inv, ServerStop PROVE Inv'
<1>1. TypeOK'
  BY LifecycleAssumption
     DEF ServerStop, Request, starts, Inv, TypeOK
<1>2. UnspawnedInv'
  BY DEF ServerStop, starts, Inv, UnspawnedInv
<1>3. FreshInv'
  BY DEF ServerStop, Request, Inv, TypeOK, FreshInv, Fresh
<1>4. TimerInv'
  BY DEF ServerStop, Request, Inv, TypeOK, TimerInv, Watching
<1>5. BeatenInv'
  BY DEF ServerStop, starts, Inv, BeatenInv
<1>6. KeptInv'
  BY DEF ServerStop, Request, starts, Inv, TypeOK, KeptInv, Kept, Watching
<1> QED BY <1>1, <1>2, <1>3, <1>4, <1>5, <1>6 DEF Inv

\* A tick, before which every touch has been taken.
LEMMA TickInv ==
    ASSUME Inv, Tick PROVE Inv'
<1>0. \A h \in Proxies : Watching(h) =>
        /\ ~touch[h] /\ ~fired[h]
        /\ idle[h] \in 1..IdleTimeout
        /\ silence[h] = IdleTimeout - idle[h]
  BY LifecycleAssumption DEF Tick, Inv, TypeOK, TimerInv
<1>1. TypeOK'
  <2>1. beat' \in [Proxies -> 0..BeatEvery]
    BY LifecycleAssumption DEF Tick, Inv, TypeOK
  <2>2. idle' \in [Proxies -> 0..IdleTimeout]
    BY <1>0, LifecycleAssumption DEF Tick, Inv, TypeOK
  <2>3. fired' \in [Proxies -> BOOLEAN]
    <3> SUFFICES ASSUME NEW h \in Proxies PROVE fired'[h] \in BOOLEAN
      BY DEF Tick
    <3>1. CASE Watching(h)
      BY <3>1 DEF Tick
    <3>2. CASE ~Watching(h)
      BY <3>2 DEF Tick, Inv, TypeOK
    <3> QED BY <3>1, <3>2
  <2>4. silence' \in [Proxies -> 0..IdleTimeout]
    BY LifecycleAssumption DEF Tick, Inv, TypeOK
  <2> QED BY <2>1, <2>2, <2>3, <2>4 DEF Tick, hubs, Inv, TypeOK
<1>2. UnspawnedInv'
  BY DEF Tick, hubs, Inv, UnspawnedInv
<1>3. FreshInv'
  BY DEF Tick, hubs, Inv, FreshInv, Fresh, Watching
<1>4. TimerInv'
  <2> SUFFICES ASSUME NEW h \in Proxies, Watching(h)'
               PROVE  /\ fired'[h] <=> idle'[h] = 0
                      /\ ~touch'[h] /\ silence'[h] = IdleTimeout - idle'[h]
    BY DEF TimerInv
  <2>1. Watching(h)
    BY DEF Tick, Watching, hubs
  <2>2. /\ idle'[h] = idle[h] - 1 /\ touch'[h] = touch[h]
        /\ silence[h] < IdleTimeout => silence'[h] = silence[h] + 1
    BY <2>1 DEF Tick
  <2>3. fired'[h] = (idle[h] = 1)
    BY <2>1 DEF Tick
  <2>4. idle[h] \in Int /\ idle[h] <= IdleTimeout /\ idle[h] >= 1
    BY <1>0, <2>1, LifecycleAssumption
  <2>5. /\ idle'[h] = 0 <=> idle[h] = 1
        /\ silence'[h] = IdleTimeout - idle'[h]
    BY <1>0, <2>1, <2>2, <2>4, LifecycleAssumption
  <2> QED BY <1>0, <2>1, <2>2, <2>3, <2>5
<1>5. BeatenInv'
  BY DEF Tick, Inv, BeatenInv
<1>6. KeptInv'
  BY LifecycleAssumption DEF Tick, hubs, Inv, TypeOK, KeptInv, Kept, Watching
<1> QED BY <1>1, <1>2, <1>3, <1>4, <1>5, <1>6 DEF Inv

\* Every step preserves the invariant.
LEMMA NextInv == Inv /\ [Next]_vars => Inv'
<1> SUFFICES ASSUME Inv, [Next]_vars PROVE Inv'
  OBVIOUS
<1>1. ASSUME NEW p \in Proxies, FirstHandshake(p) PROVE Inv'
  BY <1>1, FirstHandshakeInv
<1>2. ASSUME NEW p \in Proxies, SpawnDetachedHub(p) PROVE Inv'
  BY <1>2, SpawnDetachedHubInv
<1>3. ASSUME NEW p \in Proxies, Poll(p) PROVE Inv'
  BY <1>3, PollInv
<1>4. ASSUME NEW p \in Proxies, GiveUp(p) PROVE Inv'
  BY <1>4, GiveUpInv
<1>5. ASSUME NEW p \in Proxies, StartFails(p) PROVE Inv'
  BY <1>5, StartFailsInv
<1>6. ASSUME NEW p \in Proxies, Launch(p) PROVE Inv'
  BY <1>6, LaunchInv
<1>7. ASSUME NEW p \in Proxies, Heartbeat(p) PROVE Inv'
  BY <1>7, HeartbeatInv
<1>8. ASSUME NEW p \in Proxies, Exit(p) PROVE Inv'
  BY <1>8, ExitInv
<1>9. ASSUME NEW h \in Proxies, Open(h) PROVE Inv'
  BY <1>9, OpenInv
<1>10. ASSUME NEW h \in Proxies, OpenFails(h) PROVE Inv'
  BY <1>10, OpenFailsInv
<1>11. ASSUME NEW h \in Proxies, Listen(h) PROVE Inv'
  BY <1>11, ListenInv
<1>12. ASSUME NEW h \in Proxies, LosePort(h) PROVE Inv'
  BY <1>12, LosePortInv
<1>13. ASSUME NEW h \in Proxies, StopServing(h) PROVE Inv'
  BY <1>13, StopServingInv
<1>14. ASSUME NEW h \in Proxies, Interrupt(h) PROVE Inv'
  BY <1>14, InterruptInv
<1>15. ASSUME NEW h \in Proxies, Drain(h) PROVE Inv'
  BY <1>15, DrainInv
<1>16. ASSUME NEW h \in Proxies, TakeTouch(h) PROVE Inv'
  BY <1>16, TakeTouchInv
<1>17. ASSUME NEW h \in Proxies, IdleStop(h) PROVE Inv'
  BY <1>17, IdleStopInv
<1>18. ASSUME Visit PROVE Inv'
  BY <1>18, VisitInv
<1>19. ASSUME ServerStop PROVE Inv'
  BY <1>19, ServerStopInv
<1>20. ASSUME Tick PROVE Inv'
  BY <1>20, TickInv
<1>21. CASE UNCHANGED vars
  BY <1>21 DEF vars, starts, hubs, timers, Inv, TypeOK, UnspawnedInv, FreshInv, Fresh,
     TimerInv, BeatenInv, KeptInv, Kept, Watching
<1> QED
  BY <1>1, <1>2, <1>3, <1>4, <1>5, <1>6, <1>7, <1>8, <1>9, <1>10, <1>11, <1>12, <1>13, <1>14, <1>15, <1>16, <1>17, <1>18, <1>19, <1>20, <1>21
     DEF Next, ProxyStep, HubStep, WatcherStep

\* Every reachable state satisfies the invariant.
THEOREM InvHolds == Spec => []Inv
BY InitInv, NextInv, PTL DEF Spec

\* The variables keep their types, and a hub serves exactly while the port is
\* its own, whoever spawns, binds, stops and dies in whatever order.
THEOREM TypeCorrect == Spec => []TypeOK
<1>1. Inv => TypeOK
  BY DEF Inv
<1> QED BY <1>1, InvHolds, PTL

\* IdleStopFollowsSilence, for every number of proxies and every timeout: the
\* drained timer channel and the restarted timer (app.go:120-127) leave no
\* expiry behind that could stop a hub after a request it has handled.
THEOREM IdleOnlyInSilence == Spec => IdleStopFollowsSilence
<1> DEFINE A == \A h \in Proxies : IdleStop(h) => touch[h] \/ silence[h] >= IdleTimeout
<1>1. Inv => A
  <2> SUFFICES ASSUME Inv, NEW h \in Proxies, IdleStop(h), ~touch[h]
               PROVE  silence[h] >= IdleTimeout
    OBVIOUS
  <2>1. fired[h] /\ Watching(h)
    BY DEF IdleStop
  <2>2. idle[h] = 0 /\ silence[h] = IdleTimeout - idle[h]
    BY <2>1 DEF Inv, TimerInv
  <2> QED BY <2>2, LifecycleAssumption
<1>2. Inv /\ [Next]_vars => [A]_vars
  BY <1>1
<1> QED BY <1>2, InvHolds, PTL DEF Spec, IdleStopFollowsSilence

\* HeartbeatsKeepTheHub: one heartbeat taken, the hub does not stop for
\* idleness while the proxy runs, because a heartbeat's interval is shorter
\* than the timeout and no later touch is lost.
THEOREM NoIdleStopUnderHeartbeats == Spec => HeartbeatsKeepTheHub
<1> DEFINE A == \A h \in Proxies :
                  IdleStop(h) => \A p \in Proxies : proxy[p] = "running" => beaten[p] # h
<1>1. Inv => A
  <2> SUFFICES ASSUME Inv, NEW h \in Proxies, IdleStop(h),
                      NEW p \in Proxies, proxy[p] = "running"
               PROVE  beaten[p] # h
    OBVIOUS
  <2>1. Watching(h) /\ idle[h] = 0
    BY DEF IdleStop, Inv, TimerInv
  <2>2. Kept(p, h)
    BY <2>1 DEF Inv, KeptInv
  <2> QED BY <2>1, <2>2, LifecycleAssumption DEF Kept, Inv, TypeOK
<1>2. Inv /\ [Next]_vars => [A]_vars
  BY <1>1
<1> QED BY <1>2, InvHolds, PTL DEF Spec, HeartbeatsKeepTheHub
=============================================================================
