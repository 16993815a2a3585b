---------------------------- MODULE MCWorkbench ----------------------------
(* Small instances of Workbench for TLC.                                   *)
EXTENDS Workbench, TLC

CONSTANTS a, b, t1, t2

\* Sources and threads are interchangeable: the hub the page is loaded over is
\* one of each kind.
Canonical ==
    /\ DOMAIN registered # {b} /\ (b \in DOMAIN registered => registered[a] = 1)
    /\ DOMAIN recent # {t2} /\ (t2 \in DOMAIN recent => recent[t1] = 1)
    /\ registered = NoData /\ t1 \in DOMAIN recent => home[t1] = a

MCInit == Init /\ Canonical

MCSpec == MCInit /\ [][Next]_vars /\ Fairness
=============================================================================
