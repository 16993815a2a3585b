------------------------------ MODULE MCBroker ------------------------------
(* Small instances of Broker for TLC.                                      *)
EXTENDS Broker, TLC

\* Sound for the safety runs: events and connections are interchangeable.
Symmetry == Permutations(Events) \cup Permutations(Conns)
=============================================================================
