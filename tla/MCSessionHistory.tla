-------------------------- MODULE MCSessionHistory --------------------------
(* Small instances of SessionHistory for TLC.                              *)
EXTENDS SessionHistory, TLC

CONSTANTS e1, e2, e3

\* e2 is stored or published after e1 or before it, but always ranks after it.
MCRank == [e \in Events |-> CASE e = e1 -> 1 [] e = e2 -> 2 [] OTHER -> 3]
=============================================================================
