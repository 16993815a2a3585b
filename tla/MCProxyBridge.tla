---------------------------- MODULE MCProxyBridge ----------------------------
(* Small instances of ProxyBridge for TLC.                                  *)
EXTENDS ProxyBridge, TLC

\* Sound for the safety run: no request is named by the module or the cfg.
Symmetry == Permutations(Requests)
=============================================================================
