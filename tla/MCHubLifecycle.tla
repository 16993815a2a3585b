-------------------------- MODULE MCHubLifecycle --------------------------
(* Small instances of HubLifecycle for TLC.                                  *)
EXTENDS HubLifecycle

CONSTANTS p1, p2
=============================================================================
