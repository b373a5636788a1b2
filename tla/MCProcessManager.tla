-------------------------- MODULE MCProcessManager --------------------------
(* TLC instances of ProcessManager: see the cfg files. *)
EXTENDS ProcessManager, TLC

CONSTANTS s1, s2

TwoStoppers == {s1, s2}
OneStopper  == {s1}
NoStopper   == {}
Symmetry    == Permutations(TwoStoppers)
=============================================================================
