------------------------------ MODULE MCRunner ------------------------------
(* TLC instances of Runner: see the cfg files. *)
EXTENDS Runner
=============================================================================
