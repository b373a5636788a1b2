---------------------------- MODULE MCSessionStore ----------------------------
(* TLC instances of SessionStore: see the cfg files.  The threads are alike. *)
EXTENDS SessionStore, TLC
ThreadSymmetry == Permutations(Threads)
=============================================================================
