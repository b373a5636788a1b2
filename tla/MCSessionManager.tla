--------------------------- MODULE MCSessionManager ---------------------------
(* TLC instances of SessionManager: see the cfg files.  The threads are      *)
(* alike, and so are the states up to their permutation.                     *)
EXTENDS SessionManager, TLC
ThreadSymmetry == Permutations(Threads)
=============================================================================
