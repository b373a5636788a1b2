------------------------------ MODULE MCGitMerge ------------------------------
(* TLC instances of GitMerge: see the cfg files. *)
EXTENDS GitMerge, TLC
BranchSymmetry == Permutations(Branches)
=============================================================================
