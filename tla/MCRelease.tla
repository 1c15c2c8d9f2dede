----------------------------- MODULE MCRelease -----------------------------
(* Release with interchangeable sessions and publish threads.              *)
EXTENDS Release, TLC

Symmetry == Permutations(Sessions) \cup Permutations(Publishers)
=============================================================================
