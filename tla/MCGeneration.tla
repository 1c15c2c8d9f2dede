---------------------------- MODULE MCGeneration ----------------------------
EXTENDS Generation, TLC

Alike == Permutations(Streams) \cup Permutations(Traces)

=============================================================================
