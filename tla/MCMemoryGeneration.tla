------------------------- MODULE MCMemoryGeneration -------------------------
(* TLC instances of MemoryGeneration: two workers of two processes.        *)
EXTENDS MemoryGeneration, TLC

MCRevision == 1..2
Symmetry == Permutations(Worker)
=============================================================================
