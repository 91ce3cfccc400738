-------------------------- MODULE MCMemoryJobStore --------------------------
(* TLC instances of MemoryJobStore: few threads and revisions, short lives. *)
EXTENDS MemoryJobStore, TLC

MCRevision == 1..2
Symmetry == Permutations(Thread)
=============================================================================
