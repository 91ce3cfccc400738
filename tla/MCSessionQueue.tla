--------------------------- MODULE MCSessionQueue ---------------------------
(* TLC instances of SessionQueue: few messages, few runtimes, small budgets. *)
EXTENDS SessionQueue, TLC

Symmetry == Permutations(Msg) \cup Permutations(Owner)
=============================================================================
