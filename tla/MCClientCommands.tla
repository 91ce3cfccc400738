-------------------------- MODULE MCClientCommands --------------------------
(* TLC instances of ClientCommands: few commands, runtimes and connections. *)
EXTENDS ClientCommands, TLC

Symmetry == Permutations(Command) \cup Permutations(Owner) \cup Permutations(Conn)
=============================================================================
