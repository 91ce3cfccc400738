-------------------------- MODULE MCEventReplay --------------------------
(* TLC instances of EventReplay: a short window and a few numbers.         *)
EXTENDS EventReplay
=============================================================================
