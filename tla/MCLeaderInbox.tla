--------------------------- MODULE MCLeaderInbox ---------------------------
(* TLC instances of LeaderInbox: few messages, results and sessions.       *)
EXTENDS LeaderInbox
=============================================================================
