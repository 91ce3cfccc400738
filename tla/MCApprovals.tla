---------------------------- MODULE MCApprovals ----------------------------
(* A small instance of Approvals for TLC: one request of each kind.        *)
EXTENDS Approvals
CONSTANTS t1, s1, e1
MCTool == {t1}
MCSide == {s1}
MCElicit == {e1}
=============================================================================
