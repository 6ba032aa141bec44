------------------------ MODULE MCApprovalExecution -------------------------
(* Instances of ApprovalExecution for TLC. *)
EXTENDS ApprovalExecution

CONSTANTS a1, a2, g1, g2

(* a1 was requested in g1 and a2 in g2. *)
MCGroupOf == [a \in Approvals |-> IF a = a1 THEN g1 ELSE g2]
=============================================================================
