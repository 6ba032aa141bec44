------------------------- MODULE MCApprovalCommand --------------------------
(* Instances of ApprovalCommand for TLC. *)
EXTENDS ApprovalCommand, TLC

CONSTANTS a1, a2, a3, g1, g2

(* a1 and a3 were requested in g1 and a2 in g2. *)
MCGroupOf == [a \in Approvals |-> IF a = a2 THEN g2 ELSE g1]

(* Handlers are alike, and so are a1 and a3; for invariants only. *)
MCSymmetry == Permutations(Calls) \cup Permutations({a1, a3})
=============================================================================
