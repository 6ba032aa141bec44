----------------------------- MODULE MCGroupWork ----------------------------
(* Instances of GroupWork for TLC. *)
EXTENDS GroupWork

CONSTANTS m1, m2, manager, marketing, advisor

(* m1 is collective work for manager and marketing, m2 is delegated to advisor. *)
MCKind == [m \in Messages |-> IF m = m1 THEN "collective" ELSE "delegated"]
MCTeam == [m \in Messages |-> IF m = m1 THEN <<manager, marketing>> ELSE <<manager, advisor>>]

(* Every message begins a thread of its own. *)
MCThreadOf == [m \in Messages |-> m]

(* m1 is collective work for manager and marketing, m2 is for advisor alone. *)
MCMixedKind == [m \in Messages |-> IF m = m1 THEN "collective" ELSE "single"]
MCMixedTeam == [m \in Messages |-> IF m = m1 THEN <<manager, marketing>> ELSE <<advisor>>]
=============================================================================
