---------------------------- MODULE MCEventLease ----------------------------
(* Instances of EventLease for TLC. *)
EXTENDS EventLease
=============================================================================
