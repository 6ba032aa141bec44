---------------------------- MODULE MCTaskService ---------------------------
(* Instances of TaskService for TLC. *)
EXTENDS TaskService, TLC

(* Tasks and roles are interchangeable, and every property is a safety property. *)
TaskSymmetry == Permutations(Roles) \cup Permutations(Tasks)
=============================================================================
