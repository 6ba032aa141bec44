---------------------------- MODULE OneShotAction ----------------------------
(***************************************************************************)
(* What Morrow promises about an action outside the chat group, whatever   *)
(* the gateway and the executor do inside: the action is proposed, a user  *)
(* gives or withholds permission once, a permitted action takes effect at  *)
(* most once, and it is reported done only after it took effect.           *)
(***************************************************************************)
EXTENDS Naturals

CONSTANT Approvals      \* the proposals

VARIABLES
  permission,   \* [Approvals -> "none" | "asked" | "given" | "withheld"]
  times,        \* [Approvals -> 0..1], how often the action took effect
  verdict       \* [Approvals -> "open" | "success" | "other"], what is reported

vars == <<permission, times, verdict>>

Init == /\ permission = [a \in Approvals |-> "none"]
        /\ times = [a \in Approvals |-> 0]
        /\ verdict = [a \in Approvals |-> "open"]

Ask(a) == /\ permission[a] = "none"
          /\ permission' = [permission EXCEPT ![a] = "asked"]
          /\ UNCHANGED <<times, verdict>>

Decide(a, answer) == /\ permission[a] = "asked"
                     /\ permission' = [permission EXCEPT ![a] = answer]
                     /\ UNCHANGED <<times, verdict>>

Perform(a) == /\ permission[a] = "given"
              /\ times[a] = 0
              /\ times' = [times EXCEPT ![a] = 1]
              /\ UNCHANGED <<permission, verdict>>

ReportSuccess(a) == /\ verdict[a] = "open"
                    /\ times[a] = 1
                    /\ verdict' = [verdict EXCEPT ![a] = "success"]
                    /\ UNCHANGED <<permission, times>>

(* Any other end (failed, unknown, expired after permission) claims nothing
   about the effect.                                                         *)
ReportOther(a) == /\ verdict[a] = "open"
                  /\ permission[a] = "given"
                  /\ verdict' = [verdict EXCEPT ![a] = "other"]
                  /\ UNCHANGED <<permission, times>>

Step(a) == \/ Ask(a)
           \/ Decide(a, "given")
           \/ Decide(a, "withheld")
           \/ Perform(a)
           \/ ReportSuccess(a)
           \/ ReportOther(a)

Next == \E a \in Approvals : Step(a)

Spec == Init /\ [][Next]_vars
=============================================================================
