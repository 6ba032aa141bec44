------------------------------ MODULE LoopGuard -----------------------------
(***************************************************************************)
(* The loop guard of automatic discussions (src/src/safety/loop_guard.py): *)
(* the threads table, one transaction per question.  A thread's row is     *)
(* never opened again once it waits for the user.                          *)
(***************************************************************************)
EXTENDS Naturals, FiniteSets

CONSTANTS
  Threads,        \* thread ids
  MaxTurns,       \* MAX_TURNS
  MaxAgents       \* MAX_AGENTS

ASSUME LimitsAssumption == MaxTurns \in Nat \ {0} /\ MaxAgents \in Nat \ {0}

VARIABLES
  threadStatus,   \* "none" without a row
  turnCount,
  activeAgents

threadVars == <<threadStatus, turnCount, activeAgents>>

ThreadsInit ==
  /\ threadStatus = [d \in Threads |-> "none"]
  /\ turnCount = [d \in Threads |-> 0]
  /\ activeAgents = [d \in Threads |-> {}]

(* Mutant: the turn asked for is counted before it is compared.              *)
TurnLeftAfter(d) == turnCount[d] + 1 < MaxTurns

TurnLeft(d) == turnCount[d] < MaxTurns

SeatLeft(d, r) == r \in activeAgents[d] \/ Cardinality(activeAgents[d]) < MaxAgents

MayContinue(d, r) ==
  \/ threadStatus[d] = "none"
  \/ threadStatus[d] = "active" /\ TurnLeft(d) /\ SeatLeft(d, r)

(* can_continue_discussion says yes: the turn is taken.                      *)
TakeTurn(d, r) ==
  /\ MayContinue(d, r)
  /\ threadStatus' = [threadStatus EXCEPT ![d] = "active"]
  /\ turnCount' = [turnCount EXCEPT ![d] = @ + 1]
  /\ activeAgents' = [activeAgents EXCEPT ![d] = @ \cup {r}]

(* It says no, and the thread waits for the user.                            *)
RefuseTurn(d, r) ==
  /\ ~MayContinue(d, r)
  /\ threadStatus' = [threadStatus EXCEPT ![d] = "waiting_user"]
  /\ UNCHANGED <<turnCount, activeAgents>>

ThreadsOK ==
  /\ threadStatus \in [Threads -> {"none", "active", "waiting_user"}]
  /\ turnCount \in [Threads -> 0..MaxTurns]
  /\ \A d \in Threads : Cardinality(activeAgents[d]) <= MaxAgents
=============================================================================
