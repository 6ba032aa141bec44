-------------------------- MODULE TaskService_proofs ------------------------
(***************************************************************************)
(* Proofs about TaskService, for any tasks, roles, retries and bounds.     *)
(***************************************************************************)
EXTENDS TaskService, TLAPS

(* What the handoff rows say of a task's owners: before the first handoff the
   only owner is the present one, afterwards the rows name every owner.      *)
RowsNameOwners ==
  \A t \in Tasks :
    /\ status[t] = "none" => owned[t] = {} /\ owner[t] = NoRole /\ handoffs[t] = {}
    /\ status[t] # "none" => owner[t] \in Roles /\ owned[t] \subseteq Attempted(t, owner[t])

(* A task not created yet is nobody's dependency and depends on nothing.     *)
DepsExist ==
  \A t \in Tasks : /\ status[t] = "none" => deps[t] = {}
                   /\ \A d \in deps[t] : status[d] # "none"

IInv == TypeOK /\ RowsNameOwners /\ DepsExist /\ DependenciesGate

-----------------------------------------------------------------------------
LEMMA InitIInv == ASSUME Init PROVE IInv
<1>1. TypeOK
  BY RetriesAssumption, StartsAssumption, NoRoleAssumption DEF Init, TypeOK, RunStatus
<1>2. RowsNameOwners /\ DepsExist /\ DependenciesGate
  BY DEF Init, RowsNameOwners, DepsExist, DependenciesGate
<1> QED BY <1>1, <1>2 DEF IInv

(* A step that creates no task keeps the dependencies; if it moves no task out
   of "done" and starts or ends only tasks whose dependencies are done, the
   gate holds after it.                                                      *)
LEMMA GateStep ==
  ASSUME IInv, deps' = deps,
         \A t \in Tasks : status[t] = "done" => status'[t] = "done",
         \A t \in Tasks : status'[t] = "none" <=> status[t] = "none",
         \A t \in Tasks : status'[t] \in {"in_progress", "done"} =>
            status'[t] = status[t] \/ DependenciesDone(t)
  PROVE  DependenciesGate' /\ DepsExist'
<1>1. DependenciesGate'
  BY DEF IInv, TypeOK, DependenciesGate, DependenciesDone
<1>2. DepsExist'
  BY DEF IInv, TypeOK, DepsExist
<1> QED BY <1>1, <1>2

(* A step that hands nothing over keeps what the rows say.                   *)
LEMMA OwnersStep ==
  ASSUME IInv, UNCHANGED <<owner, handoffs, owned>>,
         \A t \in Tasks : status'[t] = "none" <=> status[t] = "none"
  PROVE  RowsNameOwners'
BY DEF IInv, RowsNameOwners, Attempted

(* A step that leaves the statuses alone keeps everything but the shapes.     *)
LEMMA QuietStep ==
  ASSUME IInv, TypeOK', UNCHANGED <<status, owner, deps, handoffs, owned>>
  PROVE  IInv'
<1>1. DependenciesGate' /\ DepsExist'
  BY GateStep
<1>2. RowsNameOwners'
  BY OwnersStep
<1> QED BY <1>1, <1>2 DEF IInv

(* A stop, a pause or a resume moves the tasks it hits out of an active state. *)
LEMMA HitStep ==
  ASSUME IInv, TypeOK', NEW hit \in SUBSET Tasks, NEW new \in {"todo", "waiting_user", "cancelled"},
         \A t \in hit : status[t] \in Active,
         status' = [t \in Tasks |-> IF t \in hit THEN new ELSE status[t]],
         UNCHANGED <<owner, deps, handoffs, owned>>
  PROVE  IInv'
<1>1. \A t \in Tasks : /\ status[t] = "done" => status'[t] = "done"
                       /\ status'[t] = "none" <=> status[t] = "none"
                       /\ status'[t] \in {"in_progress", "done"} => status'[t] = status[t]
  BY DEF Active
<1>2. DependenciesGate' /\ DepsExist'
  BY <1>1, GateStep
<1>3. RowsNameOwners'
  BY <1>1, OwnersStep
<1> QED BY <1>2, <1>3 DEF IInv

LEMMA CreateStep ==
  ASSUME IInv, NEW t \in Tasks, NEW role \in Roles, NEW needs \in SUBSET Tasks,
         CreateTask(t, role, needs)
  PROVE  IInv'
<1> USE DEF IInv
<1>1. TypeOK'
  BY RetriesAssumption DEF CreateTask, TypeOK, Active
<1>2. RowsNameOwners'
  BY DEF CreateTask, TypeOK, RowsNameOwners, Attempted
<1>3. DepsExist'
  BY DEF CreateTask, TypeOK, DepsExist
<1>4. DependenciesGate'
  BY DEF CreateTask, TypeOK, DepsExist, DependenciesGate, DependenciesDone
<1> QED BY <1>1, <1>2, <1>3, <1>4

LEMMA UpdateStep ==
  ASSUME IInv, NEW t \in Tasks, NEW new \in Active \cup Terminal, UpdateTaskStatus(t, new)
  PROVE  IInv'
<1> USE DEF IInv
<1>1. CASE MayMove(t, new)
  <2>1. /\ status' = [status EXCEPT ![t] = new] /\ status[t] # "none" /\ new \in Allowed(status[t])
        /\ new \in {"in_progress", "done"} => DependenciesDone(t)
        /\ UNCHANGED <<owner, deps, handoffs, retries, runs, starting, starts, owned>>
    BY <1>1 DEF UpdateTaskStatus, MayMove
  <2>2. status[t] \notin Terminal
    BY <2>1 DEF Allowed, Terminal
  <2>3. TypeOK'
    BY <2>1, <2>2 DEF TypeOK, Active, Terminal
  <2>4. new # "none"
    BY DEF Active, Terminal
  <2>5. DependenciesGate' /\ DepsExist'
    BY <2>1, <2>2, <2>4, GateStep DEF TypeOK, Terminal
  <2>6. RowsNameOwners'
    BY <2>1, <2>4, OwnersStep DEF TypeOK
  <2> QED BY <2>3, <2>5, <2>6
<1>2. CASE ~MayMove(t, new)
  <2>1. UNCHANGED taskVars
    BY <1>2 DEF UpdateTaskStatus, taskVars
  <2>2. TypeOK'
    BY <2>1 DEF taskVars, TypeOK
  <2> QED BY <2>1, <2>2, QuietStep DEF taskVars
<1> QED BY <1>1, <1>2

LEMMA StopStep ==
  ASSUME IInv, NEW hit \in SUBSET Tasks, NEW new \in {"waiting_user", "cancelled"},
         \A t \in hit : status[t] \in Active, StopTasks(hit, new)
  PROVE  IInv'
<1>1. \A t \in hit : retries[t] # MaxRetries
  BY DEF IInv, TypeOK, Active
<1>2. status' \in [Tasks -> Active \cup Terminal \cup {"none"}]
  BY DEF StopTasks, IInv, TypeOK, Active, Terminal
<1>3. runs' \in [Tasks -> [Roles -> RunStatus]]
  BY DEF StopTasks, IInv, TypeOK, RunStatus
<1>4. TypeOK'
  BY <1>1, <1>2, <1>3 DEF StopTasks, IInv, TypeOK
<1> QED BY <1>4, HitStep DEF StopTasks

LEMMA ResumeStep ==
  ASSUME IInv, NEW scope \in SUBSET Tasks, ResumeWaitingTasks(scope)
  PROVE  IInv'
<1> DEFINE hit == InScope(scope, {"waiting_user"})
<1>1. /\ hit \in SUBSET Tasks /\ \A t \in hit : status[t] = "waiting_user"
      /\ status' = [t \in Tasks |-> IF t \in hit THEN "todo" ELSE status[t]]
      /\ UNCHANGED <<owner, deps, handoffs, retries, runs, starting, starts, owned>>
  BY DEF ResumeWaitingTasks, InScope
<1> HIDE DEF hit
<1>2. TypeOK'
  BY <1>1 DEF IInv, TypeOK, Active
<1>3. \A t \in hit : status[t] \in Active
  BY <1>1 DEF Active
<1> QED BY <1>1, <1>2, <1>3, HitStep

LEMMA RunStep ==
  ASSUME IInv, NEW t \in Tasks, NEW role \in Roles,
         \/ BeginAgentRun(t, role)
         \/ StartAgentRun(t, role)
         \/ \E result \in {"succeeded", "failed", "cancelled"} : CloseAgentRun(t, role, result)
  PROVE  IInv'
<1> USE DEF IInv
<1>1. TypeOK' /\ UNCHANGED <<status, owner, deps, handoffs, owned>>
  <2>1. CASE BeginAgentRun(t, role)
    BY <2>1, StartsAssumption DEF BeginAgentRun, TypeOK
  <2>2. CASE StartAgentRun(t, role)
    BY <2>2 DEF StartAgentRun, TypeOK, RunStatus
  <2>3. ASSUME NEW result \in {"succeeded", "failed", "cancelled"}, CloseAgentRun(t, role, result)
        PROVE TypeOK' /\ UNCHANGED <<status, owner, deps, handoffs, owned>>
    BY <2>3 DEF CloseAgentRun, TypeOK, RunStatus
  <2> QED BY <2>1, <2>2, <2>3
<1> QED BY <1>1, QuietStep

LEMMA FailureStep ==
  ASSUME IInv, NEW t \in Tasks, RecordFailure(t)
  PROVE  IInv'
<1> USE DEF IInv
<1> DEFINE new == StatusAfter(retries[t] + 1)
<1>1. /\ status[t] \in Active /\ status' = [status EXCEPT ![t] = new]
      /\ retries' = [retries EXCEPT ![t] = retries[t] + 1]
      /\ UNCHANGED <<owner, deps, handoffs, runs, starting, starts, owned>>
  BY DEF RecordFailure
<1>2. retries[t] \in 0..MaxRetries /\ retries[t] # MaxRetries
  BY <1>1 DEF TypeOK, Active
<1>3. new \in {"blocked", "failed"} /\ (retries[t] + 1 = MaxRetries => new = "failed")
  BY <1>2, RetriesAssumption DEF StatusAfter
<1> HIDE DEF new
<1>4. TypeOK'
  <2>1. retries[t] + 1 \in 0..MaxRetries
    BY <1>2, RetriesAssumption
  <2>2. retries' \in [Tasks -> 0..MaxRetries] /\ retries'[t] = retries[t] + 1
    BY <1>1, <2>1 DEF TypeOK
  <2>3. status' \in [Tasks -> Active \cup Terminal \cup {"none"}] /\ status'[t] = new
    BY <1>1, <1>3 DEF TypeOK, Active, Terminal
  <2>4. \A u \in Tasks : retries'[u] = MaxRetries => status'[u] = "failed"
    BY <1>1, <1>3, <2>2, <2>3 DEF TypeOK
  <2> QED BY <1>1, <2>2, <2>3, <2>4 DEF TypeOK
<1>5. DependenciesGate' /\ DepsExist'
  BY <1>1, <1>3, GateStep DEF TypeOK, Active
<1>6. RowsNameOwners'
  BY <1>1, <1>3, OwnersStep DEF TypeOK, Active
<1> QED BY <1>4, <1>5, <1>6

LEMMA HandOffStep ==
  ASSUME IInv, NEW t \in Tasks, NEW from \in Roles, NEW to \in Roles, HandOffTask(t, from, to)
  PROVE  IInv'
<1> USE DEF IInv
<1>1. /\ status[t] \notin Terminal \cup {"none"} /\ DependenciesDone(t) /\ owner[t] = from
      /\ handoffs' = [handoffs EXCEPT ![t] = handoffs[t] \cup {[from |-> from, to |-> to]}]
      /\ owner' = [owner EXCEPT ![t] = to]
      /\ status' = [status EXCEPT ![t] = "in_progress"]
      /\ owned' = [owned EXCEPT ![t] = owned[t] \cup {to}]
      /\ UNCHANGED <<deps, retries, runs, starting, starts>>
  BY DEF HandOffTask, MayHandOff
<1>2. TypeOK'
  BY <1>1 DEF TypeOK, Active, Terminal
<1>3. DependenciesGate' /\ DepsExist'
  BY <1>1, GateStep DEF TypeOK, Terminal
<1>4. RowsNameOwners'
  <2>1. ASSUME NEW u \in Tasks, u # t
        PROVE  UNCHANGED <<status[u], owner[u], owned[u], handoffs[u]>>
    BY <1>1, <2>1 DEF TypeOK
  <2>2. /\ status'[t] = "in_progress" /\ owner'[t] = to /\ owned'[t] = owned[t] \cup {to}
        /\ handoffs'[t] = handoffs[t] \cup {[from |-> from, to |-> to]}
    BY <1>1 DEF TypeOK
  <2>3. owned[t] \subseteq {from} \cup {h.from : h \in handoffs[t]} \cup {h.to : h \in handoffs[t]}
    BY <1>1 DEF RowsNameOwners, Attempted
  <2>4. from \in {h.from : h \in handoffs[t] \cup {[from |-> from, to |-> to]}}
    <3>1. [from |-> from, to |-> to].from = from
      OBVIOUS
    <3> QED BY <3>1
  <2>5. owned'[t] \subseteq Attempted(t, to)'
    BY <2>2, <2>3, <2>4 DEF Attempted
  <2>6. \A u \in Tasks : u # t => Attempted(u, owner[u])' = Attempted(u, owner[u])
    BY <2>1 DEF Attempted
  <2> QED BY <2>1, <2>2, <2>5, <2>6 DEF RowsNameOwners
<1> QED BY <1>2, <1>3, <1>4

THEOREM NextIInv == ASSUME IInv, Next PROVE IInv'
<1>1. ASSUME NEW scope \in Scopes,
             CancelActiveTasks(scope) \/ PauseActiveTasks(scope) \/ ResumeWaitingTasks(scope)
      PROVE IInv'
  <2>1. scope \in SUBSET Tasks
    BY DEF Scopes
  <2>2. CASE CancelActiveTasks(scope)
    <3>1. /\ InScope(scope, Active) \in SUBSET Tasks
          /\ \A t \in InScope(scope, Active) : status[t] \in Active
      BY <2>1 DEF InScope
    <3> QED BY <2>2, <3>1, StopStep DEF CancelActiveTasks
  <2>3. CASE PauseActiveTasks(scope)
    <3>1. /\ InScope(scope, Active \ {"waiting_user"}) \in SUBSET Tasks
          /\ \A t \in InScope(scope, Active \ {"waiting_user"}) : status[t] \in Active
      BY <2>1 DEF InScope
    <3> QED BY <2>3, <3>1, StopStep DEF PauseActiveTasks
  <2>4. CASE ResumeWaitingTasks(scope)
    BY <2>1, <2>4, ResumeStep
  <2> QED BY <1>1, <2>2, <2>3, <2>4
<1> QED
  BY <1>1, CreateStep, UpdateStep, RunStep, FailureStep, HandOffStep DEF Next

LEMMA Stutter == ASSUME IInv, UNCHANGED taskVars PROVE IInv'
<1>1. TypeOK'
  BY DEF taskVars, IInv, TypeOK
<1> QED BY <1>1, QuietStep DEF taskVars

(* The inductive invariant holds in every state of every behaviour.          *)
THEOREM Invariance == Spec => []IInv
<1>1. Init => IInv
  BY InitIInv
<1>2. IInv /\ [Next]_taskVars => IInv'
  BY NextIInv, Stutter
<1> QED BY <1>1, <1>2, PTL DEF Spec

(* Type correctness, and a task whose retries are used up has failed.        *)
THEOREM TypeCorrect == Spec => []TypeOK
<1>1. IInv => TypeOK
  BY DEF IInv
<1> QED BY <1>1, Invariance, PTL

(* No order of operations starts or completes a task before the tasks it
   depends on are done (update_task_status, handoff_task).                   *)
THEOREM Gated == Spec => []DependenciesGate
<1>1. IInv => DependenciesGate
  BY DEF IInv
<1> QED BY <1>1, Invariance, PTL

-----------------------------------------------------------------------------
(* What TerminalIsFinal and NeverOwnedTwice say of one step and one task.    *)
TaskStep(t) ==
  /\ status[t] \in Terminal => status'[t] = status[t]
  /\ owner'[t] # owner[t] => owner'[t] \notin owned[t]

LEMMA StepsKeep == ASSUME IInv, [Next]_taskVars, NEW t \in Tasks PROVE TaskStep(t)
<1> USE DEF IInv, TaskStep
<1>1. ASSUME UNCHANGED <<status, owner>> PROVE TaskStep(t)
  BY <1>1
<1>2. ASSUME NEW u \in Tasks, NEW role \in Roles, NEW needs \in SUBSET Tasks,
             CreateTask(u, role, needs)
      PROVE TaskStep(t)
  BY <1>2 DEF CreateTask, TypeOK, Terminal, RowsNameOwners
<1>3. ASSUME NEW u \in Tasks, NEW new \in Active \cup Terminal, UpdateTaskStatus(u, new)
      PROVE TaskStep(t)
  <2>1. CASE MayMove(u, new)
    <3>1. /\ status' = [status EXCEPT ![u] = new] /\ new \in Allowed(status[u])
          /\ owner' = owner
      BY <1>3, <2>1 DEF UpdateTaskStatus, MayMove
    <3>2. status[u] \notin Terminal
      BY <3>1 DEF Allowed, Terminal
    <3> QED BY <3>1, <3>2 DEF TypeOK
  <2>2. CASE ~MayMove(u, new)
    BY <1>1, <1>3, <2>2 DEF UpdateTaskStatus
  <2> QED BY <2>1, <2>2
<1>4. ASSUME NEW hit \in SUBSET Tasks, NEW new, \A u \in hit : status[u] \in Active,
             status' = [u \in Tasks |-> IF u \in hit THEN new ELSE status[u]], owner' = owner
      PROVE TaskStep(t)
  BY <1>4 DEF Active, Terminal
<1>5. ASSUME NEW scope \in Scopes,
             CancelActiveTasks(scope) \/ PauseActiveTasks(scope) \/ ResumeWaitingTasks(scope)
      PROVE TaskStep(t)
  <2>1. /\ \A open : InScope(scope, open) \in SUBSET Tasks
        /\ \A open, u : u \in InScope(scope, open) => status[u] \in open
    BY DEF Scopes, InScope
  <2>2. /\ InScope(scope, Active) \in SUBSET Tasks
        /\ InScope(scope, Active \ {"waiting_user"}) \in SUBSET Tasks
        /\ InScope(scope, {"waiting_user"}) \in SUBSET Tasks
        /\ \A u \in InScope(scope, Active) : status[u] \in Active
        /\ \A u \in InScope(scope, Active \ {"waiting_user"}) : status[u] \in Active
        /\ \A u \in InScope(scope, {"waiting_user"}) : status[u] \in Active
    BY <2>1 DEF Active
  <2> QED
    BY <1>4, <1>5, <2>2 DEF CancelActiveTasks, PauseActiveTasks, ResumeWaitingTasks, StopTasks
<1>6. ASSUME NEW u \in Tasks, RecordFailure(u) PROVE TaskStep(t)
  BY <1>6 DEF RecordFailure, TypeOK, Active, Terminal
<1>7. ASSUME NEW u \in Tasks, NEW from \in Roles, NEW to \in Roles, HandOffTask(u, from, to)
      PROVE TaskStep(t)
  <2>1. /\ status[u] \notin Terminal /\ to \notin Attempted(u, owner[u]) /\ status[u] # "none"
        /\ status' = [status EXCEPT ![u] = "in_progress"]
        /\ owner' = [owner EXCEPT ![u] = to]
    BY <1>7 DEF HandOffTask, MayHandOff
  <2>2. to \notin owned[u]
    BY <2>1 DEF RowsNameOwners
  <2> QED BY <2>1, <2>2 DEF TypeOK
<1> QED
  BY <1>1, <1>2, <1>3, <1>5, <1>6, <1>7
  DEF Next, BeginAgentRun, StartAgentRun, CloseAgentRun, taskVars

(* A finished task is never reopened, whatever races for it.                 *)
THEOREM FinishedForGood == Spec => TerminalIsFinal
<1>1. IInv /\ [Next]_taskVars
        => [\A t \in Tasks : status[t] \in Terminal => status'[t] = status[t]]_taskVars
  BY StepsKeep DEF TaskStep
<1> QED BY <1>1, Invariance, PTL DEF Spec, TerminalIsFinal

(* The anti-cycle guard of handoff_task is complete: a chain of handoffs never
   comes back to a role, however long it is.                                 *)
THEOREM AntiCycle == Spec => NeverOwnedTwice
<1>1. IInv /\ [Next]_taskVars
        => [\A t \in Tasks : owner'[t] # owner[t] => owner'[t] \notin owned[t]]_taskVars
  BY StepsKeep DEF TaskStep
<1> QED BY <1>1, Invariance, PTL DEF Spec, NeverOwnedTwice
=============================================================================
