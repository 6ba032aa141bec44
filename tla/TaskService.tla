----------------------------- MODULE TaskService ----------------------------
(***************************************************************************)
(* The durable tasks of one group: src/src/tasks/service.py and            *)
(* src/src/tasks/handoff.py over the tables tasks, task_dependencies,      *)
(* task_handoffs and task_agent_runs.  Every operation is one transaction  *)
(* or one statement, except start_agent_run, which reads the task and      *)
(* upserts the run in two.  Callers are free to call anything at any time; *)
(* GroupWork restricts them to what the orchestrator does.                 *)
(***************************************************************************)
EXTENDS Naturals

CONSTANTS
  Tasks,          \* task ids
  Roles,          \* manager, marketing, advisor
  NoRole,         \* the owner of a task not created yet
  MaxRetries,     \* tasks.max_retries
  MaxStarts       \* bound: agent runs started

ASSUME NoRoleAssumption == NoRole \notin Roles
ASSUME RetriesAssumption == MaxRetries \in Nat \ {0}
ASSUME StartsAssumption == MaxStarts \in Nat

VARIABLES
  status,         \* tasks.status, "none" before create_task
  owner,          \* tasks.current_owner
  deps,           \* task_dependencies: the tasks a task depends on
  handoffs,       \* task_handoffs rows
  retries,        \* tasks.retry_count
  runs,           \* task_agent_runs.status per task and role
  starting,       \* start_agent_run calls between their read and their upsert
  starts,         \* agent runs started so far (bound)
  owned           \* roles that ever owned a task (history)

taskVars == <<status, owner, deps, handoffs, retries, runs, starting, starts, owned>>

Active == {"todo", "in_progress", "blocked", "waiting_user"}
Terminal == {"done", "failed", "cancelled"}
RunStatus == {"none", "running", "succeeded", "failed", "cancelled"}

(* _ALLOWED_TRANSITIONS.                                                     *)
Allowed(s) ==
  CASE s = "todo" -> {"in_progress", "blocked", "waiting_user", "done", "failed", "cancelled"}
    [] s = "in_progress" -> {"blocked", "waiting_user", "done", "failed", "cancelled"}
    [] s = "blocked" -> {"todo", "in_progress", "waiting_user", "failed", "cancelled"}
    [] s = "waiting_user" -> {"todo", "in_progress", "cancelled"}
    [] OTHER -> {}

Init == /\ status = [t \in Tasks |-> "none"]
        /\ owner = [t \in Tasks |-> NoRole]
        /\ deps = [t \in Tasks |-> {}]
        /\ handoffs = [t \in Tasks |-> {}]
        /\ retries = [t \in Tasks |-> 0]
        /\ runs = [t \in Tasks |-> [r \in Roles |-> "none"]]
        /\ starting = {}
        /\ starts = 0
        /\ owned = [t \in Tasks |-> {}]

DependenciesDone(t) == \A d \in deps[t] : status[d] = "done"

-----------------------------------------------------------------------------
(* create_task refuses a dependency that does not exist.                     *)
CreateTask(t, role, needs) ==
  /\ status[t] = "none"
  /\ \A d \in needs : status[d] # "none"
  /\ status' = [status EXCEPT ![t] = "todo"]
  /\ owner' = [owner EXCEPT ![t] = role]
  /\ deps' = [deps EXCEPT ![t] = needs]
  /\ owned' = [owned EXCEPT ![t] = {role}]
  /\ UNCHANGED <<handoffs, retries, runs, starting, starts>>

MayMove(t, new) ==
  /\ new \in Allowed(status[t])
  /\ new \in {"in_progress", "done"} => DependenciesDone(t)

(* update_task_status: a move that is not allowed changes nothing.           *)
UpdateTaskStatus(t, new) ==
  /\ status[t] # "none"
  /\ status' = IF MayMove(t, new) THEN [status EXCEPT ![t] = new] ELSE status
  /\ UNCHANGED <<owner, deps, handoffs, retries, runs, starting, starts, owned>>

(* The tasks of a control command (_active_task_ids): those in scope, which is
   every task of the group or the one task the command names.                *)
InScope(scope, open) == {t \in scope : status[t] \in open}

(* A stop or a pause ends the runs of the tasks it reaches.                  *)
StopTasks(hit, new) ==
  /\ status' = [t \in Tasks |-> IF t \in hit THEN new ELSE status[t]]
  /\ runs' = [t \in Tasks |-> [r \in Roles |->
                IF t \in hit /\ runs[t][r] = "running" THEN "cancelled" ELSE runs[t][r]]]
  /\ UNCHANGED <<owner, deps, handoffs, retries, starting, starts, owned>>

(* Mutant: a failed task counts as active.                                   *)
CancelAnyOpen(scope) ==
  StopTasks(InScope(scope, Active \cup {"failed"}), "cancelled")

(* cancel_active_tasks; cancel_task is the case of one task.                 *)
CancelActiveTasks(scope) == StopTasks(InScope(scope, Active), "cancelled")

(* pause_active_tasks; pause_task is the case of one task.                   *)
PauseActiveTasks(scope) == StopTasks(InScope(scope, Active \ {"waiting_user"}), "waiting_user")

ResumeWaitingTasks(scope) ==
  LET hit == InScope(scope, {"waiting_user"}) IN
  /\ status' = [t \in Tasks |-> IF t \in hit THEN "todo" ELSE status[t]]
  /\ UNCHANGED <<owner, deps, handoffs, retries, runs, starting, starts, owned>>

-----------------------------------------------------------------------------
(* start_agent_run reads the task ...                                        *)
BeginAgentRun(t, role) ==
  /\ status[t] = "in_progress"
  /\ starts < MaxStarts
  /\ starting' = starting \cup {<<t, role>>}
  /\ starts' = starts + 1
  /\ UNCHANGED <<status, owner, deps, handoffs, retries, runs, owned>>

(* ... and upserts its run, whatever the task is by then.                    *)
StartAgentRun(t, role) ==
  /\ <<t, role>> \in starting
  /\ starting' = starting \ {<<t, role>>}
  /\ runs' = [runs EXCEPT ![t][role] = "running"]
  /\ UNCHANGED <<status, owner, deps, handoffs, retries, starts, owned>>

(* complete_agent_run, fail_agent_run and cancel_agent_run close a running run
   and change nothing if the run was stopped.                                *)
CloseAgentRun(t, role, result) ==
  /\ runs' = IF runs[t][role] = "running" THEN [runs EXCEPT ![t][role] = result] ELSE runs
  /\ UNCHANGED <<status, owner, deps, handoffs, retries, starting, starts, owned>>

(* Mutant: one retry too many.                                               *)
StatusAfterOneMore(count) == IF count <= MaxRetries THEN "blocked" ELSE "failed"

StatusAfter(count) == IF count < MaxRetries THEN "blocked" ELSE "failed"

(* record_failure does not ask _ALLOWED_TRANSITIONS.                         *)
RecordFailure(t) ==
  /\ status[t] \in Active
  /\ retries' = [retries EXCEPT ![t] = @ + 1]
  /\ status' = [status EXCEPT ![t] = StatusAfter(retries[t] + 1)]
  /\ UNCHANGED <<owner, deps, handoffs, runs, starting, starts, owned>>

-----------------------------------------------------------------------------
(* Mutant: the chain is read from its receivers only.                        *)
Receivers(t, from) == {from} \cup {h.to : h \in handoffs[t]}

(* The roles of the chain so far.                                            *)
Attempted(t, from) == {from} \cup {h.from : h \in handoffs[t]} \cup {h.to : h \in handoffs[t]}

(* Mutant: a handoff starts a task whatever it depends on.                   *)
MayHandOffUngated(t, from, to) ==
  /\ to # from /\ owner[t] = from
  /\ status[t] \notin Terminal
  /\ to \notin Attempted(t, from)

MayHandOff(t, from, to) ==
  /\ to # from /\ owner[t] = from
  /\ status[t] \notin Terminal
  /\ DependenciesDone(t)
  /\ to \notin Attempted(t, from)

(* handoff_task, when it accepts; a refused handoff changes nothing.          *)
HandOffTask(t, from, to) ==
  /\ status[t] # "none" /\ MayHandOff(t, from, to)
  /\ handoffs' = [handoffs EXCEPT ![t] = @ \cup {[from |-> from, to |-> to]}]
  /\ owner' = [owner EXCEPT ![t] = to]
  /\ status' = [status EXCEPT ![t] = "in_progress"]
  /\ owned' = [owned EXCEPT ![t] = @ \cup {to}]
  /\ UNCHANGED <<deps, retries, runs, starting, starts>>

-----------------------------------------------------------------------------
Scopes == {Tasks} \cup {{t} : t \in Tasks}

Next ==
  \/ \E t \in Tasks, role \in Roles, needs \in SUBSET Tasks : CreateTask(t, role, needs)
  \/ \E t \in Tasks, new \in Active \cup Terminal : UpdateTaskStatus(t, new)
  \/ \E scope \in Scopes :
       \/ CancelActiveTasks(scope)
       \/ PauseActiveTasks(scope)
       \/ ResumeWaitingTasks(scope)
  \/ \E t \in Tasks, role \in Roles :
       \/ BeginAgentRun(t, role)
       \/ StartAgentRun(t, role)
       \/ \E result \in {"succeeded", "failed", "cancelled"} : CloseAgentRun(t, role, result)
  \/ \E t \in Tasks : RecordFailure(t)
  \/ \E t \in Tasks, from, to \in Roles : HandOffTask(t, from, to)

Spec == Init /\ [][Next]_taskVars

-----------------------------------------------------------------------------
(* Properties.                                                               *)

(* Every variable keeps its shape, and a task fails for good when its retries
   are used up.                                                              *)
TypeOK ==
  /\ status \in [Tasks -> Active \cup Terminal \cup {"none"}]
  /\ owner \in [Tasks -> Roles \cup {NoRole}]
  /\ deps \in [Tasks -> SUBSET Tasks]
  /\ handoffs \in [Tasks -> SUBSET [from : Roles, to : Roles]]
  /\ retries \in [Tasks -> 0..MaxRetries]
  /\ runs \in [Tasks -> [Roles -> RunStatus]]
  /\ starting \subseteq Tasks \X Roles
  /\ starts \in 0..MaxStarts
  /\ owned \in [Tasks -> SUBSET Roles]
  /\ \A t \in Tasks : retries[t] = MaxRetries => status[t] = "failed"

(* A task that runs or is done has all it depends on done, by whatever way it
   was started: an update, a handoff, a resume (README.md:235).              *)
DependenciesGate ==
  \A t \in Tasks : status[t] \in {"in_progress", "done"} => DependenciesDone(t)

(* Nothing reopens or relabels a finished task: no update, control command,
   retry or handoff (README.md:236).                                         *)
TerminalIsFinal ==
  [][\A t \in Tasks : status[t] \in Terminal => status'[t] = status[t]]_taskVars

(* A task is never handed to a role that owned it before: the guard computed
   from the task_handoffs rows sees the whole chain, the first owner included. *)
NeverOwnedTwice ==
  [][\A t \in Tasks : owner'[t] # owner[t] => owner'[t] \notin owned[t]]_taskVars
=============================================================================
