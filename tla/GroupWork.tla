------------------------------ MODULE GroupWork -----------------------------
(***************************************************************************)
(* The orchestrator (src/src/core/orchestrator.py) on one group's messages *)
(* and control commands, over the group's tasks.  Work messages are served *)
(* one at a time under the group's lock; stop, pause and resume pass it by *)
(* and act through the group's cancel version and the task rows.  A step   *)
(* ends where the code awaits the database, an agent or a send.  Database  *)
(* calls take one first-come lock (src/src/storage/sqlite.py), so nothing  *)
(* that begins after a control command moved the version can reach the     *)
(* tasks before the command's transaction: a command is one step.          *)
(*                                                                         *)
(* What work a message asks for (routing, analysis, conflict keywords) is  *)
(* given by the constants Kind, Team and Conflicting; whether it is no     *)
(* work at all is left open at each run, and what an agent answers is      *)
(* abstracted to whether it answers or raises.  A run that raises fails    *)
(* its event, and another bot runs the message again (EventLease).         *)
(***************************************************************************)
EXTENDS TaskService, LoopGuard, Sequences

CONSTANTS
  Messages,       \* work messages of the group
  NoMessage,      \* the lock is free
  NoTask,         \* a run has no task yet
  Kind,           \* "single", "delegated" or "collective", for each message
  Team,           \* the roles of each message, the coordinator first
  Conflicting,    \* messages with a conflict keyword
  ThreadOf,       \* the thread of each message; a reply is in its parent's
  MaxRuns,        \* bound: runs of a message, one bot after the other
  MaxDisturbances \* bound: control commands and crashes of the process

ASSUME NullAssumption == NoMessage \notin Messages /\ NoTask \notin Tasks
ASSUME TeamAssumption ==
  \A m \in Messages : /\ Kind[m] \in {"single", "delegated", "collective"}
                      /\ Team[m] \in Seq(Roles) /\ Len(Team[m]) > 0
                      /\ Kind[m] # "single" => Len(Team[m]) > 1
                      /\ Kind[m] = "collective" =>
                           \A i, j \in 1..Len(Team[m]) : Team[m][i] = Team[m][j] => i = j
ASSUME ThreadAssumption == ThreadOf \in [Messages -> Threads]
ASSUME ConflictAssumption == Conflicting \subseteq Messages
ASSUME BoundsAssumption ==
  MaxRuns \in Nat \ {0} /\ MaxDisturbances \in Nat

VARIABLES
  version,        \* _group_cancel_versions of the group
  lock,           \* _group_locks of the group: the message that holds it
  pc,             \* where each message's run is
  attempt,        \* runs of each message so far
  cancelVersion,  \* the version each run read when it began
  work,           \* the task each run created, or its message conflicts with
  turn,           \* the role of the team whose turn it is
  contributed,    \* roles that contributed to each run
  failures,       \* roles that failed in each run
  disturbances,   \* control commands and crashes so far (bound)
  origin,         \* conversation_message_map: the message of each task
  left,           \* tasks whose run ended with the process (history)
  lateSends,      \* agents' responses each run sent after the version moved (history)
  lateNotices,    \* notices each run sent after the version moved (history)
  lateGreetings,  \* greetings each run sent after the version moved (history)
  named           \* tasks some stop or pause was about (history)

runVars == <<pc, attempt, cancelVersion, work, turn, contributed, failures>>
lateVars == <<lateSends, lateNotices, lateGreetings>>
historyVars == <<lateVars, named>>
vars == <<taskVars, threadVars, runVars, version, lock, disturbances, origin, left, historyVars>>

GroupInit ==
  /\ Init /\ ThreadsInit
  /\ version = 0 /\ lock = NoMessage
  /\ pc = [m \in Messages |-> "new"]
  /\ attempt = [m \in Messages |-> 1]
  /\ cancelVersion = [m \in Messages |-> 0]
  /\ work = [m \in Messages |-> NoTask]
  /\ turn = [m \in Messages |-> 1]
  /\ contributed = [m \in Messages |-> {}]
  /\ failures = [m \in Messages |-> {}]
  /\ disturbances = 0 /\ left = {}
  /\ origin = [t \in Tasks |-> NoMessage]
  /\ named = {}
  /\ lateSends = [m \in Messages |-> 0] /\ lateNotices = [m \in Messages |-> 0]
  /\ lateGreetings = [m \in Messages |-> 0]

-----------------------------------------------------------------------------
(* Steps of a run.                                                           *)

(* Mutant: a run never looks at the version.                                 *)
NeverCancelled(m) == FALSE

WasCancelled(m) == version # cancelVersion[m]
TaskIsCancelled(m) == status[work[m]] = "cancelled"

Role(m) == Team[m][turn[m]]
Collective(m) == Kind[m] = "collective"
InTurn(m) == Collective(m) /\ turn[m] <= Len(Team[m])

Go(m, place) == pc' = [pc EXCEPT ![m] = place] /\ UNCHANGED <<lock, attempt>>

(* The run returns: the lock is released.                                    *)
Finish(m) ==
  /\ pc' = [pc EXCEPT ![m] = "returned"]
  /\ lock' = NoMessage
  /\ UNCHANGED attempt

(* Mutant: an exception leaves the lock held.                                *)
FailHolding(m) ==
  /\ IF attempt[m] < MaxRuns
       THEN pc' = [pc EXCEPT ![m] = "new"] /\ attempt' = [attempt EXCEPT ![m] = @ + 1]
       ELSE pc' = [pc EXCEPT ![m] = "failed"] /\ UNCHANGED attempt
  /\ UNCHANGED lock

(* The run raises: the lock is released, the event failed, and another bot, if
   one is left, takes the message over.                                      *)
Fail(m) ==
  /\ IF attempt[m] < MaxRuns
       THEN pc' = [pc EXCEPT ![m] = "new"] /\ attempt' = [attempt EXCEPT ![m] = @ + 1]
       ELSE pc' = [pc EXCEPT ![m] = "failed"] /\ UNCHANGED attempt
  /\ lock' = NoMessage

(* A message is sent; counts is how many of its sort each run sent too late. *)
CountLate(counts, m) == [counts EXCEPT ![m] = IF version # cancelVersion[m] THEN @ + 1 ELSE @]

(* An agent's response is sent.                                              *)
Respond(m) ==
  /\ lateSends' = CountLate(lateSends, m)
  /\ UNCHANGED <<lateNotices, lateGreetings, named>>

Kept == UNCHANGED <<version, disturbances, origin, left>>
DataKept == UNCHANGED <<cancelVersion, work, turn, contributed, failures>>

(* handle_incoming_message: the version is read, then the lock is waited for. *)
Receive(m) ==
  /\ pc[m] = "new"
  /\ Go(m, "queued")
  /\ cancelVersion' = [cancelVersion EXCEPT ![m] = version]
  /\ work' = [work EXCEPT ![m] = NoTask]
  /\ turn' = [turn EXCEPT ![m] = 1]
  /\ contributed' = [contributed EXCEPT ![m] = {}]
  /\ failures' = [failures EXCEPT ![m] = {}]
  /\ lateSends' = [lateSends EXCEPT ![m] = 0]
  /\ lateNotices' = [lateNotices EXCEPT ![m] = 0]
  /\ lateGreetings' = [lateGreetings EXCEPT ![m] = 0]
  /\ Kept /\ UNCHANGED <<threadVars, taskVars, named>>

TakeLock(m) ==
  /\ pc[m] = "queued" /\ lock = NoMessage
  /\ pc' = [pc EXCEPT ![m] = "entered"]
  /\ lock' = m
  /\ Kept /\ DataKept /\ UNCHANGED <<threadVars, taskVars, attempt, historyVars>>

(* One notice answers: an approval command, a memory directive, a conflict with
   no task to name, or the budget's refusal.                                 *)
Decline(m) ==
  /\ pc[m] = "entered"
  /\ Go(m, "notice")
  /\ Kept /\ DataKept /\ UNCHANGED <<threadVars, taskVars, historyVars>>

(* A social message: its roles greet from a table, or answer as agents.      *)
Socialize(m) ==
  /\ pc[m] = "entered"
  /\ Go(m, "greet") \/ Go(m, "chat")
  /\ Kept /\ DataKept /\ UNCHANGED <<threadVars, taskVars, historyVars>>

(* The next role responds, or all have.                                      *)
NextRole(m) ==
  IF turn[m] < Len(Team[m])
  THEN turn' = [turn EXCEPT ![m] = @ + 1] /\ UNCHANGED <<pc, lock, attempt>>
  ELSE Finish(m) /\ UNCHANGED turn

RestKept == UNCHANGED <<cancelVersion, work, contributed, failures>>

(* The next role's greeting is sent; the version is not looked at.           *)
Greet(m) ==
  /\ pc[m] = "greet"
  /\ \/ Fail(m) /\ UNCHANGED <<turn, historyVars>>
     \/ /\ NextRole(m)
        /\ lateGreetings' = CountLate(lateGreetings, m)
        /\ UNCHANGED <<lateSends, lateNotices, named>>
  /\ Kept /\ RestKept /\ UNCHANGED <<threadVars, taskVars>>

(* The next role's agent answers, and the version is looked at before its
   response is sent.                                                         *)
Chat(m) ==
  /\ pc[m] = "chat"
  /\ \/ Fail(m) /\ UNCHANGED <<turn, historyVars>>
     \/ WasCancelled(m) /\ Finish(m) /\ UNCHANGED <<turn, historyVars>>
     \/ ~WasCancelled(m) /\ Respond(m) /\ NextRole(m)
  /\ Kept /\ RestKept /\ UNCHANGED <<threadVars, taskVars>>

InProgress == {t \in Tasks : status[t] = "in_progress"}

(* detect_conflict, over the tasks listed as active.                         *)
SeeConflict(m, t) ==
  /\ pc[m] = "entered" /\ m \in Conflicting /\ t \in InProgress
  /\ work' = [work EXCEPT ![m] = t]
  /\ Go(m, "conflict")
  /\ Kept /\ UNCHANGED <<threadVars, taskVars, cancelVersion, turn, contributed, failures, historyVars>>

PauseConflicting(m) ==
  /\ pc[m] = "conflict"
  /\ UpdateTaskStatus(work[m], "waiting_user")
  /\ Go(m, "notice")
  /\ Kept /\ DataKept /\ UNCHANGED <<threadVars, historyVars>>

Begin(m) ==
  /\ pc[m] = "entered"
  /\ m \in Conflicting => InProgress = {}
  /\ Go(m, IF Collective(m) THEN "create" ELSE "primary")
  /\ Kept /\ DataKept /\ UNCHANGED <<threadVars, taskVars, historyVars>>

(* The first agent of a message that is not collective.                      *)
AskPrimary(m) ==
  /\ pc[m] = "primary"
  /\ \/ Fail(m) /\ UNCHANGED historyVars
     \/ WasCancelled(m) /\ Finish(m) /\ UNCHANGED historyVars
     \/ /\ ~WasCancelled(m)
        /\ Respond(m)
        /\ IF Kind[m] = "delegated" THEN Go(m, "create") ELSE Finish(m)
  /\ Kept /\ DataKept /\ UNCHANGED <<threadVars, taskVars>>

FreshTask == CHOOSE t \in Tasks : status[t] = "none"

Create(m) ==
  /\ pc[m] = "create" /\ \E t \in Tasks : status[t] = "none"
  /\ CreateTask(FreshTask, Team[m][1], {})
  /\ work' = [work EXCEPT ![m] = FreshTask]
  /\ origin' = [origin EXCEPT ![FreshTask] = m]
  /\ Go(m, "start")
  /\ UNCHANGED <<threadVars, cancelVersion, turn, contributed, failures, version,
                 disturbances, left, historyVars>>

Start(m) ==
  /\ pc[m] = "start"
  /\ UpdateTaskStatus(work[m], "in_progress")
  /\ Go(m, IF Collective(m) THEN "turn" ELSE "prepare")
  /\ Kept /\ DataKept /\ UNCHANGED <<threadVars, historyVars>>

-----------------------------------------------------------------------------
(* Delegated work.                                                           *)
Prepare(m) ==
  /\ pc[m] = "prepare"
  /\ Go(m, IF WasCancelled(m) THEN "cancelling" ELSE "handoff")
  /\ Kept /\ DataKept /\ UNCHANGED <<threadVars, taskVars, historyVars>>

HandOff(m) ==
  /\ pc[m] = "handoff"
  /\ \/ HandOffTask(work[m], Team[m][1], Team[m][2]) /\ Go(m, "target")
     \/ /\ ~MayHandOff(work[m], Team[m][1], Team[m][2])
        /\ UNCHANGED taskVars /\ Go(m, "block")
  /\ Kept /\ DataKept /\ UNCHANGED <<threadVars, historyVars>>

(* An agent works: it raises and the run goes on at "raised", or it answers and
   the version is looked at before anything else happens.                    *)
AgentEnds(m, raised, cancelled) ==
  \/ Go(m, raised)
  \/ Go(m, IF WasCancelled(m) THEN cancelled ELSE "check")

AskTarget(m) ==
  /\ pc[m] = "target"
  /\ AgentEnds(m, "blockraise", "cancelling")
  /\ Kept /\ DataKept /\ UNCHANGED <<threadVars, taskVars, historyVars>>

-----------------------------------------------------------------------------
(* Collective work.                                                          *)

(* A turn of the loop over the team begins, or the loop is over.             *)
Turn(m) ==
  /\ pc[m] = "turn"
  /\ Go(m, IF ~InTurn(m) THEN "wrap" ELSE IF WasCancelled(m) THEN "stopping" ELSE "look")
  /\ Kept /\ DataKept /\ UNCHANGED <<threadVars, taskVars, historyVars>>

(* The task is read again, then the thread's budget, then the loop guard asked
   for a turn.                                                               *)
Look(m) ==
  /\ pc[m] = "look"
  /\ \/ TaskIsCancelled(m) /\ Go(m, "stopping") /\ UNCHANGED threadVars
     \/ ~TaskIsCancelled(m) /\ Go(m, "wrap") /\ UNCHANGED threadVars
     \/ ~TaskIsCancelled(m) /\ Go(m, "wrap") /\ RefuseTurn(ThreadOf[m], Role(m))
     \/ ~TaskIsCancelled(m) /\ Go(m, "begin") /\ TakeTurn(ThreadOf[m], Role(m))
  /\ Kept /\ DataKept /\ UNCHANGED <<taskVars, historyVars>>

(* start_agent_run raises if the task is not in progress, and nothing catches it. *)
BeginRun(m) ==
  /\ pc[m] = "begin"
  /\ \/ BeginAgentRun(work[m], Role(m)) /\ Go(m, "startrun")
     \/ status[work[m]] # "in_progress" /\ Fail(m) /\ UNCHANGED taskVars
  /\ Kept /\ DataKept /\ UNCHANGED <<threadVars, historyVars>>

StartRun(m) ==
  /\ pc[m] = "startrun"
  /\ StartAgentRun(work[m], Role(m))
  /\ Go(m, "ask")
  /\ Kept /\ DataKept /\ UNCHANGED <<threadVars, historyVars>>

Ask(m) ==
  /\ pc[m] = "ask"
  /\ AgentEnds(m, "failrun", "stopping")
  /\ Kept /\ DataKept /\ UNCHANGED <<threadVars, taskVars, historyVars>>

(* Where a run goes on when it may not send, could not send, and has sent.   *)
AfterCancelled(m) == IF InTurn(m) THEN "stopping" ELSE "cancelling"
AfterRaise(m) == IF InTurn(m) THEN "failrun" ELSE IF Collective(m) THEN "block" ELSE "blockraise"
AfterSend(m) == IF InTurn(m) THEN "complete" ELSE "close"

(* The task is read again before a response is sent.                         *)
CheckTask(m) ==
  /\ pc[m] = "check"
  /\ Go(m, IF TaskIsCancelled(m) THEN AfterCancelled(m) ELSE "send")
  /\ Kept /\ DataKept /\ UNCHANGED <<threadVars, taskVars, historyVars>>

Send(m) ==
  /\ pc[m] = "send"
  /\ \/ Go(m, AfterRaise(m)) /\ UNCHANGED historyVars
     \/ Respond(m) /\ Go(m, AfterSend(m))
  /\ Kept /\ DataKept /\ UNCHANGED <<threadVars, taskVars>>

(* The contribution counts whether or not its run was still running.         *)
Complete(m) ==
  /\ pc[m] = "complete"
  /\ CloseAgentRun(work[m], Role(m), "succeeded")
  /\ contributed' = [contributed EXCEPT ![m] = @ \cup {Role(m)}]
  /\ turn' = [turn EXCEPT ![m] = @ + 1]
  /\ Go(m, "turn")
  /\ Kept /\ UNCHANGED <<threadVars, cancelVersion, work, failures, historyVars>>

FailRun(m) ==
  /\ pc[m] = "failrun"
  /\ CloseAgentRun(work[m], Role(m), "failed")
  /\ failures' = [failures EXCEPT ![m] = @ \cup {Role(m)}]
  /\ turn' = [turn EXCEPT ![m] = @ + 1]
  /\ Go(m, "turn")
  /\ Kept /\ UNCHANGED <<threadVars, cancelVersion, work, contributed, historyVars>>

(* Mutant: whoever did not get its turn is not missed.                       *)
AnyContributed(m) == contributed[m] # {}

AllContributed(m) == Cardinality(contributed[m]) = Len(Team[m])

(* After the loop: failures block the task, a missing role suspends it, and a
   complete team goes on to the synthesis if the budget and the guard agree.  *)
Wrap(m) ==
  /\ pc[m] = "wrap"
  /\ \/ failures[m] # {} /\ Go(m, "block") /\ UNCHANGED threadVars
     \/ failures[m] = {} /\ Go(m, "suspend") /\ UNCHANGED threadVars
     \/ /\ failures[m] = {} /\ AllContributed(m)
        /\ \/ TakeTurn(ThreadOf[m], Team[m][1]) /\ Go(m, "synthesize")
           \/ RefuseTurn(ThreadOf[m], Team[m][1]) /\ Go(m, "suspend")
  /\ turn' = [turn EXCEPT ![m] = Len(Team[m]) + 1]
  /\ Kept /\ UNCHANGED <<taskVars, cancelVersion, work, contributed, failures, historyVars>>

Synthesize(m) ==
  /\ pc[m] = "synthesize"
  /\ AgentEnds(m, "block", "cancelling")
  /\ Kept /\ DataKept /\ UNCHANGED <<threadVars, taskVars, historyVars>>

-----------------------------------------------------------------------------
(* The ends of a run.                                                        *)
Close(m) ==
  /\ pc[m] = "close"
  /\ UpdateTaskStatus(work[m], "done")
  /\ Finish(m)
  /\ Kept /\ DataKept /\ UNCHANGED <<threadVars, historyVars>>

Suspend(m) ==
  /\ pc[m] = "suspend"
  /\ UpdateTaskStatus(work[m], "waiting_user")
  /\ Go(m, "notice")
  /\ Kept /\ DataKept /\ UNCHANGED <<threadVars, historyVars>>

Block(m) ==
  /\ pc[m] \in {"block", "blockraise"}
  /\ UpdateTaskStatus(work[m], "blocked")
  /\ IF pc[m] = "blockraise" THEN Fail(m)
     ELSE IF Collective(m) THEN Go(m, "notice") ELSE Finish(m)
  /\ Kept /\ DataKept /\ UNCHANGED <<threadVars, historyVars>>

(* The event is completed, so no bot runs the message again.                 *)
MarkCompleted(m) ==
  /\ pc[m] = "returned"
  /\ Go(m, "answered")
  /\ Kept /\ DataKept /\ UNCHANGED <<threadVars, taskVars, historyVars>>

(* A notice is sent, or its send raises.                                     *)
Notice(m) ==
  /\ pc[m] = "notice"
  /\ \/ Fail(m) /\ UNCHANGED historyVars
     \/ /\ Finish(m)
        /\ lateNotices' = CountLate(lateNotices, m)
        /\ UNCHANGED <<lateSends, lateGreetings, named>>
  /\ Kept /\ DataKept /\ UNCHANGED <<threadVars, taskVars>>

(* Mutant: a stopped run leaves its row in task_agent_runs alone.            *)
LeaveRun(m) ==
  /\ pc[m] = "stopping"
  /\ Go(m, "cancelling")
  /\ Kept /\ DataKept /\ UNCHANGED <<threadVars, taskVars, historyVars>>

StopRun(m) ==
  /\ pc[m] = "stopping"
  /\ CloseAgentRun(work[m], Role(m), "cancelled")
  /\ Go(m, "cancelling")
  /\ Kept /\ DataKept /\ UNCHANGED <<threadVars, historyVars>>

(* Mutant: a stopped run leaves its task to the stop.                        *)
LeaveTask(m) ==
  /\ pc[m] = "cancelling"
  /\ Finish(m)
  /\ Kept /\ DataKept /\ UNCHANGED <<threadVars, taskVars, historyVars>>

CancelTask(m) ==
  /\ pc[m] = "cancelling"
  /\ UpdateTaskStatus(work[m], "cancelled")
  /\ Finish(m)
  /\ Kept /\ DataKept /\ UNCHANGED <<threadVars, historyVars>>

-----------------------------------------------------------------------------
(* Control commands.  A stop or pause moves the version of the whole group,
   then its transaction reaches the tasks it is about.                       *)
Stops(action) == action \in {"cancel", "pause"}
Idle == {"new", "queued", "returned", "answered", "failed"}

(* A command is about every task of the group, or about the one it names, which
   may not be a task of the group at all.                                    *)
Nameable == {Tasks, {}} \cup {{t} : t \in {u \in Tasks : status[u] # "none"}}

Command(action, scope) ==
  /\ disturbances < MaxDisturbances
  /\ disturbances' = disturbances + 1
  /\ version' = IF Stops(action) THEN version + 1 ELSE version
  /\ \/ action = "cancel" /\ CancelActiveTasks(scope)
     \/ action = "pause" /\ PauseActiveTasks(scope)
     \/ action = "resume" /\ ResumeWaitingTasks(scope)
  /\ named' = IF Stops(action) THEN named \cup scope ELSE named
  /\ UNCHANGED <<threadVars, runVars, lock, origin, left, lateVars>>

(* The process dies: locks, versions and runs are gone, the rows stay as they
   are, and nothing looks for tasks or agent runs left behind at the next start.
   A message whose event was not completed is run again, answered or not.    *)
Crash ==
  /\ disturbances < MaxDisturbances
  /\ disturbances' = disturbances + 1
  /\ version' = 0 /\ lock' = NoMessage /\ starting' = {}
  /\ LET cut == {m \in Messages : pc[m] \notin {"new", "answered", "failed"}}
         again == {m \in cut : attempt[m] < MaxRuns} IN
       /\ pc' = [m \in Messages |-> IF m \in again THEN "new"
                                    ELSE IF m \in cut THEN "failed" ELSE pc[m]]
       /\ attempt' = [m \in Messages |-> IF m \in again THEN attempt[m] + 1 ELSE attempt[m]]
  /\ left' = IF lock = NoMessage THEN left ELSE left \cup ({work[lock]} \ {NoTask})
  /\ UNCHANGED <<status, owner, deps, handoffs, retries, runs, starts, owned, threadVars,
                 cancelVersion, work, turn, contributed, failures, origin, historyVars>>

-----------------------------------------------------------------------------
Work(m) ==
  \/ TakeLock(m) \/ Decline(m) \/ Begin(m)
  \/ \E t \in Tasks : SeeConflict(m, t)
  \/ PauseConflicting(m)
  \/ Socialize(m) \/ Greet(m) \/ Chat(m)
  \/ AskPrimary(m) \/ Create(m) \/ Start(m)
  \/ Prepare(m) \/ HandOff(m) \/ AskTarget(m)
  \/ Turn(m) \/ Look(m) \/ BeginRun(m) \/ StartRun(m) \/ Ask(m) \/ CheckTask(m) \/ Send(m)
  \/ Complete(m) \/ FailRun(m) \/ Wrap(m) \/ Synthesize(m)
  \/ Close(m) \/ Suspend(m) \/ Block(m) \/ Notice(m) \/ StopRun(m) \/ CancelTask(m)
  \/ MarkCompleted(m)

GroupNext ==
  \/ \E m \in Messages : Receive(m) \/ Work(m)
  \/ \E action \in {"cancel", "pause", "resume"}, scope \in Nameable : Command(action, scope)
  \/ Crash

(* The event loop runs every coroutine that can run, agents and sends return,
   and a bot that waits takes a failed message over.                         *)
GroupSpec ==
  /\ GroupInit /\ [][GroupNext]_vars
  /\ \A m \in Messages : WF_vars(Work(m)) /\ WF_vars(attempt[m] > 1 /\ Receive(m))

-----------------------------------------------------------------------------
(* Properties.                                                               *)

(* Every variable keeps its shape, and the lock belongs to exactly the run that
   is past it and has not ended.                                             *)
GroupTypeOK ==
  /\ TypeOK /\ ThreadsOK
  /\ version \in 0..MaxDisturbances /\ disturbances \in 0..MaxDisturbances
  /\ lock \in Messages \cup {NoMessage}
  /\ \A m \in Messages :
       /\ attempt[m] \in 1..MaxRuns /\ cancelVersion[m] \in 0..MaxDisturbances
       /\ work[m] \in Tasks \cup {NoTask} /\ turn[m] \in 1..Len(Team[m]) + 1
       /\ contributed[m] \cup failures[m] \subseteq Roles
       /\ lock = m <=> pc[m] \notin Idle
  /\ origin \in [Tasks -> Messages \cup {NoMessage}]

(* A task is done only if its whole team delivered in a run that did not die:
   every run of a collective task succeeded, and a delegated task ended with the
   role it was handed to, whatever pauses, resumes and crashes came in between
   (BUG_BACKLOG.md:25).                                                      *)
DoneIsComplete ==
  \A t \in Tasks : status[t] = "done" =>
    LET m == origin[t] IN
    /\ t \notin left
    /\ IF Collective(m) THEN \A i \in 1..Len(Team[m]) : runs[t][Team[m][i]] = "succeeded"
                      ELSE owner[t] = Team[m][2]

(* A task in progress is the task of the run that holds the lock: every way out
   of a run, raised or returned, closes the task it started.  As long as the
   database answers, only a crash can leave one behind.                      *)
NoOrphan ==
  \A t \in Tasks :
    status[t] = "in_progress" => t \in left \/ (lock # NoMessage /\ work[lock] = t)

(* The guard has a turn for every role of a message's first run and for its
   synthesis: no discussion is cut short that kept within the limits
   (DECISIONS.md:119-120).                                                   *)
GuardLeavesRoom ==
  \A m \in Messages :
    /\ attempt[m] = 1
    /\ pc[m] = "look" \/ (pc[m] = "wrap" /\ AllContributed(m))
    => MayContinue(ThreadOf[m], IF InTurn(m) THEN Role(m) ELSE Team[m][1])

(* After a stop or pause a run sends at most the one response it was about to
   send, and none where the version is looked at just before, as for one agent's
   answer or a social one; it sends one message at most, response or notice, and
   only collective work a response and then the notice of how its task ended
   (RELEASE_NOTES.md:11).  Greetings are the exception: those of every role may
   go out, but nothing else of that run does.                                *)
OneLateResponse ==
  \A m \in Messages :
    /\ lateSends[m] <= 1 /\ lateNotices[m] <= 1
    /\ Kind[m] = "single" \/ pc[m] = "chat" => lateSends[m] = 0
    /\ ~Collective(m) => lateSends[m] + lateNotices[m] <= 1
    /\ lateGreetings[m] <= Len(Team[m])
    /\ lateGreetings[m] > 0 => lateSends[m] = 0 /\ lateNotices[m] = 0

(* Every agent run ends, also one whose task was stopped between the read and
   the upsert of start_agent_run, unless its process dies.                   *)
RunsEnd ==
  \A t \in Tasks, r \in Roles :
    runs[t][r] = "running" ~> runs[t][r] # "running" \/ t \in left

(* Every message that entered the queue is answered or given up: no way out of
   a run keeps the group's lock.                                             *)
Drains == \A m \in Messages : pc[m] = "queued" ~> pc[m] \in {"answered", "failed"}

(* "Targeted stop/pause/resume must mutate only the requested durable task"
   (tests/test_control_targeting.py:1): a cancelled task was named.          *)
TargetedOnly == \A t \in Tasks : status[t] = "cancelled" => t \in named
=============================================================================
