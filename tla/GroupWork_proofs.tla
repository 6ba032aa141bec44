-------------------------- MODULE GroupWork_proofs --------------------------
(***************************************************************************)
(* Proofs about GroupWork, for any messages, teams, tasks, threads, limits *)
(* and bounds: types with the group's lock, tasks in progress, responses   *)
(* after a stop, finished tasks, and the turns the loop guard leaves.      *)
(***************************************************************************)
EXTENDS GroupWork, TaskService_proofs, FiniteSetTheorems

(* Places of a run: those of collective work that belong to a role's turn,
   those that are for work with a task in progress, and the rest.            *)
Seated == {"look", "begin", "startrun", "ask", "complete", "failrun", "stopping"}
Started == Seated \cup {"prepare", "handoff", "target", "turn", "check", "send", "wrap",
                        "synthesize", "close", "suspend", "block", "blockraise", "cancelling"}
WithTask == Started \cup {"start", "conflict"}
Teamed == Started \cup {"create", "start"}
Social == {"greet", "chat"}
Places == Idle \cup WithTask \cup Social \cup {"entered", "primary", "create", "notice"}

RunShape ==
  /\ pc \in [Messages -> Places]
  /\ attempt \in [Messages -> 1..MaxRuns]
  /\ cancelVersion \in [Messages -> 0..MaxDisturbances]
  /\ work \in [Messages -> Tasks \cup {NoTask}]
  /\ turn \in [Messages -> Nat \ {0}]
  /\ contributed \in [Messages -> SUBSET Roles]
  /\ failures \in [Messages -> SUBSET Roles]
  /\ lock \in Messages \cup {NoMessage}
  /\ disturbances \in 0..MaxDisturbances /\ version \in 0..disturbances
  /\ origin \in [Tasks -> Messages \cup {NoMessage}]
  /\ left \subseteq Tasks

Placed(m) ==
  /\ lock = m <=> pc[m] \notin Idle
  /\ turn[m] <= Len(Team[m]) + 1
  /\ pc[m] \in WithTask => work[m] \in Tasks
  /\ pc[m] \in Seated => InTurn(m)
  /\ pc[m] \in Teamed => Kind[m] # "single"

RunInv == RunShape /\ \A m \in Messages : Placed(m)

(* Who works has the lock.                                                   *)
LEMMA OneAtWork ==
  ASSUME RunInv, NEW m \in Messages, pc[m] \notin Idle
  PROVE  lock = m /\ \A n \in Messages \ {m} : pc[n] \in Idle
  BY DEF RunInv, Placed

(* The run goes to another place under the lock.                             *)
LEMMA GoRun ==
  ASSUME RunInv, NEW m \in Messages, NEW p \in Places \ Idle,
         pc[m] \notin Idle, Go(m, p), Kept, DataKept,
         p \in WithTask => pc[m] \in WithTask,
         p \in Seated => InTurn(m),
         p \in Teamed => Kind[m] # "single"
  PROVE  RunInv'
<1>1. RunShape'
  BY DEF RunInv, RunShape, Go, Kept, DataKept
<1>2. ASSUME NEW n \in Messages PROVE Placed(n)'
  BY DEF RunInv, RunShape, Placed, Go, Kept, DataKept, InTurn
<1> QED
  BY <1>1, <1>2 DEF RunInv

(* The run ends.                                                             *)
LEMMA EndRun ==
  ASSUME RunInv, NEW m \in Messages, pc[m] \notin Idle, Finish(m) \/ Fail(m), Kept, DataKept
  PROVE  RunInv'
<1>1. RunShape' /\ pc'[m] \in Idle /\ lock' = NoMessage
      /\ \A n \in Messages \ {m} : pc'[n] = pc[n]
  <2>1. CASE Finish(m)
    BY <2>1 DEF RunInv, RunShape, Finish, Kept, DataKept, Places, Idle
  <2>2. CASE Fail(m)
    BY <2>2, BoundsAssumption DEF RunInv, RunShape, Fail, Kept, DataKept, Places, Idle
  <2> QED
    BY <2>1, <2>2
<1>2. ASSUME NEW n \in Messages PROVE Placed(n)'
  BY <1>1, OneAtWork, NullAssumption
  DEF RunInv, Placed, DataKept, InTurn, Idle, WithTask, Started, Seated, Teamed
<1> QED
  BY <1>1, <1>2 DEF RunInv

LEMMA InitRuns == ASSUME GroupInit PROVE RunInv
<1>1. RunShape
  BY BoundsAssumption DEF GroupInit, RunShape, Places, Idle
<1>2. ASSUME NEW m \in Messages PROVE Placed(m)
  <2>1. Len(Team[m]) \in Nat
    BY TeamAssumption
  <2> QED
    BY <2>1, NullAssumption DEF GroupInit, Placed, Idle, WithTask, Started, Seated, Teamed
<1> QED
  BY <1>1, <1>2 DEF RunInv

(* A step of a social message's run: it ends, or the next role has its turn.  *)
NextTurn(m) ==
  /\ turn[m] < Len(Team[m]) /\ turn' = [turn EXCEPT ![m] = @ + 1]
  /\ UNCHANGED <<pc, lock, attempt>>

LEMMA SocialStep ==
  ASSUME NEW m \in Messages, Greet(m) \/ Chat(m)
  PROVE  /\ pc[m] \in Social /\ Kept /\ RestKept /\ UNCHANGED <<threadVars, taskVars>>
         /\ \/ (Finish(m) \/ Fail(m)) /\ UNCHANGED turn
            \/ NextTurn(m)
  BY DEF Greet, Chat, NextRole, NextTurn, Social

LEMMA SocialRuns ==
  ASSUME RunInv, NEW m \in Messages, Greet(m) \/ Chat(m)
  PROVE  RunInv'
<1>1. pc[m] \in Social /\ Kept /\ RestKept
  BY SocialStep
<1>2. CASE (Finish(m) \/ Fail(m)) /\ UNCHANGED turn
  BY <1>1, <1>2, EndRun DEF RestKept, DataKept, Social, Idle
<1>3. CASE NextTurn(m)
  <2>1. Len(Team[m]) \in Nat /\ turn[m] \in Nat \ {0}
    BY TeamAssumption DEF RunInv, RunShape
  <2>2. RunShape'
    BY <1>1, <1>3, <2>1 DEF NextTurn, RunInv, RunShape, Kept, RestKept
  <2>3. ASSUME NEW n \in Messages PROVE Placed(n)'
    BY <1>1, <1>3, <2>1
    DEF NextTurn, RunInv, RunShape, Placed, RestKept, InTurn, Social, Seated
  <2> QED
    BY <2>2, <2>3 DEF RunInv
<1> QED
  BY <1>2, <1>3, SocialStep

LEMMA WorkRuns ==
  ASSUME RunInv, NEW m \in Messages, Work(m) PROVE RunInv'
<1> USE DEF Places, Idle, Social, WithTask, Started, Seated, Teamed
<1>0. /\ pc[m] \in Places /\ Len(Team[m]) \in Nat /\ Kind[m] \in {"single", "delegated", "collective"}
      /\ turn[m] \in Nat \ {0} /\ Placed(m)
  BY TeamAssumption DEF RunInv, RunShape
<1>1. CASE TakeLock(m)
  <2>1. RunShape'
    BY <1>1 DEF TakeLock, RunInv, RunShape, Kept, DataKept
  <2>2. ASSUME NEW n \in Messages PROVE Placed(n)'
    BY <1>1, NullAssumption DEF TakeLock, RunInv, RunShape, Placed, Kept, DataKept, InTurn
  <2> QED
    BY <2>1, <2>2 DEF RunInv
<1>2. CASE Decline(m) \/ Socialize(m) \/ Begin(m) \/ PauseConflicting(m)
  BY <1>0, <1>2, GoRun DEF Decline, Socialize, Begin, PauseConflicting, Collective
<1>3. ASSUME NEW t \in Tasks, SeeConflict(m, t) PROVE RunInv'
  <2>1. RunShape'
    BY <1>3 DEF SeeConflict, RunInv, RunShape, Go, Kept
  <2>2. ASSUME NEW n \in Messages PROVE Placed(n)'
    BY <1>3 DEF SeeConflict, RunInv, RunShape, Placed, Go, Kept, InTurn
  <2> QED
    BY <2>1, <2>2 DEF RunInv
<1>4. CASE AskPrimary(m)
  BY <1>0, <1>4, GoRun, EndRun DEF AskPrimary
<1>5. CASE Create(m)
  <2>1. FreshTask \in Tasks
    BY <1>5 DEF Create, FreshTask
  <2>2. RunShape'
    BY <1>5, <2>1 DEF Create, RunInv, RunShape, Go
  <2>3. ASSUME NEW n \in Messages PROVE Placed(n)'
    BY <1>0, <1>5, <2>1 DEF Create, RunInv, RunShape, Placed, Go, InTurn
  <2> QED
    BY <2>2, <2>3 DEF RunInv
<1>6. CASE Start(m) \/ Prepare(m) \/ HandOff(m) \/ AskTarget(m)
  BY <1>0, <1>6, GoRun DEF Start, Prepare, HandOff, AskTarget, AgentEnds, Placed
<1>7. CASE Turn(m) \/ Look(m) \/ StartRun(m) \/ Ask(m)
  BY <1>0, <1>7, GoRun DEF Turn, Look, StartRun, Ask, AgentEnds, Placed
<1>8. CASE BeginRun(m)
  BY <1>0, <1>8, GoRun, EndRun DEF BeginRun, Placed
<1>9. CASE CheckTask(m) \/ Send(m)
  BY <1>0, <1>9, GoRun
  DEF CheckTask, Send, AfterCancelled, AfterRaise, AfterSend, Placed
<1>10. CASE Complete(m) \/ FailRun(m)
  <2>1. /\ Role(m) \in Roles /\ turn[m] <= Len(Team[m]) /\ pc[m] \in Seated
    BY <1>0, <1>10, TeamAssumption DEF Complete, FailRun, Placed, InTurn, Role
  <2>2. /\ pc' = [pc EXCEPT ![m] = "turn"] /\ turn' = [turn EXCEPT ![m] = @ + 1]
        /\ \/ /\ contributed' = [contributed EXCEPT ![m] = @ \cup {Role(m)}]
              /\ failures' = failures
           \/ /\ failures' = [failures EXCEPT ![m] = @ \cup {Role(m)}]
              /\ contributed' = contributed
        /\ UNCHANGED <<attempt, cancelVersion, work, lock, disturbances, version, origin, left>>
    BY <1>10 DEF Complete, FailRun, Go, Kept
  <2>3. /\ contributed' \in [Messages -> SUBSET Roles]
        /\ failures' \in [Messages -> SUBSET Roles]
    <3>1. \A f \in [Messages -> SUBSET Roles] :
            [f EXCEPT ![m] = @ \cup {Role(m)}] \in [Messages -> SUBSET Roles]
      BY <2>1
    <3> QED
      BY <2>2, <3>1 DEF RunInv, RunShape
  <2>4. turn' \in [Messages -> Nat \ {0}]
    BY <1>0, <2>2 DEF RunInv, RunShape
  <2>5. pc' \in [Messages -> Places]
    BY <2>2 DEF RunInv, RunShape
  <2>6. RunShape'
    BY <2>2, <2>3, <2>4, <2>5 DEF RunInv, RunShape
  <2>7. ASSUME NEW n \in Messages PROVE Placed(n)'
    <3>1. CASE n = m
      BY <1>0, <2>1, <2>2, <3>1 DEF RunInv, RunShape, Placed
    <3>2. CASE n # m
      BY <2>2, <3>2 DEF RunInv, RunShape, Placed, InTurn
    <3> QED
      BY <3>1, <3>2
  <2> QED
    BY <2>6, <2>7 DEF RunInv
<1>11. CASE Wrap(m)
  <2>1. pc[m] = "wrap" /\ \E p \in {"block", "suspend", "synthesize"} : Go(m, p)
    BY <1>11 DEF Wrap
  <2>2. RunShape'
    BY <1>0, <1>11, <2>1 DEF Wrap, RunInv, RunShape, Go, Kept
  <2>3. ASSUME NEW n \in Messages PROVE Placed(n)'
    BY <1>0, <1>11, <2>1 DEF Wrap, RunInv, RunShape, Placed, Go, Kept, InTurn
  <2> QED
    BY <2>2, <2>3 DEF RunInv
<1>12. CASE Synthesize(m) \/ Suspend(m) \/ StopRun(m)
  BY <1>0, <1>12, GoRun DEF Synthesize, Suspend, StopRun, AgentEnds, Placed
<1>13. CASE Close(m) \/ CancelTask(m) \/ Notice(m)
  BY <1>13, EndRun DEF Close, CancelTask, Notice
<1>14. CASE Block(m)
  BY <1>0, <1>14, GoRun, EndRun DEF Block
<1>15. CASE MarkCompleted(m)
  <2>1. RunShape'
    BY <1>15 DEF MarkCompleted, RunInv, RunShape, Go, Kept, DataKept
  <2>2. ASSUME NEW n \in Messages PROVE Placed(n)'
    BY <1>15 DEF MarkCompleted, RunInv, RunShape, Placed, Go, Kept, DataKept, InTurn
  <2> QED
    BY <2>1, <2>2 DEF RunInv
<1> QED
  BY <1>1, <1>2, <1>3, <1>4, <1>5, <1>6, <1>7, <1>8, <1>9, <1>10, <1>11, <1>12, <1>13, <1>14,
     <1>15, SocialRuns DEF Work

LEMMA ReceiveRuns ==
  ASSUME RunInv, NEW m \in Messages, Receive(m) PROVE RunInv'
<1> USE DEF Places, Idle, WithTask, Started, Seated, Teamed
<1>1. Len(Team[m]) \in Nat
  BY TeamAssumption
<1>2. RunShape'
  <2>1. version \in 0..MaxDisturbances
    BY BoundsAssumption DEF RunInv, RunShape
  <2> QED
    BY <2>1 DEF Receive, RunInv, RunShape, Go, Kept
<1>3. ASSUME NEW n \in Messages PROVE Placed(n)'
  BY <1>1 DEF Receive, RunInv, RunShape, Placed, Go, Kept, InTurn
<1> QED
  BY <1>2, <1>3 DEF RunInv

LEMMA CommandRuns ==
  ASSUME RunInv, NEW action, NEW scope, Command(action, scope) PROVE RunInv'
<1>1. RunShape'
  BY BoundsAssumption DEF Command, RunInv, RunShape, runVars
<1>2. ASSUME NEW n \in Messages PROVE Placed(n)'
  BY DEF Command, RunInv, Placed, InTurn, runVars
<1> QED
  BY <1>1, <1>2 DEF RunInv

LEMMA CrashRuns == ASSUME RunInv, Crash PROVE RunInv'
<1>1. RunShape'
  <2>1. pc' \in [Messages -> Places]
    BY DEF Crash, RunInv, RunShape, Places, Idle
  <2>2. attempt' \in [Messages -> 1..MaxRuns]
    BY BoundsAssumption DEF Crash, RunInv, RunShape
  <2> QED
    BY <2>1, <2>2, BoundsAssumption DEF Crash, RunInv, RunShape
<1>2. ASSUME NEW n \in Messages PROVE Placed(n)'
  <2>1. pc'[n] \in {"new", "answered", "failed"} /\ lock' = NoMessage
        /\ UNCHANGED <<turn, work>>
    BY DEF Crash
  <2> QED
    BY <2>1, NullAssumption
    DEF RunInv, Placed, InTurn, Idle, WithTask, Started, Seated, Teamed
<1> QED
  BY <1>1, <1>2 DEF RunInv

LEMMA RunsStep == ASSUME RunInv, [GroupNext]_vars PROVE RunInv'
<1>1. CASE UNCHANGED vars
  BY <1>1 DEF vars, runVars, RunInv, RunShape, Placed, InTurn
<1> QED
  BY <1>1, WorkRuns, ReceiveRuns, CommandRuns, CrashRuns DEF GroupNext

-----------------------------------------------------------------------------
(* The task service's own invariant holds under the orchestrator and crashes. *)
LEMMA QuietTasks == ASSUME IInv, UNCHANGED taskVars PROVE IInv'
  BY Stutter

LEMMA WorkTasks ==
  ASSUME RunInv, IInv, NEW m \in Messages, Work(m) PROVE IInv'
<1>0. pc[m] \in WithTask => work[m] \in Tasks
  BY DEF RunInv, Placed
<1> USE DEF WithTask, Started, Seated
<1>1. ASSUME NEW new \in Active \cup Terminal, pc[m] \in WithTask, UpdateTaskStatus(work[m], new)
      PROVE  IInv'
  BY <1>0, <1>1, UpdateStep
<1>2. CASE PauseConflicting(m) \/ Start(m) \/ Close(m) \/ Suspend(m) \/ CancelTask(m) \/ Block(m)
  BY <1>1, <1>2
  DEF PauseConflicting, Start, Close, Suspend, CancelTask, Block, Active, Terminal
<1>3. CASE Create(m)
  <2>1. FreshTask \in Tasks
    BY <1>3 DEF Create, FreshTask
  <2>2. Team[m][1] \in Roles
    BY <1>3, TeamAssumption DEF Create, RunInv, Placed, Teamed
  <2> QED
    BY <1>3, <2>1, <2>2, CreateStep DEF Create
<1>4. CASE HandOff(m)
  <2>1. Team[m][1] \in Roles /\ Team[m][2] \in Roles /\ work[m] \in Tasks
    BY <1>0, <1>4, TeamAssumption DEF HandOff, RunInv, Placed, Teamed
  <2> QED
    BY <1>4, <2>1, HandOffStep, QuietTasks DEF HandOff
<1>5. CASE BeginRun(m) \/ StartRun(m) \/ Complete(m) \/ FailRun(m) \/ StopRun(m)
  <2>1. Role(m) \in Roles /\ work[m] \in Tasks
    BY <1>0, <1>5, TeamAssumption
    DEF BeginRun, StartRun, Complete, FailRun, StopRun, RunInv, RunShape, Placed, InTurn, Role
  <2> QED
    BY <1>5, <2>1, RunStep, QuietTasks DEF BeginRun, StartRun, Complete, FailRun, StopRun
<1>6. CASE UNCHANGED taskVars
  BY <1>6, QuietTasks
<1> QED
  BY <1>2, <1>3, <1>4, <1>5, <1>6, SocialStep
  DEF Work, TakeLock, Decline, Socialize, SeeConflict, Begin, AskPrimary, Prepare, AskTarget, Turn, Look,
      Ask, CheckTask, Send, Wrap, Synthesize, Notice, MarkCompleted

LEMMA TasksStep == ASSUME RunInv, IInv, [GroupNext]_vars PROVE IInv'
<1>1. ASSUME NEW action, NEW scope \in Nameable, Command(action, scope) PROVE IInv'
  <2>1. scope \in SUBSET Tasks
    BY DEF Nameable
  <2>2. CASE CancelActiveTasks(scope)
    <3>1. /\ InScope(scope, Active) \in SUBSET Tasks
          /\ \A t \in InScope(scope, Active) : status[t] \in Active
      BY <2>1 DEF InScope
    <3> QED
      BY <2>2, <3>1, StopStep DEF CancelActiveTasks
  <2>3. CASE PauseActiveTasks(scope)
    <3>1. /\ InScope(scope, Active \ {"waiting_user"}) \in SUBSET Tasks
          /\ \A t \in InScope(scope, Active \ {"waiting_user"}) : status[t] \in Active
      BY <2>1 DEF InScope
    <3> QED
      BY <2>3, <3>1, StopStep DEF PauseActiveTasks
  <2>4. CASE ResumeWaitingTasks(scope)
    BY <2>1, <2>4, ResumeStep
  <2> QED
    BY <1>1, <2>2, <2>3, <2>4 DEF Command
<1>2. CASE Crash
  <2>1. TypeOK' /\ UNCHANGED <<status, owner, deps, handoffs, owned>>
    BY <1>2 DEF Crash, IInv, TypeOK
  <2> QED
    BY <2>1, QuietStep
<1>3. ASSUME NEW m \in Messages, Receive(m) PROVE IInv'
  BY <1>3, QuietTasks DEF Receive
<1>4. CASE UNCHANGED vars
  BY <1>4, QuietTasks DEF vars
<1> QED
  BY <1>1, <1>2, <1>3, <1>4, WorkTasks DEF GroupNext

-----------------------------------------------------------------------------
(* The guard's rows.                                                         *)
ThreadsInv ==
  /\ ThreadsOK
  /\ activeAgents = [d \in Threads |-> activeAgents[d]]
  /\ \A d \in Threads : /\ IsFiniteSet(activeAgents[d])
                        /\ threadStatus[d] = "none" => turnCount[d] = 0 /\ activeAgents[d] = {}

LEMMA TurnThreads ==
  ASSUME ThreadsInv, NEW d \in Threads, NEW r, TakeTurn(d, r) PROVE ThreadsInv'
<1> USE DEF ThreadsInv, ThreadsOK
<1>1. turnCount[d] \in 0..MaxTurns /\ turnCount[d] < MaxTurns
  BY LimitsAssumption DEF TakeTurn, MayContinue, TurnLeft
<1>2. /\ threadStatus' \in [Threads -> {"none", "active", "waiting_user"}]
      /\ threadStatus'[d] = "active" /\ \A e \in Threads \ {d} : threadStatus'[e] = threadStatus[e]
  BY DEF TakeTurn
<1>3. /\ turnCount' \in [Threads -> 0..MaxTurns]
      /\ \A e \in Threads \ {d} : turnCount'[e] = turnCount[e]
  BY <1>1, LimitsAssumption DEF TakeTurn
<1>4. /\ activeAgents' = [e \in Threads |-> activeAgents'[e]]
      /\ activeAgents'[d] = activeAgents[d] \cup {r}
      /\ \A e \in Threads \ {d} : activeAgents'[e] = activeAgents[e]
  BY DEF TakeTurn
<1>5. /\ IsFiniteSet(activeAgents'[d])
      /\ Cardinality(activeAgents'[d]) <= MaxAgents
  <2>1. /\ IsFiniteSet(activeAgents[d] \cup {r})
        /\ Cardinality(activeAgents[d] \cup {r}) =
             IF r \in activeAgents[d] THEN Cardinality(activeAgents[d])
                                      ELSE Cardinality(activeAgents[d]) + 1
    BY FS_AddElement
  <2>2. Cardinality(activeAgents[d]) \in Nat /\ Cardinality({}) = 0
    BY FS_CardinalityType, FS_EmptySet
  <2>3. r \in activeAgents[d] \/ Cardinality(activeAgents[d]) < MaxAgents
    <3>1. threadStatus[d] = "none" \/ SeatLeft(d, r)
      BY DEF TakeTurn, MayContinue
    <3>2. CASE threadStatus[d] = "none"
      <4>1. Cardinality(activeAgents[d]) = 0
        BY <2>2, <3>2
      <4> HIDE DEF ThreadsInv, ThreadsOK
      <4> QED
        BY <4>1, LimitsAssumption
    <3> QED
      BY <3>1, <3>2 DEF SeatLeft
  <2>4. Cardinality(activeAgents[d] \cup {r}) <= MaxAgents
    <3>1. CASE r \in activeAgents[d]
      BY <2>1, <3>1
    <3>2. CASE r \notin activeAgents[d]
      <4>1. /\ Cardinality(activeAgents[d] \cup {r}) = Cardinality(activeAgents[d]) + 1
            /\ Cardinality(activeAgents[d]) < MaxAgents
        BY <2>1, <2>3, <3>2
      <4> HIDE DEF ThreadsInv, ThreadsOK
      <4> QED
        BY <2>2, <4>1, LimitsAssumption
    <3> QED
      BY <3>1, <3>2
  <2> QED
    BY <1>4, <2>1, <2>4
<1>6. \A e \in Threads :
        /\ IsFiniteSet(activeAgents'[e])
        /\ Cardinality(activeAgents'[e]) <= MaxAgents
        /\ threadStatus'[e] = "none" => turnCount'[e] = 0 /\ activeAgents'[e] = {}
  <2> TAKE e \in Threads
  <2>1. CASE e = d
    BY <1>2, <1>5, <2>1
  <2>2. CASE e # d
    BY <1>2, <1>3, <1>4, <2>2
  <2> QED
    BY <2>1, <2>2
<1>7. ThreadsOK'
  BY <1>2, <1>3, <1>6
<1> QED
  BY <1>4, <1>6, <1>7

LEMMA ThreadsStep == ASSUME RunInv, ThreadsInv, [GroupNext]_vars PROVE ThreadsInv'
<1>1. CASE UNCHANGED threadVars
  BY <1>1 DEF threadVars, ThreadsInv, ThreadsOK
<1>2. ASSUME NEW d \in Threads, NEW r, RefuseTurn(d, r) PROVE ThreadsInv'
  BY <1>2 DEF RefuseTurn, ThreadsInv, ThreadsOK
<1>3. ASSUME NEW m \in Messages, Look(m) \/ Wrap(m) PROVE ThreadsInv'
  BY <1>1, <1>2, <1>3, TurnThreads, ThreadAssumption DEF Look, Wrap
<1>4. ASSUME NEW m \in Messages, Work(m) PROVE ThreadsInv'
  BY <1>1, <1>3, <1>4, SocialStep
  DEF Work, TakeLock, Decline, Socialize, SeeConflict, PauseConflicting, Begin, AskPrimary, Create, Start,
      Prepare, HandOff, AskTarget, Turn, BeginRun, StartRun, Ask, CheckTask, Send, Complete,
      FailRun, Synthesize, Close, Suspend, Block, Notice, StopRun, CancelTask, MarkCompleted
<1>5. CASE Crash \/ UNCHANGED vars
  BY <1>1, <1>5 DEF Crash, vars
<1>6. ASSUME NEW m \in Messages, Receive(m) PROVE ThreadsInv'
  BY <1>1, <1>6 DEF Receive
<1>7. ASSUME NEW action, NEW scope, Command(action, scope) PROVE ThreadsInv'
  BY <1>1, <1>7 DEF Command
<1> QED
  BY <1>4, <1>5, <1>6, <1>7 DEF GroupNext

GroupInv == RunInv /\ IInv /\ ThreadsInv

LEMMA InitGroup == GroupInit => GroupInv
<1>1. GroupInit => ThreadsInv
  BY FS_EmptySet, LimitsAssumption DEF GroupInit, ThreadsInit, ThreadsInv, ThreadsOK
<1> QED
  BY <1>1, InitRuns, InitIInv DEF GroupInit, GroupInv

LEMMA GroupStep == GroupInv /\ [GroupNext]_vars => GroupInv'
  BY RunsStep, TasksStep, ThreadsStep DEF GroupInv

(* Types, and the lock belongs to the run that is past it (orchestrator.py:617). *)
THEOREM GroupTypeCorrect == GroupSpec => []GroupTypeOK
<1>1. GroupInv => GroupTypeOK
  <2> SUFFICES ASSUME GroupInv PROVE GroupTypeOK
    OBVIOUS
  <2>1. TypeOK /\ ThreadsOK
    BY DEF GroupInv, IInv, ThreadsInv
  <2>2. /\ version \in 0..MaxDisturbances /\ disturbances \in 0..MaxDisturbances
        /\ lock \in Messages \cup {NoMessage}
        /\ origin \in [Tasks -> Messages \cup {NoMessage}]
    BY BoundsAssumption DEF GroupInv, RunInv, RunShape
  <2>3. ASSUME NEW m \in Messages
        PROVE  /\ attempt[m] \in 1..MaxRuns /\ cancelVersion[m] \in 0..MaxDisturbances
               /\ work[m] \in Tasks \cup {NoTask} /\ turn[m] \in 1..Len(Team[m]) + 1
               /\ contributed[m] \cup failures[m] \subseteq Roles
               /\ lock = m <=> pc[m] \notin Idle
    <3>1. Len(Team[m]) \in Nat
      BY TeamAssumption
    <3> QED
      BY <3>1 DEF GroupInv, RunInv, RunShape, Placed
  <2> QED
    BY <2>1, <2>2, <2>3 DEF GroupTypeOK
<1> QED
  BY <1>1, InitGroup, GroupStep, PTL DEF GroupSpec

-----------------------------------------------------------------------------
(* Tasks in progress.  A task that is in progress and was not left by a crash
   is the task of the run that has the lock, and that run is past its start.
   No task has a dependency, so nothing keeps that run from closing it.      *)
AtWork(t) == lock \in Messages /\ work[lock] = t /\ pc[lock] \in Started

OrphanInv ==
  /\ \A t \in Tasks : deps[t] = {}
  /\ \A t \in Tasks : status[t] = "in_progress" /\ t \notin left => AtWork(t)

(* The run goes on, and starts at most its own task.                         *)
LEMMA GoesOn ==
  ASSUME RunInv, OrphanInv, NEW m \in Messages, NEW p \in Started, pc[m] \notin Idle,
         Go(m, p), UNCHANGED <<work, left, deps>>,
         \A t \in Tasks : status'[t] = "in_progress" => status[t] = "in_progress" \/ t = work[m]
  PROVE  OrphanInv'
<1>1. lock = m /\ lock' = m /\ pc'[m] = p
  BY OneAtWork DEF Go, RunInv, RunShape
<1> QED
  BY <1>1 DEF OrphanInv, AtWork

(* No task is at work after the step.                                        *)
LEMMA NoneAtWork ==
  ASSUME OrphanInv, UNCHANGED deps, left \subseteq left',
         \A t \in Tasks : status'[t] = "in_progress" => status[t] = "in_progress" /\ ~AtWork(t)
  PROVE  OrphanInv'
  BY DEF OrphanInv

(* A run that is not past its start has no task at work.                     *)
LEMMA BeforeStart ==
  ASSUME RunInv, NEW m \in Messages, pc[m] \notin Idle \cup Started
  PROVE  \A t \in Tasks : ~AtWork(t)
  BY OneAtWork DEF AtWork

(* A task is moved, or stays where it is if that is not allowed.             *)
LEMMA Moved ==
  ASSUME IInv, OrphanInv, NEW t \in Tasks, NEW new, UpdateTaskStatus(t, new)
  PROVE  /\ UNCHANGED deps
         /\ \A u \in Tasks \ {t} : status'[u] = status[u]
         /\ new \in {"done", "waiting_user", "blocked", "cancelled"}
              => status'[t] # "in_progress"
<1>1. DependenciesDone(t)
  BY DEF OrphanInv, DependenciesDone
<1>2. status \in [Tasks -> Active \cup Terminal \cup {"none"}]
  BY DEF IInv, TypeOK
<1>3. status[t] = "in_progress" /\ new \in {"done", "waiting_user", "blocked", "cancelled"}
        => MayMove(t, new)
  BY <1>1 DEF MayMove, Allowed
<1> QED
  BY <1>2, <1>3 DEF UpdateTaskStatus

LEMMA WorkOrphans ==
  ASSUME RunInv, IInv, OrphanInv, NEW m \in Messages, Work(m) PROVE OrphanInv'
<1> USE DEF Idle, Started, Seated
<1>0. /\ pc[m] \in WithTask => work[m] \in Tasks
      /\ pc[m] \notin Idle => \A t \in Tasks : AtWork(t) => t = work[m]
  BY OneAtWork DEF RunInv, Placed, AtWork
<1> USE DEF WithTask
<1>1. ASSUME pc[m] \notin Idle \cup Started, UNCHANGED <<status, deps, left>>
      PROVE  OrphanInv'
  BY <1>1, BeforeStart, NoneAtWork
<1>2. CASE \/ Decline(m) \/ Socialize(m) \/ (\E t \in Tasks : SeeConflict(m, t)) \/ Begin(m)
           \/ AskPrimary(m) \/ Notice(m)
  BY <1>1, <1>2 DEF Decline, Socialize, SeeConflict, Begin, AskPrimary, Notice, Kept, taskVars
<1>15. CASE Greet(m) \/ Chat(m)
  BY <1>1, <1>15, SocialStep DEF Social, Kept, taskVars
<1>3. CASE TakeLock(m) \/ MarkCompleted(m)
  <2>1. /\ pc[m] \in Idle /\ UNCHANGED <<status, deps, left, work>>
        /\ lock' = lock \/ lock = NoMessage
        /\ \A n \in Messages \ {m} : pc'[n] = pc[n]
    BY <1>3 DEF TakeLock, MarkCompleted, Go, Kept, DataKept, taskVars, RunInv, RunShape
  <2>2. \A t \in Tasks : AtWork(t) => AtWork(t)'
    BY <2>1, NullAssumption DEF AtWork
  <2> QED
    BY <2>1, <2>2 DEF OrphanInv
<1>4. CASE PauseConflicting(m)
  <2>1. UpdateTaskStatus(work[m], "waiting_user") /\ work[m] \in Tasks /\ left' = left
    BY <1>0, <1>4 DEF PauseConflicting, Kept
  <2> QED
    BY <1>4, <2>1, Moved, BeforeStart, NoneAtWork DEF PauseConflicting
<1>5. CASE Create(m)
  <2>1. FreshTask \in Tasks
    BY <1>5 DEF Create, FreshTask
  <2>2. /\ \A t \in Tasks : deps'[t] = {} /\ (status'[t] = "in_progress" => status[t] = "in_progress")
        /\ left' = left
    BY <1>5, <2>1 DEF Create, CreateTask, OrphanInv, IInv, TypeOK
  <2>3. \A t \in Tasks : ~AtWork(t)
    BY <1>5, BeforeStart DEF Create
  <2> QED
    BY <2>2, <2>3 DEF OrphanInv
<1>6. CASE Start(m)
  <2>1. UpdateTaskStatus(work[m], "in_progress") /\ work[m] \in Tasks
    BY <1>0, <1>6 DEF Start
  <2>2. \E p \in Started : Go(m, p)
    BY <1>6 DEF Start
  <2> QED
    BY <1>6, <2>1, <2>2, Moved, GoesOn DEF Start, Kept, DataKept
<1>7. CASE HandOff(m)
  <2>1. work[m] \in Tasks /\ (\E p \in Started : Go(m, p)) /\ UNCHANGED <<work, left, deps>>
    BY <1>0, <1>7 DEF HandOff, HandOffTask, Kept, DataKept, taskVars
  <2>2. \A t \in Tasks : status'[t] = "in_progress" => status[t] = "in_progress" \/ t = work[m]
    BY <1>7, <2>1 DEF HandOff, HandOffTask, taskVars, IInv, TypeOK
  <2> QED
    BY <1>7, <2>1, <2>2, GoesOn DEF HandOff
<1>8. ASSUME pc[m] \in Started, \E p \in Started : Go(m, p), UNCHANGED <<work, left, deps, status>>
      PROVE  OrphanInv'
  BY <1>8, GoesOn
<1>9. CASE Prepare(m) \/ AskTarget(m) \/ Turn(m) \/ Look(m) \/ Ask(m) \/ Synthesize(m)
  BY <1>8, <1>9
  DEF Prepare, AskTarget, Turn, Look, Ask, Synthesize, AgentEnds, Kept, DataKept, taskVars
<1>10. CASE CheckTask(m) \/ Send(m) \/ Wrap(m)
  BY <1>8, <1>10
  DEF CheckTask, Send, Wrap, AfterCancelled, AfterRaise, AfterSend, Kept, DataKept, taskVars
<1>11. CASE StartRun(m) \/ Complete(m) \/ FailRun(m) \/ StopRun(m)
  BY <1>8, <1>11
  DEF StartRun, Complete, FailRun, StopRun, StartAgentRun, CloseAgentRun, Kept, DataKept
<1>12. CASE BeginRun(m)
  <2>1. CASE BeginAgentRun(work[m], Role(m)) /\ Go(m, "startrun")
    BY <1>8, <1>12, <2>1 DEF BeginRun, BeginAgentRun, Kept, DataKept
  <2>2. CASE status[work[m]] # "in_progress" /\ UNCHANGED taskVars
    BY <1>0, <1>12, <2>2, NoneAtWork DEF BeginRun, Kept, taskVars
  <2> QED
    BY <1>12, <2>1, <2>2 DEF BeginRun
<1>13. ASSUME pc[m] \in Started, NEW new \in {"done", "waiting_user", "blocked", "cancelled"},
              UpdateTaskStatus(work[m], new), left' = left
       PROVE  OrphanInv'
  BY <1>0, <1>13, Moved, NoneAtWork
<1>14. CASE Close(m) \/ Suspend(m) \/ Block(m) \/ CancelTask(m)
  BY <1>13, <1>14 DEF Close, Suspend, Block, CancelTask, Kept
<1> QED
  BY <1>2, <1>3, <1>4, <1>5, <1>6, <1>7, <1>9, <1>10, <1>11, <1>12, <1>14, <1>15 DEF Work

LEMMA OrphansStep ==
  ASSUME RunInv, IInv, OrphanInv, [GroupNext]_vars PROVE OrphanInv'
<1>1. ASSUME NEW m \in Messages, Receive(m) PROVE OrphanInv'
  <2>1. /\ pc[m] \in Idle /\ UNCHANGED <<status, deps, left, lock>>
        /\ \A n \in Messages \ {m} : pc'[n] = pc[n] /\ work'[n] = work[n]
    BY <1>1 DEF Receive, Go, Kept, taskVars, RunInv, RunShape, Idle
  <2>2. lock # m
    BY <2>1 DEF RunInv, Placed
  <2> QED
    BY <2>1, <2>2 DEF OrphanInv, AtWork
<1>2. ASSUME NEW action, NEW scope \in Nameable, Command(action, scope) PROVE OrphanInv'
  <2>1. UNCHANGED <<deps, left, lock, work, pc>>
    BY <1>2
    DEF Command, runVars, CancelActiveTasks, PauseActiveTasks, ResumeWaitingTasks, StopTasks
  <2>2. \A t \in Tasks : status'[t] = "in_progress" => status[t] = "in_progress"
    BY <1>2
    DEF Command, CancelActiveTasks, PauseActiveTasks, ResumeWaitingTasks, StopTasks
  <2> QED
    BY <2>1, <2>2 DEF OrphanInv, AtWork
<1>3. CASE Crash
  <2>1. /\ UNCHANGED <<status, deps>> /\ lock' = NoMessage /\ left \subseteq left'
        /\ lock # NoMessage => left' = left \cup ({work[lock]} \ {NoTask})
    BY <1>3 DEF Crash
  <2>2. \A t \in Tasks : AtWork(t) => t \in left'
    BY <2>1, NullAssumption DEF AtWork
  <2> QED
    BY <2>1, <2>2 DEF OrphanInv
<1>4. CASE UNCHANGED vars
  BY <1>4 DEF vars, taskVars, runVars, OrphanInv, AtWork
<1> QED
  BY <1>1, <1>2, <1>3, <1>4, WorkOrphans DEF GroupNext

(* Every way out of a run, returned, raised or stopped, takes its task out of
   progress, also when a pause and a resume moved the task meanwhile: with a
   database that answers only a crash leaves one there (orchestrator.py:618). *)
THEOREM NoneLeftBehind == GroupSpec => []NoOrphan
<1>1. GroupInit => OrphanInv
  BY DEF GroupInit, Init, OrphanInv
<1>2. OrphanInv => NoOrphan
  BY NullAssumption DEF OrphanInv, NoOrphan, AtWork
<1>3. GroupInv /\ OrphanInv /\ [GroupNext]_vars => OrphanInv'
  BY OrphansStep DEF GroupInv
<1> QED
  BY <1>1, <1>2, <1>3, InitGroup, GroupStep, PTL DEF GroupSpec

-----------------------------------------------------------------------------
(* What is sent after a stop.  The version only grows while a run lasts, so a run
   that sent a response late finds it moved wherever it looks, and from every place
   it can reach without looking it sends no other response.  A late notice is the
   last a run sends.  Greetings come one for each turn.                      *)
Ended == Idle \ {"queued"}
Early == {"queued", "entered", "greet"}
LatePlaces == Ended \cup
  {"complete", "turn", "wrap", "synthesize", "close", "block", "suspend", "notice",
   "stopping", "cancelling"}

Late(m) ==
  /\ pc[m] \in {"queued"} \cup (Places \ Idle) => cancelVersion[m] <= version
  /\ lateSends[m] \in {0, 1} /\ lateNotices[m] \in {0, 1} /\ lateGreetings[m] \in Nat
  /\ lateSends[m] = 1 => /\ pc[m] \in LatePlaces
                         /\ pc[m] \notin Idle => WasCancelled(m)
                         /\ Kind[m] # "single"
                         /\ Collective(m) \/ pc[m] \in Ended \cup {"close"}
  /\ lateNotices[m] = 1 => pc[m] \in Ended /\ (Collective(m) \/ lateSends[m] = 0)
  /\ lateGreetings[m] > 0 => /\ pc[m] \in Ended \cup {"greet"}
                             /\ lateSends[m] = 0 /\ lateNotices[m] = 0
  /\ lateGreetings[m] <= Len(Team[m])
  /\ pc[m] \in Early => turn[m] <= Len(Team[m]) /\ lateGreetings[m] < turn[m]

Counted == /\ lateSends = [m \in Messages |-> lateSends[m]]
           /\ lateNotices = [m \in Messages |-> lateNotices[m]]
           /\ lateGreetings = [m \in Messages |-> lateGreetings[m]]

LateInv == Counted /\ \A m \in Messages : Late(m)

LEMMA InitLate == ASSUME GroupInit PROVE LateInv
<1>1. \A m \in Messages : Len(Team[m]) \in Nat /\ Len(Team[m]) > 0
  BY TeamAssumption
<1> QED
  BY <1>1 DEF GroupInit, LateInv, Counted, Late, Ended, Early, Places, Idle

(* A step of one message's run leaves what the others sent alone.            *)
LEMMA OthersLate ==
  ASSUME LateInv, NEW m \in Messages, UNCHANGED version, Late(m)', Counted',
         \A n \in Messages \ {m} :
           /\ pc'[n] = pc[n] /\ cancelVersion'[n] = cancelVersion[n] /\ turn'[n] = turn[n]
           /\ lateSends'[n] = lateSends[n] /\ lateNotices'[n] = lateNotices[n]
           /\ lateGreetings'[n] = lateGreetings[n]
  PROVE  LateInv'
  BY DEF LateInv, Late, WasCancelled, Collective

(* A run that sends nothing moves on, to a place where it may have sent late if
   it came from one.                                                         *)
LEMMA SilentStep ==
  ASSUME RunInv, LateInv, NEW m \in Messages, NEW p \in Places,
         pc' = [pc EXCEPT ![m] = p], UNCHANGED <<version, cancelVersion, lateVars>>,
         \A n \in Messages \ {m} : turn'[n] = turn[n],
         p \in {"queued"} \cup (Places \ Idle) => pc[m] \in {"queued"} \cup (Places \ Idle),
         pc[m] \in LatePlaces /\ (pc[m] \notin Idle => WasCancelled(m)) => p \in LatePlaces,
         pc[m] \in {"close", "greet"} => p \in Ended,
         p \in Early => pc[m] \in Early /\ turn'[m] = turn[m],
         p \notin Idle => pc[m] \notin Ended
  PROVE  LateInv'
<1>1. /\ pc'[m] = p /\ pc[m] \in Places /\ Late(m)
      /\ \A n \in Messages \ {m} : pc'[n] = pc[n]
      /\ UNCHANGED <<lateSends, lateNotices, lateGreetings>>
  BY DEF RunInv, RunShape, LateInv, lateVars
<1>2. Late(m)'
  BY <1>1 DEF Late, LatePlaces, Ended, Early, Idle, WasCancelled, Collective
<1> QED
  BY <1>1, <1>2, OthersLate DEF LateInv, Counted

LEMMA EndsQuietly ==
  ASSUME RunInv, LateInv, NEW m \in Messages, Finish(m) \/ Fail(m),
         UNCHANGED <<version, cancelVersion, turn, lateVars>>
  PROVE  LateInv'
<1>1. \E p \in {"returned", "new", "failed"} : pc' = [pc EXCEPT ![m] = p]
  BY DEF Finish, Fail
<1> QED
  BY <1>1, SilentStep DEF Places, Idle, LatePlaces, Ended, Early

LEMMA WorkLate ==
  ASSUME RunInv, LateInv, NEW m \in Messages, Work(m) PROVE LateInv'
<1>0. /\ pc[m] \in Places /\ Late(m) /\ Placed(m)
      /\ turn[m] \in Nat \ {0} /\ Len(Team[m]) \in Nat
      /\ version \in Nat /\ cancelVersion[m] \in Nat
  BY TeamAssumption, BoundsAssumption DEF RunInv, RunShape, LateInv
<1> USE DEF Places, Idle, LatePlaces, Ended, Early, Social, WithTask, Started, Seated
<1>1. CASE TakeLock(m)
  BY <1>1, SilentStep DEF TakeLock, Kept, DataKept, historyVars
<1>2. ASSUME NEW p \in Places \ Idle, Go(m, p), pc[m] \notin Idle \cup {"close", "greet"},
             UNCHANGED <<version, cancelVersion, lateVars>>,
             \A n \in Messages \ {m} : turn'[n] = turn[n],
             p \in Early => pc[m] \in Early /\ UNCHANGED turn,
             pc[m] \in LatePlaces /\ WasCancelled(m) => p \in LatePlaces
      PROVE  LateInv'
  BY <1>0, <1>2, SilentStep DEF Go
<1>3. CASE \/ Decline(m) \/ Socialize(m) \/ Begin(m) \/ PauseConflicting(m)
           \/ \E t \in Tasks : SeeConflict(m, t)
  BY <1>2, <1>3
  DEF Decline, Socialize, Begin, PauseConflicting, SeeConflict, Kept, DataKept, historyVars
<1>4. CASE AskPrimary(m)
  <2>1. UNCHANGED <<version, cancelVersion, turn, lateVars>>
    BY <1>4
    DEF AskPrimary, Respond, CountLate, WasCancelled, Kept, DataKept, historyVars, lateVars,
        LateInv, Counted
  <2> QED
    BY <1>2, <1>4, <2>1, EndsQuietly DEF AskPrimary
<1>5. CASE Create(m) \/ Start(m) \/ Prepare(m) \/ HandOff(m) \/ AskTarget(m)
  BY <1>2, <1>5
  DEF Create, Start, Prepare, HandOff, AskTarget, AgentEnds, Kept, DataKept, historyVars
<1>6. CASE Turn(m) \/ Look(m) \/ StartRun(m) \/ Ask(m) \/ CheckTask(m)
  BY <1>2, <1>6
  DEF Turn, Look, StartRun, Ask, CheckTask, AgentEnds, AfterCancelled, Kept, DataKept, historyVars
<1>7. CASE BeginRun(m)
  BY <1>2, <1>7, EndsQuietly DEF BeginRun, Kept, DataKept, historyVars
<1>8. CASE Send(m)
  <2>1. pc[m] = "send" /\ UNCHANGED <<version, cancelVersion, turn>>
    BY <1>8 DEF Send, Kept, DataKept
  <2>2. CASE Go(m, AfterRaise(m)) /\ UNCHANGED historyVars
    BY <1>2, <2>1, <2>2 DEF AfterRaise, historyVars
  <2>3. CASE Respond(m) /\ Go(m, AfterSend(m))
    <3>1. /\ lateSends[m] = 0 /\ lateNotices[m] = 0 /\ lateGreetings[m] = 0
          /\ cancelVersion[m] <= version /\ Kind[m] # "single"
      BY <1>0, <2>1 DEF Late, Placed, Teamed
    <3>2. /\ Counted' /\ UNCHANGED <<lateNotices, lateGreetings>>
          /\ lateSends'[m] = IF WasCancelled(m) THEN 1 ELSE 0
          /\ \A n \in Messages \ {m} : lateSends'[n] = lateSends[n]
      BY <2>3, <3>1 DEF Respond, CountLate, LateInv, Counted, WasCancelled
    <3>3. /\ pc'[m] \in {"complete", "close"} /\ (Collective(m) \/ pc'[m] = "close")
          /\ \A n \in Messages \ {m} : pc'[n] = pc[n]
      BY <2>3 DEF Go, AfterSend, InTurn, RunInv, RunShape
    <3>4. Late(m)'
      BY <1>0, <2>1, <3>1, <3>2, <3>3 DEF Late, WasCancelled, Collective
    <3> QED
      BY <2>1, <3>2, <3>3, <3>4, OthersLate
  <2> QED
    BY <1>8, <2>2, <2>3 DEF Send
<1>9. CASE Complete(m) \/ FailRun(m) \/ Wrap(m) \/ Synthesize(m)
  <2>1. \A n \in Messages \ {m} : turn'[n] = turn[n]
    BY <1>9 DEF Complete, FailRun, Wrap, Synthesize, DataKept, RunInv, RunShape
  <2> QED
    BY <1>2, <1>9, <2>1
    DEF Complete, FailRun, Wrap, Synthesize, AgentEnds, Kept, DataKept, historyVars
<1>10. CASE Suspend(m) \/ StopRun(m)
  BY <1>2, <1>10 DEF Suspend, StopRun, Kept, DataKept, historyVars
<1>11. CASE Close(m) \/ CancelTask(m)
  BY <1>11, EndsQuietly DEF Close, CancelTask, Kept, DataKept, historyVars
<1>12. CASE Block(m)
  BY <1>2, <1>12, EndsQuietly DEF Block, Kept, DataKept, historyVars
<1>13. CASE MarkCompleted(m)
  BY <1>13, SilentStep DEF MarkCompleted, Go, Kept, DataKept, historyVars
<1>14. CASE Notice(m)
  <2>1. pc[m] = "notice" /\ UNCHANGED <<version, cancelVersion, turn>>
    BY <1>14 DEF Notice, Kept, DataKept
  <2>2. CASE Fail(m) /\ UNCHANGED historyVars
    BY <2>1, <2>2, EndsQuietly DEF historyVars
  <2>3. CASE /\ Finish(m) /\ lateNotices' = CountLate(lateNotices, m)
             /\ UNCHANGED <<lateSends, lateGreetings, named>>
    <3>1. /\ lateNotices[m] = 0 /\ lateGreetings[m] = 0
          /\ Collective(m) \/ lateSends[m] = 0
      BY <1>0, <2>1 DEF Late
    <3>2. /\ Counted' /\ lateNotices'[m] \in {0, 1}
          /\ \A n \in Messages \ {m} : lateNotices'[n] = lateNotices[n]
      BY <2>3, <3>1 DEF CountLate, LateInv, Counted
    <3>3. pc'[m] = "returned" /\ \A n \in Messages \ {m} : pc'[n] = pc[n]
      BY <2>3 DEF Finish, RunInv, RunShape
    <3>4. Late(m)'
      BY <1>0, <2>1, <2>3, <3>1, <3>2, <3>3 DEF Late, Collective
    <3> QED
      BY <2>1, <2>3, <3>2, <3>3, <3>4, OthersLate
  <2> QED
    BY <1>14, <2>2, <2>3 DEF Notice
<1>15. ASSUME NextTurn(m), pc[m] \in Social, UNCHANGED <<version, cancelVersion, lateSends, lateNotices>>,
              Counted', \A n \in Messages \ {m} : lateGreetings'[n] = lateGreetings[n],
              \/ lateGreetings'[m] = lateGreetings[m]
              \/ pc[m] = "greet" /\ lateGreetings'[m] = lateGreetings[m] + 1
       PROVE  LateInv'
  <2>1. /\ UNCHANGED pc /\ turn[m] < Len(Team[m]) /\ turn'[m] = turn[m] + 1
        /\ \A n \in Messages \ {m} : turn'[n] = turn[n]
    BY <1>15 DEF NextTurn, RunInv, RunShape
  <2>2. Late(m)'
    BY <1>0, <1>15, <2>1 DEF Late, Collective
  <2> QED
    BY <1>15, <2>1, <2>2, OthersLate
<1>16. CASE Chat(m)
  <2>1. /\ pc[m] = "chat" /\ UNCHANGED <<version, cancelVersion, lateVars>>
        /\ UNCHANGED <<lateSends, lateNotices, lateGreetings>>
    BY <1>16
    DEF Chat, Respond, CountLate, WasCancelled, Kept, RestKept, historyVars, lateVars, LateInv,
        Counted
  <2> QED
    BY <1>15, <1>16, <2>1, EndsQuietly, SocialStep DEF LateInv, Counted
<1>17. CASE Greet(m)
  <2>1. /\ pc[m] = "greet" /\ UNCHANGED <<version, cancelVersion>>
        /\ lateSends[m] = 0 /\ lateNotices[m] = 0
        /\ lateGreetings[m] < turn[m] /\ turn[m] <= Len(Team[m])
    BY <1>0, <1>17 DEF Greet, Kept, RestKept, Late
  <2>2. CASE Fail(m) /\ UNCHANGED <<turn, historyVars>>
    BY <2>1, <2>2, EndsQuietly DEF historyVars
  <2>3. CASE /\ NextRole(m) /\ lateGreetings' = CountLate(lateGreetings, m)
             /\ UNCHANGED <<lateSends, lateNotices, named>>
    <3>1. /\ Counted' /\ lateGreetings'[m] \in {lateGreetings[m], lateGreetings[m] + 1}
          /\ \A n \in Messages \ {m} : lateGreetings'[n] = lateGreetings[n]
      BY <2>3 DEF CountLate, LateInv, Counted
    <3>2. CASE NextTurn(m)
      BY <1>15, <2>1, <2>3, <3>1, <3>2
    <3>3. CASE Finish(m) /\ UNCHANGED turn
      <4>1. pc'[m] = "returned" /\ \A n \in Messages \ {m} : pc'[n] = pc[n]
        BY <3>3 DEF Finish, RunInv, RunShape
      <4>2. Late(m)'
        BY <1>0, <2>1, <2>3, <3>1, <3>3, <4>1 DEF Late, Collective
      <4> QED
        BY <2>1, <2>3, <3>1, <3>3, <4>1, <4>2, OthersLate
    <3> QED
      BY <2>3, <3>2, <3>3 DEF NextRole, NextTurn
  <2> QED
    BY <1>17, <2>2, <2>3 DEF Greet
<1> QED
  BY <1>1, <1>3, <1>4, <1>5, <1>6, <1>7, <1>8, <1>9, <1>10, <1>11, <1>12, <1>13, <1>14, <1>16,
     <1>17 DEF Work

LEMMA LateStep ==
  ASSUME RunInv, LateInv, [GroupNext]_vars PROVE LateInv'
<1>1. ASSUME NEW m \in Messages, Receive(m) PROVE LateInv'
  <2>1. /\ UNCHANGED version /\ pc'[m] = "queued" /\ cancelVersion'[m] = version /\ turn'[m] = 1
        /\ Counted' /\ lateSends'[m] = 0 /\ lateNotices'[m] = 0 /\ lateGreetings'[m] = 0
        /\ \A n \in Messages \ {m} :
             /\ pc'[n] = pc[n] /\ cancelVersion'[n] = cancelVersion[n] /\ turn'[n] = turn[n]
             /\ lateSends'[n] = lateSends[n] /\ lateNotices'[n] = lateNotices[n]
             /\ lateGreetings'[n] = lateGreetings[n]
    BY <1>1 DEF Receive, Go, Kept, RunInv, RunShape, LateInv, Counted
  <2>2. Len(Team[m]) \in Nat /\ Len(Team[m]) > 0
    BY TeamAssumption
  <2>3. Late(m)'
    BY <2>1, <2>2, BoundsAssumption DEF Late, RunInv, RunShape
  <2> QED
    BY <2>1, <2>3, OthersLate
<1>2. ASSUME NEW action, NEW scope, Command(action, scope) PROVE LateInv'
  <2>1. /\ version \in Nat /\ cancelVersion \in [Messages -> Nat]
        /\ version' \in {version, version + 1}
        /\ UNCHANGED <<pc, cancelVersion, turn, lateSends, lateNotices, lateGreetings>>
    BY <1>2, BoundsAssumption DEF Command, runVars, lateVars, RunInv, RunShape
  <2>2. ASSUME NEW m \in Messages PROVE Late(m)'
    <3>1. cancelVersion[m] \in Nat /\ pc[m] \in Places /\ Late(m)
      BY <2>1 DEF LateInv, RunInv, RunShape
    <3> QED
      BY <2>1, <3>1 DEF Late, WasCancelled, Collective
  <2> QED
    BY <2>1, <2>2 DEF LateInv, Counted
<1>3. CASE Crash
  <2>1. /\ UNCHANGED <<cancelVersion, turn, lateSends, lateNotices, lateGreetings>>
        /\ \A m \in Messages : pc'[m] \in {"new", "answered", "failed"}
    BY <1>3 DEF Crash, historyVars, lateVars
  <2> QED
    BY <2>1 DEF LateInv, Counted, Late, LatePlaces, Ended, Early, Places, Idle, Collective
<1>4. CASE UNCHANGED vars
  BY <1>4
  DEF vars, runVars, historyVars, lateVars, LateInv, Counted, Late, WasCancelled, Collective
<1> QED
  BY <1>1, <1>2, <1>3, <1>4, WorkLate DEF GroupNext

(* After a stop or pause moved the group's version a run sends at most the one
   response it was about to send, and then at most the notice of how collective
   work ended, however many stops there are and wherever in the run they come
   (orchestrator.py:565); or it greets, and sends the greetings of its roles and
   nothing else (orchestrator.py:437-442).                                   *)
THEOREM AtMostOneLate == GroupSpec => []OneLateResponse
<1>1. GroupInit => LateInv
  BY InitLate
<1>2. LateInv => OneLateResponse
  BY TeamAssumption DEF LateInv, Late, LatePlaces, Ended, Idle, OneLateResponse
<1>3. GroupInv /\ LateInv /\ [GroupNext]_vars => LateInv'
  BY LateStep DEF GroupInv
<1> QED
  BY <1>1, <1>2, <1>3, InitGroup, GroupStep, PTL DEF GroupSpec

-----------------------------------------------------------------------------
(* Finished tasks.  A task that is done was closed by the run that created it,
   at the end of its synthesis or its handoff.  Unless the version moved, the
   roles that contributed so far have succeeded runs; once the synthesis has
   been answered all have, and no stop or pause changes a run that succeeded. *)
Fresh == {"queued", "entered", "greet", "chat", "primary", "create"}
Running == {"ask", "check", "send", "complete"}
Closing == {"check", "send", "close"}
Members(m) == {Team[m][i] : i \in 1..Len(Team[m])}
Before(m) == {Team[m][i] : i \in 1..(turn[m] - 1)}

Delivered(t) ==
  LET m == origin[t] IN
  /\ m \in Messages
  /\ IF Collective(m) THEN \A r \in Members(m) : runs[t][r] = "succeeded"
                      ELSE owner[t] = Team[m][2]

Rows == \A t \in Tasks : /\ status[t] \in {"none", "done"} => t \notin left
                         /\ status[t] = "done" => Delivered(t)

(* The task of a run is its own, open, and not left by a crash.              *)
Own(m) ==
  /\ pc[m] \in Fresh => work[m] = NoTask
  /\ pc[m] \in Fresh \cup {"start"} => contributed[m] = {}
  /\ contributed[m] \subseteq Before(m)
  /\ pc[m] \notin Idle /\ work[m] # NoTask => status[work[m]] \notin {"none", "done"}
  /\ pc[m] \in Started \cup {"start"} => origin[work[m]] = m /\ work[m] \notin left

Handed(m) ==
  /\ pc[m] \in {"turn", "wrap", "synthesize"} => Collective(m)
  /\ pc[m] \in {"prepare", "handoff", "target"} => ~Collective(m)
  /\ pc[m] \in {"target"} \cup Closing /\ ~Collective(m) => owner[work[m]] = Team[m][2]

Gathered(m) ==
  /\ pc[m] \in Started /\ Collective(m) /\ ~WasCancelled(m) =>
       \A r \in contributed[m] : runs[work[m]][r] = "succeeded"
  /\ pc[m] \in Running /\ InTurn(m) /\ ~WasCancelled(m) => runs[work[m]][Role(m)] = "running"
  /\ pc[m] = "synthesize" => AllContributed(m) /\ ~InTurn(m)
  /\ pc[m] \in Closing /\ Collective(m) /\ ~InTurn(m) =>
       \A r \in Members(m) : runs[work[m]][r] = "succeeded"
  /\ pc[m] = "close" => ~InTurn(m)

Fit(m) == Own(m) /\ Handed(m) /\ Gathered(m)

DoneInv == Rows /\ \A m \in Messages : Fit(m)

(* As many roles as the team has are the whole team.                         *)
LEMMA WholeTeam ==
  ASSUME NEW m \in Messages, RunInv, Own(m), AllContributed(m)
  PROVE  contributed[m] = Members(m)
<1> DEFINE n == Len(Team[m])
           f == [i \in 1..n |-> Team[m][i]]
<1>1. n \in Nat /\ turn[m] \in Nat \ {0} /\ turn[m] <= n + 1
  BY TeamAssumption DEF RunInv, RunShape, Placed
<1>2. contributed[m] \subseteq Members(m)
  BY <1>1 DEF Own, Before, Members
<1>3. IsFiniteSet(1..n) /\ Cardinality(1..n) = n
  <2> HIDE DEF f, n
  <2>1. 1 \in Int /\ n \in Int
    BY <1>1
  <2>2. IsFiniteSet(1..n) /\ Cardinality(1..n) = IF 1 > n THEN 0 ELSE n - 1 + 1
    BY <2>1, FS_Interval
  <2> QED
    BY <1>1, <2>2
<1>4. f \in Surjection(1..n, Members(m))
  BY DEF Surjection, Members
<1>5. IsFiniteSet(Members(m)) /\ Cardinality(Members(m)) <= n
  <2> HIDE DEF f, n
  <2> QED
    BY <1>3, <1>4, FS_Surjection
<1>6. /\ Cardinality(contributed[m]) <= Cardinality(Members(m))
      /\ Cardinality(Members(m)) = Cardinality(contributed[m]) => Members(m) = contributed[m]
  BY <1>2, <1>5, FS_Subset
<1>7. Cardinality(contributed[m]) = n /\ Cardinality(Members(m)) \in Nat
  BY <1>5, FS_CardinalityType DEF AllContributed
<1> QED
  BY <1>1, <1>5, <1>6, <1>7

LEMMA RowsKept ==
  ASSUME Rows, UNCHANGED left,
         \A t \in Tasks :
           \/ status'[t] \notin {"none", "done"}
           \/ /\ status'[t] = status[t] /\ owner'[t] = owner[t] /\ origin'[t] = origin[t]
              /\ \A r \in Roles : runs'[t][r] = runs[t][r]
  PROVE  Rows'
<1> SUFFICES ASSUME NEW t \in Tasks, status'[t] \in {"none", "done"}
             PROVE  t \notin left' /\ (status'[t] = "done" => Delivered(t)')
  BY DEF Rows
<1>1. status'[t] = "done" => origin[t] \in Messages /\ Members(origin[t]) \subseteq Roles
  BY TeamAssumption DEF Rows, Delivered, Members
<1> QED
  BY <1>1 DEF Rows, Delivered, Collective, Members

(* The messages that wait keep what they have.                               *)
LEMMA OthersFit ==
  ASSUME DoneInv, NEW m \in Messages, Fit(m)',
         \A n \in Messages \ {m} :
           /\ pc[n] \in Idle
           /\ pc'[n] = pc[n] /\ work'[n] = work[n]
           /\ contributed'[n] = contributed[n] /\ turn'[n] = turn[n]
  PROVE  \A n \in Messages : Fit(n)'
<1> SUFFICES ASSUME NEW n \in Messages \ {m} PROVE Fit(n)'
  OBVIOUS
<1>1. Own(n)'
  BY DEF DoneInv, Fit, Own, Before, Idle, Started, Seated, Fresh
<1>2. Handed(n)' /\ Gathered(n)'
  BY DEF Handed, Gathered, Idle, Started, Seated, Running, Closing
<1> QED
  BY <1>1, <1>2 DEF Fit

LEMMA EndsFit ==
  ASSUME RunInv, DoneInv, NEW m \in Messages, pc[m] \notin Idle, Finish(m) \/ Fail(m),
         UNCHANGED <<work, turn, contributed>>
  PROVE  \A n \in Messages : Fit(n)'
<1>1. /\ pc'[m] \in {"returned", "new", "failed"}
      /\ \A n \in Messages \ {m} : pc[n] \in Idle /\ pc'[n] = pc[n]
  BY OneAtWork DEF Finish, Fail, RunInv, RunShape
<1>2. Own(m)'
  BY <1>1 DEF DoneInv, Fit, Own, Before, Idle, Started, Seated, Fresh
<1>3. Handed(m)' /\ Gathered(m)'
  BY <1>1 DEF Handed, Gathered, Idle, Started, Seated, Running, Closing
<1> QED
  BY <1>1, <1>2, <1>3, OthersFit DEF Fit

(* Where a run may go without an effect on what it has.                      *)
Ahead(m, p) ==
  /\ p \in Places \ (Idle \cup {"start", "target", "synthesize"})
  /\ p \in Fresh => pc[m] \in Fresh
  /\ p \in Started => pc[m] \in Started \cup {"start"}
  /\ p \in {"turn", "wrap"} => Collective(m)
  /\ p \in {"prepare", "handoff"} => ~Collective(m)
  /\ p \in Closing /\ ~Collective(m) => pc[m] \in {"target"} \cup Closing
  /\ p \in Running /\ InTurn(m) /\ ~WasCancelled(m) => pc[m] \in Running
  /\ p \in Closing /\ Collective(m) /\ ~InTurn(m) =>
       pc[m] \in Closing \/ (pc[m] = "synthesize" /\ ~WasCancelled(m))
  /\ p = "close" => ~InTurn(m)

(* A run goes on and its task keeps its owner and its runs.                  *)
LEMMA GoesFit ==
  ASSUME RunInv, DoneInv, NEW m \in Messages, NEW p, pc[m] \notin Idle,
         Go(m, p), UNCHANGED <<version, cancelVersion, work, turn, contributed, origin, left>>,
         work[m] # NoTask => /\ status'[work[m]] \notin {"none", "done"}
                             /\ owner'[work[m]] = owner[work[m]]
                             /\ \A r \in Roles : runs'[work[m]][r] = runs[work[m]][r],
         Ahead(m, p)
  PROVE  \A n \in Messages : Fit(n)'
<1>1. /\ pc'[m] = p /\ Fit(m) /\ pc[m] \in Places
      /\ \A n \in Messages \ {m} : pc[n] \in Idle /\ pc'[n] = pc[n]
  BY OneAtWork DEF Go, RunInv, RunShape, DoneInv, Ahead
<1>2. /\ InTurn(m)' = InTurn(m) /\ WasCancelled(m)' = WasCancelled(m) /\ Role(m)' = Role(m)
      /\ AllContributed(m)' = AllContributed(m)
  BY DEF InTurn, WasCancelled, Role, AllContributed
<1>3. Own(m)'
  BY <1>1 DEF Fit, Own, Before, Ahead
<1>4. p \in Started => work[m] # NoTask
  BY <1>1, NullAssumption DEF RunInv, Placed, WithTask, Ahead
<1>5. Handed(m)'
  BY <1>1, <1>4 DEF Fit, Handed, Closing, Started, Seated, Ahead
<1>6. /\ contributed[m] \subseteq Roles /\ Members(m) \subseteq Roles
      /\ InTurn(m) => Role(m) \in Roles
  BY TeamAssumption DEF RunInv, RunShape, Members, InTurn, Role
<1>7. Gathered(m)'
  <2>1. p \in Started /\ Collective(m) /\ ~WasCancelled(m) =>
          \A r \in contributed[m] : runs'[work[m]][r] = "succeeded"
    BY <1>1, <1>4, <1>6 DEF Fit, Own, Gathered, Ahead
  <2>2. p \in Running /\ InTurn(m) /\ ~WasCancelled(m) => runs'[work[m]][Role(m)] = "running"
    BY <1>1, <1>4, <1>6 DEF Fit, Gathered, Running, Started, Seated, Ahead
  <2>3. p \in Closing /\ Collective(m) /\ ~InTurn(m) =>
          \A r \in Members(m) : runs'[work[m]][r] = "succeeded"
    BY <1>1, <1>4, <1>6, WholeTeam DEF Fit, Gathered, Closing, Started, Seated, Ahead
  <2> QED
    BY <1>1, <1>2, <2>1, <2>2, <2>3 DEF Gathered, Members, Ahead
<1> QED
  BY <1>1, <1>3, <1>5, <1>7, OthersFit DEF Fit

(* An update of the run's task to anything but done.                         *)
LEMMA MovedRow ==
  ASSUME RunInv, IInv, DoneInv, NEW m \in Messages, pc[m] \notin Idle, work[m] \in Tasks,
         NEW new \in (Active \cup Terminal) \ {"done"}, UpdateTaskStatus(work[m], new),
         UNCHANGED <<origin, left>>
  PROVE  /\ Rows' /\ UNCHANGED <<owner, runs>>
         /\ status'[work[m]] \notin {"none", "done"}
<1>1. status[work[m]] \notin {"none", "done"}
  BY NullAssumption DEF DoneInv, Fit, Own
<1>2. /\ UNCHANGED <<owner, runs>> /\ status'[work[m]] \notin {"none", "done"}
      /\ \A t \in Tasks \ {work[m]} : status'[t] = status[t]
  BY <1>1 DEF UpdateTaskStatus, IInv, TypeOK, Active, Terminal
<1> QED
  BY <1>2, RowsKept DEF DoneInv

(* An agent run of the run's task.                                           *)
LEMMA RunRow ==
  ASSUME RunInv, IInv, DoneInv, NEW m \in Messages, pc[m] \notin Idle, work[m] \in Tasks,
         UNCHANGED <<status, owner, origin, left>>,
         \A t \in Tasks \ {work[m]} : runs'[t] = runs[t]
  PROVE  Rows' /\ status'[work[m]] \notin {"none", "done"}
<1>1. status[work[m]] \notin {"none", "done"}
  BY NullAssumption DEF DoneInv, Fit, Own
<1> QED
  BY <1>1, RowsKept DEF DoneInv

(* Steps that leave the task's rows alone.                                   *)
LEMMA QuietDone ==
  ASSUME RunInv, DoneInv, NEW m \in Messages, UNCHANGED <<taskVars, origin, left>>,
         \/ Decline(m) \/ Socialize(m) \/ Begin(m) \/ AskPrimary(m) \/ Prepare(m)
         \/ AskTarget(m) \/ Turn(m) \/ Look(m) \/ Ask(m) \/ CheckTask(m) \/ Send(m) \/ Synthesize(m) \/ Notice(m)
  PROVE  DoneInv'
<1> USE DEF Places, Idle, Social, WithTask, Started, Seated, Fresh, Running, Closing
<1>1. Rows'
  BY RowsKept DEF DoneInv, taskVars
<1> SUFFICES \A n \in Messages : Fit(n)'
  BY <1>1 DEF DoneInv
<1>2. /\ pc[m] \notin Idle /\ Fit(m)
      /\ UNCHANGED <<version, cancelVersion, work, turn, contributed, origin, left>>
  BY DEF Decline, Socialize, Begin, AskPrimary, Prepare, AskTarget, Turn, Look, Ask, CheckTask,
         Send, Synthesize, Notice, Kept, DataKept, DoneInv
<1>3. work[m] # NoTask => /\ status'[work[m]] \notin {"none", "done"}
                          /\ owner'[work[m]] = owner[work[m]]
                          /\ \A r \in Roles : runs'[work[m]][r] = runs[work[m]][r]
  BY <1>2 DEF Fit, Own, taskVars
<1>4. ASSUME NEW p, Go(m, p), Ahead(m, p) PROVE \A n \in Messages : Fit(n)'
  BY <1>2, <1>3, <1>4, GoesFit
<1>5. ASSUME Finish(m) \/ Fail(m) PROVE \A n \in Messages : Fit(n)'
  BY <1>2, <1>5, EndsFit
<1>6. Len(Team[m]) \in Nat /\ turn[m] \in Nat
  BY TeamAssumption DEF RunInv, RunShape
<1>7. CASE Decline(m) \/ Socialize(m) \/ Begin(m)
  <2>1. pc[m] = "entered"
    BY <1>7 DEF Decline, Socialize, Begin
  <2>2. /\ Ahead(m, "notice") /\ Ahead(m, "create") /\ Ahead(m, "primary")
        /\ Ahead(m, "greet") /\ Ahead(m, "chat")
    BY <2>1 DEF Ahead
  <2> QED
    BY <1>4, <1>7, <2>2 DEF Decline, Socialize, Begin
<1>8. CASE AskPrimary(m) \/ Notice(m)
  <2>1. AskPrimary(m) => Ahead(m, "create")
    BY DEF AskPrimary, Ahead
  <2> QED
    BY <1>4, <1>5, <1>8, <2>1 DEF AskPrimary, Notice
<1>9. CASE Prepare(m)
  <2>1. Ahead(m, "cancelling") /\ Ahead(m, "handoff")
    BY <1>2, <1>9 DEF Prepare, Ahead, Fit, Handed
  <2> QED
    BY <1>4, <1>9, <2>1 DEF Prepare
<1>10. CASE AskTarget(m)
  <2>1. pc[m] = "target" /\ ~Collective(m) /\ ~InTurn(m)
    BY <1>2, <1>10 DEF AskTarget, Fit, Handed, InTurn
  <2>2. Ahead(m, "blockraise") /\ Ahead(m, "cancelling") /\ Ahead(m, "check")
    BY <2>1 DEF Ahead
  <2> QED
    BY <1>4, <1>10, <2>2 DEF AskTarget, AgentEnds
<1>11. CASE Turn(m)
  <2>1. Ahead(m, "wrap") /\ Ahead(m, "stopping") /\ Ahead(m, "look")
    BY <1>2, <1>11 DEF Turn, Ahead, Fit, Handed
  <2> QED
    BY <1>4, <1>11, <2>1 DEF Turn
<1>12. CASE Look(m) \/ Ask(m)
  <2>1. pc[m] \in {"look", "ask"} /\ InTurn(m) /\ Collective(m)
    BY <1>12 DEF Look, Ask, RunInv, Placed, InTurn
  <2>2. /\ Ahead(m, "wrap") /\ Ahead(m, "stopping") /\ Ahead(m, "begin") /\ Ahead(m, "failrun")
        /\ pc[m] = "ask" => Ahead(m, "check")
    BY <2>1 DEF Ahead
  <2> QED
    BY <1>4, <1>12, <2>2 DEF Look, Ask, AgentEnds
<1>13. CASE CheckTask(m) \/ Send(m)
  <2>1. pc[m] \in {"check", "send"}
    BY <1>13 DEF CheckTask, Send
  <2>2. /\ Ahead(m, AfterCancelled(m)) /\ Ahead(m, AfterRaise(m)) /\ Ahead(m, AfterSend(m))
        /\ Ahead(m, "send")
    BY <2>1 DEF Ahead, AfterCancelled, AfterRaise, AfterSend
  <2> QED
    BY <1>4, <1>13, <2>2 DEF CheckTask, Send
<1>14. CASE Synthesize(m)
  <2>1. pc[m] = "synthesize" /\ Collective(m) /\ ~InTurn(m)
    BY <1>2, <1>14 DEF Synthesize, Fit, Handed, Gathered
  <2>2. /\ Ahead(m, "block") /\ Ahead(m, "cancelling")
        /\ ~WasCancelled(m) => Ahead(m, "check")
    BY <2>1 DEF Ahead
  <2> QED
    BY <1>4, <1>14, <2>2 DEF Synthesize, AgentEnds
<1> QED
  BY <1>7, <1>8, <1>9, <1>10, <1>11, <1>12, <1>13, <1>14

(* A social message has no task.                                             *)
LEMMA SocialDone ==
  ASSUME RunInv, DoneInv, NEW m \in Messages, Greet(m) \/ Chat(m)
  PROVE  DoneInv'
<1>1. /\ pc[m] \in Social /\ pc[m] \notin Idle
      /\ UNCHANGED <<version, origin, left, work, contributed, status, owner, runs>>
  BY SocialStep DEF Kept, RestKept, taskVars, Social, Idle
<1>2. Rows'
  BY <1>1, RowsKept DEF DoneInv
<1>3. CASE (Finish(m) \/ Fail(m)) /\ UNCHANGED turn
  BY <1>1, <1>2, <1>3, EndsFit DEF DoneInv
<1>4. CASE NextTurn(m)
  <2>1. /\ UNCHANGED pc /\ \A n \in Messages \ {m} : turn'[n] = turn[n] /\ pc[n] \in Idle
        /\ work[m] = NoTask /\ contributed[m] = {}
    BY <1>1, <1>4, OneAtWork DEF NextTurn, DoneInv, Fit, Own, Fresh, Social, RunInv, RunShape
  <2>2. Own(m)'
    BY <1>1, <2>1 DEF Own, Fresh, Social, Idle, Started, Seated
  <2>3. Handed(m)' /\ Gathered(m)'
    BY <1>1, <2>1 DEF Handed, Gathered, Closing, Running, Started, Seated, Social
  <2> QED
    BY <1>1, <1>2, <2>1, <2>2, <2>3, OthersFit DEF DoneInv, Fit
<1> QED
  BY <1>3, <1>4, SocialStep

(* Updates of the run's task that do not finish it.                          *)
LEMMA MoveDone ==
  ASSUME RunInv, IInv, DoneInv, NEW m \in Messages,
         \/ PauseConflicting(m) \/ Start(m) \/ Suspend(m) \/ Block(m) \/ CancelTask(m)
  PROVE  DoneInv'
<1> USE DEF Places, Idle, WithTask, Started, Seated, Fresh, Running, Closing
<1>1. /\ pc[m] \in {"conflict", "start", "suspend", "block", "blockraise", "cancelling"}
      /\ work[m] \in Tasks
      /\ UNCHANGED <<version, cancelVersion, work, turn, contributed, origin, left>>
  BY DEF PauseConflicting, Start, Suspend, Block, CancelTask, Kept, DataKept, RunInv, Placed
<1>2. \E new \in (Active \cup Terminal) \ {"done"} : UpdateTaskStatus(work[m], new)
  BY DEF PauseConflicting, Start, Suspend, Block, CancelTask, Active, Terminal
<1>3. Rows' /\ UNCHANGED <<owner, runs>> /\ status'[work[m]] \notin {"none", "done"}
  BY <1>1, <1>2, MovedRow
<1> SUFFICES \A n \in Messages : Fit(n)'
  BY <1>3 DEF DoneInv
<1>4. ASSUME NEW p, Go(m, p), Ahead(m, p) PROVE \A n \in Messages : Fit(n)'
  BY <1>1, <1>3, <1>4, GoesFit
<1>5. ASSUME Finish(m) \/ Fail(m) PROVE \A n \in Messages : Fit(n)'
  BY <1>1, <1>5, EndsFit
<1>6. Ahead(m, "notice") /\ (pc[m] = "start" => Ahead(m, IF Collective(m) THEN "turn" ELSE "prepare"))
  BY <1>1 DEF Ahead
<1> QED
  BY <1>4, <1>5, <1>6 DEF PauseConflicting, Start, Suspend, Block, CancelTask

(* The last step of a run that finished its work.                            *)
LEMMA CloseDone ==
  ASSUME RunInv, IInv, DoneInv, NEW m \in Messages, Close(m) PROVE DoneInv'
<1> DEFINE t == work[m]
<1>1. /\ pc[m] = "close" /\ t \in Tasks /\ Fit(m)
      /\ UNCHANGED <<work, turn, contributed, origin, left, owner, runs>>
      /\ \A u \in Tasks \ {t} : status'[u] = status[u]
      /\ status'[t] = "none" => status[t] = "none"
  BY DEF Close, Kept, DataKept, UpdateTaskStatus, IInv, TypeOK, RunInv, Placed, WithTask, Started,
         DoneInv
<1>2. origin[t] = m /\ t \notin left /\ status[t] # "none"
  BY <1>1, NullAssumption DEF Fit, Own, Started, Idle
<1>3. Delivered(t)
  BY <1>1, <1>2 DEF Delivered, Fit, Handed, Gathered, Closing
<1>4. \A u \in Tasks : Delivered(u)' = Delivered(u)
  BY <1>1 DEF Delivered, Collective, Members
<1>5. Rows'
  BY <1>1, <1>2, <1>3, <1>4 DEF Rows, DoneInv
<1>6. \A n \in Messages : Fit(n)'
  BY <1>1, EndsFit DEF Close, Idle
<1> QED
  BY <1>5, <1>6 DEF DoneInv

LEMMA CreateDone ==
  ASSUME RunInv, IInv, DoneInv, NEW m \in Messages, Create(m) PROVE DoneInv'
<1> DEFINE t == FreshTask
<1>1. t \in Tasks /\ status[t] = "none"
  BY DEF Create, FreshTask
<1>2. /\ pc[m] = "create" /\ pc'[m] = "start" /\ work'[m] = t /\ origin'[t] = m
      /\ status'[t] = "todo" /\ UNCHANGED <<left, runs, turn, contributed>>
      /\ \A u \in Tasks \ {t} : status'[u] = status[u] /\ owner'[u] = owner[u] /\ origin'[u] = origin[u]
      /\ \A n \in Messages \ {m} : pc[n] \in Idle /\ pc'[n] = pc[n] /\ work'[n] = work[n]
  BY <1>1, OneAtWork DEF Create, CreateTask, Go, Idle, RunInv, RunShape, IInv, TypeOK
<1>3. Rows'
  BY <1>1, <1>2, RowsKept DEF DoneInv
<1>4. Own(m)'
  BY <1>1, <1>2 DEF DoneInv, Rows, Fit, Own, Before, Fresh, Idle, Started
<1>5. Handed(m)' /\ Gathered(m)'
  BY <1>2 DEF Handed, Gathered, Closing, Running, Started, Seated
<1> QED
  BY <1>2, <1>3, <1>4, <1>5, OthersFit DEF DoneInv, Fit

LEMMA HandOffDone ==
  ASSUME RunInv, IInv, DoneInv, NEW m \in Messages, HandOff(m) PROVE DoneInv'
<1> DEFINE t == work[m]
<1>1. /\ pc[m] = "handoff" /\ t \in Tasks /\ Fit(m) /\ ~Collective(m)
      /\ UNCHANGED <<version, cancelVersion, work, turn, contributed, origin, left, runs>>
      /\ status[t] \notin {"none", "done"}
  BY NullAssumption DEF HandOff, HandOffTask, Kept, DataKept, taskVars, RunInv, Placed, WithTask,
     Started, DoneInv, Fit, Own, Handed, Idle
<1>2. CASE HandOffTask(t, Team[m][1], Team[m][2]) /\ Go(m, "target")
  <2>1. /\ pc'[m] = "target" /\ owner'[t] = Team[m][2] /\ status'[t] = "in_progress"
        /\ \A u \in Tasks \ {t} : status'[u] = status[u] /\ owner'[u] = owner[u]
        /\ \A n \in Messages \ {m} : pc[n] \in Idle /\ pc'[n] = pc[n]
    BY <1>1, <1>2, OneAtWork DEF HandOffTask, Go, Idle, RunInv, RunShape, IInv, TypeOK
  <2>2. Rows'
    BY <1>1, <2>1, RowsKept DEF DoneInv
  <2>3. Own(m)'
    BY <1>1, <2>1 DEF Fit, Own, Before, Fresh, Idle, Started
  <2>4. Handed(m)' /\ Gathered(m)'
    BY <1>1, <2>1 DEF Handed, Gathered, Closing, Running, Collective
  <2> QED
    BY <1>1, <2>1, <2>2, <2>3, <2>4, OthersFit DEF DoneInv, Fit
<1>3. CASE UNCHANGED taskVars /\ Go(m, "block")
  <2>1. Rows'
    BY <1>1, <1>3, RowsKept DEF DoneInv, taskVars
  <2>2. Ahead(m, "block")
    BY <1>1 DEF Ahead, Places, Idle, WithTask, Started, Fresh, Closing, Running
  <2> QED
    BY <1>1, <1>3, <2>1, <2>2, GoesFit DEF DoneInv, taskVars, Idle
<1> QED
  BY <1>2, <1>3 DEF HandOff

(* A run, or the end of a run, of the role whose turn it is, which has not
   contributed yet.                                                          *)
LEMMA TurnDone ==
  ASSUME RunInv, IInv, DoneInv, NEW m \in Messages,
         BeginRun(m) \/ StartRun(m) \/ Complete(m) \/ FailRun(m) \/ StopRun(m)
  PROVE  DoneInv'
<1> DEFINE t == work[m]
<1> USE DEF Seated, Started, WithTask, Idle, Places
<1>1. /\ pc[m] \in {"begin", "startrun", "complete", "failrun", "stopping"}
      /\ t \in Tasks /\ Fit(m) /\ Collective(m) /\ InTurn(m)
      /\ turn[m] \in 1..Len(Team[m]) /\ Len(Team[m]) \in Nat /\ Role(m) \in Roles
      /\ UNCHANGED <<version, cancelVersion, work, origin, left, status, owner>>
  BY TeamAssumption
  DEF BeginRun, StartRun, Complete, FailRun, StopRun, BeginAgentRun, StartAgentRun, CloseAgentRun,
      Kept, DataKept, taskVars, DoneInv, RunInv, RunShape, Placed, InTurn, Role
<1>2. \A u \in Tasks, r \in Roles : <<u, r>> # <<t, Role(m)>> => runs'[u][r] = runs[u][r]
  BY DEF BeginRun, StartRun, Complete, FailRun, StopRun, BeginAgentRun, StartAgentRun,
     CloseAgentRun, taskVars, IInv, TypeOK
<1>3. Role(m) \notin contributed[m] /\ contributed[m] \subseteq Roles
  <2>1. contributed[m] \subseteq Before(m) /\ contributed[m] \subseteq Roles
    BY <1>1 DEF Fit, Own, RunInv, RunShape
  <2>2. ASSUME NEW i \in 1..(turn[m] - 1), Team[m][i] = Role(m) PROVE FALSE
    BY <1>1, <2>2, TeamAssumption DEF Role, Collective
  <2> QED
    BY <2>1, <2>2 DEF Before
<1>4. status[t] \notin {"none", "done"}
  BY <1>1, NullAssumption DEF Fit, Own
<1>5. Rows'
  BY <1>1, <1>2, <1>4, RowsKept DEF DoneInv
<1> SUFFICES \A n \in Messages : Fit(n)'
  BY <1>5 DEF DoneInv
<1>6. ASSUME Finish(m) \/ Fail(m), UNCHANGED <<turn, contributed>>
      PROVE  \A n \in Messages : Fit(n)'
  BY <1>1, <1>6, EndsFit
<1>7. ASSUME NEW p \in {"startrun", "ask", "cancelling", "turn"}, Go(m, p),
             \/ UNCHANGED <<turn, contributed>>
             \/ /\ p = "turn" /\ turn' = [turn EXCEPT ![m] = @ + 1]
                /\ \/ UNCHANGED contributed
                   \/ /\ contributed' = [contributed EXCEPT ![m] = @ \cup {Role(m)}]
                      /\ ~WasCancelled(m) => runs'[t][Role(m)] = "succeeded",
             p = "ask" => runs'[t][Role(m)] = "running"
      PROVE  \A n \in Messages : Fit(n)'
  <2>1. /\ pc'[m] = p
        /\ \A n \in Messages \ {m} : /\ pc[n] \in Idle /\ pc'[n] = pc[n]
                                     /\ contributed'[n] = contributed[n] /\ turn'[n] = turn[n]
    BY <1>1, <1>7, OneAtWork DEF Go, RunInv, RunShape
  <2>2. contributed'[m] \subseteq Before(m)'
    <3>1. contributed[m] \subseteq Before(m)
      BY <1>1 DEF Fit, Own
    <3>2. \/ turn'[m] = turn[m] /\ contributed'[m] = contributed[m]
          \/ turn'[m] = turn[m] + 1 /\ contributed'[m] \subseteq contributed[m] \cup {Role(m)}
      BY <1>1, <1>7 DEF RunInv, RunShape
    <3>3. CASE turn'[m] = turn[m] /\ contributed'[m] = contributed[m]
      BY <3>1, <3>3 DEF Before
    <3>4. CASE turn'[m] = turn[m] + 1 /\ contributed'[m] \subseteq contributed[m] \cup {Role(m)}
      <4>1. Before(m) \cup {Role(m)} \subseteq Before(m)'
        BY <1>1, <3>4 DEF Before, Role
      <4> QED
        BY <3>1, <3>4, <4>1
    <3> QED
      BY <3>2, <3>3, <3>4
  <2>3. Own(m)'
    BY <1>1, <1>4, <1>7, <2>1, <2>2 DEF Fit, Own, Fresh
  <2>4. Handed(m)'
    BY <1>1, <1>7, <2>1 DEF Handed, Closing, Collective
  <2>5. ~WasCancelled(m) => \A r \in contributed'[m] : runs'[t][r] = "succeeded"
    <3>1. ~WasCancelled(m) => \A r \in contributed[m] : runs[t][r] = "succeeded"
      BY <1>1 DEF Fit, Gathered
    <3>2. \A r \in contributed[m] : runs'[t][r] = runs[t][r]
      BY <1>1, <1>2, <1>3
    <3>3. \/ contributed'[m] = contributed[m]
          \/ /\ contributed'[m] = contributed[m] \cup {Role(m)}
             /\ ~WasCancelled(m) => runs'[t][Role(m)] = "succeeded"
      BY <1>7 DEF RunInv, RunShape
    <3> QED
      BY <3>1, <3>2, <3>3
  <2>6. Gathered(m)'
    BY <1>1, <1>7, <2>1, <2>5
    DEF Gathered, Closing, Running, Collective, InTurn, Role, WasCancelled
  <2> QED
    BY <1>1, <2>1, <2>3, <2>4, <2>6, OthersFit DEF Fit
<1>8. CASE BeginRun(m)
  BY <1>6, <1>7, <1>8 DEF BeginRun, DataKept
<1>9. CASE StartRun(m)
  <2>1. runs'[t][Role(m)] = "running"
    BY <1>1, <1>9 DEF StartRun, StartAgentRun, IInv, TypeOK
  <2> QED
    BY <1>7, <1>9, <2>1 DEF StartRun, DataKept
<1>10. CASE Complete(m)
  <2>1. ~WasCancelled(m) => runs[t][Role(m)] = "running"
    BY <1>1, <1>10 DEF Complete, Fit, Gathered, Running
  <2>2. ~WasCancelled(m) => runs'[t][Role(m)] = "succeeded"
    BY <1>1, <1>10, <2>1 DEF Complete, CloseAgentRun, IInv, TypeOK
  <2> QED
    BY <1>7, <1>10, <2>2 DEF Complete
<1>11. CASE FailRun(m) \/ StopRun(m)
  BY <1>7, <1>11 DEF FailRun, StopRun, DataKept
<1> QED
  BY <1>8, <1>9, <1>10, <1>11

(* The loop over the team is over.                                           *)
LEMMA WrapDone ==
  ASSUME RunInv, IInv, DoneInv, NEW m \in Messages, Wrap(m) PROVE DoneInv'
<1>1. /\ pc[m] = "wrap" /\ Fit(m) /\ Len(Team[m]) \in Nat /\ turn[m] \in Nat \ {0}
      /\ turn[m] <= Len(Team[m]) + 1 /\ turn' = [turn EXCEPT ![m] = Len(Team[m]) + 1]
      /\ turn'[m] = Len(Team[m]) + 1
      /\ UNCHANGED <<version, cancelVersion, work, contributed, origin, left, status, owner, runs>>
  BY TeamAssumption DEF Wrap, Kept, taskVars, DoneInv, RunInv, RunShape, Placed
<1>2. /\ pc'[m] \in {"block", "suspend", "synthesize"}
      /\ pc'[m] = "synthesize" => AllContributed(m)
      /\ \A n \in Messages \ {m} : pc[n] \in Idle /\ pc'[n] = pc[n] /\ turn'[n] = turn[n]
  BY <1>1, OneAtWork DEF Wrap, Go, RunInv, RunShape, Idle
<1>3. Collective(m) /\ Before(m) \subseteq Before(m)'
  BY <1>1 DEF Fit, Handed, Before
<1>4. Own(m)'
  BY <1>1, <1>2, <1>3 DEF Fit, Own, Fresh, Started, Seated, Idle
<1>5. Handed(m)'
  BY <1>2, <1>3 DEF Handed, Closing, Collective
<1>6. Gathered(m)'
  BY <1>1, <1>2
  DEF Fit, Gathered, Closing, Running, InTurn, AllContributed, WasCancelled, Collective, Started
<1>7. Rows'
  BY <1>1, RowsKept DEF DoneInv
<1> QED
  BY <1>1, <1>2, <1>4, <1>5, <1>6, <1>7, OthersFit DEF DoneInv, Fit

(* Steps of a message that does not have the lock, before or after.          *)
LEMMA OutsideDone ==
  ASSUME RunInv, DoneInv, NEW m \in Messages, TakeLock(m) \/ MarkCompleted(m) \/ Receive(m)
  PROVE  DoneInv'
<1>1. /\ UNCHANGED <<version, origin, left, status, owner, runs>>
      /\ \A n \in Messages \ {m} :
           /\ pc'[n] = pc[n] /\ work'[n] = work[n] /\ contributed'[n] = contributed[n]
           /\ turn'[n] = turn[n] /\ cancelVersion'[n] = cancelVersion[n]
  BY DEF TakeLock, MarkCompleted, Receive, Go, Kept, DataKept, taskVars, RunInv, RunShape
<1>2. Rows'
  BY <1>1, RowsKept DEF DoneInv
<1>3. ASSUME NEW n \in Messages \ {m} PROVE Fit(n)'
  <2>1. /\ InTurn(n)' = InTurn(n) /\ Role(n)' = Role(n) /\ WasCancelled(n)' = WasCancelled(n)
        /\ AllContributed(n)' = AllContributed(n) /\ Collective(n)' = Collective(n)
        /\ Before(n)' = Before(n) /\ Members(n)' = Members(n)
    BY <1>1 DEF InTurn, Role, WasCancelled, AllContributed, Collective, Before, Members
  <2>2. Fit(n)
    BY DEF DoneInv
  <2> QED
    BY <1>1, <2>1, <2>2 DEF Fit, Own, Handed, Gathered
<1>4. Fit(m)'
  <2>1. /\ pc'[m] \in {"entered", "answered", "queued"}
        /\ \/ UNCHANGED <<work, contributed, turn>>
           \/ work'[m] = NoTask /\ contributed'[m] = {}
        /\ pc'[m] = "entered" => pc[m] = "queued"
        /\ pc'[m] = "queued" => work'[m] = NoTask /\ contributed'[m] = {}
    BY DEF TakeLock, MarkCompleted, Receive, Go, DataKept, RunInv, RunShape
  <2>2. Own(m)'
    BY <2>1 DEF DoneInv, Fit, Own, Before, Fresh, Idle, Started, Seated
  <2>3. Handed(m)' /\ Gathered(m)'
    BY <2>1 DEF Handed, Gathered, Closing, Running, Started, Seated
  <2> QED
    BY <2>2, <2>3 DEF Fit
<1> QED
  BY <1>2, <1>3, <1>4 DEF DoneInv

LEMMA WorkDone ==
  ASSUME RunInv, IInv, DoneInv, NEW m \in Messages, Work(m) PROVE DoneInv'
<1>1. ASSUME NEW t \in Tasks, SeeConflict(m, t) PROVE DoneInv'
  <2>1. /\ pc[m] = "entered" /\ pc'[m] = "conflict" /\ work'[m] = t /\ status[t] = "in_progress"
        /\ UNCHANGED <<origin, left, status, owner, runs, contributed, turn>>
        /\ \A n \in Messages \ {m} : pc[n] \in Idle /\ pc'[n] = pc[n] /\ work'[n] = work[n]
    BY <1>1, OneAtWork DEF SeeConflict, InProgress, Go, Kept, taskVars, Idle, RunInv, RunShape
  <2>2. Rows'
    BY <2>1, RowsKept DEF DoneInv
  <2>3. Own(m)'
    BY <2>1 DEF DoneInv, Fit, Own, Before, Fresh, Idle, Started, Seated
  <2>4. Handed(m)' /\ Gathered(m)'
    BY <2>1 DEF Handed, Gathered, Closing, Running, Started, Seated
  <2> QED
    BY <2>1, <2>2, <2>3, <2>4, OthersFit DEF DoneInv, Fit
<1>2. CASE \/ Decline(m) \/ Socialize(m) \/ Begin(m) \/ AskPrimary(m) \/ Prepare(m)
           \/ AskTarget(m) \/ Turn(m) \/ Look(m) \/ Ask(m) \/ CheckTask(m) \/ Send(m) \/ Synthesize(m) \/ Notice(m)
  BY <1>2, QuietDone
  DEF Decline, Socialize, Begin, AskPrimary, Prepare, AskTarget, Turn, Look, Ask, CheckTask, Send,
      Synthesize, Notice, Kept
<1> QED
  BY <1>1, <1>2, SocialDone, MoveDone, CloseDone, CreateDone, HandOffDone, TurnDone, WrapDone, OutsideDone
  DEF Work

LEMMA DoneStep ==
  ASSUME RunInv, IInv, LateInv, DoneInv, [GroupNext]_vars PROVE DoneInv'
<1>1. ASSUME NEW action, NEW scope \in Nameable, Command(action, scope) PROVE DoneInv'
  <2>1. UNCHANGED <<owner, origin, left, lock, pc, work, turn, contributed, cancelVersion>>
    BY <1>1
    DEF Command, runVars, CancelActiveTasks, PauseActiveTasks, ResumeWaitingTasks, StopTasks
  <2>2. \A t \in Tasks : \/ status'[t] \notin {"none", "done"} /\ status[t] \notin {"none", "done"}
                         \/ /\ status'[t] = status[t]
                            /\ \A r \in Roles : runs'[t][r] = runs[t][r]
    BY <1>1
    DEF Command, CancelActiveTasks, PauseActiveTasks, ResumeWaitingTasks, StopTasks, InScope,
        Active
  <2>3. /\ \A t \in Tasks, r \in Roles :
             runs[t][r] = "succeeded" => runs'[t][r] = "succeeded"
        /\ UNCHANGED runs \/ version' = version + 1
        /\ version' \in {version, version + 1}
    BY <1>1
    DEF Command, Stops, CancelActiveTasks, PauseActiveTasks, ResumeWaitingTasks, StopTasks
  <2>4. Rows'
    BY <2>1, <2>2, RowsKept DEF DoneInv
  <2>5. ASSUME NEW m \in Messages PROVE Fit(m)'
    <3>1. /\ Fit(m) /\ pc[m] \in Places /\ contributed[m] \subseteq Roles /\ Members(m) \subseteq Roles
          /\ work[m] \in Tasks \cup {NoTask} /\ (pc[m] \in Started => work[m] \in Tasks)
      BY TeamAssumption DEF DoneInv, RunInv, RunShape, Members, Placed, WithTask
    <3>2. pc[m] \notin Idle => \/ UNCHANGED <<runs, version>>
                               \/ WasCancelled(m)'
                               \/ UNCHANGED runs /\ (WasCancelled(m) => WasCancelled(m)')
      <4>1. version \in Nat /\ cancelVersion[m] \in Nat
        BY BoundsAssumption DEF RunInv, RunShape
      <4>2. pc[m] \notin Idle => cancelVersion[m] <= version
        BY <3>1 DEF LateInv, Late
      <4> QED
        BY <2>1, <2>3, <4>1, <4>2 DEF WasCancelled
    <3>3. Own(m)'
      BY <2>1, <2>2, <3>1 DEF Fit, Own, Before
    <3>4. Handed(m)'
      BY <2>1, <3>1 DEF Fit, Handed, Collective
    <3>5. Gathered(m)'
      BY <2>1, <2>3, <3>1, <3>2
      DEF Fit, Gathered, InTurn, Role, AllContributed, WasCancelled, Collective, Members,
          Running, Closing, Started, Seated, Idle
    <3> QED
      BY <3>3, <3>4, <3>5 DEF Fit
  <2> QED
    BY <2>4, <2>5 DEF DoneInv
<1>2. CASE Crash
  <2>1. /\ UNCHANGED <<status, owner, runs, origin, turn, contributed>>
        /\ \A m \in Messages : pc'[m] \in {"new", "answered", "failed"}
    BY <1>2 DEF Crash
  <2>2. ASSUME NEW t \in Tasks, t \in left', t \notin left PROVE status[t] \notin {"none", "done"}
    <3>1. lock \in Messages /\ work[lock] = t
      BY <1>2, <2>2 DEF Crash, RunInv, RunShape
    <3>2. pc[lock] \notin Idle
      BY <3>1 DEF RunInv, Placed
    <3> QED
      BY <3>1, <3>2, NullAssumption DEF DoneInv, Fit, Own
  <2>3. Rows'
    BY <2>1, <2>2 DEF DoneInv, Rows, Delivered, Collective, Members
  <2>4. ASSUME NEW m \in Messages PROVE Fit(m)'
    <3>1. Own(m)'
      BY <2>1 DEF DoneInv, Fit, Own, Before, Fresh, Idle, Started, Seated
    <3>2. Handed(m)' /\ Gathered(m)'
      BY <2>1 DEF Handed, Gathered, Closing, Running, Started, Seated
    <3> QED
      BY <3>1, <3>2 DEF Fit
  <2> QED
    BY <2>3, <2>4 DEF DoneInv
<1>3. CASE UNCHANGED vars
  <2>1. UNCHANGED <<status, owner, runs, origin, left, pc, work, turn, contributed, version,
                    cancelVersion>>
    BY <1>3 DEF vars, taskVars, runVars
  <2>2. Rows'
    BY <2>1 DEF DoneInv, Rows, Delivered, Collective, Members
  <2>3. ASSUME NEW m \in Messages PROVE Fit(m)'
    BY <2>1 DEF DoneInv, Fit, Own, Handed, Gathered, Before, InTurn, Role, WasCancelled, Collective,
                AllContributed, Members
  <2> QED
    BY <2>2, <2>3 DEF DoneInv
<1> QED
  BY <1>1, <1>2, <1>3, WorkDone, OutsideDone DEF GroupNext

LEMMA TasksFit == GroupSpec => []DoneInv
<1>1. GroupInit => DoneInv
  BY DEF GroupInit, Init, DoneInv, Rows, Fit, Own, Handed, Gathered, Fresh, Closing, Running,
         Started, Seated, Idle
<1>2. GroupInit => LateInv
  BY InitLate
<1>3. GroupInv /\ LateInv /\ [GroupNext]_vars => LateInv'
  BY LateStep DEF GroupInv
<1>4. GroupInv /\ LateInv /\ DoneInv /\ [GroupNext]_vars => DoneInv'
  BY DoneStep DEF GroupInv
<1> QED
  BY <1>1, <1>2, <1>3, <1>4, InitGroup, GroupStep, PTL DEF GroupSpec

(* Only a task whose whole team delivered, in the run that created it, is done
   (orchestrator.py:306): no pause, resume, stop or crash, at whatever step of
   the run it comes, lets a run close a task with a role missing.            *)
THEOREM OnlyCompleteIsDone == GroupSpec => []DoneIsComplete
<1>1. DoneInv => DoneIsComplete
  <2> SUFFICES ASSUME DoneInv, NEW t \in Tasks, status[t] = "done"
               PROVE  /\ t \notin left
                      /\ IF Collective(origin[t])
                           THEN \A i \in 1..Len(Team[origin[t]]) :
                                  runs[t][Team[origin[t]][i]] = "succeeded"
                           ELSE owner[t] = Team[origin[t]][2]
    BY DEF DoneIsComplete
  <2> QED
    BY DEF DoneInv, Rows, Delivered, Members
<1> QED
  BY <1>1, TasksFit, PTL

-----------------------------------------------------------------------------
(* The loop guard.  A thread is only asked about by its one collective message, so
   its counts keep step with that message's turns: before a turn they hold the
   roles before, after it that role too.                                     *)
WithinLimits ==
  \A m \in Messages : Collective(m) =>
    /\ Len(Team[m]) < MaxTurns /\ Cardinality(Members(m)) <= MaxAgents
    /\ \A n \in Messages : Collective(n) /\ ThreadOf[n] = ThreadOf[m] => n = m

Unasked == {"new", "queued", "entered", "create", "start"}
Asking == {"turn", "look", "wrap"}
Taken(m) ==
  \/ pc[m] \in {"begin", "startrun", "ask", "complete", "failrun"}
  \/ pc[m] \in {"check", "send"} /\ InTurn(m)

(* The guard's row of the message's thread has seen those seated, and the roles that
   contributed are among them.                                               *)
SeatsOf(m, d, seated) ==
  /\ threadStatus[d] # "waiting_user"
  /\ contributed[m] \subseteq activeAgents[d] /\ activeAgents[d] \subseteq seated

Room(m) ==
  LET d == ThreadOf[m] IN
  Collective(m) /\ attempt[m] = 1 =>
    /\ pc[m] \in Unasked => threadStatus[d] = "none"
    /\ pc[m] \in Asking => SeatsOf(m, d, Before(m)) /\ turnCount[d] < turn[m]
    /\ Taken(m) => /\ SeatsOf(m, d, Before(m) \cup {Role(m)}) /\ turnCount[d] <= turn[m]
                   /\ Role(m) \in activeAgents[d]

RoomInv == \A m \in Messages : Room(m)

LEMMA MembersOf ==
  ASSUME NEW m \in Messages
  PROVE  /\ Len(Team[m]) \in Nat /\ IsFiniteSet(Members(m))
         /\ Collective(m) => Len(Team[m]) > 1 /\ Team[m][1] \in Members(m)
<1> DEFINE n == Len(Team[m])
           f == [i \in 1..n |-> Team[m][i]]
<1>1. n \in Nat /\ (Collective(m) => n > 1)
  BY TeamAssumption DEF Collective
<1>2. IsFiniteSet(1..n)
  <2> HIDE DEF f, n
  <2> QED
    BY <1>1, FS_Interval
<1>3. f \in Surjection(1..n, Members(m))
  BY DEF Surjection, Members
<1>4. IsFiniteSet(Members(m))
  <2> HIDE DEF f, n
  <2> QED
    BY <1>2, <1>3, FS_Surjection
<1> QED
  BY <1>1, <1>4 DEF Members

(* A team's role has a seat while those seated are of the team.              *)
LEMMA SeatForMember ==
  ASSUME WithinLimits, NEW m \in Messages, Collective(m), NEW d, NEW r \in Members(m),
         activeAgents[d] \subseteq Members(m)
  PROVE  SeatLeft(d, r)
<1>1. IsFiniteSet(Members(m)) /\ Cardinality(Members(m)) <= MaxAgents
  BY MembersOf DEF WithinLimits
<1>2. CASE r \notin activeAgents[d]
  <2> DEFINE seated == activeAgents[d]
  <2>1. IsFiniteSet(seated \cup {r}) /\ Cardinality(seated \cup {r}) <= Cardinality(Members(m))
    BY <1>1, FS_Subset
  <2>2. IsFiniteSet(seated)
    BY <1>1, FS_Subset
  <2>3. Cardinality(seated \cup {r}) = Cardinality(seated) + 1
    BY <1>2, <2>2, FS_AddElement
  <2>4. Cardinality(seated) \in Nat /\ Cardinality(Members(m)) \in Nat
    BY <1>1, <2>2, FS_CardinalityType
  <2> QED
    BY <1>1, <2>1, <2>3, <2>4, LimitsAssumption DEF SeatLeft
<1> QED
  BY <1>2 DEF SeatLeft

(* The guard agrees when it is asked.                                        *)
LEMMA GuardAgrees ==
  ASSUME WithinLimits, RunInv, ThreadsInv, DoneInv, RoomInv, NEW m \in Messages,
         attempt[m] = 1, pc[m] = "look" \/ (pc[m] = "wrap" /\ AllContributed(m))
  PROVE  MayContinue(ThreadOf[m], IF InTurn(m) THEN Role(m) ELSE Team[m][1])
<1> DEFINE d == ThreadOf[m]
           r == IF InTurn(m) THEN Role(m) ELSE Team[m][1]
<1>1. /\ turn[m] \in Nat \ {0} /\ turn[m] <= Len(Team[m]) + 1 /\ d \in Threads
      /\ pc[m] = "look" => InTurn(m)
  BY ThreadAssumption DEF RunInv, RunShape, Placed, Seated
<1>2. Collective(m)
  BY <1>1 DEF InTurn, DoneInv, Fit, Handed
<1>3. /\ Len(Team[m]) \in Nat /\ Len(Team[m]) < MaxTurns /\ Team[m][1] \in Members(m)
      /\ MaxTurns \in Nat
  BY <1>2, MembersOf, LimitsAssumption DEF WithinLimits
<1>4. SeatsOf(m, d, Before(m)) /\ turnCount[d] < turn[m]
  BY <1>2 DEF RoomInv, Room, Asking
<1>5. turnCount[d] \in Nat
  BY <1>1 DEF ThreadsInv, ThreadsOK
<1>6. TurnLeft(d)
  <2>1. pc[m] = "look" => turn[m] <= Len(Team[m])
    BY <1>1 DEF InTurn
  <2> QED
    BY <1>1, <1>3, <1>4, <1>5 DEF TurnLeft
<1>7. r \in Members(m)
  BY <1>1, <1>3 DEF InTurn, Role, Members
<1>8. Before(m) \subseteq Members(m)
  BY <1>1, <1>3 DEF Before, Members
<1>9. SeatLeft(d, r)
  BY <1>2, <1>4, <1>7, <1>8, SeatForMember DEF SeatsOf
<1>10. threadStatus[d] \in {"none", "active"}
  BY <1>1, <1>4 DEF SeatsOf, ThreadsInv, ThreadsOK
<1> QED
  BY <1>6, <1>9, <1>10 DEF MayContinue

(* Another message's thread is its own.                                      *)
LEMMA OthersRoom ==
  ASSUME WithinLimits, RoomInv, NEW m \in Messages, Room(m)',
         \A n \in Messages \ {m} :
           /\ pc'[n] = pc[n] /\ attempt'[n] = attempt[n]
           /\ turn'[n] = turn[n] /\ contributed'[n] = contributed[n],
         \/ UNCHANGED threadVars
         \/ /\ Collective(m)
            /\ \A d \in Threads \ {ThreadOf[m]} :
                 /\ threadStatus'[d] = threadStatus[d] /\ turnCount'[d] = turnCount[d]
                 /\ activeAgents'[d] = activeAgents[d]
  PROVE  RoomInv'
<1> SUFFICES ASSUME NEW n \in Messages \ {m}, Collective(n) PROVE Room(n)'
  BY DEF RoomInv, Room, Collective
<1> DEFINE d == ThreadOf[n]
<1>1. /\ threadStatus'[d] = threadStatus[d] /\ turnCount'[d] = turnCount[d]
      /\ activeAgents'[d] = activeAgents[d]
  BY ThreadAssumption DEF WithinLimits, threadVars
<1>2. /\ Taken(n)' = Taken(n) /\ Before(n)' = Before(n) /\ Role(n)' = Role(n)
  BY DEF Taken, InTurn, Before, Role
<1> QED
  BY <1>1, <1>2 DEF RoomInv, Room, SeatsOf

(* Where a run may go without asking the guard.                              *)
Forth(m, p) ==
  /\ p \in Unasked => pc[m] \in Unasked \/ ~Collective(m)
  /\ p \in Asking => pc[m] \in Asking \cup {"start"}
  /\ p \in {"begin", "startrun", "ask", "complete", "failrun"} => Taken(m)
  /\ p \in {"check", "send"} /\ InTurn(m) => Taken(m)

LEMMA GoesRoom ==
  ASSUME WithinLimits, RunInv, ThreadsInv, DoneInv, RoomInv, NEW m \in Messages, NEW p,
         Go(m, p), UNCHANGED <<threadVars, turn, contributed>>, Forth(m, p)
  PROVE  RoomInv'
<1>1. /\ pc'[m] = p /\ UNCHANGED attempt
      /\ \A n \in Messages \ {m} : pc'[n] = pc[n]
  BY DEF Go, RunInv, RunShape
<1>2. InTurn(m)' = InTurn(m) /\ Before(m)' = Before(m) /\ Role(m)' = Role(m)
  BY DEF InTurn, Before, Role
<1>3. ASSUME Collective(m), attempt[m] = 1 PROVE Room(m)'
  <2> DEFINE d == ThreadOf[m]
  <2>1. p \in Unasked => threadStatus[d] = "none"
    BY <1>3 DEF RoomInv, Room, Forth
  <2>2. p \in Asking => SeatsOf(m, d, Before(m)) /\ turnCount[d] < turn[m]
    <3>1. CASE pc[m] \in Asking
      BY <1>3, <3>1 DEF RoomInv, Room
    <3>2. CASE pc[m] = "start"
      <4>1. contributed[m] = {} /\ turn[m] \in Nat \ {0} /\ d \in Threads
        BY <3>2, ThreadAssumption DEF DoneInv, Fit, Own, RunInv, RunShape
      <4>2. threadStatus[d] = "none" /\ turnCount[d] = 0 /\ activeAgents[d] = {}
        BY <1>3, <3>2, <4>1 DEF RoomInv, Room, Unasked, ThreadsInv
      <4> QED
        BY <4>1, <4>2 DEF SeatsOf
    <3> QED
      BY <3>1, <3>2 DEF Forth
  <2>3. Taken(m)' => Taken(m)
    BY <1>1, <1>2 DEF Taken, Forth
  <2>4. Taken(m) => /\ SeatsOf(m, d, Before(m) \cup {Role(m)}) /\ turnCount[d] <= turn[m]
                    /\ Role(m) \in activeAgents[d]
    BY <1>3 DEF RoomInv, Room
  <2> QED
    BY <1>1, <1>2, <2>1, <2>2, <2>3, <2>4 DEF Room, SeatsOf, threadVars
<1>4. Room(m)'
  BY <1>1, <1>3 DEF Room, Collective
<1> QED
  BY <1>1, <1>4, OthersRoom

(* A run that ends is not taken up again as the first.                       *)
LEMMA EndsRoom ==
  ASSUME WithinLimits, RunInv, RoomInv, NEW m \in Messages, Finish(m) \/ Fail(m),
         UNCHANGED <<threadVars, turn, contributed>>
  PROVE  RoomInv'
<1>1. \/ pc'[m] \in {"returned", "failed"}
      \/ pc'[m] = "new" /\ attempt'[m] # 1
  BY BoundsAssumption DEF Finish, Fail, RunInv, RunShape
<1>2. \A n \in Messages \ {m} : pc'[n] = pc[n] /\ attempt'[n] = attempt[n]
  BY DEF Finish, Fail, RunInv, RunShape
<1>3. Room(m)'
  BY <1>1 DEF Room, Unasked, Asking, Taken
<1> QED
  BY <1>2, <1>3, OthersRoom

LEMMA QuietRoom ==
  ASSUME WithinLimits, RunInv, ThreadsInv, DoneInv, RoomInv, NEW m \in Messages,
         \/ Decline(m) \/ Socialize(m) \/ Begin(m) \/ PauseConflicting(m) \/ AskPrimary(m)
         \/ Create(m) \/ Start(m) \/ Prepare(m) \/ HandOff(m) \/ AskTarget(m) \/ Turn(m) \/ BeginRun(m) \/ StartRun(m)
         \/ Ask(m) \/ CheckTask(m) \/ Send(m) \/ Synthesize(m) \/ Close(m) \/ Suspend(m)
         \/ Block(m) \/ Notice(m) \/ StopRun(m) \/ CancelTask(m) \/ MarkCompleted(m)
         \/ \E t \in Tasks : SeeConflict(m, t)
  PROVE  RoomInv'
<1>1. UNCHANGED <<threadVars, turn, contributed>>
  BY DEF Decline, Socialize, Begin, PauseConflicting, AskPrimary, Create, Start, Prepare, HandOff,
         AskTarget, Turn, BeginRun, StartRun, Ask, CheckTask, Send, Synthesize, Close, Suspend, Block, Notice,
         StopRun, CancelTask, MarkCompleted, SeeConflict, DataKept
<1>2. (Finish(m) \/ Fail(m)) \/ \E p : Go(m, p) /\ Forth(m, p)
  <2> USE DEF Forth, Unasked, Asking, Taken
  <2>1. CASE \/ Decline(m) \/ Socialize(m) \/ Begin(m) \/ PauseConflicting(m) \/ AskPrimary(m)
             \/ Create(m) \/ Start(m)
    BY <2>1 DEF Decline, Socialize, Begin, PauseConflicting, AskPrimary, Create, Start, Collective
  <2>2. CASE Prepare(m) \/ HandOff(m) \/ AskTarget(m)
    BY <2>2 DEF Prepare, HandOff, AskTarget, AgentEnds, DoneInv, Fit, Handed, InTurn
  <2>3. CASE Turn(m) \/ BeginRun(m) \/ StartRun(m)
    BY <2>3 DEF Turn, BeginRun, StartRun
  <2>4. CASE Ask(m) \/ CheckTask(m) \/ Send(m)
    BY <2>4 DEF Ask, CheckTask, Send, AgentEnds, AfterCancelled, AfterRaise, AfterSend
  <2>5. CASE Synthesize(m)
    BY <2>5 DEF Synthesize, AgentEnds, DoneInv, Fit, Gathered
  <2>6. CASE Close(m) \/ Suspend(m) \/ Block(m) \/ Notice(m) \/ StopRun(m) \/ CancelTask(m)
    BY <2>6 DEF Close, Suspend, Block, Notice, StopRun, CancelTask
  <2>7. CASE MarkCompleted(m) \/ \E t \in Tasks : SeeConflict(m, t)
    BY <2>7 DEF MarkCompleted, SeeConflict
  <2> QED
    BY <2>1, <2>2, <2>3, <2>4, <2>5, <2>6, <2>7
<1> QED
  BY <1>1, <1>2, GoesRoom, EndsRoom

LEMMA SocialRoom ==
  ASSUME WithinLimits, RunInv, RoomInv, NEW m \in Messages, Greet(m) \/ Chat(m)
  PROVE  RoomInv'
<1>1. pc[m] \in Social /\ UNCHANGED <<threadVars, contributed>>
  BY SocialStep DEF RestKept
<1>2. CASE (Finish(m) \/ Fail(m)) /\ UNCHANGED turn
  BY <1>1, <1>2, EndsRoom
<1>3. CASE NextTurn(m)
  <2>1. UNCHANGED <<pc, attempt>> /\ \A n \in Messages \ {m} : turn'[n] = turn[n]
    BY <1>3 DEF NextTurn, RunInv, RunShape
  <2>2. Room(m)'
    BY <1>1, <2>1 DEF Room, Social, Unasked, Asking, Taken
  <2> QED
    BY <1>1, <2>1, <2>2, OthersRoom
<1> QED
  BY <1>2, <1>3, SocialStep

(* A turn is taken.                                                          *)
LEMMA SeatTaken ==
  ASSUME ThreadsInv, NEW m \in Messages, NEW r, TakeTurn(ThreadOf[m], r)
  PROVE  LET d == ThreadOf[m] IN
         /\ threadStatus'[d] = "active" /\ turnCount'[d] = turnCount[d] + 1
         /\ activeAgents'[d] = activeAgents[d] \cup {r}
         /\ \A e \in Threads \ {d} :
              /\ threadStatus'[e] = threadStatus[e] /\ turnCount'[e] = turnCount[e]
              /\ activeAgents'[e] = activeAgents[e]
<1> DEFINE d == ThreadOf[m]
<1>1. d \in Threads
  BY ThreadAssumption
<1>2. /\ threadStatus' = [threadStatus EXCEPT ![d] = "active"]
      /\ turnCount' = [turnCount EXCEPT ![d] = @ + 1]
      /\ activeAgents' = [activeAgents EXCEPT ![d] = @ \cup {r}]
  BY DEF TakeTurn
<1> HIDE DEF d
<1>3. /\ threadStatus'[d] = "active" /\ turnCount'[d] = turnCount[d] + 1
      /\ activeAgents'[d] = activeAgents[d] \cup {r}
      /\ \A e \in Threads \ {d} :
           /\ threadStatus'[e] = threadStatus[e] /\ turnCount'[e] = turnCount[e]
           /\ activeAgents'[e] = activeAgents[e]
  BY <1>1, <1>2 DEF ThreadsInv, ThreadsOK
<1> QED
  BY <1>3 DEF d

LEMMA AskRoom ==
  ASSUME WithinLimits, RunInv, ThreadsInv, DoneInv, RoomInv, NEW m \in Messages,
         Look(m) \/ Wrap(m)
  PROVE  RoomInv'
<1> DEFINE d == ThreadOf[m]
<1>1. /\ pc[m] \in {"look", "wrap"} /\ Collective(m) /\ d \in Threads
      /\ pc[m] = "look" => InTurn(m)
      /\ turn[m] \in Nat /\ UNCHANGED <<attempt, contributed>>
  BY ThreadAssumption DEF Look, Wrap, Go, DataKept, RunInv, RunShape, Placed, Seated, InTurn,
     DoneInv, Fit, Handed
<1>2. \A n \in Messages \ {m} :
        /\ pc'[n] = pc[n] /\ attempt'[n] = attempt[n]
        /\ turn'[n] = turn[n] /\ contributed'[n] = contributed[n]
  BY DEF Look, Wrap, Go, DataKept, RunInv, RunShape
<1>3. \/ UNCHANGED threadVars
      \/ \A e \in Threads \ {d} :
           /\ threadStatus'[e] = threadStatus[e] /\ turnCount'[e] = turnCount[e]
           /\ activeAgents'[e] = activeAgents[e]
  <2>1. ASSUME NEW r, RefuseTurn(d, r)
        PROVE  \A e \in Threads \ {d} :
                 /\ threadStatus'[e] = threadStatus[e] /\ turnCount'[e] = turnCount[e]
                 /\ activeAgents'[e] = activeAgents[e]
    BY <2>1 DEF RefuseTurn, ThreadsInv, ThreadsOK
  <2> QED
    BY <2>1, SeatTaken DEF Look, Wrap
<1>4. ASSUME attempt[m] = 1 PROVE Room(m)'
  <2>1. CASE Wrap(m)
    <3>1. pc'[m] \in {"block", "suspend", "synthesize"}
      BY <2>1 DEF Wrap, Go, RunInv, RunShape
    <3> QED
      BY <3>1 DEF Room, Unasked, Asking, Taken
  <2>2. CASE Look(m)
    <3>1. /\ SeatsOf(m, d, Before(m)) /\ turnCount[d] < turn[m] /\ turnCount[d] \in Nat
          /\ MayContinue(d, Role(m))
      <4>1. pc[m] = "look" /\ InTurn(m)
        BY <1>1, <2>2 DEF Look
      <4>2. MayContinue(d, Role(m))
        BY <1>4, <4>1, GuardAgrees
      <4>3. turnCount[d] \in Nat
        BY <1>1 DEF ThreadsInv, ThreadsOK
      <4> QED
        BY <1>1, <1>4, <4>1, <4>2, <4>3 DEF RoomInv, Room, Asking
    <3>2. \/ Go(m, "stopping") /\ UNCHANGED threadVars
          \/ Go(m, "wrap") /\ UNCHANGED threadVars
          \/ Go(m, "begin") /\ TakeTurn(d, Role(m))
      BY <2>2, <3>1 DEF Look, RefuseTurn
    <3>3. UNCHANGED <<turn, contributed>>
      BY <2>2 DEF Look, DataKept
    <3>4. CASE UNCHANGED threadVars /\ pc'[m] \in {"stopping", "wrap"}
      BY <3>1, <3>3, <3>4 DEF Room, SeatsOf, Before, Taken, Unasked, Asking, threadVars
    <3>5. CASE pc'[m] = "begin" /\ TakeTurn(d, Role(m))
      <4>1. /\ threadStatus'[d] = "active" /\ turnCount'[d] = turnCount[d] + 1
            /\ activeAgents'[d] = activeAgents[d] \cup {Role(m)}
        BY <3>5, SeatTaken
      <4>2. Role(m)' = Role(m) /\ Before(m)' = Before(m)
        BY <3>3 DEF Role, Before
      <4> QED
        BY <1>1, <3>1, <3>3, <3>5, <4>1, <4>2 DEF Room, SeatsOf, Unasked, Asking
    <3> QED
      BY <3>2, <3>4, <3>5 DEF Go, RunInv, RunShape
  <2> QED
    BY <2>1, <2>2
<1>5. Room(m)'
  BY <1>1, <1>4 DEF Room
<1> QED
  BY <1>1, <1>2, <1>3, <1>5, OthersRoom

LEMMA TurnOverRoom ==
  ASSUME WithinLimits, RunInv, ThreadsInv, RoomInv, NEW m \in Messages,
         Complete(m) \/ FailRun(m)
  PROVE  RoomInv'
<1> DEFINE d == ThreadOf[m]
<1>1. /\ pc[m] \in {"complete", "failrun"} /\ pc'[m] = "turn" /\ turn'[m] = turn[m] + 1
      /\ contributed'[m] \subseteq contributed[m] \cup {Role(m)}
      /\ turn[m] \in Nat \ {0} /\ d \in Threads /\ UNCHANGED <<threadVars, attempt>>
  BY ThreadAssumption DEF Complete, FailRun, Go, RunInv, RunShape
<1>2. \A n \in Messages \ {m} :
        /\ pc'[n] = pc[n] /\ turn'[n] = turn[n] /\ contributed'[n] = contributed[n]
  BY DEF Complete, FailRun, Go, RunInv, RunShape
<1>3. ASSUME Collective(m), attempt[m] = 1 PROVE Room(m)'
  <2>1. /\ SeatsOf(m, d, Before(m) \cup {Role(m)}) /\ turnCount[d] <= turn[m]
        /\ Role(m) \in activeAgents[d] /\ turnCount[d] \in Nat
    BY <1>1, <1>3 DEF RoomInv, Room, Taken, ThreadsInv, ThreadsOK
  <2>2. Before(m) \cup {Role(m)} \subseteq Before(m)'
    <3>1. 1..turn[m] = 1..(turn'[m] - 1)
      BY <1>1
    <3>2. Before(m)' = {Team[m][i] : i \in 1..turn[m]}
      BY <3>1 DEF Before
    <3> QED
      BY <1>1, <3>2 DEF Before, Role
  <2>3. SeatsOf(m, d, Before(m))'
    BY <1>1, <2>1, <2>2 DEF SeatsOf, threadVars
  <2>4. turnCount'[d] < turn'[m]
    BY <1>1, <2>1 DEF threadVars
  <2> QED
    BY <1>1, <2>3, <2>4 DEF Room, Unasked, Asking, Taken
<1>4. Room(m)'
  BY <1>1, <1>3 DEF Room, Collective
<1> QED
  BY <1>1, <1>2, <1>4, OthersRoom

LEMMA RoomStep ==
  ASSUME WithinLimits, RunInv, ThreadsInv, DoneInv, RoomInv, [GroupNext]_vars PROVE RoomInv'
<1>1. ASSUME NEW m \in Messages, TakeLock(m) \/ Receive(m) PROVE RoomInv'
  <2>1. /\ pc[m] \in Unasked /\ pc'[m] \in {"queued", "entered"} /\ UNCHANGED <<threadVars, attempt>>
        /\ \A n \in Messages \ {m} :
             /\ pc'[n] = pc[n] /\ turn'[n] = turn[n] /\ contributed'[n] = contributed[n]
    BY <1>1 DEF TakeLock, Receive, Go, DataKept, RunInv, RunShape, Unasked
  <2>2. Room(m)'
    BY <2>1 DEF RoomInv, Room, Unasked, Asking, Taken, threadVars
  <2> QED
    BY <2>1, <2>2, OthersRoom
<1>2. ASSUME NEW m \in Messages, Work(m) PROVE RoomInv'
  BY <1>1, <1>2, SocialRoom, QuietRoom, AskRoom, TurnOverRoom DEF Work
<1>3. ASSUME NEW action, NEW scope, Command(action, scope) PROVE RoomInv'
  BY <1>3 DEF Command, runVars, threadVars, RoomInv, Room, SeatsOf, Taken, InTurn, Before, Role
<1>4. CASE Crash
  <2>1. ASSUME NEW m \in Messages
        PROVE  \/ pc'[m] = pc[m] /\ pc[m] \in {"new", "answered", "failed"} /\ attempt'[m] = attempt[m]
               \/ pc'[m] = "failed"
               \/ attempt'[m] # 1
    BY <1>4, BoundsAssumption DEF Crash, RunInv, RunShape
  <2>2. UNCHANGED threadVars
    BY <1>4 DEF Crash
  <2> QED
    BY <2>1, <2>2 DEF RoomInv, Room, Unasked, Asking, Taken, threadVars
<1>5. CASE UNCHANGED vars
  BY <1>5 DEF vars, runVars, threadVars, RoomInv, Room, SeatsOf, Taken, InTurn, Before, Role
<1> QED
  BY <1>1, <1>2, <1>3, <1>4, <1>5 DEF GroupNext

(* If teams keep within the limits and each thread has one collective message, the
   guard has a turn for every role of its first run and for the synthesis, for any
   teams and limits, whatever stops, pauses, failures and crashes there are
   (loop_guard.py:35-80, DECISIONS.md:119-120).                              *)
THEOREM DiscussionFits == ASSUME WithinLimits PROVE GroupSpec => []GuardLeavesRoom
<1>1. GroupInit => RoomInv
  BY ThreadAssumption DEF GroupInit, ThreadsInit, RoomInv, Room, Unasked, Asking, Taken
<1>2. RunInv /\ ThreadsInv /\ DoneInv /\ RoomInv => GuardLeavesRoom
  BY GuardAgrees DEF GuardLeavesRoom
<1>3. GroupInv /\ DoneInv /\ RoomInv /\ [GroupNext]_vars => RoomInv'
  BY RoomStep DEF GroupInv
<1>4. GroupInv /\ DoneInv /\ RoomInv => GuardLeavesRoom
  BY <1>2 DEF GroupInv
<1> QED
  BY <1>1, <1>3, <1>4, TasksFit, InitGroup, GroupStep, PTL DEF GroupSpec
=============================================================================
