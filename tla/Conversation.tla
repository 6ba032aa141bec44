---------------------------- MODULE Conversation ----------------------------
(***************************************************************************)
(* One group's conversation: how a reply finds the thread and the task of  *)
(* what it replies to (conversation_message_map), and what the work on it  *)
(* costs (usage_ledger).  A message is hydrated and its attachment read on *)
(* arrival (src/src/adapters/telegram/adapter.py), side by side with other *)
(* messages; the rest of its run holds the group's lock                    *)
(* (src/src/core/orchestrator.py), asks agents and sends their answers in  *)
(* chunks (sender.py), each a message a user can reply to at once.         *)
(*                                                                         *)
(* A thread is named by the message that opened it; the root text of a row *)
(* goes with its thread.  Statuses, stop commands and the loop guard are   *)
(* GroupWork's, here a stop and a refusal may come at any of their places. *)
(* Placeholders shown while an agent works are left out: they are deleted. *)
(***************************************************************************)
EXTENDS Routing

CONSTANTS
  Messages,       \* messages users write
  NoMessage,      \* a message that is no reply; the free lock
  NoThread, NoTask, NoRow,
  Texts,          \* the texts each message may have, as Routing abstracts them,
                  \* with an attachment: "none", "text", "image" or "scan"
  MaxPages,       \* pages of a scan that are looked at
  Normal,         \* budget_normal_task
  Budget,         \* budget_thread_total
  MaxCalls,       \* model calls of one agent turn
  Chunks,         \* chunks of a role's answers
  MaxFaults       \* bound: exceptions, lost rows and crashes of the process

ASSUME NullAssumption ==
  NoMessage \notin Messages /\ NoThread \notin Messages /\ NoTask \notin Nat
\* Users' messages and the bots' have ids of their own; the bots' are numbered here.
ASSUME IdAssumption == Messages \cap Nat = {}
ASSUME BudgetAssumption ==
  /\ Normal \in Nat /\ Budget \in Nat \ {0}
  /\ MaxCalls \in Nat \ {0} /\ MaxPages \in Nat
ASSUME TextAssumption ==
  \A m \in Messages : \A text \in Texts[m] : ControlCommand(text) = "none"

VARIABLES
  pc,             \* where each message is
  replyTo,        \* what each message replies to
  said,           \* what each message says
  context,        \* its conversation_thread_id and _task_id, and reply_to_role
  rows,           \* conversation_message_map, by message
  posted,         \* messages the bots sent: who sent each
  tasks,          \* tasks created: their thread, owner, and whether still active
  spent,          \* usage_ledger: calls charged to each thread
  unchecked,      \* those of them no budget is checked for (history)
  lock,           \* the message whose run holds the group's lock
  job,            \* that run
  answers,        \* the message ids send_message returned to each run
  result,         \* the task of each run that returned
  faults          \* faults so far (bound)

vars == <<pc, replyTo, said, context, rows, posted, tasks, spent, unchecked,
          lock, job, answers, result, faults>>

NoJob == [at |-> "idle", mode |-> "notice", team |-> <<>>, task |-> NoTask,
          last |-> NoMessage, left |-> 0, parent |-> NoRow, failed |-> FALSE]

Init ==
  /\ pc = [m \in Messages |-> "unwritten"]
  /\ replyTo = [m \in Messages |-> NoMessage]
  /\ said \in {f \in [Messages -> UNION {Texts[m] : m \in Messages}] :
                 \A m \in Messages : f[m] \in Texts[m]}
  /\ context = [m \in Messages |-> [thread |-> NoThread, task |-> NoTask, role |-> NoRole]]
  /\ rows = <<>> /\ posted = <<>> /\ tasks = <<>>
  /\ spent = [d \in Messages |-> 0] /\ unchecked = [d \in Messages |-> 0]
  /\ lock = NoMessage /\ job = NoJob
  /\ answers = [m \in Messages |-> {}] /\ result = [m \in Messages |-> NoTask]
  /\ faults = 0

-----------------------------------------------------------------------------
(* The map and the ledger.                                                   *)
Visible == {m \in Messages : pc[m] # "unwritten"} \cup DOMAIN posted

RowOf(k) == IF k \in DOMAIN rows THEN rows[k] ELSE NoRow

(* record_message and update: the row of k is written, or written over.       *)
WithRow(k, r) == [j \in DOMAIN rows \cup {k} |-> IF j = k THEN r ELSE rows[j]]

(* _thread_id: the thread joined, or one of the message's own.               *)
Thread(m) == IF context[m].thread = NoThread THEN m ELSE context[m].thread

(* normalize_message: whom a reply is to, when it is to a bot.               *)
Fresh(k) == [thread |-> NoThread, task |-> NoTask,
             role |-> IF k \in DOMAIN posted THEN posted[k] ELSE NoRole]

(* What the row of the message replied to adds to a context.                 *)
Inherit(c, k) ==
  IF k \notin DOMAIN rows THEN c
  ELSE [thread |-> rows[k].thread,
        task |-> IF rows[k].task = NoTask THEN c.task ELSE rows[k].task,
        role |-> IF c.role = NoRole THEN rows[k].role ELSE c.role]

(* record_usage of n answered calls.  A call that is tried again, or answered by
   the fallback model, is charged once; one that raises is not charged.      *)
Charge(d, n, checked) ==
  /\ spent' = [spent EXCEPT ![d] = @ + n]
  /\ unchecked' = IF checked THEN unchecked ELSE [unchecked EXCEPT ![d] = @ + n]

(* Mutant: a budget that is used up exactly is not used up.                  *)
NotExceeded(d, limit) == spent[d] <= limit

WithinBudget(d, limit) == spent[d] < limit

Limit == IF job.mode = "collective" THEN Budget ELSE Normal

-----------------------------------------------------------------------------
(* The run ends: it raised or died, and another bot or delivery runs the message
   again from its arrival, or it returned.                                   *)
Fault == faults < MaxFaults /\ faults' = faults + 1

Free == lock' = NoMessage /\ job' = NoJob

Again(cut) ==
  /\ Fault
  /\ pc' = [m \in Messages |-> IF m \in cut THEN "arrived" ELSE pc[m]]
  /\ context' = [m \in Messages |-> IF m \in cut THEN Fresh(replyTo[m]) ELSE context[m]]
  /\ answers' = [m \in Messages |-> IF m \in cut THEN {} ELSE answers[m]]
  /\ IF lock \in cut THEN Free ELSE UNCHANGED <<lock, job>>
  /\ UNCHANGED <<replyTo, said, rows, posted, tasks, spent, unchecked, result>>

Return(m) ==
  /\ lock = m /\ job.at = "return"
  /\ pc' = [pc EXCEPT ![m] = "returned"]
  /\ result' = [result EXCEPT ![m] = job.task]
  /\ Free
  /\ UNCHANGED <<replyTo, said, context, rows, posted, tasks, spent, unchecked, answers, faults>>

MarkCompleted(m) ==
  /\ pc[m] = "returned" /\ pc' = [pc EXCEPT ![m] = "done"]
  /\ UNCHANGED <<replyTo, said, context, rows, posted, tasks, spent, unchecked,
                 lock, job, answers, result, faults>>

(* A step of the message's own that leaves the lock alone.                   *)
Arrive(m, from, to) ==
  /\ pc[m] = from /\ pc' = [pc EXCEPT ![m] = to]
  /\ UNCHANGED <<said, posted, tasks, lock, job, answers, result, faults>>

(* A user writes, and may reply to anything that is there to be seen.        *)
Write(m, k) ==
  /\ k \in Visible \cup {NoMessage}
  /\ Arrive(m, "unwritten", "arrived")
  /\ replyTo' = [replyTo EXCEPT ![m] = k]
  /\ context' = [context EXCEPT ![m] = Fresh(k)]
  /\ UNCHANGED <<rows, spent, unchecked>>

(* _hydrate_conversation_context reads the parent's row, then writes its own. *)
ReadParent(m) ==
  /\ Arrive(m, "arrived", "hydrating")
  /\ context' = [context EXCEPT ![m] = Inherit(@, replyTo[m])]
  /\ UNCHANGED <<replyTo, rows, spent, unchecked>>

Hydrate(m) ==
  /\ Arrive(m, "hydrating", "hydrated")
  /\ rows' = WithRow(m, [context[m] EXCEPT !.thread = Thread(m)])
  /\ UNCHANGED <<replyTo, context, spent, unchecked>>

(* The model is asked about an image, and about the pages of a scan that the
   text recognition makes nothing of.                                        *)
VisionCalls(kind) ==
  CASE kind = "image" -> 0..1
    [] kind = "scan" -> 0..MaxPages
    [] OTHER -> {0}

(* _download_attachments: whatever fails becomes part of the attachment.     *)
Download(m) ==
  /\ Arrive(m, "hydrated", "queued")
  /\ \E n \in VisionCalls(said[m].attachment) : Charge(Thread(m), n, FALSE)
  /\ UNCHANGED <<replyTo, context, rows>>

RaiseEarly(m) ==
  /\ pc[m] \in {"arrived", "hydrating", "hydrated", "queued"}
  /\ Again({m})

-----------------------------------------------------------------------------
(* Under the lock.                                                           *)
TakeLock(m) ==
  /\ pc[m] = "queued" /\ lock = NoMessage
  /\ pc' = [pc EXCEPT ![m] = "working"]
  /\ lock' = m
  /\ job' = [NoJob EXCEPT !.at = "restore", !.last = m]
  /\ UNCHANGED <<replyTo, said, context, rows, posted, tasks, spent, unchecked,
                 answers, result, faults>>

(* A step of the run that holds the lock, one that may bring a fault or not.  *)
Unsafe(m, from) ==
  /\ lock = m /\ job.at = from
  /\ UNCHANGED <<pc, replyTo, said, lock, result>>

Step(m, from) == Unsafe(m, from) /\ UNCHANGED faults

RowsKept == UNCHANGED <<context, rows, posted, answers>>
MoneyKept == UNCHANGED <<spent, unchecked>>

(* Mutant: what was read on arrival is enough.                               *)
AsHydrated(m) == context[m]

(* _restore_reply_context reads the parent's row again.                      *)
Restored(m) == Inherit(context[m], replyTo[m])

Restore(m) ==
  /\ Step(m, "restore")
  /\ context' = [context EXCEPT ![m] = Restored(m)]
  /\ job' = [job EXCEPT !.at = "route"]
  /\ MoneyKept /\ UNCHANGED <<rows, posted, tasks, answers>>

Begin(mode, team, at) == job' = [job EXCEPT !.mode = mode, !.team = team, !.at = at]


Active == {t \in DOMAIN tasks : tasks[t].active}

(* An approval or memory command, or a conflict: a notice and no agent, by the role
   addressed, the manager, or the owner of the task in conflict.             *)
Notify(m) ==
  LET addressed == Head(Append(Detect(said[m]).targets, "manager")) IN
  /\ Step(m, "route") /\ "notice" \in said[m].signals
  /\ \E r \in {addressed, "manager"} \cup {tasks[t].owner : t \in Active} :
       Begin("notice", <<r>>, "say")
  /\ RowsKept /\ MoneyKept /\ UNCHANGED tasks

(* Each role addressed answers a social message, a greeting without the model. *)
Socialise(m) ==
  LET targets == Detect(said[m]).targets IN
  /\ Step(m, "route") /\ Intent(said[m]) = "social"
  /\ Begin("social", IF targets = <<>> THEN <<"manager">> ELSE targets,
           IF "fast greeting" \in said[m].signals THEN "say" ELSE "turn")
  /\ RowsKept /\ MoneyKept /\ UNCHANGED tasks

(* Collective work asks its coordinator again for the synthesis.             *)
Gather(coordinator, targets) ==
  Begin("collective", Append(Team(coordinator, targets), coordinator), "create")

Assemble(m) ==
  /\ Step(m, "route") /\ Detect(said[m]).together
  /\ Gather(Detect(said[m]).coordinator, Detect(said[m]).targets)
  /\ RowsKept /\ MoneyKept /\ UNCHANGED tasks

(* What the analysis of the text makes of a message with this owner.         *)
WorkFor(text, owner) ==
  LET others == Collaborators(text, owner) IN
  CASE Len(others) > 1 -> Gather(owner, others)
    [] Len(others) = 1 -> Begin("delegated", <<owner, Head(others)>>, "check")
    [] OTHER -> Begin("single", <<owner>>, "check")

(* One owner: the role addressed, the fast path's, or the router's, whose call is
   charged to the message's own thread whatever thread the message joined.   *)
Assign(m) ==
  LET fast == FastPath(said[m], context[m].role, [t \in Active |-> tasks[t].owner]) IN
  /\ Step(m, "route")
  /\ Intent(said[m]) # "social" /\ ~Detect(said[m]).together
  /\ \/ /\ \E r \in fast : WorkFor(said[m], r)
        /\ MoneyKept
     \/ /\ fast = {}
        /\ \E answered \in BOOLEAN :
             /\ \E r \in Routed(answered) : WorkFor(said[m], r)
             /\ Charge(m, IF answered THEN 1 ELSE 0, FALSE)
  /\ RowsKept /\ UNCHANGED tasks

(* create_task and its status, before the first turn of collective work and after
   the first answer of delegated work.                                       *)
CreateTask(m) ==
  /\ Step(m, "create")
  /\ tasks' = Append(tasks, [thread |-> Thread(m), owner |-> Head(job.team), active |-> TRUE])
  /\ job' = [job EXCEPT !.task = Len(tasks) + 1, !.at = "bind"]
  /\ RowsKept /\ MoneyKept

(* The rows _bind_conversation_task updates: the message's, and those of the ids
   send_message returned, the last chunk of each answer.                     *)
Bound(m) == {m} \cup IF job.mode = "delegated" THEN answers[m] ELSE {}

(* Mutant: only the task is written.                                         *)
BindTaskOnly(m, row) == [row EXCEPT !.task = job.task]

BoundRow(m, row) == [thread |-> Thread(m), task |-> job.task, role |-> row.role]

Bind(m) ==
  /\ Step(m, "bind")
  /\ context' = [context EXCEPT ![m] = BoundRow(m, @)]
  /\ rows' = [k \in DOMAIN rows |-> IF k \in Bound(m) THEN BoundRow(m, rows[k]) ELSE rows[k]]
  /\ job' = [job EXCEPT !.at = IF job.mode = "collective" THEN "check"
                               ELSE IF Len(job.team) > 1 THEN "handoff" ELSE "judge"]
  /\ MoneyKept /\ UNCHANGED <<posted, tasks, answers>>

(* A run that sees a stop closes its task and says no more.                  *)
EndStopped ==
  /\ job' = [job EXCEPT !.at = "return"]
  /\ tasks' = IF job.task = NoTask THEN tasks ELSE [tasks EXCEPT ![job.task].active = FALSE]

SeeStop(m) ==
  /\ \/ Step(m, "handoff")
     \/ Step(m, "check") /\ job.mode = "collective"
  /\ EndStopped
  /\ RowsKept /\ MoneyKept

(* The task is handed to the collaborator, or the handoff is refused.        *)
HandOff(m) ==
  /\ Step(m, "handoff")
  /\ \/ /\ job' = [job EXCEPT !.team = Tail(@), !.at = "turn"]
        /\ tasks' = [tasks EXCEPT ![job.task].owner = job.team[2]]
     \/ job' = [job EXCEPT !.at = "judge"] /\ UNCHANGED tasks
  /\ RowsKept /\ MoneyKept

(* Work that does not go on ends with a notice, of the coordinator if it has one. *)
Refuse ==
  job' = [job EXCEPT !.mode = "notice", !.at = "say",
                     !.team = <<IF job.mode = "collective" THEN Last(@) ELSE Head(@)>>]

(* The budget before an agent's turn; the loop guard may refuse as well.     *)
Check(m) ==
  /\ Step(m, "check")
  /\ \/ WithinBudget(Thread(m), Limit) /\ job' = [job EXCEPT !.at = "turn"]
     \/ ~WithinBudget(Thread(m), Limit) /\ Refuse
     \/ job.mode = "collective" /\ Refuse
  /\ RowsKept /\ MoneyKept /\ UNCHANGED tasks

(* A role of collective work failed: the others have their turns, and there is
   no synthesis.                                                             *)
PassOver ==
  IF Len(job.team) <= 2 THEN Refuse
  ELSE job' = [job EXCEPT !.team = Tail(@), !.failed = TRUE, !.at = "check"]

Collective == job.mode = "collective"

(* The agent runtime: every call is charged as it is answered.  A turn that ends
   after a stop is not sent, and closes its task.                            *)
Turn(m) ==
  /\ Unsafe(m, "turn")
  /\ \E n \in 0..MaxCalls :
       /\ Charge(Thread(m), n, job.mode # "social")
       /\ \/ /\ n > 0 /\ job' = [job EXCEPT !.at = "say"]
             /\ UNCHANGED <<tasks, faults>>
          \/ n > 0 /\ EndStopped /\ UNCHANGED faults
          \/ /\ IF Collective THEN PassOver /\ Fault
                ELSE job' = [job EXCEPT !.at = "raise"] /\ UNCHANGED faults
             /\ faults < MaxFaults /\ UNCHANGED tasks
  /\ RowsKept

(* send_message reads the row of the message it replies to once, before the
   first chunk.                                                              *)
Say(m) ==
  /\ Step(m, "say")
  /\ job' = [job EXCEPT !.at = "post", !.left = Chunks[Head(job.team)],
                         !.parent = RowOf(IF job.mode = "social" THEN m ELSE job.last)]
  /\ RowsKept /\ MoneyKept /\ UNCHANGED tasks

Post(m) ==
  /\ Step(m, "post")
  /\ posted' = Append(posted, Head(job.team))
  /\ job' = [job EXCEPT !.at = "persist"]
  /\ MoneyKept /\ UNCHANGED <<context, rows, tasks, answers>>

(* A send of collective work that raises costs its role the turn.            *)
LoseSend(m) ==
  /\ Unsafe(m, "post") /\ Collective
  /\ PassOver /\ Fault
  /\ RowsKept /\ MoneyKept /\ UNCHANGED tasks

(* The chunk's row is its parent's, if that has one; a write that fails is only
   logged.                                                                   *)
Persist(m) ==
  /\ Unsafe(m, "persist")
  /\ \/ /\ job.parent # NoRow
        /\ rows' = WithRow(Len(posted), [job.parent EXCEPT !.role = Head(job.team)])
        /\ UNCHANGED faults
     \/ job.parent = NoRow /\ UNCHANGED <<rows, faults>>
     \/ job.parent # NoRow /\ Fault /\ UNCHANGED rows
  /\ IF job.left > 1
       THEN job' = [job EXCEPT !.left = @ - 1, !.at = "post"] /\ UNCHANGED answers
       ELSE /\ job' = [job EXCEPT !.left = 0, !.last = Len(posted), !.at = "sent"]
            /\ answers' = [answers EXCEPT ![m] = @ \cup {Len(posted)}]
  /\ MoneyKept /\ UNCHANGED <<context, posted, tasks>>

(* What follows an answer.                                                   *)
Continue(m) ==
  /\ Step(m, "sent")
  /\ CASE job.mode = "notice" -> job' = [job EXCEPT !.at = "return"]
       [] job.mode = "social" ->
            IF Len(job.team) = 1 THEN job' = [job EXCEPT !.at = "return"]
            ELSE job' = [job EXCEPT !.team = Tail(@),
                           !.at = IF "fast greeting" \in said[m].signals THEN "say" ELSE "turn"]
       [] job.mode = "single" -> job' = [job EXCEPT !.at = "judge"]
       [] job.mode = "delegated" ->
            job' = [job EXCEPT !.at = IF job.task = NoTask THEN "create" ELSE "bind"]
       [] Collective ->
            IF Len(job.team) = 1 THEN job' = [job EXCEPT !.at = "judge"]
            ELSE IF Len(job.team) = 2 /\ job.failed THEN Refuse
            ELSE job' = [job EXCEPT !.team = Tail(@), !.at = "check"]
  /\ RowsKept /\ MoneyKept /\ UNCHANGED tasks

(* The task is done if its last role has answered; then the memory judge is asked,
   and whatever goes wrong with it is swallowed.                             *)
Judge(m) ==
  /\ Step(m, "judge")
  /\ job' = [job EXCEPT !.at = "return"]
  /\ tasks' = IF job.task # NoTask /\ Len(job.team) = 1
                THEN [tasks EXCEPT ![job.task].active = FALSE] ELSE tasks
  /\ \/ MoneyKept
     \/ WithinBudget(Thread(m), Limit) /\ Charge(Thread(m), 1, TRUE)
  /\ RowsKept

(* A run may raise at any of its awaits, collective work outside its turns.  *)
RaiseLate(m) ==
  /\ lock = m
  /\ Collective => job.at \notin {"turn", "say", "post", "persist", "sent"}
  /\ Again({m})

(* The process dies: runs and the lock are gone, the tables stay.  A message that
   was not completed is run again.                                           *)
Crash == Again({m \in Messages : pc[m] \notin {"unwritten", "done"}})

-----------------------------------------------------------------------------
Next ==
  \/ \E m \in Messages :
       \/ \E k \in Visible \cup {NoMessage} : Write(m, k)
       \/ ReadParent(m) \/ Hydrate(m) \/ Download(m) \/ RaiseEarly(m)
       \/ TakeLock(m) \/ Restore(m)
       \/ Notify(m) \/ Socialise(m) \/ Assemble(m) \/ Assign(m)
       \/ CreateTask(m) \/ Bind(m) \/ HandOff(m) \/ SeeStop(m) \/ Check(m) \/ Turn(m)
       \/ Say(m) \/ Post(m) \/ LoseSend(m) \/ Persist(m) \/ Continue(m) \/ Judge(m)
       \/ RaiseLate(m) \/ Return(m) \/ MarkCompleted(m)
  \/ Crash

Spec == Init /\ [][Next]_vars

-----------------------------------------------------------------------------
(* Properties.                                                               *)

(* A row's task is a task of its row's thread: hydrating, sending, binding and
   running a message again never tear the two apart, not even for a reply that
   was hydrated before its parent (docs/BUG_BACKLOG.md:31).                  *)
TaskInThread ==
  \A k \in DOMAIN rows :
    rows[k].task # NoTask => rows[k].thread = tasks[rows[k].task].thread

(* A reply to an answer of finished work goes on in its task and its thread,
   however early it arrived: if the row of the last chunk was written, the run
   of the reply knows both once it has the lock (docs/RELEASE_NOTES.md:14).  *)
ReplyContinues ==
  \A m, n \in Messages :
    /\ lock = m /\ job.at # "restore" /\ job.task = NoTask
    /\ pc[n] \in {"returned", "done"} /\ result[n] # NoTask
    /\ replyTo[m] \in answers[n] \cap DOMAIN rows
    => /\ context[m].task = result[n]
       /\ context[m].thread = tasks[result[n]].thread

(* What a thread's checked calls cost passes its budget by no more than the calls
   made after one check: an agent's turn, or both turns of delegated work.   *)
BudgetHolds ==
  \A d \in Messages :
    spent[d] - unchecked[d] < Max({Normal + 2 * MaxCalls, Budget + MaxCalls})
=============================================================================
