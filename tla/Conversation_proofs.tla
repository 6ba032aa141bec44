------------------------ MODULE Conversation_proofs -------------------------
(***************************************************************************)
(* Proofs about Conversation, for any messages, texts, chunks and budgets: *)
(* a row's task is a task of the row's thread, a thread's checked calls    *)
(* keep to its budget, and a reply to an answer goes on in its task.       *)
(***************************************************************************)
EXTENDS Conversation, TLAPS

(* Records have their fields; the values of most fields do not matter.       *)
IsRow(r) == r = [thread |-> r.thread, task |-> r.task, role |-> r.role]
IsTask(t) == t = [thread |-> t.thread, owner |-> t.owner, active |-> t.active]
IsJob(j) ==
  j = [at |-> j.at, mode |-> j.mode, team |-> j.team, task |-> j.task, last |-> j.last,
       left |-> j.left, parent |-> j.parent, failed |-> j.failed]
Modes == {"notice", "social", "single", "delegated", "collective"}

MessagesShape ==
  /\ pc = [m \in Messages |-> pc[m]]
  /\ context = [m \in Messages |-> context[m]]
  /\ \A m \in Messages :
       IsRow(context[m]) /\ context[m].thread \in Messages \cup {NoThread}
RowsShape ==
  \A k \in DOMAIN rows : IsRow(rows[k]) /\ rows[k].thread \in Messages
TasksShape ==
  /\ Len(tasks) \in Nat
  /\ tasks = [t \in 1..Len(tasks) |-> tasks[t]]
  /\ \A t \in DOMAIN tasks : IsTask(tasks[t]) /\ tasks[t].thread \in Messages
JobShape == IsJob(job) /\ job.mode \in Modes

(* What names a task names a task of its own thread.                         *)
InThread(c) ==
  c.task # NoTask => c.task \in DOMAIN tasks /\ c.thread = tasks[c.task].thread

RowsInThread == \A k \in DOMAIN rows : InThread(rows[k])

(* The row a message being sent will inherit.                                *)
ParentInThread ==
  job.parent # NoRow =>
    IsRow(job.parent) /\ job.parent.thread \in Messages /\ InThread(job.parent)

(* A message that arrived has no task until it has read its parent's row, and
   what it read is what its own row will say.                                *)
ArrivedWithoutTask == \A m \in Messages : pc[m] = "arrived" => context[m].task = NoTask
HydratedInThread == \A m \in Messages : pc[m] = "hydrating" => InThread(context[m])

(* The run that holds the lock works in the thread of its task.              *)
LockIsWorking ==
  \/ lock = NoMessage /\ job = NoJob
  \/ lock \in Messages /\ pc[lock] = "working"
JobInThread ==
  job.task # NoTask =>
    /\ lock \in Messages /\ job.at # "restore"
    /\ job.task \in DOMAIN tasks /\ tasks[job.task].thread = Thread(lock)

ThreadInv ==
  /\ MessagesShape /\ RowsShape /\ TasksShape /\ JobShape
  /\ RowsInThread /\ ParentInThread
  /\ ArrivedWithoutTask /\ HydratedInThread
  /\ LockIsWorking /\ JobInThread

-----------------------------------------------------------------------------
(* A message's thread is a message.                                          *)
LEMMA ThreadIsMessage ==
  ASSUME MessagesShape, NEW m \in Messages
  PROVE  Thread(m) \in Messages
  BY DEF MessagesShape, Thread

(* Tasks are only added, and keep their threads.                             *)
TasksGrow ==
  /\ DOMAIN tasks \subseteq DOMAIN tasks'
  /\ \A t \in DOMAIN tasks : tasks'[t].thread = tasks[t].thread

LEMMA ThreadsStay ==
  ASSUME TasksGrow, NEW c, InThread(c)
  PROVE  c.task # NoTask => c.task \in DOMAIN tasks' /\ c.thread = tasks'[c.task].thread
  BY DEF TasksGrow, InThread

LEMMA InitThread == Init => ThreadInv
<1> SUFFICES ASSUME Init PROVE ThreadInv
  OBVIOUS
<1>1. MessagesShape
  BY DEF Init, MessagesShape, IsRow
<1>2. DOMAIN rows = {} /\ DOMAIN tasks = {} /\ Len(tasks) = 0
  BY DEF Init
<1>3. RowsShape /\ RowsInThread
  BY <1>2 DEF RowsShape, RowsInThread
<1>4. TasksShape
  BY <1>2 DEF TasksShape, Init
<1>5. JobShape /\ ParentInThread /\ LockIsWorking /\ JobInThread
  BY DEF Init, NoJob, JobShape, IsJob, Modes, ParentInThread, LockIsWorking, JobInThread
<1>6. ArrivedWithoutTask /\ HydratedInThread
  BY DEF Init, ArrivedWithoutTask, HydratedInThread
<1> QED
  BY <1>1, <1>3, <1>4, <1>5, <1>6 DEF ThreadInv

(* A step of the run that keeps its task and every context.                  *)
LEMMA RunStep ==
  ASSUME ThreadInv, UNCHANGED <<pc, context, lock>>, lock \in Messages,
         RowsShape', RowsInThread', TasksShape', TasksGrow, JobShape',
         job'.at # "restore", job'.task = job.task,
         job'.parent = job.parent \/ \E k : job'.parent = RowOf(k)
  PROVE  ThreadInv'
<1> USE DEF ThreadInv
<1>1. MessagesShape'
  BY DEF MessagesShape
<1>2. ParentInThread'
  BY ThreadsStay DEF ParentInThread, RowOf, RowsInThread, RowsShape, InThread
<1>3. ArrivedWithoutTask' /\ HydratedInThread'
  BY ThreadsStay DEF ArrivedWithoutTask, HydratedInThread, InThread
<1>4. LockIsWorking' /\ JobInThread'
  BY NullAssumption DEF LockIsWorking, JobInThread, TasksGrow, Thread
<1> QED
  BY <1>1, <1>2, <1>3, <1>4

(* One that writes no row either.                                            *)
LEMMA JobStep ==
  ASSUME ThreadInv, UNCHANGED <<pc, context, rows, lock>>, lock \in Messages,
         TasksShape', TasksGrow, JobShape',
         job'.at # "restore", job'.task = job.task,
         job'.parent = job.parent \/ \E k : job'.parent = RowOf(k)
  PROVE  ThreadInv'
<1>1. RowsShape' /\ RowsInThread'
  BY ThreadsStay DEF ThreadInv, RowsShape, RowsInThread, InThread
<1> QED
  BY <1>1, RunStep

(* A step that leaves tasks, the lock and the run alone, and changes at most one
   message that does not hold the lock.                                      *)
LEMMA MessageStep ==
  ASSUME ThreadInv, NEW m \in Messages, m # lock,
         UNCHANGED <<tasks, lock, job>>,
         \A n \in Messages : n # m => pc'[n] = pc[n] /\ context'[n] = context[n],
         MessagesShape', RowsShape', RowsInThread',
         pc'[m] = "arrived" => context'[m].task = NoTask,
         pc'[m] = "hydrating" => InThread(context'[m])
  PROVE  ThreadInv'
<1> USE DEF ThreadInv
<1>1. TasksShape' /\ JobShape'
  BY DEF TasksShape, JobShape
<1>2. ParentInThread'
  BY DEF ParentInThread, InThread
<1>3. ArrivedWithoutTask' /\ HydratedInThread'
  BY DEF ArrivedWithoutTask, HydratedInThread, InThread
<1>4. LockIsWorking' /\ JobInThread'
  BY DEF LockIsWorking, JobInThread, Thread
<1> QED
  BY <1>1, <1>2, <1>3, <1>4

LEMMA HolderIsWorking ==
  ASSUME LockIsWorking, NEW m \in Messages, pc[m] # "working"
  PROVE  m # lock
  BY NullAssumption DEF LockIsWorking

LEMMA WriteThread ==
  ASSUME ThreadInv, NEW m \in Messages, NEW k, Write(m, k) PROVE ThreadInv'
<1> USE DEF ThreadInv
<1>1. m # lock
  BY HolderIsWorking DEF Write, Arrive
<1>2. context' = [context EXCEPT ![m] = Fresh(k)] /\ pc' = [pc EXCEPT ![m] = "arrived"]
  BY DEF Write, Arrive
<1>3. MessagesShape'
  BY <1>2 DEF MessagesShape, Fresh, IsRow
<1>4. RowsShape' /\ RowsInThread'
  BY DEF Write, Arrive, RowsShape, RowsInThread, InThread
<1>5. pc'[m] = "arrived" /\ context'[m].task = NoTask
  BY <1>2 DEF MessagesShape, Fresh
<1> QED
  BY <1>1, <1>2, <1>3, <1>4, <1>5, MessageStep DEF Write, Arrive, MessagesShape

LEMMA ReadParentThread ==
  ASSUME ThreadInv, NEW m \in Messages, ReadParent(m) PROVE ThreadInv'
<1> USE DEF ThreadInv
<1> DEFINE k == replyTo[m]
<1>1. m # lock /\ context[m].task = NoTask
  BY HolderIsWorking DEF ReadParent, Arrive, ArrivedWithoutTask
<1>2. /\ context' = [context EXCEPT ![m] = Inherit(context[m], k)]
      /\ pc' = [pc EXCEPT ![m] = "hydrating"]
      /\ UNCHANGED <<rows, tasks, lock, job>>
  BY DEF ReadParent, Arrive, MessagesShape
<1>3. k \in DOMAIN rows => IsRow(rows[k]) /\ rows[k].thread \in Messages /\ InThread(rows[k])
  BY DEF RowsShape, RowsInThread
<1>4. /\ IsRow(Inherit(context[m], k))
      /\ Inherit(context[m], k).thread \in Messages \cup {NoThread}
      /\ InThread(Inherit(context[m], k))
  BY <1>1, <1>3 DEF Inherit, IsRow, InThread, MessagesShape
<1>5. MessagesShape'
  BY <1>2, <1>4 DEF MessagesShape
<1>6. RowsShape' /\ RowsInThread'
  BY <1>2 DEF RowsShape, RowsInThread, InThread
<1>7. pc'[m] = "hydrating" /\ InThread(context'[m])
  BY <1>2, <1>4 DEF MessagesShape
<1> QED
  BY <1>1, <1>2, <1>5, <1>6, <1>7, MessageStep DEF MessagesShape

(* A row added to the map, or written over.                                  *)
LEMMA RowWritten ==
  ASSUME RowsShape, RowsInThread, UNCHANGED tasks, NEW k, NEW r,
         IsRow(r), r.thread \in Messages, InThread(r),
         rows' = WithRow(k, r)
  PROVE  RowsShape' /\ RowsInThread'
<1>1. /\ DOMAIN rows' = DOMAIN rows \cup {k}
      /\ \A j \in DOMAIN rows' : rows'[j] = IF j = k THEN r ELSE rows[j]
  BY DEF WithRow
<1> QED
  BY <1>1 DEF RowsShape, RowsInThread, InThread

LEMMA HydrateThread ==
  ASSUME ThreadInv, NEW m \in Messages, Hydrate(m) PROVE ThreadInv'
<1> USE DEF ThreadInv
<1> DEFINE r == [context[m] EXCEPT !.thread = Thread(m)]
<1>1. m # lock /\ InThread(context[m])
  BY HolderIsWorking DEF Hydrate, Arrive, HydratedInThread
<1>2. /\ rows' = WithRow(m, r)
      /\ pc' = [pc EXCEPT ![m] = "hydrated"]
      /\ UNCHANGED <<context, tasks, lock, job>>
  BY DEF Hydrate, Arrive
<1>3. Thread(m) \in Messages
  BY ThreadIsMessage
<1>4. /\ r = [thread |-> Thread(m), task |-> context[m].task, role |-> context[m].role]
  BY DEF MessagesShape, IsRow
<1>5. InThread(r)
  BY <1>1, <1>4, NullAssumption DEF InThread, Thread, TasksShape
<1>6. RowsShape' /\ RowsInThread'
  <2>1. IsRow(r) /\ r.thread \in Messages
    BY <1>3, <1>4 DEF IsRow
  <2> HIDE DEF r
  <2> QED
    BY <1>2, <1>5, <2>1, RowWritten
<1>7. MessagesShape' /\ pc'[m] = "hydrated"
  BY <1>2 DEF MessagesShape
<1> QED
  BY <1>1, <1>2, <1>6, <1>7, MessageStep DEF MessagesShape

LEMMA DownloadThread ==
  ASSUME ThreadInv, NEW m \in Messages, Download(m) PROVE ThreadInv'
<1> USE DEF ThreadInv
<1>1. m # lock
  BY HolderIsWorking DEF Download, Arrive
<1>2. pc' = [pc EXCEPT ![m] = "queued"] /\ UNCHANGED <<context, rows, tasks, lock, job>>
  BY DEF Download, Arrive
<1>3. MessagesShape' /\ RowsShape' /\ RowsInThread' /\ pc'[m] = "queued"
  BY <1>2 DEF MessagesShape, RowsShape, RowsInThread, InThread
<1> QED
  BY <1>1, <1>2, <1>3, MessageStep DEF MessagesShape

LEMMA MarkCompletedThread ==
  ASSUME ThreadInv, NEW m \in Messages, MarkCompleted(m) PROVE ThreadInv'
<1> USE DEF ThreadInv
<1>1. m # lock
  BY HolderIsWorking DEF MarkCompleted
<1>2. pc' = [pc EXCEPT ![m] = "done"] /\ UNCHANGED <<context, rows, tasks, lock, job>>
  BY DEF MarkCompleted
<1>3. MessagesShape' /\ RowsShape' /\ RowsInThread' /\ pc'[m] = "done"
  BY <1>2 DEF MessagesShape, RowsShape, RowsInThread, InThread
<1> QED
  BY <1>1, <1>2, <1>3, MessageStep DEF MessagesShape

(* Runs that are cut off begin again without a task; if one of them held the
   lock, it is free.                                                         *)
LEMMA AgainThread ==
  ASSUME ThreadInv, NEW cut \in SUBSET Messages, Again(cut) PROVE ThreadInv'
<1> USE DEF ThreadInv
<1>1. /\ pc' = [m \in Messages |-> IF m \in cut THEN "arrived" ELSE pc[m]]
      /\ context' = [m \in Messages |-> IF m \in cut THEN Fresh(replyTo[m]) ELSE context[m]]
      /\ UNCHANGED <<rows, tasks>>
      /\ IF lock \in cut THEN Free ELSE UNCHANGED <<lock, job>>
  BY DEF Again
<1>2. MessagesShape' /\ ArrivedWithoutTask'
  BY <1>1 DEF MessagesShape, ArrivedWithoutTask, Fresh, IsRow
<1>3. HydratedInThread'
  BY <1>1 DEF HydratedInThread, InThread
<1>4. RowsShape' /\ RowsInThread' /\ TasksShape'
  BY <1>1 DEF RowsShape, RowsInThread, TasksShape, InThread
<1>5. JobShape' /\ ParentInThread' /\ LockIsWorking' /\ JobInThread'
  <2>1. CASE lock \in cut
    BY <1>1, <2>1 DEF Free, NoJob, JobShape, IsJob, Modes, ParentInThread, LockIsWorking,
                      JobInThread
  <2>2. CASE lock \notin cut
    BY <1>1, <2>2 DEF JobShape, ParentInThread, InThread, LockIsWorking, JobInThread, Thread
  <2> QED
    BY <2>1, <2>2
<1> QED
  BY <1>2, <1>3, <1>4, <1>5

-----------------------------------------------------------------------------
(* The run that holds the lock.                                              *)
LEMMA TasksKept ==
  ASSUME TasksShape, UNCHANGED tasks
  PROVE  TasksShape' /\ TasksGrow
  BY DEF TasksShape, TasksGrow

(* A field of a task that is not its thread is written.                      *)
LEMMA TaskClosed ==
  ASSUME TasksShape, NEW t, tasks' = [tasks EXCEPT ![t].active = FALSE]
  PROVE  TasksShape' /\ TasksGrow
<1>1. \A i \in DOMAIN tasks : tasks'[i] = IF i = t THEN [tasks[i] EXCEPT !.active = FALSE] ELSE tasks[i]
  OBVIOUS
<1>2. DOMAIN tasks' = DOMAIN tasks
  OBVIOUS
<1>3. \A i \in DOMAIN tasks : IsTask(tasks'[i]) /\ tasks'[i].thread = tasks[i].thread
  <2>1. ASSUME NEW i \in DOMAIN tasks, i = t
        PROVE  IsTask(tasks'[i]) /\ tasks'[i].thread = tasks[i].thread
    BY <1>1, <2>1 DEF TasksShape, IsTask
  <2>2. ASSUME NEW i \in DOMAIN tasks, i # t
        PROVE  IsTask(tasks'[i]) /\ tasks'[i].thread = tasks[i].thread
    BY <1>1, <2>2 DEF TasksShape, IsTask
  <2> QED
    BY <2>1, <2>2
<1>4. Len(tasks') = Len(tasks)
  BY <1>2 DEF TasksShape
<1> QED
  BY <1>2, <1>3, <1>4 DEF TasksShape, TasksGrow

LEMMA TaskHandedOff ==
  ASSUME TasksShape, NEW t, NEW r, tasks' = [tasks EXCEPT ![t].owner = r]
  PROVE  TasksShape' /\ TasksGrow
<1>1. \A i \in DOMAIN tasks : tasks'[i] = IF i = t THEN [tasks[i] EXCEPT !.owner = r] ELSE tasks[i]
  OBVIOUS
<1>2. DOMAIN tasks' = DOMAIN tasks
  OBVIOUS
<1>3. \A i \in DOMAIN tasks : IsTask(tasks'[i]) /\ tasks'[i].thread = tasks[i].thread
  <2>1. ASSUME NEW i \in DOMAIN tasks, i = t
        PROVE  IsTask(tasks'[i]) /\ tasks'[i].thread = tasks[i].thread
    BY <1>1, <2>1 DEF TasksShape, IsTask
  <2>2. ASSUME NEW i \in DOMAIN tasks, i # t
        PROVE  IsTask(tasks'[i]) /\ tasks'[i].thread = tasks[i].thread
    BY <1>1, <2>2 DEF TasksShape, IsTask
  <2> QED
    BY <2>1, <2>2
<1>4. Len(tasks') = Len(tasks)
  BY <1>2 DEF TasksShape
<1> QED
  BY <1>2, <1>3, <1>4 DEF TasksShape, TasksGrow

LEMMA TakeLockThread ==
  ASSUME ThreadInv, NEW m \in Messages, TakeLock(m) PROVE ThreadInv'
<1> USE DEF ThreadInv
<1>1. /\ pc' = [pc EXCEPT ![m] = "working"] /\ lock' = m
      /\ job' = [NoJob EXCEPT !.at = "restore", !.last = m]
      /\ UNCHANGED <<context, rows, tasks>>
  BY DEF TakeLock
<1>2. MessagesShape' /\ RowsShape' /\ RowsInThread' /\ TasksShape'
  BY <1>1 DEF MessagesShape, RowsShape, RowsInThread, TasksShape, InThread
<1>3. ArrivedWithoutTask' /\ HydratedInThread'
  BY <1>1 DEF ArrivedWithoutTask, HydratedInThread, InThread, MessagesShape
<1>4. JobShape' /\ ParentInThread' /\ JobInThread'
  BY <1>1 DEF NoJob, JobShape, IsJob, Modes, ParentInThread, JobInThread
<1>5. LockIsWorking'
  BY <1>1 DEF LockIsWorking, MessagesShape
<1> QED
  BY <1>2, <1>3, <1>4, <1>5

LEMMA ReturnThread ==
  ASSUME ThreadInv, NEW m \in Messages, Return(m) PROVE ThreadInv'
<1> USE DEF ThreadInv
<1>1. /\ pc' = [pc EXCEPT ![m] = "returned"] /\ lock' = NoMessage /\ job' = NoJob
      /\ UNCHANGED <<context, rows, tasks>>
  BY DEF Return, Free
<1>2. MessagesShape' /\ RowsShape' /\ RowsInThread' /\ TasksShape'
  BY <1>1 DEF MessagesShape, RowsShape, RowsInThread, TasksShape, InThread
<1>3. ArrivedWithoutTask' /\ HydratedInThread'
  BY <1>1 DEF ArrivedWithoutTask, HydratedInThread, InThread, MessagesShape
<1>4. JobShape' /\ ParentInThread' /\ JobInThread' /\ LockIsWorking'
  BY <1>1 DEF NoJob, JobShape, IsJob, Modes, ParentInThread, JobInThread, LockIsWorking
<1> QED
  BY <1>2, <1>3, <1>4

(* The run joins its parent's thread before it has a task.                   *)
LEMMA RestoreThread ==
  ASSUME ThreadInv, NEW m \in Messages, Restore(m) PROVE ThreadInv'
<1> USE DEF ThreadInv
<1> DEFINE k == replyTo[m]
<1>1. /\ context' = [context EXCEPT ![m] = Inherit(context[m], k)]
      /\ job' = [job EXCEPT !.at = "route"]
      /\ lock = m /\ job.at = "restore"
      /\ UNCHANGED <<pc, rows, tasks, lock>>
  BY DEF Restore, Step, Unsafe, Restored
<1>2. pc[m] = "working"
  BY <1>1, NullAssumption DEF LockIsWorking
<1>3. k \in DOMAIN rows => IsRow(rows[k]) /\ rows[k].thread \in Messages
  BY DEF RowsShape
<1>4. /\ IsRow(Inherit(context[m], k))
      /\ Inherit(context[m], k).thread \in Messages \cup {NoThread}
  BY <1>3 DEF Inherit, IsRow, MessagesShape
<1>5. MessagesShape'
  BY <1>1, <1>4 DEF MessagesShape
<1>6. RowsShape' /\ RowsInThread' /\ TasksShape'
  BY <1>1 DEF RowsShape, RowsInThread, TasksShape, InThread
<1>7. ArrivedWithoutTask' /\ HydratedInThread'
  BY <1>1, <1>2 DEF ArrivedWithoutTask, HydratedInThread, InThread, MessagesShape
<1>8. job.task = NoTask
  BY <1>1 DEF JobInThread
<1>9. JobShape' /\ job'.task = NoTask /\ job'.parent = job.parent
  BY <1>1, <1>8 DEF JobShape, IsJob
<1>10. ParentInThread' /\ JobInThread' /\ LockIsWorking'
  BY <1>1, <1>2, <1>9 DEF ParentInThread, InThread, JobInThread, LockIsWorking
<1> QED
  BY <1>5, <1>6, <1>7, <1>9, <1>10

(* A new task is of the run's thread.                                        *)
LEMMA CreateTaskThread ==
  ASSUME ThreadInv, NEW m \in Messages, CreateTask(m) PROVE ThreadInv'
<1> USE DEF ThreadInv
<1> DEFINE new == [thread |-> Thread(m), owner |-> Head(job.team), active |-> TRUE]
<1>1. /\ tasks' = Append(tasks, new)
      /\ job' = [job EXCEPT !.task = Len(tasks) + 1, !.at = "bind"]
      /\ lock = m /\ UNCHANGED <<pc, context, rows, lock>>
  BY DEF CreateTask, Step, Unsafe, RowsKept
<1>2. /\ Len(tasks') = Len(tasks) + 1 /\ DOMAIN tasks' = 1..(Len(tasks) + 1)
      /\ \A t \in 1..Len(tasks) : tasks'[t] = tasks[t]
      /\ tasks'[Len(tasks) + 1] = new
  BY <1>1 DEF TasksShape
<1>3. Thread(m) \in Messages
  BY ThreadIsMessage
<1>4. TasksShape' /\ TasksGrow
  <2>1. \A t \in DOMAIN tasks' : IsTask(tasks'[t]) /\ tasks'[t].thread \in Messages
    BY <1>2, <1>3 DEF TasksShape, IsTask
  <2>2. tasks' = [t \in 1..Len(tasks') |-> tasks'[t]]
    BY <1>1, <1>2
  <2> QED
    BY <1>2, <2>1, <2>2 DEF TasksShape, TasksGrow
<1>5. MessagesShape' /\ RowsShape' /\ ArrivedWithoutTask' /\ LockIsWorking'
  BY <1>1, NullAssumption DEF MessagesShape, RowsShape, ArrivedWithoutTask, LockIsWorking
<1>6. RowsInThread' /\ HydratedInThread'
  BY <1>1, <1>4, ThreadsStay DEF RowsInThread, HydratedInThread, InThread
<1>7. /\ JobShape' /\ job'.task = Len(tasks) + 1 /\ job'.at = "bind"
      /\ job'.parent = job.parent
  BY <1>1 DEF JobShape, IsJob
<1>8. ParentInThread'
  BY <1>4, <1>7, ThreadsStay DEF ParentInThread, InThread
<1>9. JobInThread'
  <2>1. Thread(m)' = Thread(m)
    BY <1>1 DEF Thread
  <2>2. job'.task \in DOMAIN tasks' /\ tasks'[job'.task].thread = Thread(m)
    BY <1>2, <1>7 DEF TasksShape
  <2> QED
    BY <1>1, <1>7, <2>1, <2>2 DEF JobInThread
<1> QED
  BY <1>4, <1>5, <1>6, <1>7, <1>8, <1>9

(* The rows bound to a task are moved to its thread.                         *)
LEMMA BindThread ==
  ASSUME ThreadInv, NEW m \in Messages, Bind(m) PROVE ThreadInv'
<1> USE DEF ThreadInv
<1>1. /\ context' = [context EXCEPT ![m] = BoundRow(m, context[m])]
      /\ rows' = [k \in DOMAIN rows |-> IF k \in Bound(m) THEN BoundRow(m, rows[k]) ELSE rows[k]]
      /\ lock = m /\ UNCHANGED <<pc, tasks, lock>>
  BY DEF Bind, Step, Unsafe, MessagesShape
<1>2. /\ JobShape' /\ job'.task = job.task /\ job'.parent = job.parent
      /\ job'.at # "restore"
  BY DEF Bind, JobShape, IsJob
<1>3. pc[m] = "working"
  BY <1>1, NullAssumption DEF LockIsWorking
<1>4. Thread(m) \in Messages
  BY ThreadIsMessage
<1>5. /\ context'[m] = [thread |-> Thread(m), task |-> job.task, role |-> context[m].role]
      /\ \A n \in Messages : n # m => context'[n] = context[n]
  BY <1>1 DEF MessagesShape, BoundRow
<1>6. MessagesShape'
  BY <1>1, <1>4, <1>5 DEF MessagesShape, IsRow
<1>7. Thread(m)' = Thread(m)
  BY <1>4, <1>5, NullAssumption DEF Thread
<1>8. \A k \in DOMAIN rows : IsRow(rows'[k]) /\ rows'[k].thread \in Messages /\ InThread(rows'[k])
  <2> SUFFICES ASSUME NEW k \in DOMAIN rows
               PROVE  IsRow(rows'[k]) /\ rows'[k].thread \in Messages /\ InThread(rows'[k])
    OBVIOUS
  <2>1. CASE k \in Bound(m)
    <3>1. rows'[k] = [thread |-> Thread(m), task |-> job.task, role |-> rows[k].role]
      BY <1>1, <2>1 DEF BoundRow
    <3> QED
      BY <1>1, <1>4, <3>1 DEF IsRow, InThread, JobInThread
  <2>2. CASE k \notin Bound(m)
    BY <1>1, <2>2 DEF RowsShape, RowsInThread
  <2> QED
    BY <2>1, <2>2
<1>9. RowsShape' /\ RowsInThread'
  BY <1>1, <1>8 DEF RowsShape, RowsInThread, InThread
<1>10. ArrivedWithoutTask' /\ HydratedInThread'
  BY <1>1, <1>3, <1>5 DEF ArrivedWithoutTask, HydratedInThread, InThread
<1>11. TasksShape' /\ ParentInThread' /\ LockIsWorking'
  BY <1>1, <1>2, <1>3 DEF TasksShape, ParentInThread, LockIsWorking, InThread
<1>12. JobInThread'
  BY <1>1, <1>2, <1>7 DEF JobInThread
<1> QED
  BY <1>2, <1>6, <1>9, <1>10, <1>11, <1>12

(* A chunk's row is the row of the message it was sent in reply to.          *)
LEMMA PersistThread ==
  ASSUME ThreadInv, NEW m \in Messages, Persist(m) PROVE ThreadInv'
<1> USE DEF ThreadInv
<1> DEFINE r == [job.parent EXCEPT !.role = Head(job.team)]
<1>1. lock = m /\ UNCHANGED <<pc, context, tasks, lock>>
  BY DEF Persist, Unsafe
<1>2. /\ JobShape' /\ job'.at # "restore"
      /\ job'.task = job.task /\ job'.parent = job.parent
  BY DEF Persist, JobShape, IsJob
<1>3. RowsShape' /\ RowsInThread'
  <2>1. CASE job.parent # NoRow /\ rows' = WithRow(Len(posted), r)
    <3>1. r = [thread |-> job.parent.thread, task |-> job.parent.task, role |-> Head(job.team)]
      BY <2>1 DEF ParentInThread, IsRow
    <3>2. IsRow(r) /\ r.thread \in Messages /\ InThread(r)
      BY <2>1, <3>1 DEF ParentInThread, IsRow, InThread
    <3> HIDE DEF r
    <3> QED
      BY <1>1, <2>1, <3>2, RowWritten
  <2>2. CASE UNCHANGED rows
    BY <1>1, <2>2 DEF RowsShape, RowsInThread, InThread
  <2> QED
    BY <2>1, <2>2 DEF Persist
<1>4. TasksShape' /\ TasksGrow
  BY <1>1, TasksKept
<1> QED
  BY <1>1, <1>2, <1>3, <1>4, RunStep

(* Steps that change the job and no more than the fields of a task.          *)
LEMMA RouteThread ==
  ASSUME ThreadInv, NEW m \in Messages,
         Notify(m) \/ Socialise(m) \/ Assemble(m) \/ Assign(m)
  PROVE  ThreadInv'
<1>1. lock = m /\ UNCHANGED <<pc, context, rows, tasks, lock>>
  BY DEF Notify, Socialise, Assemble, Assign, Step, Unsafe, RowsKept
<1>2. /\ JobShape' /\ job'.at # "restore"
      /\ job'.task = job.task /\ job'.parent = job.parent
  <2>1. \A mode \in Modes : \A team, at :
          at # "restore" /\ Begin(mode, team, at) =>
            /\ JobShape' /\ job'.at # "restore"
            /\ job'.task = job.task /\ job'.parent = job.parent
    BY DEF ThreadInv, JobShape, IsJob, Begin
  <2>2. \E mode \in Modes : \E team, at : at # "restore" /\ Begin(mode, team, at)
    <3>1. CASE Notify(m)
      BY <3>1 DEF Notify, Modes
    <3>2. CASE Socialise(m)
      BY <3>2 DEF Socialise, Modes
    <3>3. CASE Assemble(m)
      BY <3>3 DEF Assemble, Gather, Modes
    <3>4. CASE Assign(m)
      <4>1. PICK r : WorkFor(said[m], r)
        BY <3>4 DEF Assign
      <4> QED
        BY <4>1 DEF WorkFor, Gather, Modes
    <3> QED
      BY <3>1, <3>2, <3>3, <3>4
  <2> QED
    BY <2>1, <2>2
<1>3. TasksShape' /\ TasksGrow
  BY <1>1, TasksKept DEF ThreadInv
<1> QED
  BY <1>1, <1>2, <1>3, JobStep

LEMMA AnswerThread ==
  ASSUME ThreadInv, NEW m \in Messages,
         Check(m) \/ Say(m) \/ Post(m) \/ LoseSend(m) \/ Continue(m)
  PROVE  ThreadInv'
<1>1. lock = m /\ UNCHANGED <<pc, context, rows, tasks, lock>>
  BY DEF Check, Say, Post, LoseSend, Continue, Step, Unsafe, RowsKept
<1>2. IsJob(job) /\ job.mode \in Modes
  BY DEF ThreadInv, JobShape
<1>3. /\ JobShape' /\ job'.at # "restore" /\ job'.task = job.task
      /\ job'.parent = job.parent \/ \E k : job'.parent = RowOf(k)
  <2>1. CASE Check(m)
    BY <1>2, <2>1 DEF Check, Refuse, JobShape, IsJob, Modes
  <2>2. CASE Say(m)
    BY <1>2, <2>2 DEF Say, JobShape, IsJob
  <2>3. CASE Post(m)
    BY <1>2, <2>3 DEF Post, JobShape, IsJob
  <2>4. CASE LoseSend(m)
    BY <1>2, <2>4 DEF LoseSend, PassOver, Refuse, JobShape, IsJob, Modes
  <2>5. CASE Continue(m)
    <3>1. Refuse => /\ JobShape' /\ job'.at # "restore"
                    /\ job'.task = job.task /\ job'.parent = job.parent
      BY <1>2 DEF Refuse, JobShape, IsJob, Modes
    <3>2. \/ Refuse
          \/ \E at : at # "restore" /\ job' = [job EXCEPT !.at = at]
          \/ \E team, at : at # "restore" /\ job' = [job EXCEPT !.team = team, !.at = at]
      BY <1>2, <2>5 DEF Continue, Collective, Modes
    <3> QED
      BY <1>2, <3>1, <3>2 DEF JobShape, IsJob
  <2> QED
    BY <2>1, <2>2, <2>3, <2>4, <2>5
<1>4. TasksShape' /\ TasksGrow
  BY <1>1, TasksKept DEF ThreadInv
<1> QED
  BY <1>1, <1>3, <1>4, JobStep

LEMMA EndThread ==
  ASSUME ThreadInv, NEW m \in Messages,
         SeeStop(m) \/ HandOff(m) \/ Turn(m) \/ Judge(m)
  PROVE  ThreadInv'
<1>1. lock = m /\ UNCHANGED <<pc, context, rows, lock>>
  BY DEF SeeStop, HandOff, Turn, Judge, Step, Unsafe, RowsKept
<1>2. IsJob(job) /\ job.mode \in Modes
  BY DEF ThreadInv, JobShape
<1>3. /\ JobShape' /\ job'.at # "restore"
      /\ job'.task = job.task /\ job'.parent = job.parent
  <2>1. CASE SeeStop(m)
    BY <1>2, <2>1 DEF SeeStop, EndStopped, JobShape, IsJob
  <2>2. CASE HandOff(m)
    BY <1>2, <2>2 DEF HandOff, JobShape, IsJob
  <2>3. CASE Turn(m)
    BY <1>2, <2>3 DEF Turn, EndStopped, PassOver, Refuse, JobShape, IsJob, Modes
  <2>4. CASE Judge(m)
    BY <1>2, <2>4 DEF Judge, JobShape, IsJob
  <2> QED
    BY <2>1, <2>2, <2>3, <2>4
<1>4. TasksShape' /\ TasksGrow
  <2>1. \/ UNCHANGED tasks
        \/ tasks' = [tasks EXCEPT ![job.task].active = FALSE]
        \/ tasks' = [tasks EXCEPT ![job.task].owner = job.team[2]]
    BY DEF SeeStop, HandOff, Turn, Judge, EndStopped
  <2> QED
    BY <2>1, TasksKept, TaskClosed, TaskHandedOff DEF ThreadInv
<1> QED
  BY <1>1, <1>3, <1>4, JobStep

-----------------------------------------------------------------------------
(* Hydrating, working, sending, binding, failing and crashing keep the rows, the
   contexts and the run in the thread of the task they name
   (src/src/core/orchestrator.py:72-92, src/src/adapters/telegram/adapter.py). *)
THEOREM Invariance == Spec => []ThreadInv
<1>1. Init => ThreadInv
  BY InitThread
<1>2. ThreadInv /\ [Next]_vars => ThreadInv'
  <2> SUFFICES ASSUME ThreadInv, [Next]_vars PROVE ThreadInv'
    OBVIOUS
  <2>1. CASE UNCHANGED vars
    BY <2>1 DEF vars, ThreadInv, MessagesShape, RowsShape, TasksShape, JobShape,
       RowsInThread, ParentInThread, InThread, ArrivedWithoutTask, HydratedInThread,
       LockIsWorking, JobInThread, Thread
  <2>2. CASE Crash
    BY <2>2, AgainThread DEF Crash
  <2>3. ASSUME NEW m \in Messages, RaiseEarly(m) \/ RaiseLate(m) PROVE ThreadInv'
    BY <2>3, AgainThread DEF RaiseEarly, RaiseLate
  <2>4. ASSUME NEW m \in Messages, NEW k, Write(m, k) PROVE ThreadInv'
    BY <2>4, WriteThread
  <2>5. ASSUME NEW m \in Messages,
               \/ ReadParent(m) \/ Hydrate(m) \/ Download(m)
               \/ TakeLock(m) \/ Return(m) \/ MarkCompleted(m)
        PROVE  ThreadInv'
    BY <2>5, ReadParentThread, HydrateThread, DownloadThread, TakeLockThread, ReturnThread,
       MarkCompletedThread
  <2>6. ASSUME NEW m \in Messages,
               \/ Restore(m) \/ Notify(m) \/ Socialise(m) \/ Assemble(m) \/ Assign(m)
               \/ CreateTask(m) \/ Bind(m) \/ HandOff(m) \/ SeeStop(m)
        PROVE  ThreadInv'
    BY <2>6, RestoreThread, RouteThread, CreateTaskThread, BindThread, EndThread
  <2>7. ASSUME NEW m \in Messages,
               \/ Check(m) \/ Turn(m) \/ Say(m) \/ Post(m) \/ LoseSend(m)
               \/ Persist(m) \/ Continue(m) \/ Judge(m)
        PROVE  ThreadInv'
    BY <2>7, AnswerThread, EndThread, PersistThread
  <2> QED
    BY <2>1, <2>2, <2>3, <2>4, <2>5, <2>6, <2>7 DEF Next
<1> QED
  BY <1>1, <1>2, PTL DEF Spec

(* A row's task is a task of the row's thread, whatever is replied to, retried or
   lost (docs/BUG_BACKLOG.md:31).                                            *)
THEOREM TaskStaysInThread == Spec => []TaskInThread
<1>1. ThreadInv => TaskInThread
  BY DEF ThreadInv, RowsInThread, InThread, TaskInThread
<1> QED
  BY <1>1, Invariance, PTL

-----------------------------------------------------------------------------
(* The budget.  What a thread's checked calls cost only the run that holds the
   lock adds to, at a turn it had room for when the budget was checked.      *)
Checked(d) == spent[d] - unchecked[d]

LedgerShape ==
  /\ spent \in [Messages -> Nat] /\ unchecked \in [Messages -> Nat]
  /\ \A d \in Messages : unchecked[d] <= spent[d]

(* Delegated work has two in its team until the task is handed off.          *)
DelegatedTeam ==
  job.mode = "delegated" =>
    \/ job.team = <<job.team[1]>> /\ job.at \notin {"check", "handoff"}
    \/ job.team = <<job.team[1], job.team[2]>>

Phases ==
  /\ job.at \in {"check", "turn"} => job.mode # "notice"
  /\ job.at \in {"create", "bind"} => job.mode \in {"delegated", "collective"}
  /\ job.at = "handoff" => job.mode = "delegated"

(* What is left before a turn, and before the second turn of delegated work. *)
TurnHasRoom ==
  lock \in Messages /\ job.at = "turn" =>
    /\ job.mode = "collective" => Checked(Thread(lock)) < Budget
    /\ job.mode = "single" => Checked(Thread(lock)) < Normal
    /\ job.mode = "delegated" /\ Len(job.team) = 2 => Checked(Thread(lock)) < Normal
    /\ job.mode = "delegated" /\ Len(job.team) = 1 => Checked(Thread(lock)) < Normal + MaxCalls

FirstAnswer == {"say", "post", "persist", "sent", "create", "bind", "handoff"}
AnswerHasRoom ==
  lock \in Messages /\ job.mode = "delegated" /\ Len(job.team) = 2 /\ job.at \in FirstAnswer =>
    Checked(Thread(lock)) < Normal + MaxCalls

BudgetInv ==
  LedgerShape /\ BudgetHolds /\ DelegatedTeam /\ Phases /\ TurnHasRoom /\ AnswerHasRoom

LEMMA LargerBudget ==
  /\ Max({Normal + 2 * MaxCalls, Budget + MaxCalls}) \in Nat
  /\ Normal + 2 * MaxCalls <= Max({Normal + 2 * MaxCalls, Budget + MaxCalls})
  /\ Budget + MaxCalls <= Max({Normal + 2 * MaxCalls, Budget + MaxCalls})
<1> DEFINE a == Normal + 2 * MaxCalls
           b == Budget + MaxCalls
<1>1. a \in Nat /\ b \in Nat
  BY BudgetAssumption
<1>2. \E x \in {a, b} : \A y \in {a, b} : x >= y
  BY <1>1
<1> HIDE DEF a, b
<1>3. Max({a, b}) \in {a, b} /\ \A y \in {a, b} : Max({a, b}) >= y
  BY <1>2 DEF Max
<1>4. Max({a, b}) \in Nat /\ a <= Max({a, b}) /\ b <= Max({a, b})
  BY <1>1, <1>3
<1> QED
  BY <1>4 DEF a, b

LEMMA InitBudget == Init => BudgetInv
  BY LargerBudget, BudgetAssumption
     DEF Init, NoJob, BudgetInv, LedgerShape, BudgetHolds, DelegatedTeam, Phases, TurnHasRoom,
         AnswerHasRoom, FirstAnswer

(* Calls that are charged.                                                   *)
LEMMA Charged ==
  ASSUME LedgerShape, NEW d \in Messages, NEW n \in Nat, NEW c \in BOOLEAN, Charge(d, n, c)
  PROVE  /\ LedgerShape'
         /\ \A e \in Messages :
              Checked(e)' = IF c /\ e = d THEN Checked(e) + n ELSE Checked(e)
  BY DEF LedgerShape, Charge, Checked

LEMMA NothingCharged ==
  ASSUME LedgerShape, UNCHANGED <<spent, unchecked>>
  PROVE  LedgerShape' /\ \A e \in Messages : Checked(e)' = Checked(e)
  BY DEF LedgerShape, Checked

(* Nothing checked is charged, and the run stays where it was.               *)
LEMMA SameRun ==
  ASSUME BudgetInv, LedgerShape', \A e \in Messages : Checked(e)' = Checked(e),
         UNCHANGED <<lock, job>>,
         lock \in Messages => Thread(lock) \in Messages /\ Thread(lock)' = Thread(lock)
  PROVE  BudgetInv'
<1> USE DEF BudgetInv
<1>1. BudgetHolds'
  BY DEF BudgetHolds, Checked
<1>2. DelegatedTeam' /\ Phases'
  BY DEF DelegatedTeam, Phases
<1>3. TurnHasRoom' /\ AnswerHasRoom'
  <2> USE DEF TurnHasRoom, AnswerHasRoom
  <2>1. CASE lock \in Messages
    <3>1. Checked(Thread(lock))' = Checked(Thread(lock))
      BY <2>1 DEF Checked
    <3> QED
      BY <3>1
  <2> QED
    BY <2>1
<1> QED
  BY <1>1, <1>2, <1>3

(* A step of the run that no call is charged in.                             *)
LEMMA UnchargedStep ==
  ASSUME ThreadInv, BudgetInv, NEW m \in Messages, UNCHANGED <<spent, unchecked>>,
         Thread(m)' = Thread(m)
  PROVE  /\ LedgerShape' /\ BudgetHolds'
         /\ Thread(m) \in Messages /\ Checked(Thread(m))' = Checked(Thread(m))
<1>1. LedgerShape' /\ BudgetHolds'
  BY DEF BudgetInv, LedgerShape, BudgetHolds
<1>2. Checked(Thread(m))' = Checked(Thread(m))
  BY DEF Checked
<1> QED
  BY <1>1, <1>2, ThreadIsMessage DEF ThreadInv

LEMMA MessageBudget ==
  ASSUME ThreadInv, BudgetInv, NEW m \in Messages,
         \/ \E k : Write(m, k)
         \/ ReadParent(m) \/ Hydrate(m) \/ Download(m) \/ MarkCompleted(m)
  PROVE  BudgetInv'
<1>1. m # lock
  BY HolderIsWorking DEF Write, ReadParent, Hydrate, Download, MarkCompleted, Arrive, ThreadInv
<1>2. UNCHANGED <<lock, job>> /\ \A n \in Messages : n # m => context'[n] = context[n]
  BY DEF Write, ReadParent, Hydrate, Download, MarkCompleted, Arrive, ThreadInv, MessagesShape
<1>3. lock \in Messages => Thread(lock) \in Messages /\ Thread(lock)' = Thread(lock)
  BY <1>1, <1>2, ThreadIsMessage DEF Thread, ThreadInv
<1>4. LedgerShape' /\ \A e \in Messages : Checked(e)' = Checked(e)
  <2>1. CASE Download(m)
    <3>1. VisionCalls(said[m].attachment) \subseteq Nat
      <4> DEFINE kind == said[m].attachment
      <4>1. CASE kind = "image"
        BY <4>1 DEF VisionCalls
      <4>2. CASE kind = "scan"
        BY <4>2, BudgetAssumption DEF VisionCalls
      <4>3. CASE kind # "image" /\ kind # "scan"
        BY <4>3 DEF VisionCalls
      <4> QED
        BY <4>1, <4>2, <4>3
    <3>2. PICK n \in Nat : Charge(Thread(m), n, FALSE)
      BY <2>1, <3>1 DEF Download
    <3> QED
      BY <3>2, Charged, ThreadIsMessage DEF BudgetInv, ThreadInv
  <2>2. CASE ~Download(m)
    BY <2>2, NothingCharged
       DEF Write, ReadParent, Hydrate, MarkCompleted, BudgetInv
  <2> QED
    BY <2>1, <2>2
<1> QED
  BY <1>2, <1>3, <1>4, SameRun

(* A run that has not begun, or that ended.                                  *)
LEMMA IdleBudget ==
  ASSUME BudgetInv, UNCHANGED <<spent, unchecked>>,
         job' = NoJob \/ \E m : job' = [NoJob EXCEPT !.at = "restore", !.last = m]
  PROVE  BudgetInv'
<1>1. LedgerShape' /\ BudgetHolds'
  BY DEF BudgetInv, LedgerShape, BudgetHolds
<1>2. job'.mode = "notice" /\ job'.at \in {"idle", "restore"}
  <2>1. CASE job' = NoJob
    BY <2>1 DEF NoJob
  <2>2. ASSUME NEW m, job' = [NoJob EXCEPT !.at = "restore", !.last = m]
        PROVE  job'.mode = "notice" /\ job'.at = "restore"
    BY <2>2 DEF NoJob
  <2> QED
    BY <2>1, <2>2
<1>3. DelegatedTeam' /\ Phases' /\ TurnHasRoom' /\ AnswerHasRoom'
  BY <1>2 DEF DelegatedTeam, Phases, TurnHasRoom, AnswerHasRoom, FirstAnswer
<1> QED
  BY <1>1, <1>3 DEF BudgetInv

LEMMA AgainBudget ==
  ASSUME ThreadInv, BudgetInv, NEW cut \in SUBSET Messages, Again(cut)
  PROVE  BudgetInv'
<1>1. /\ UNCHANGED <<spent, unchecked>>
      /\ IF lock \in cut THEN Free ELSE UNCHANGED <<lock, job>>
      /\ context' = [m \in Messages |-> IF m \in cut THEN Fresh(replyTo[m]) ELSE context[m]]
  BY DEF Again
<1>2. CASE lock \in cut
  BY <1>1, <1>2, IdleBudget DEF Free
<1>3. CASE lock \notin cut
  <2>1. lock \in Messages => Thread(lock) \in Messages /\ Thread(lock)' = Thread(lock)
    BY <1>1, <1>3, ThreadIsMessage DEF Thread, ThreadInv
  <2>2. LedgerShape' /\ \A e \in Messages : Checked(e)' = Checked(e)
    BY <1>1, NothingCharged DEF BudgetInv
  <2> QED
    BY <1>1, <1>3, <2>1, <2>2, SameRun
<1> QED
  BY <1>2, <1>3

LEMMA LockBudget ==
  ASSUME BudgetInv, NEW m \in Messages, TakeLock(m) \/ Return(m)
  PROVE  BudgetInv'
  BY IdleBudget DEF TakeLock, Return, Free

(* The run's steps that cost nothing.                                        *)
LEMMA BeginBudget ==
  ASSUME ThreadInv, BudgetInv, NEW m \in Messages,
         Restore(m) \/ Notify(m) \/ Socialise(m) \/ Assemble(m) \/ Assign(m)
  PROVE  BudgetInv'
<1> USE DEF BudgetInv
<1>1. lock = m /\ lock' = m /\ IsJob(job) /\ job.mode \in Modes
  BY DEF Restore, Notify, Socialise, Assemble, Assign, Step, Unsafe, ThreadInv, JobShape
<1>2. LedgerShape' /\ BudgetHolds'
  <2>1. LedgerShape' /\ \A e \in Messages : Checked(e)' = Checked(e)
    <3>1. CASE UNCHANGED <<spent, unchecked>>
      BY <3>1, NothingCharged
    <3>2. ASSUME NEW n \in {0, 1}, Charge(m, n, FALSE)
          PROVE  LedgerShape' /\ \A e \in Messages : Checked(e)' = Checked(e)
      BY <3>2, Charged
    <3>3. UNCHANGED <<spent, unchecked>> \/ \E n \in {0, 1} : Charge(m, n, FALSE)
      BY DEF Restore, Notify, Socialise, Assemble, Assign, MoneyKept
    <3> QED
      BY <3>1, <3>2, <3>3
  <2> QED
    BY <2>1 DEF BudgetHolds, Checked
<1>3. DelegatedTeam' /\ Phases' /\ TurnHasRoom' /\ AnswerHasRoom'
  <2> USE DEF DelegatedTeam, Phases, TurnHasRoom, AnswerHasRoom, FirstAnswer
  <2>1. CASE Restore(m)
    BY <1>1, <2>1 DEF Restore, Step, Unsafe, IsJob
  <2>2. \A mode \in Modes : \A team, at :
          /\ Begin(mode, team, at)
          /\ \/ mode = "notice" /\ at = "say"
             \/ mode = "social" /\ at \in {"say", "turn"}
             \/ mode = "single" /\ at = "check"
             \/ mode = "delegated" /\ at = "check" /\ team = <<team[1], team[2]>>
             \/ mode = "collective" /\ at = "create"
          => DelegatedTeam' /\ Phases' /\ TurnHasRoom' /\ AnswerHasRoom'
    BY <1>1 DEF Begin, IsJob, Modes
  <2>3. CASE Notify(m)
    BY <2>2, <2>3 DEF Notify, Modes
  <2>4. CASE Socialise(m)
    BY <2>2, <2>4 DEF Socialise, Modes
  <2>5. CASE Assemble(m)
    BY <2>2, <2>5 DEF Assemble, Gather, Modes
  <2>6. CASE Assign(m)
    <3>1. PICK r : WorkFor(said[m], r)
      BY <2>6 DEF Assign
    <3> QED
      BY <2>2, <3>1 DEF WorkFor, Gather, Modes
  <2> QED
    BY <2>1, <2>3, <2>4, <2>5, <2>6
<1> QED
  BY <1>2, <1>3

LEMMA WorkBudget ==
  ASSUME ThreadInv, BudgetInv, NEW m \in Messages,
         \/ CreateTask(m) \/ Bind(m) \/ SeeStop(m) \/ HandOff(m) \/ Check(m)
         \/ Say(m) \/ Post(m) \/ LoseSend(m) \/ Persist(m) \/ Continue(m)
  PROVE  BudgetInv'
<1> USE DEF BudgetInv
<1>1. lock = m /\ lock' = m /\ UNCHANGED <<spent, unchecked>>
  BY DEF CreateTask, Bind, SeeStop, HandOff, Check, Say, Post, LoseSend, Persist, Continue,
         Step, Unsafe, MoneyKept
<1>2. IsJob(job) /\ job.mode \in Modes
  BY DEF ThreadInv, JobShape
<1>3. Thread(m)' = Thread(m)
  <2>1. CASE Bind(m)
    <3>1. context'[m].thread = Thread(m)
      BY <2>1 DEF Bind, BoundRow, ThreadInv, MessagesShape
    <3> QED
      BY <3>1, ThreadIsMessage, NullAssumption DEF Thread, ThreadInv
  <2>2. CASE UNCHANGED context
    BY <2>2 DEF Thread
  <2> QED
    BY <2>1, <2>2 DEF CreateTask, SeeStop, HandOff, Check, Say, Post, LoseSend, Persist,
       Continue, RowsKept
<1>4. LedgerShape' /\ BudgetHolds' /\ Checked(Thread(m))' = Checked(Thread(m))
  BY <1>1, <1>3, UnchargedStep
<1> HIDE DEF BudgetInv
<1>5. DelegatedTeam /\ Phases /\ TurnHasRoom /\ AnswerHasRoom /\ LedgerShape
  BY DEF BudgetInv
<1> DEFINE Kept == DelegatedTeam' /\ Phases' /\ TurnHasRoom' /\ AnswerHasRoom'
<1>6. Refuse => Kept
  BY <1>2 DEF Refuse, IsJob, DelegatedTeam, Phases, TurnHasRoom, AnswerHasRoom, FirstAnswer
<1>7. Collective /\ PassOver => Kept
  <2>1. ASSUME Collective, job' = [job EXCEPT !.team = Tail(@), !.failed = TRUE, !.at = "check"]
        PROVE  Kept
    BY <1>2, <2>1 DEF Collective, IsJob, DelegatedTeam, Phases, TurnHasRoom, AnswerHasRoom,
       FirstAnswer
  <2> QED
    BY <1>6, <2>1 DEF PassOver
<1>8. CASE CreateTask(m)
  <2>1. job' = [job EXCEPT !.task = Len(tasks) + 1, !.at = "bind"] /\ job.at = "create"
    BY <1>8 DEF CreateTask, Step, Unsafe
  <2> QED
    BY <1>1, <1>2, <1>4, <1>5, <2>1 DEF BudgetInv, IsJob, DelegatedTeam, Phases, TurnHasRoom,
       AnswerHasRoom, FirstAnswer
<1>9. CASE Say(m) \/ Post(m)
  <2>1. /\ job'.at \in {"post", "persist"} /\ job'.mode = job.mode /\ job'.team = job.team
        /\ job.at \in {"say", "post"}
    BY <1>2, <1>9 DEF Say, Post, Step, Unsafe, IsJob
  <2> QED
    BY <1>1, <1>4, <1>5, <2>1 DEF BudgetInv, DelegatedTeam, Phases, TurnHasRoom, AnswerHasRoom,
       FirstAnswer
<1>10. CASE Persist(m)
  <2>1. /\ job'.at \in {"post", "sent"} /\ job'.mode = job.mode /\ job'.team = job.team
        /\ job.at = "persist"
    BY <1>2, <1>10 DEF Persist, Unsafe, IsJob
  <2> QED
    BY <1>1, <1>4, <1>5, <2>1 DEF BudgetInv, DelegatedTeam, Phases, TurnHasRoom, AnswerHasRoom,
       FirstAnswer
<1>11. CASE SeeStop(m)
  <2>1. job'.at = "return" /\ job'.mode = job.mode /\ job'.team = job.team
    BY <1>2, <1>11 DEF SeeStop, EndStopped, IsJob
  <2> QED
    BY <1>1, <1>4, <1>5, <2>1 DEF BudgetInv, DelegatedTeam, Phases, TurnHasRoom, AnswerHasRoom,
       FirstAnswer
<1>12. CASE LoseSend(m)
  BY <1>4, <1>7, <1>12 DEF BudgetInv, LoseSend
<1>13. CASE Bind(m)
  <2>1. /\ job'.mode = job.mode /\ job'.team = job.team /\ job.at = "bind"
        /\ job.mode = "collective" => job'.at = "check"
        /\ job.mode # "collective" /\ Len(job.team) > 1 => job'.at = "handoff"
        /\ job.mode # "collective" /\ ~(Len(job.team) > 1) => job'.at = "judge"
    BY <1>2, <1>13 DEF Bind, Step, Unsafe, IsJob
  <2>2. job.mode \in {"delegated", "collective"}
    BY <1>5, <2>1 DEF Phases
  <2>3. CASE job.mode = "collective"
    BY <1>4, <2>1, <2>3 DEF BudgetInv, DelegatedTeam, Phases, TurnHasRoom, AnswerHasRoom
  <2>4. CASE job.mode = "delegated" /\ job.team = <<job.team[1]>>
    <3> DEFINE a == job.team[1]
    <3>1. Len(<<a>>) = 1
      OBVIOUS
    <3>2. Len(job.team) = 1
      BY <2>4, <3>1
    <3>3. job'.at = "judge"
      BY <2>1, <2>4, <3>2
    <3> QED
      BY <1>4, <1>5, <2>1, <2>4, <3>3 DEF BudgetInv, DelegatedTeam, Phases, TurnHasRoom,
         AnswerHasRoom, FirstAnswer
  <2>5. CASE job.mode = "delegated" /\ job.team = <<job.team[1], job.team[2]>>
    <3> DEFINE a == job.team[1]
               b == job.team[2]
    <3>1. Len(<<a, b>>) = 2
      OBVIOUS
    <3>2. Len(job.team) = 2
      BY <2>5, <3>1
    <3>3. job'.at = "handoff"
      BY <2>1, <2>5, <3>2
    <3> QED
      BY <1>1, <1>4, <1>5, <2>1, <2>5, <3>2, <3>3 DEF BudgetInv, DelegatedTeam, Phases, TurnHasRoom,
         AnswerHasRoom, FirstAnswer
  <2> QED
    BY <1>5, <2>2, <2>3, <2>4, <2>5 DEF DelegatedTeam
<1>14. CASE HandOff(m)
  <2>1. job.at = "handoff" /\ job.mode = "delegated"
    BY <1>5, <1>14 DEF HandOff, Step, Unsafe, Phases
  <2>2. job.team = <<job.team[1], job.team[2]>>
    BY <1>5, <2>1 DEF DelegatedTeam
  <2>3. Len(job.team) = 2 /\ Tail(job.team) = <<job.team[2]>>
    <3> DEFINE a == job.team[1]
               b == job.team[2]
    <3>1. Len(<<a, b>>) = 2 /\ Tail(<<a, b>>) = <<b>>
      OBVIOUS
    <3> QED
      BY <2>2, <3>1
  <2>4. Checked(Thread(m)) < Normal + MaxCalls
    BY <1>1, <1>5, <2>1, <2>3 DEF AnswerHasRoom, FirstAnswer
  <2>5. \/ job'.at = "turn" /\ job'.mode = job.mode /\ job'.team = <<job.team[2]>>
        \/ job'.at = "judge" /\ job'.mode = job.mode /\ job'.team = job.team
    BY <1>2, <1>14, <2>3 DEF HandOff, IsJob
  <2>6. Len(<<job.team[2]>>) = 1 /\ (<<job.team[2]>>)[1] = job.team[2]
    OBVIOUS
  <2> QED
    BY <1>1, <1>4, <1>5, <2>1, <2>2, <2>4, <2>5, <2>6 DEF BudgetInv, DelegatedTeam, Phases,
       TurnHasRoom, AnswerHasRoom, FirstAnswer
<1>15. CASE Check(m)
  <2>1. job.at = "check" /\ job.mode # "notice"
    BY <1>5, <1>15 DEF Check, Step, Unsafe, Phases
  <2>2. ASSUME WithinBudget(Thread(m), Limit), job' = [job EXCEPT !.at = "turn"]
        PROVE  Kept
    <3>1. job'.at = "turn" /\ job'.mode = job.mode /\ job'.team = job.team
      BY <1>2, <2>2 DEF IsJob
    <3>2. Checked(Thread(m)) < Limit
      <4>1. Thread(m) \in Messages
        BY ThreadIsMessage DEF ThreadInv
      <4>2. /\ spent[Thread(m)] \in Nat /\ unchecked[Thread(m)] \in Nat
            /\ Limit \in Nat /\ spent[Thread(m)] < Limit
        BY <1>5, <2>2, <4>1, BudgetAssumption DEF WithinBudget, Limit, LedgerShape
      <4> QED
        BY <4>2 DEF Checked
    <3>3. job.mode = "delegated" => Len(job.team) = 2
      BY <1>5, <2>1 DEF DelegatedTeam
    <3> QED
      BY <1>1, <1>4, <1>5, <2>1, <3>1, <3>2, <3>3 DEF Limit, DelegatedTeam, Phases, TurnHasRoom,
         AnswerHasRoom, FirstAnswer
  <2> QED
    BY <1>4, <1>6, <1>15, <2>2 DEF BudgetInv, Check
<1>16. CASE Continue(m)
  <2>1. \/ Refuse
        \/ /\ job' = [job EXCEPT !.at = job'.at]
           /\ \/ job'.at \in {"return", "judge"}
              \/ job.mode = "delegated" /\ job'.at \in {"create", "bind"}
        \/ /\ job' = [job EXCEPT !.team = job'.team, !.at = job'.at]
           /\ \/ job.mode = "social" /\ job'.at \in {"say", "turn"}
              \/ job.mode = "collective" /\ job'.at = "check"
    BY <1>2, <1>16 DEF Continue, Collective, Modes, IsJob
  <2>2. job.at = "sent"
    BY <1>16 DEF Continue, Step, Unsafe
  <2> QED
    BY <1>1, <1>2, <1>4, <1>5, <1>6, <2>1, <2>2 DEF BudgetInv, IsJob, DelegatedTeam, Phases,
       TurnHasRoom, AnswerHasRoom, FirstAnswer
<1> QED
  BY <1>8, <1>9, <1>10, <1>11, <1>12, <1>13, <1>14, <1>15, <1>16

(* The steps that pay.                                                       *)
LEMMA TurnBudget ==
  ASSUME ThreadInv, BudgetInv, NEW m \in Messages, Turn(m)
  PROVE  BudgetInv'
<1>1. /\ lock = m /\ lock' = m /\ job.at = "turn" /\ UNCHANGED context
      /\ IsJob(job) /\ job.mode \in Modes
  BY DEF Turn, Unsafe, RowsKept, ThreadInv, JobShape
<1>2. DelegatedTeam /\ Phases /\ TurnHasRoom /\ AnswerHasRoom /\ LedgerShape /\ BudgetHolds
  BY DEF BudgetInv
<1>3. Thread(m) \in Messages /\ Thread(m)' = Thread(m)
  BY <1>1, ThreadIsMessage DEF Thread, ThreadInv
<1>4. PICK n \in 0..MaxCalls :
        /\ Charge(Thread(m), n, job.mode # "social")
        /\ \/ job' = [job EXCEPT !.at = "say"]
           \/ EndStopped
           \/ IF Collective THEN PassOver ELSE job' = [job EXCEPT !.at = "raise"]
  BY DEF Turn
<1>5. n \in Nat /\ n <= MaxCalls /\ MaxCalls \in Nat /\ Normal \in Nat /\ Budget \in Nat
  BY BudgetAssumption
<1>6. /\ LedgerShape'
      /\ \A e \in Messages : Checked(e)' =
           IF job.mode # "social" /\ e = Thread(m) THEN Checked(e) + n ELSE Checked(e)
  BY <1>2, <1>3, <1>4, <1>5, Charged
<1>7. \A e \in Messages : Checked(e) \in Int
  BY <1>2 DEF LedgerShape, Checked
<1>8. job.mode = "delegated" => Len(job.team) \in {1, 2}
  <2>1. Len(<<job.team[1]>>) = 1 /\ Len(<<job.team[1], job.team[2]>>) = 2
    OBVIOUS
  <2> QED
    BY <1>2, <2>1 DEF DelegatedTeam
<1>9. /\ job.mode # "social" => Checked(Thread(m)) + MaxCalls < Normal + 2 * MaxCalls
                              \/ Checked(Thread(m)) + MaxCalls < Budget + MaxCalls
      /\ job.mode = "delegated" /\ Len(job.team) = 2 =>
           Checked(Thread(m)) + n < Normal + MaxCalls
  <2>1. Checked(Thread(m)) \in Int
    BY <1>3, <1>7
  <2>2. job.mode # "notice"
    BY <1>1, <1>2 DEF Phases
  <2> QED
    BY <1>1, <1>2, <1>5, <1>8, <2>1, <2>2 DEF TurnHasRoom, Modes
<1>10. BudgetHolds'
  <2> SUFFICES ASSUME NEW d \in Messages
               PROVE  Checked(d)' < Max({Normal + 2 * MaxCalls, Budget + MaxCalls})
    BY DEF BudgetHolds, Checked
  <2>1. CASE job.mode # "social" /\ d = Thread(m)
    <3>1. Checked(d)' = Checked(d) + n /\ Checked(d) \in Int
      BY <1>6, <1>7, <2>1
    <3> QED
      BY <1>5, <1>9, <2>1, <3>1, LargerBudget
  <2>2. CASE ~(job.mode # "social" /\ d = Thread(m))
    BY <1>2, <1>6, <2>2 DEF BudgetHolds, Checked
  <2> QED
    BY <2>1, <2>2
<1>11. DelegatedTeam' /\ Phases' /\ TurnHasRoom' /\ AnswerHasRoom'
  <2>1. CASE job' = [job EXCEPT !.at = "say"]
    <3>1. job'.at = "say" /\ job'.mode = job.mode /\ job'.team = job.team
      BY <1>1, <2>1 DEF IsJob
    <3>2. job.mode = "delegated" /\ Len(job.team) = 2 => Checked(Thread(m))' < Normal + MaxCalls
      BY <1>3, <1>6, <1>9
    <3> QED
      BY <1>1, <1>2, <1>3, <3>1, <3>2 DEF DelegatedTeam, Phases, TurnHasRoom, AnswerHasRoom, Checked
  <2>2. CASE job' = [job EXCEPT !.at = "return"] \/ job' = [job EXCEPT !.at = "raise"]
    <3>1. job'.at \in {"return", "raise"} /\ job'.mode = job.mode /\ job'.team = job.team
      BY <1>1, <2>2 DEF IsJob
    <3> QED
      BY <1>2, <3>1 DEF DelegatedTeam, Phases, TurnHasRoom, AnswerHasRoom, FirstAnswer
  <2>3. CASE Collective /\ PassOver
    <3>1. \/ job'.mode = "notice" /\ job'.at = "say"
          \/ job'.mode = "collective" /\ job'.at = "check"
      BY <1>1, <2>3 DEF Collective, PassOver, Refuse, IsJob
    <3> QED
      BY <3>1 DEF DelegatedTeam, Phases, TurnHasRoom, AnswerHasRoom, FirstAnswer
  <2> QED
    BY <1>4, <2>1, <2>2, <2>3 DEF EndStopped
<1> QED
  BY <1>6, <1>10, <1>11 DEF BudgetInv

LEMMA JudgeBudget ==
  ASSUME ThreadInv, BudgetInv, NEW m \in Messages, Judge(m)
  PROVE  BudgetInv'
<1>1. /\ lock = m /\ lock' = m /\ UNCHANGED context /\ IsJob(job)
      /\ job' = [job EXCEPT !.at = "return"]
  BY DEF Judge, Step, Unsafe, RowsKept, ThreadInv, JobShape
<1>2. DelegatedTeam /\ Phases /\ LedgerShape /\ BudgetHolds
  BY DEF BudgetInv
<1>3. Thread(m) \in Messages
  BY ThreadIsMessage DEF ThreadInv
<1>4. job'.at = "return" /\ job'.mode = job.mode /\ job'.team = job.team
  BY <1>1 DEF IsJob
<1>5. DelegatedTeam' /\ Phases' /\ TurnHasRoom' /\ AnswerHasRoom'
  BY <1>2, <1>4 DEF DelegatedTeam, Phases, TurnHasRoom, AnswerHasRoom, FirstAnswer
<1>6. MoneyKept \/ (WithinBudget(Thread(m), Limit) /\ Charge(Thread(m), 1, TRUE))
  BY DEF Judge
<1>7. CASE MoneyKept
  BY <1>2, <1>7, <1>4, <1>5, NothingCharged DEF MoneyKept, BudgetInv, BudgetHolds, LedgerShape
<1>8. CASE WithinBudget(Thread(m), Limit) /\ Charge(Thread(m), 1, TRUE)
  <2>1. /\ LedgerShape'
        /\ \A e \in Messages :
             Checked(e)' = IF e = Thread(m) THEN Checked(e) + 1 ELSE Checked(e)
    BY <1>2, <1>3, <1>8, Charged
  <2>2. ASSUME NEW d \in Messages
        PROVE  Checked(d)' < Max({Normal + 2 * MaxCalls, Budget + MaxCalls})
    <3>1. CASE d = Thread(m)
      <4>1. /\ spent[d] \in Nat /\ unchecked[d] \in Nat /\ spent[d] < Limit
            /\ Normal \in Nat /\ Budget \in Nat /\ MaxCalls \in Nat \ {0}
            /\ Limit \in {Normal, Budget}
        BY <1>2, <1>8, <3>1, BudgetAssumption DEF WithinBudget, Limit, LedgerShape
      <4>2. Checked(d)' = spent[d] - unchecked[d] + 1
        BY <2>1, <3>1 DEF Checked
      <4> QED
        BY <4>1, <4>2, LargerBudget
    <3>2. CASE d # Thread(m)
      BY <1>2, <2>1, <3>2 DEF BudgetHolds, Checked
    <3> QED
      BY <3>1, <3>2
  <2>3. BudgetHolds'
    BY <2>2 DEF BudgetHolds, Checked
  <2> QED
    BY <1>5, <2>1, <2>3 DEF BudgetInv
<1> QED
  BY <1>6, <1>7, <1>8

(* A thread's checked calls pass the larger budget by less than the turns made
   after one check, for any budgets and any number of messages
   (src/src/llm/usage_meter.py:49-60, src/src/core/orchestrator.py).         *)
THEOREM BudgetStays == Spec => []BudgetHolds
<1>1. Init => BudgetInv
  BY InitBudget
<1>2. ThreadInv /\ BudgetInv /\ [Next]_vars => BudgetInv'
  <2> SUFFICES ASSUME ThreadInv, BudgetInv, [Next]_vars PROVE BudgetInv'
    OBVIOUS
  <2>1. CASE UNCHANGED vars
    BY <2>1 DEF vars, BudgetInv, BudgetHolds, LedgerShape, DelegatedTeam, Phases, TurnHasRoom,
       AnswerHasRoom, Thread, Checked
  <2>2. CASE Crash
    BY <2>2, AgainBudget DEF Crash
  <2>3. ASSUME NEW m \in Messages, RaiseEarly(m) \/ RaiseLate(m) PROVE BudgetInv'
    BY <2>3, AgainBudget DEF RaiseEarly, RaiseLate
  <2>4. ASSUME NEW m \in Messages,
               \/ \E k : Write(m, k)
               \/ ReadParent(m) \/ Hydrate(m) \/ Download(m) \/ MarkCompleted(m)
        PROVE  BudgetInv'
    BY <2>4, MessageBudget
  <2>5. ASSUME NEW m \in Messages,
               \/ TakeLock(m) \/ Return(m)
               \/ Restore(m) \/ Notify(m) \/ Socialise(m) \/ Assemble(m) \/ Assign(m)
        PROVE  BudgetInv'
    BY <2>5, LockBudget, BeginBudget
  <2>6. ASSUME NEW m \in Messages,
               \/ CreateTask(m) \/ Bind(m) \/ SeeStop(m) \/ HandOff(m) \/ Check(m)
               \/ Say(m) \/ Post(m) \/ LoseSend(m) \/ Persist(m) \/ Continue(m)
        PROVE  BudgetInv'
    BY <2>6, WorkBudget
  <2>7. ASSUME NEW m \in Messages, Turn(m) \/ Judge(m) PROVE BudgetInv'
    BY <2>7, TurnBudget, JudgeBudget
  <2> QED
    BY <2>1, <2>2, <2>3, <2>4, <2>5, <2>6, <2>7 DEF Next
<1>3. BudgetInv => BudgetHolds
  BY DEF BudgetInv
<1> QED
  BY <1>1, <1>2, <1>3, Invariance, PTL DEF Spec

-----------------------------------------------------------------------------
(* Replies.  A run's answers are messages of its own, and once the run has a task
   its rows name it: its message's, its answers', and the row the chunks of an
   answer inherit.                                                           *)
RepliesShape ==
  /\ answers = [m \in Messages |-> answers[m]] /\ result = [m \in Messages |-> result[m]]
  /\ replyTo = [m \in Messages |-> replyTo[m]]
  /\ Len(posted) \in Nat /\ posted = [i \in 1..Len(posted) |-> posted[i]]

AnswersPosted ==
  /\ \A m \in Messages : answers[m] \subseteq 1..Len(posted)
  /\ DOMAIN rows \subseteq Messages \cup 1..Len(posted)
AnswersApart == \A m, n \in Messages : m # n => answers[m] \cap answers[n] = {}

(* The message that is posted and not yet written down is nobody's answer, and has
   no row.                                                                   *)
PostIsNew ==
  job.at = "persist" =>
    /\ Len(posted) # 0 /\ Len(posted) \notin DOMAIN rows
    /\ \A m \in Messages : Len(posted) \notin answers[m]

(* A run begins without answers, and collective work creates its task first. *)
Early == {"unwritten", "arrived", "hydrating", "hydrated", "queued"}

NoAnswerYet ==
  /\ \A m \in Messages : pc[m] \in Early => answers[m] = {}
  /\ lock \in Messages =>
       /\ job.at \in {"restore", "route"} => answers[lock] = {}
       /\ job.at \in {"create", "bind"} => job.mode = "delegated" \/ answers[lock] = {}
       /\ job.at = "bind" => job.task # NoTask

(* The rows of a run with a task.                                            *)
OfTask(m, t) == \A k \in ({m} \cup answers[m]) \cap DOMAIN rows : rows[k].task = t

RunRows ==
  lock \in Messages =>
    /\ job.last \in {lock} \cup answers[lock]
    /\ job.task # NoTask /\ job.at # "bind" =>
         /\ OfTask(lock, job.task)
         /\ job.at \in {"post", "persist"} /\ job.parent # NoRow => job.parent.task = job.task

Finished == {n \in Messages : pc[n] \in {"returned", "done"} /\ result[n] # NoTask}
FinishedRows ==
  \A n \in Finished :
    /\ result[n] \in DOMAIN tasks
    /\ \A k \in answers[n] \cap DOMAIN rows : rows[k].task = result[n]

ReplyInv ==
  /\ RepliesShape /\ AnswersPosted /\ AnswersApart /\ PostIsNew /\ NoAnswerYet
  /\ RunRows /\ FinishedRows /\ ReplyContinues

LEMMA InitReply == Init => ReplyInv
<1> SUFFICES ASSUME Init PROVE ReplyInv
  OBVIOUS
<1>1. /\ \A m \in Messages : answers[m] = {} /\ result[m] = NoTask /\ pc[m] = "unwritten"
      /\ lock = NoMessage /\ lock \notin Messages /\ job.at = "idle" /\ Finished = {}
      /\ DOMAIN rows = {}
  BY NullAssumption DEF Init, NoJob, Finished
<1>2. RepliesShape
  BY DEF Init, RepliesShape
<1>3. AnswersPosted /\ AnswersApart /\ PostIsNew /\ NoAnswerYet
  BY <1>1, <1>2 DEF AnswersPosted, AnswersApart, PostIsNew, NoAnswerYet, Early
<1>4. RunRows /\ FinishedRows
  BY <1>1 DEF RunRows, FinishedRows
<1>5. ReplyContinues
  BY <1>1 DEF ReplyContinues
<1> QED
  BY <1>2, <1>3, <1>4, <1>5 DEF ReplyInv

(* A message a user wrote is nobody's answer.                                *)
LEMMA WrittenIsNoAnswer ==
  ASSUME ReplyInv, NEW m \in Messages, NEW n \in Messages
  PROVE  m \notin answers[n]
  BY IdAssumption DEF ReplyInv, RepliesShape, AnswersPosted

(* What a finished run left stays, if its answers' rows do.                  *)
LEMMA FinishedStays ==
  ASSUME ReplyInv, TasksGrow, NEW n \in Finished,
         answers'[n] = answers[n], result'[n] = result[n],
         \A k \in answers[n] \cap DOMAIN rows' : k \in DOMAIN rows /\ rows'[k] = rows[k]
  PROVE  /\ result'[n] \in DOMAIN tasks'
         /\ \A k \in answers'[n] \cap DOMAIN rows' : rows'[k].task = result'[n]
         /\ tasks'[result'[n]].thread = tasks[result[n]].thread
  BY DEF ReplyInv, FinishedRows, TasksGrow

(* Finished runs stay as they are, and the run that holds the lock, if it went on
   before, has the context and the parent it had.                            *)
LEMMA OthersStay ==
  ASSUME ReplyInv, TasksGrow, Finished' \subseteq Finished,
         \A n \in Finished' :
           /\ answers'[n] = answers[n] /\ result'[n] = result[n]
           /\ \A k \in answers[n] \cap DOMAIN rows' : k \in DOMAIN rows /\ rows'[k] = rows[k],
         lock' \in Messages /\ job'.at # "restore" /\ job'.task = NoTask =>
           /\ lock' = lock /\ job.at # "restore" /\ job.task = NoTask
           /\ context'[lock] = context[lock] /\ replyTo'[lock] = replyTo[lock]
  PROVE  FinishedRows' /\ ReplyContinues'
<1>1. \A n \in Finished' :
        /\ n \in Finished /\ result'[n] = result[n] /\ answers'[n] = answers[n]
        /\ result'[n] \in DOMAIN tasks'
        /\ \A k \in answers'[n] \cap DOMAIN rows' : k \in DOMAIN rows /\ rows'[k].task = result'[n]
        /\ tasks'[result'[n]].thread = tasks[result[n]].thread
  BY FinishedStays
<1>2. FinishedRows'
  BY <1>1 DEF FinishedRows
<1>3. ASSUME NEW m \in Messages, NEW n \in Messages,
             lock' = m, job'.at # "restore", job'.task = NoTask,
             pc'[n] \in {"returned", "done"}, result'[n] # NoTask,
             replyTo'[m] \in answers'[n] \cap DOMAIN rows'
      PROVE  context'[m].task = result'[n] /\ context'[m].thread = tasks'[result'[n]].thread
  <2>1. n \in Finished'
    BY <1>3 DEF Finished
  <2>2. /\ lock = m /\ job.at # "restore" /\ job.task = NoTask
        /\ context'[m] = context[m] /\ replyTo[m] \in answers[n] \cap DOMAIN rows
    BY <1>1, <1>3, <2>1
  <2>3. pc[n] \in {"returned", "done"} /\ result[n] # NoTask
    BY <1>1, <2>1 DEF Finished
  <2>4. context[m].task = result[n] /\ context[m].thread = tasks[result[n]].thread
    BY <2>2, <2>3 DEF ReplyInv, ReplyContinues
  <2> QED
    BY <1>1, <2>1, <2>2, <2>4
<1> QED
  BY <1>2, <1>3 DEF ReplyContinues

(* A step of a message that does not hold the lock, which writes no row but its
   own.                                                                      *)
LEMMA MessageReply ==
  ASSUME ReplyInv, LockIsWorking, NEW m \in Messages, m # lock,
         UNCHANGED <<tasks, lock, job, posted, answers, result>>, TasksGrow,
         replyTo' = [n \in Messages |-> replyTo'[n]],
         \A n \in Messages \ {m} :
           pc'[n] = pc[n] /\ context'[n] = context[n] /\ replyTo'[n] = replyTo[n],
         \/ pc[m] \in Early /\ pc'[m] \in Early
         \/ pc[m] = "returned" /\ pc'[m] = "done",
         \A k \in DOMAIN rows' : k # m => k \in DOMAIN rows /\ rows'[k] = rows[k]
  PROVE  ReplyInv'
<1>1. \A n \in Messages : m \notin answers[n]
  BY WrittenIsNoAnswer
<1>2. RepliesShape' /\ AnswersPosted' /\ AnswersApart' /\ PostIsNew'
  BY IdAssumption DEF ReplyInv, RepliesShape, AnswersPosted, AnswersApart, PostIsNew
<1>3. NoAnswerYet'
  BY DEF ReplyInv, NoAnswerYet, Early
<1>4. RunRows'
  BY <1>1 DEF ReplyInv, RunRows, OfTask
<1>5. Finished' \subseteq Finished
  BY DEF Finished, Early
<1>6. \A n \in Finished' : n \in Messages
  BY DEF Finished
<1>7. FinishedRows' /\ ReplyContinues'
  BY <1>1, <1>5, <1>6, OthersStay
<1> QED
  BY <1>2, <1>3, <1>4, <1>7 DEF ReplyInv

LEMMA ArriveReply ==
  ASSUME ThreadInv, ReplyInv, NEW m \in Messages,
         \/ \E k : Write(m, k)
         \/ ReadParent(m) \/ Hydrate(m) \/ Download(m) \/ MarkCompleted(m)
  PROVE  ReplyInv'
<1>1. m # lock /\ LockIsWorking
  BY HolderIsWorking DEF Write, ReadParent, Hydrate, Download, MarkCompleted, Arrive, ThreadInv
<1>2. UNCHANGED <<tasks, lock, job, posted, answers, result>>
  BY DEF Write, ReadParent, Hydrate, Download, MarkCompleted, Arrive
<1>3. TasksGrow
  BY <1>2, TasksKept DEF ThreadInv
<1>4. /\ replyTo' = [n \in Messages |-> replyTo'[n]]
      /\ \A n \in Messages \ {m} : replyTo'[n] = replyTo[n]
  <2>1. ASSUME NEW k, Write(m, k)
        PROVE  /\ replyTo' = [n \in Messages |-> replyTo'[n]]
               /\ \A n \in Messages \ {m} : replyTo'[n] = replyTo[n]
    BY <2>1 DEF Write, ReplyInv, RepliesShape
  <2> QED
    BY <2>1 DEF ReadParent, Hydrate, Download, MarkCompleted, ReplyInv, RepliesShape
<1>5. \A n \in Messages \ {m} :
        pc'[n] = pc[n] /\ context'[n] = context[n] /\ replyTo'[n] = replyTo[n]
  BY <1>4 DEF Write, ReadParent, Hydrate, Download, MarkCompleted, Arrive, ThreadInv, MessagesShape
<1>6. \/ pc[m] \in Early /\ pc'[m] \in Early
      \/ pc[m] = "returned" /\ pc'[m] = "done"
  BY DEF Write, ReadParent, Hydrate, Download, MarkCompleted, Arrive, ThreadInv, MessagesShape,
     Early
<1>7. \A k \in DOMAIN rows' : k # m => k \in DOMAIN rows /\ rows'[k] = rows[k]
  BY DEF Write, ReadParent, Hydrate, Download, MarkCompleted, Arrive, WithRow
<1> QED
  BY <1>1, <1>2, <1>3, <1>4, <1>5, <1>6, <1>7, MessageReply

(* Runs that are cut off begin again without an answer.                      *)
LEMMA AgainReply ==
  ASSUME ThreadInv, ReplyInv, NEW cut \in SUBSET Messages, Again(cut) PROVE ReplyInv'
<1>1. /\ pc' = [m \in Messages |-> IF m \in cut THEN "arrived" ELSE pc[m]]
      /\ context' = [m \in Messages |-> IF m \in cut THEN Fresh(replyTo[m]) ELSE context[m]]
      /\ answers' = [m \in Messages |-> IF m \in cut THEN {} ELSE answers[m]]
      /\ UNCHANGED <<rows, tasks, posted, result, replyTo>>
      /\ IF lock \in cut THEN Free ELSE UNCHANGED <<lock, job>>
  BY DEF Again
<1>2. TasksGrow
  BY <1>1, TasksKept DEF ThreadInv
<1>3. RepliesShape' /\ AnswersPosted' /\ AnswersApart'
  BY <1>1 DEF ReplyInv, RepliesShape, AnswersPosted, AnswersApart
<1>4. /\ Finished' \subseteq Finished
      /\ \A n \in Finished' : n \in Messages /\ n \notin cut
  BY <1>1 DEF Finished
<1>5. CASE lock \in cut
  <2>1. lock' \notin Messages /\ job'.at = "idle"
    BY <1>1, <1>5, NullAssumption DEF Free, NoJob
  <2>2. PostIsNew' /\ NoAnswerYet' /\ RunRows'
    BY <1>1, <2>1 DEF ReplyInv, PostIsNew, NoAnswerYet, Early, RunRows
  <2>3. FinishedRows' /\ ReplyContinues'
    BY <1>1, <1>2, <1>4, <2>1, OthersStay
  <2> QED
    BY <1>3, <2>2, <2>3 DEF ReplyInv
<1>6. CASE lock \notin cut
  <2>1. UNCHANGED <<lock, job>>
    BY <1>1, <1>6
  <2>2. lock \in Messages => answers'[lock] = answers[lock] /\ context'[lock] = context[lock]
    BY <1>1, <1>6
  <2>3. PostIsNew' /\ NoAnswerYet'
    BY <1>1, <2>1, <2>2 DEF ReplyInv, PostIsNew, NoAnswerYet, Early
  <2>4. RunRows'
    BY <1>1, <2>1, <2>2 DEF ReplyInv, RunRows, OfTask
  <2>5. FinishedRows' /\ ReplyContinues'
    BY <1>1, <1>2, <1>4, <2>1, <2>2, OthersStay
  <2> QED
    BY <1>3, <2>3, <2>4, <2>5 DEF ReplyInv
<1> QED
  BY <1>5, <1>6

(* The lock is taken by a message without answers.                           *)
LEMMA TakeLockReply ==
  ASSUME ThreadInv, ReplyInv, NEW m \in Messages, TakeLock(m) PROVE ReplyInv'
<1>1. /\ pc[m] = "queued" /\ pc' = [pc EXCEPT ![m] = "working"] /\ lock' = m
      /\ job' = [NoJob EXCEPT !.at = "restore", !.last = m]
      /\ UNCHANGED <<replyTo, context, rows, posted, tasks, answers, result>>
  BY DEF TakeLock
<1>2. job'.at = "restore" /\ job'.task = NoTask /\ job'.last = m
  BY <1>1 DEF NoJob
<1>3. TasksGrow
  BY <1>1, TasksKept DEF ThreadInv
<1>4. \A n \in Messages : pc'[n] = IF n = m THEN "working" ELSE pc[n]
  BY <1>1 DEF ThreadInv, MessagesShape
<1>5. RepliesShape' /\ AnswersPosted' /\ AnswersApart'
  BY <1>1 DEF ReplyInv, RepliesShape, AnswersPosted, AnswersApart
<1>6. PostIsNew' /\ NoAnswerYet' /\ RunRows'
  BY <1>1, <1>2, <1>4 DEF ReplyInv, PostIsNew, NoAnswerYet, Early, RunRows
<1>7. Finished' \subseteq Finished /\ \A n \in Finished' : n \in Messages
  BY <1>1, <1>4 DEF Finished
<1>8. FinishedRows' /\ ReplyContinues'
  BY <1>1, <1>2, <1>3, <1>7, OthersStay
<1> QED
  BY <1>5, <1>6, <1>8 DEF ReplyInv

(* The run ends with its rows in its task.                                   *)
LEMMA ReturnReply ==
  ASSUME ThreadInv, ReplyInv, NEW m \in Messages, Return(m) PROVE ReplyInv'
<1>1. /\ lock = m /\ job.at = "return" /\ lock' = NoMessage /\ job' = NoJob
      /\ pc' = [pc EXCEPT ![m] = "returned"] /\ result' = [result EXCEPT ![m] = job.task]
      /\ UNCHANGED <<replyTo, context, rows, posted, tasks, answers>>
  BY DEF Return, Free
<1>2. lock' \notin Messages /\ job'.at = "idle"
  BY <1>1, NullAssumption DEF NoJob
<1>3. /\ \A n \in Messages : pc'[n] = IF n = m THEN "returned" ELSE pc[n]
      /\ \A n \in Messages : result'[n] = IF n = m THEN job.task ELSE result[n]
      /\ result' = [n \in Messages |-> result'[n]]
  BY <1>1 DEF ThreadInv, MessagesShape, ReplyInv, RepliesShape
<1>4. RepliesShape' /\ AnswersPosted' /\ AnswersApart'
  BY <1>1, <1>3 DEF ReplyInv, RepliesShape, AnswersPosted, AnswersApart
<1>5. PostIsNew' /\ NoAnswerYet' /\ RunRows'
  BY <1>1, <1>2, <1>3 DEF ReplyInv, PostIsNew, NoAnswerYet, Early, RunRows
<1>6. ASSUME NEW n \in Finished'
      PROVE  /\ result'[n] \in DOMAIN tasks'
             /\ \A k \in answers'[n] \cap DOMAIN rows' : rows'[k].task = result'[n]
  <2>1. CASE n = m
    <3>1. result'[m] = job.task /\ job.task # NoTask
      BY <1>3, <1>6, <2>1 DEF Finished
    <3>2. job.task \in DOMAIN tasks
      BY <3>1 DEF ThreadInv, JobInThread
    <3>3. \A k \in answers[m] \cap DOMAIN rows : rows[k].task = job.task
      BY <1>1, <3>1 DEF ReplyInv, RunRows, OfTask
    <3> QED
      BY <1>1, <2>1, <3>1, <3>2, <3>3
  <2>2. CASE n # m
    BY <1>1, <1>3, <1>6, <2>2 DEF Finished, ReplyInv, FinishedRows
  <2> QED
    BY <2>1, <2>2
<1>7. FinishedRows' /\ ReplyContinues'
  BY <1>2, <1>6 DEF FinishedRows, ReplyContinues
<1> QED
  BY <1>4, <1>5, <1>7 DEF ReplyInv

(* The parent is read again under the lock: if it is an answer of finished work
   and has a row, the row names the task and its thread.                     *)
LEMMA RestoreReply ==
  ASSUME ThreadInv, ReplyInv, NEW m \in Messages, Restore(m) PROVE ReplyInv'
<1>1. /\ context' = [context EXCEPT ![m] = Inherit(context[m], replyTo[m])]
      /\ job' = [job EXCEPT !.at = "route"] /\ lock = m /\ job.at = "restore"
      /\ UNCHANGED <<pc, replyTo, lock, rows, posted, tasks, answers, result>>
  BY DEF Restore, Step, Unsafe, Restored
<1>2. /\ job'.at = "route" /\ job'.task = job.task /\ job'.last = job.last
      /\ job'.mode = job.mode
  BY <1>1 DEF ThreadInv, JobShape, IsJob
<1>3. RepliesShape' /\ AnswersPosted' /\ AnswersApart'
  BY <1>1 DEF ReplyInv, RepliesShape, AnswersPosted, AnswersApart
<1>4. PostIsNew' /\ NoAnswerYet'
  BY <1>1, <1>2 DEF ReplyInv, PostIsNew, NoAnswerYet, Early
<1>5. RunRows'
  BY <1>1, <1>2 DEF ReplyInv, RunRows, OfTask
<1>6. FinishedRows'
  BY <1>1 DEF ReplyInv, FinishedRows, Finished
<1>7. ASSUME NEW n \in Messages, pc[n] \in {"returned", "done"}, result[n] # NoTask,
             replyTo[m] \in answers[n] \cap DOMAIN rows
      PROVE  context'[m].task = result[n] /\ context'[m].thread = tasks[result[n]].thread
  <2>1. rows[replyTo[m]].task = result[n]
    BY <1>7 DEF ReplyInv, FinishedRows, Finished
  <2>2. rows[replyTo[m]].thread = tasks[result[n]].thread
    BY <1>7, <2>1 DEF ThreadInv, RowsInThread, InThread
  <2>3. context'[m] = Inherit(context[m], replyTo[m])
    BY <1>1 DEF ThreadInv, MessagesShape
  <2> QED
    BY <1>7, <2>1, <2>2, <2>3 DEF Inherit
<1>8. ReplyContinues'
  BY <1>1, <1>7 DEF ReplyContinues
<1> QED
  BY <1>3, <1>4, <1>5, <1>6, <1>8 DEF ReplyInv

(* A step of the run that sends and writes nothing.                          *)
LEMMA QuietReply ==
  ASSUME ReplyInv, lock \in Messages, TasksGrow,
         UNCHANGED <<pc, replyTo, context, rows, posted, answers, result, lock>>,
         job.at \notin {"restore", "bind"}, job'.at \notin {"restore", "route", "persist"},
         job'.task = job.task, job'.last = job.last,
         job'.at = "post" => \E k \in {lock, job.last} : job'.parent = RowOf(k),
         job'.at \in {"create", "bind"} => job'.mode = "delegated" \/ answers[lock] = {},
         job'.at = "bind" => job.task # NoTask
  PROVE  ReplyInv'
<1>1. RepliesShape' /\ AnswersPosted' /\ AnswersApart' /\ PostIsNew' /\ NoAnswerYet'
  BY DEF ReplyInv, RepliesShape, AnswersPosted, AnswersApart, PostIsNew, NoAnswerYet, Early
<1>2. RunRows'
  <2>1. job.last \in {lock} \cup answers[lock]
    BY DEF ReplyInv, RunRows
  <2>2. job.task # NoTask =>
          \A k \in ({lock} \cup answers[lock]) \cap DOMAIN rows : rows[k].task = job.task
    BY DEF ReplyInv, RunRows, OfTask
  <2>3. job'.at = "post" /\ job.task # NoTask /\ job'.parent # NoRow =>
          job'.parent.task = job.task
    BY <2>1, <2>2 DEF RowOf
  <2> QED
    BY <2>1, <2>2, <2>3 DEF RunRows, OfTask
<1>3. Finished' \subseteq Finished /\ \A n \in Finished' : n \in Messages
  BY DEF Finished
<1>4. FinishedRows' /\ ReplyContinues'
  BY <1>3, OthersStay
<1> QED
  BY <1>1, <1>2, <1>4 DEF ReplyInv

LEMMA RouteReply ==
  ASSUME ThreadInv, ReplyInv, NEW m \in Messages,
         Notify(m) \/ Socialise(m) \/ Assemble(m) \/ Assign(m)
  PROVE  ReplyInv'
<1>1. /\ lock = m /\ job.at = "route"
      /\ UNCHANGED <<pc, replyTo, context, rows, posted, tasks, answers, result, lock>>
  BY DEF Notify, Socialise, Assemble, Assign, Step, Unsafe, RowsKept
<1>2. answers[m] = {}
  BY <1>1 DEF ReplyInv, NoAnswerYet, Early
<1>3. /\ job'.at \in {"say", "turn", "create", "check"}
      /\ job'.task = job.task /\ job'.last = job.last
  <2>1. \A mode, team, at : Begin(mode, team, at) =>
          job'.at = at /\ job'.task = job.task /\ job'.last = job.last
    BY DEF Begin, ThreadInv, JobShape, IsJob
  <2>2. \E mode, team : \E at \in {"say", "turn", "create", "check"} : Begin(mode, team, at)
    <3>1. CASE Notify(m)
      BY <3>1 DEF Notify
    <3>2. CASE Socialise(m)
      BY <3>2 DEF Socialise
    <3>3. CASE Assemble(m)
      BY <3>3 DEF Assemble, Gather
    <3>4. CASE Assign(m)
      <4>1. PICK r : WorkFor(said[m], r)
        BY <3>4 DEF Assign
      <4> QED
        BY <4>1 DEF WorkFor, Gather
    <3> QED
      BY <3>1, <3>2, <3>3, <3>4
  <2> QED
    BY <2>1, <2>2
<1>4. TasksGrow
  BY <1>1, TasksKept DEF ThreadInv
<1> QED
  BY <1>1, <1>2, <1>3, <1>4, QuietReply

LEMMA EndReply ==
  ASSUME ThreadInv, ReplyInv, NEW m \in Messages,
         SeeStop(m) \/ HandOff(m) \/ Turn(m) \/ Judge(m)
  PROVE  ReplyInv'
<1>1. /\ lock = m /\ job.at \in {"handoff", "check", "turn", "judge"}
      /\ UNCHANGED <<pc, replyTo, context, rows, posted, answers, result, lock>>
  BY DEF SeeStop, HandOff, Turn, Judge, Step, Unsafe, RowsKept
<1>2. IsJob(job)
  BY DEF ThreadInv, JobShape
<1>3. /\ job'.at \in {"return", "turn", "judge", "say", "check", "raise"}
      /\ job'.task = job.task /\ job'.last = job.last
  <2>1. CASE SeeStop(m)
    BY <1>2, <2>1 DEF SeeStop, EndStopped, IsJob
  <2>2. CASE HandOff(m)
    BY <1>2, <2>2 DEF HandOff, IsJob
  <2>3. CASE Turn(m)
    BY <1>2, <2>3 DEF Turn, EndStopped, PassOver, Refuse, IsJob
  <2>4. CASE Judge(m)
    BY <1>2, <2>4 DEF Judge, IsJob
  <2> QED
    BY <2>1, <2>2, <2>3, <2>4
<1>4. TasksGrow
  <2>1. \/ UNCHANGED tasks
        \/ tasks' = [tasks EXCEPT ![job.task].active = FALSE]
        \/ tasks' = [tasks EXCEPT ![job.task].owner = job.team[2]]
    BY DEF SeeStop, HandOff, Turn, Judge, EndStopped
  <2> QED
    BY <2>1, TasksKept, TaskClosed, TaskHandedOff DEF ThreadInv
<1> QED
  BY <1>1, <1>3, <1>4, QuietReply

LEMMA AnswerReply ==
  ASSUME ThreadInv, ReplyInv, NEW m \in Messages,
         Check(m) \/ Say(m) \/ LoseSend(m) \/ Continue(m)
  PROVE  ReplyInv'
<1>1. /\ lock = m /\ job.at \in {"check", "say", "post", "sent"}
      /\ UNCHANGED <<pc, replyTo, context, rows, posted, tasks, answers, result, lock>>
  BY DEF Check, Say, LoseSend, Continue, Step, Unsafe, RowsKept
<1>2. IsJob(job) /\ job.mode \in Modes
  BY DEF ThreadInv, JobShape
<1>3. Refuse => job'.at = "say" /\ job'.task = job.task /\ job'.last = job.last
  BY <1>2 DEF Refuse, IsJob
<1>4. /\ job'.at \notin {"restore", "route", "persist"}
      /\ job'.task = job.task /\ job'.last = job.last
      /\ job'.at = "post" => \E k \in {lock, job.last} : job'.parent = RowOf(k)
      /\ job'.at \in {"create", "bind"} => job'.mode = "delegated"
      /\ job'.at = "bind" => job.task # NoTask
  <2>1. CASE Check(m)
    BY <1>2, <1>3, <2>1 DEF Check, IsJob
  <2>2. CASE Say(m)
    BY <1>1, <1>2, <2>2 DEF Say, IsJob
  <2>3. CASE LoseSend(m)
    BY <1>2, <1>3, <2>3 DEF LoseSend, PassOver, IsJob
  <2>4. CASE Continue(m)
    <3>1. \/ Refuse
          \/ \E at \in {"return", "judge"} : job' = [job EXCEPT !.at = at]
          \/ /\ job.mode = "delegated"
             /\ job' = [job EXCEPT !.at = IF job.task = NoTask THEN "create" ELSE "bind"]
          \/ \E team : \E at \in {"say", "turn", "check"} :
               job' = [job EXCEPT !.team = team, !.at = at]
      BY <1>2, <2>4 DEF Continue, Collective, Modes
    <3> QED
      BY <1>2, <1>3, <3>1 DEF IsJob
  <2> QED
    BY <2>1, <2>2, <2>3, <2>4
<1>5. TasksGrow
  BY <1>1, TasksKept DEF ThreadInv
<1> QED
  BY <1>1, <1>4, <1>5, QuietReply

(* A chunk is sent: its id is new.                                           *)
LEMMA PostReply ==
  ASSUME ThreadInv, ReplyInv, NEW m \in Messages, Post(m) PROVE ReplyInv'
<1>1. /\ lock = m /\ job.at = "post" /\ posted' = Append(posted, Head(job.team))
      /\ job' = [job EXCEPT !.at = "persist"]
      /\ UNCHANGED <<pc, replyTo, context, rows, tasks, answers, result, lock>>
  BY DEF Post, Step, Unsafe
<1>2. /\ job'.at = "persist" /\ job'.task = job.task /\ job'.last = job.last
      /\ job'.parent = job.parent
  BY <1>1 DEF ThreadInv, JobShape, IsJob
<1>3. /\ Len(posted') = Len(posted) + 1 /\ Len(posted) \in Nat
      /\ posted' = [i \in 1..Len(posted') |-> posted'[i]]
  BY <1>1 DEF ReplyInv, RepliesShape
<1>4. \A n \in Messages : answers'[n] = answers[n] /\ answers[n] \subseteq 1..Len(posted)
  BY <1>1 DEF ReplyInv, AnswersPosted
<1>5. RepliesShape' /\ AnswersApart' /\ NoAnswerYet'
  BY <1>1, <1>2, <1>3 DEF ReplyInv, RepliesShape, AnswersApart, NoAnswerYet, Early
<1>6. AnswersPosted' /\ PostIsNew'
  <2>1. DOMAIN rows \subseteq Messages \cup 1..Len(posted) /\ UNCHANGED rows
    BY <1>1 DEF ReplyInv, AnswersPosted
  <2>2. Len(posted') # 0 /\ Len(posted') \notin 1..Len(posted) /\ Len(posted') \in Nat
    BY <1>3
  <2>3. Len(posted') \notin Messages
    BY <2>2, IdAssumption
  <2> QED
    BY <1>3, <1>4, <2>1, <2>2, <2>3 DEF AnswersPosted, PostIsNew
<1>7. RunRows'
  BY <1>1, <1>2 DEF ReplyInv, RunRows, OfTask
<1>8. TasksGrow
  BY <1>1, TasksKept DEF ThreadInv
<1>9. Finished' \subseteq Finished /\ \A n \in Finished' : n \in Messages
  BY <1>1 DEF Finished
<1>10. FinishedRows' /\ ReplyContinues'
  BY <1>1, <1>2, <1>8, <1>9, OthersStay
<1> QED
  BY <1>5, <1>6, <1>7, <1>10 DEF ReplyInv

LEMMA CreateTaskReply ==
  ASSUME ThreadInv, ReplyInv, NEW m \in Messages, CreateTask(m) PROVE ReplyInv'
<1>1. /\ lock = m /\ job.at = "create"
      /\ tasks' = Append(tasks, [thread |-> Thread(m), owner |-> Head(job.team), active |-> TRUE])
      /\ job' = [job EXCEPT !.task = Len(tasks) + 1, !.at = "bind"]
      /\ UNCHANGED <<pc, replyTo, context, rows, posted, answers, result, lock>>
  BY DEF CreateTask, Step, Unsafe, RowsKept
<1>2. /\ job'.at = "bind" /\ job'.task = Len(tasks) + 1 /\ job'.last = job.last
      /\ job'.mode = job.mode
  BY <1>1 DEF ThreadInv, JobShape, IsJob
<1>3. TasksGrow /\ job'.task # NoTask
  BY <1>1, <1>2, NullAssumption DEF ThreadInv, TasksShape, TasksGrow
<1>4. RepliesShape' /\ AnswersPosted' /\ AnswersApart' /\ PostIsNew'
  BY <1>1, <1>2 DEF ReplyInv, RepliesShape, AnswersPosted, AnswersApart, PostIsNew
<1>5. NoAnswerYet' /\ RunRows'
  BY <1>1, <1>2, <1>3 DEF ReplyInv, NoAnswerYet, Early, RunRows
<1>6. Finished' \subseteq Finished /\ \A n \in Finished' : n \in Messages
  BY <1>1 DEF Finished
<1>7. FinishedRows' /\ ReplyContinues'
  BY <1>1, <1>3, <1>6, OthersStay
<1> QED
  BY <1>4, <1>5, <1>7 DEF ReplyInv

(* The rows of the run so far are bound to its task: collective work has no answer
   yet.                                                                      *)
LEMMA BindReply ==
  ASSUME ThreadInv, ReplyInv, NEW m \in Messages, Bind(m) PROVE ReplyInv'
<1>1. /\ lock = m /\ job.at = "bind"
      /\ rows' = [k \in DOMAIN rows |-> IF k \in Bound(m) THEN BoundRow(m, rows[k]) ELSE rows[k]]
      /\ job'.at \in {"check", "handoff", "judge"}
      /\ job'.task = job.task /\ job'.last = job.last
      /\ UNCHANGED <<pc, replyTo, posted, tasks, answers, result, lock>>
  BY DEF Bind, Step, Unsafe, ThreadInv, JobShape, IsJob
<1>2. job.task # NoTask
  BY <1>1 DEF ReplyInv, NoAnswerYet, Early
<1>3. Bound(m) = {m} \cup answers[m]
  BY <1>1 DEF ReplyInv, NoAnswerYet, Early, Bound
<1>4. RepliesShape' /\ AnswersPosted' /\ AnswersApart' /\ PostIsNew' /\ NoAnswerYet'
  BY <1>1 DEF ReplyInv, RepliesShape, AnswersPosted, AnswersApart, PostIsNew, NoAnswerYet, Early
<1>5. \A k \in DOMAIN rows : k \in Bound(m) => rows'[k].task = job.task
  BY <1>1 DEF BoundRow
<1>6. RunRows'
  BY <1>1, <1>3, <1>5 DEF ReplyInv, RunRows, OfTask
<1>7. TasksGrow
  BY <1>1, TasksKept DEF ThreadInv
<1>8. /\ Finished' \subseteq Finished
      /\ \A n \in Finished' : n \in Messages /\ n # m
  BY <1>1, NullAssumption DEF Finished, ThreadInv, LockIsWorking
<1>9. \A n \in Finished' : \A k \in answers[n] \cap DOMAIN rows' :
        k \in DOMAIN rows /\ rows'[k] = rows[k]
  BY <1>1, <1>3, <1>8, WrittenIsNoAnswer DEF ReplyInv, AnswersApart
<1>10. FinishedRows' /\ ReplyContinues'
  BY <1>1, <1>2, <1>7, <1>8, <1>9, OthersStay
<1> QED
  BY <1>4, <1>6, <1>10 DEF ReplyInv

(* A chunk is written down with its parent's task, and the last one is an answer. *)
LEMMA PersistReply ==
  ASSUME ThreadInv, ReplyInv, NEW m \in Messages, Persist(m) PROVE ReplyInv'
<1> DEFINE new == Len(posted)
           r == [job.parent EXCEPT !.role = Head(job.team)]
<1>1. /\ lock = m /\ job.at = "persist"
      /\ UNCHANGED <<pc, replyTo, context, posted, tasks, result, lock>>
  BY DEF Persist, Unsafe
<1>2. UNCHANGED rows \/ (job.parent # NoRow /\ rows' = WithRow(new, r))
  BY DEF Persist
<1>3. \/ job' = [job EXCEPT !.left = @ - 1, !.at = "post"] /\ UNCHANGED answers
      \/ /\ job' = [job EXCEPT !.left = 0, !.last = new, !.at = "sent"]
         /\ answers' = [answers EXCEPT ![m] = @ \cup {new}]
  BY DEF Persist
<1>4. IsJob(job)
  BY DEF ThreadInv, JobShape
<1>5. /\ job'.at \in {"post", "sent"} /\ job'.task = job.task /\ job'.parent = job.parent
      /\ job'.last \in {job.last, new}
  BY <1>3, <1>4 DEF IsJob
<1>6. answers = [n \in Messages |-> answers[n]]
  BY DEF ReplyInv, RepliesShape
<1>7. \A n \in Messages : n # m => answers'[n] = answers[n]
  BY <1>3, <1>6
<1>8. \/ answers'[m] = answers[m] /\ job'.last = job.last
      \/ answers'[m] = answers[m] \cup {new} /\ job'.last = new
  <2>1. CASE job' = [job EXCEPT !.left = @ - 1, !.at = "post"] /\ UNCHANGED answers
    BY <1>4, <2>1 DEF IsJob
  <2>2. CASE /\ job' = [job EXCEPT !.left = 0, !.last = new, !.at = "sent"]
             /\ answers' = [answers EXCEPT ![m] = @ \cup {new}]
    <3>1. job'.last = new
      BY <1>4, <2>2 DEF IsJob
    <3>2. answers'[m] = answers[m] \cup {new}
      BY <1>6, <2>2
    <3> QED
      BY <3>1, <3>2
  <2> QED
    BY <1>3, <2>1, <2>2
<1>9. answers' = [n \in Messages |-> answers'[n]]
  BY <1>3, <1>6
<1>10. /\ Len(posted) \in Nat /\ new \in 1..Len(posted)
       /\ \A n \in Messages : new \notin answers[n] /\ answers[n] \subseteq 1..Len(posted)
       /\ new \notin DOMAIN rows /\ DOMAIN rows \subseteq Messages \cup 1..Len(posted)
  BY <1>1 DEF ReplyInv, RepliesShape, AnswersPosted, PostIsNew
<1>11. RepliesShape' /\ AnswersPosted' /\ AnswersApart'
  <2>1. RepliesShape'
    BY <1>1, <1>9 DEF ReplyInv, RepliesShape
  <2>2. \A n \in Messages : answers'[n] \subseteq answers[n] \cup (IF n = m THEN {new} ELSE {})
    BY <1>7, <1>8
  <2>3. AnswersPosted'
    BY <1>1, <1>2, <1>10, <2>2 DEF AnswersPosted, WithRow
  <2>4. \A a, b \in Messages : a # b => answers[a] \cap answers[b] = {}
    BY DEF ReplyInv, AnswersApart
  <2>5. AnswersApart'
    BY <1>10, <2>2, <2>4 DEF AnswersApart
  <2> QED
    BY <2>1, <2>3, <2>5
<1>12. PostIsNew'
  BY <1>5 DEF PostIsNew
<1>13. NoAnswerYet'
  <2>1. \A n \in Messages : pc[n] \in Early => n # m
    BY <1>1, NullAssumption DEF ThreadInv, LockIsWorking, Early
  <2>2. \A n \in Messages : pc[n] \in Early => answers[n] = {}
    BY DEF ReplyInv, NoAnswerYet, Early
  <2> QED
    BY <1>1, <1>5, <1>7, <2>1, <2>2 DEF NoAnswerYet, Early
<1>14. ASSUME job.parent # NoRow
       PROVE  r = [thread |-> job.parent.thread, task |-> job.parent.task, role |-> Head(job.team)]
  BY <1>14 DEF ThreadInv, ParentInThread, IsRow
<1>15. \A k \in DOMAIN rows' :
         \/ k \in DOMAIN rows /\ rows'[k] = rows[k]
         \/ k = new /\ job.parent # NoRow /\ rows'[k].task = job.parent.task
  <2>1. CASE job.parent # NoRow /\ rows' = WithRow(new, r)
    <3>1. r.task = job.parent.task
      BY <1>14, <2>1
    <3> HIDE DEF r, new
    <3> QED
      BY <2>1, <3>1 DEF WithRow
  <2> QED
    BY <1>2, <2>1
<1>16. RunRows'
  <2>1. job'.last \in {m} \cup answers'[m]
    BY <1>1, <1>8 DEF ReplyInv, RunRows
  <2>2. ASSUME job.task # NoTask
        PROVE  /\ OfTask(m, job.task)
               /\ job.parent # NoRow => job.parent.task = job.task
    BY <1>1, <2>2 DEF ReplyInv, RunRows
  <2>3. ASSUME job.task # NoTask, NEW k \in ({m} \cup answers'[m]) \cap DOMAIN rows'
        PROVE  rows'[k].task = job.task
    <3>1. k \in {m, new} \cup answers[m]
      BY <1>8, <2>3
    <3>2. CASE k = new /\ job.parent # NoRow /\ rows'[k].task = job.parent.task
      BY <2>2, <2>3, <3>2
    <3>3. CASE k # new /\ k \in DOMAIN rows /\ rows'[k] = rows[k]
      BY <2>2, <2>3, <3>1, <3>3 DEF OfTask
    <3> QED
      BY <1>10, <1>15, <2>3, <3>2, <3>3
  <2> QED
    BY <1>1, <1>5, <2>1, <2>2, <2>3 DEF RunRows, OfTask
<1>17. /\ Finished' \subseteq Finished
       /\ \A n \in Finished' : n \in Messages /\ n # m
  BY <1>1, NullAssumption DEF Finished, ThreadInv, LockIsWorking
<1>18. \A n \in Finished' : \A k \in answers[n] \cap DOMAIN rows' :
         k \in DOMAIN rows /\ rows'[k] = rows[k]
  BY <1>10, <1>15, <1>17
<1>19. TasksGrow
  BY <1>1, TasksKept DEF ThreadInv
<1>20. FinishedRows' /\ ReplyContinues'
  BY <1>1, <1>5, <1>7, <1>17, <1>18, <1>19, OthersStay
<1> QED
  BY <1>11, <1>12, <1>13, <1>16, <1>20 DEF ReplyInv

(* A reply to an answer of finished work, if the answer's row was written, goes on
   in its task and its thread, for any messages, answers and faults
   (docs/RELEASE_NOTES.md:14, src/src/core/orchestrator.py:155-172).         *)
THEOREM RepliesContinue == Spec => []ReplyContinues
<1>1. Init => ReplyInv
  BY InitReply
<1>2. ThreadInv /\ ReplyInv /\ [Next]_vars => ReplyInv'
  <2> SUFFICES ASSUME ThreadInv, ReplyInv, [Next]_vars PROVE ReplyInv'
    OBVIOUS
  <2>1. CASE UNCHANGED vars
    <3>1. RepliesShape' /\ AnswersPosted' /\ AnswersApart' /\ PostIsNew'
      BY <2>1 DEF vars, ReplyInv, RepliesShape, AnswersPosted, AnswersApart, PostIsNew
    <3>2. NoAnswerYet' /\ RunRows'
      BY <2>1 DEF vars, ReplyInv, NoAnswerYet, Early, RunRows, OfTask
    <3>3. FinishedRows' /\ ReplyContinues'
      BY <2>1 DEF vars, ReplyInv, Finished, FinishedRows, ReplyContinues
    <3> QED
      BY <3>1, <3>2, <3>3 DEF ReplyInv
  <2>2. CASE Crash
    BY <2>2, AgainReply DEF Crash
  <2>3. ASSUME NEW m \in Messages, RaiseEarly(m) \/ RaiseLate(m) PROVE ReplyInv'
    BY <2>3, AgainReply DEF RaiseEarly, RaiseLate
  <2>4. ASSUME NEW m \in Messages,
               \/ \E k : Write(m, k)
               \/ ReadParent(m) \/ Hydrate(m) \/ Download(m) \/ MarkCompleted(m)
        PROVE  ReplyInv'
    BY <2>4, ArriveReply
  <2>5. ASSUME NEW m \in Messages, TakeLock(m) \/ Return(m) \/ Restore(m)
        PROVE  ReplyInv'
    BY <2>5, TakeLockReply, ReturnReply, RestoreReply
  <2>6. ASSUME NEW m \in Messages,
               \/ Notify(m) \/ Socialise(m) \/ Assemble(m) \/ Assign(m)
               \/ SeeStop(m) \/ HandOff(m) \/ Turn(m) \/ Judge(m)
        PROVE  ReplyInv'
    BY <2>6, RouteReply, EndReply
  <2>7. ASSUME NEW m \in Messages,
               \/ Check(m) \/ Say(m) \/ LoseSend(m) \/ Continue(m)
               \/ Post(m) \/ CreateTask(m) \/ Bind(m) \/ Persist(m)
        PROVE  ReplyInv'
    BY <2>7, AnswerReply, PostReply, CreateTaskReply, BindReply, PersistReply
  <2> QED
    BY <2>1, <2>2, <2>3, <2>4, <2>5, <2>6, <2>7 DEF Next
<1>3. ReplyInv => ReplyContinues
  BY DEF ReplyInv
<1> QED
  BY <1>1, <1>2, <1>3, Invariance, PTL DEF Spec
=============================================================================
