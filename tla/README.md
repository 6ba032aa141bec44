# Morrow: models, checks and proofs

Morrow is a group of three chat bots (manager, marketing, advisor) in one
Python process. The bots receive the same Telegram updates, turn a message into
the work of one or several agents, keep tasks in SQLite, and act outside the
chat only after a user approved the action. This directory models the parts of
it whose correctness depends on the order in which things happen: TLA+ modules,
TLC configurations that check them on small instances, and proofs that TLAPS
checks for every instance.

`PROJECT.json` lists the components, the runs, for each property a mutant of
the model that breaks it, the source lines behind every definition, the
hazards, the findings and the theorems.

## The system

Everything runs in one asyncio event loop. A coroutine is interrupted only where
it awaits: a database call, a model call, a send. All database calls share one
connection and one first-come lock (`storage/sqlite.py:20-21`); a `transaction()`
holds it from BEGIN to COMMIT (210-241). So a transaction, or a single call, is
one atomic step, and calls are served in the order they were made. Nothing else
is atomic, and the process may die anywhere.

| Component | State | Operations | Interacts with |
|---|---|---|---|
| Start (`main.py`, `storage/sqlite.py`) | the database file, the connection, its open transaction | migrate an older database statement by statement, rebuild the copies of the memory, serve | all below |
| Telegram adapter (`adapters/telegram/adapter.py`) | one dispatcher for each bot | `message_handler`: claim, hydrate, download, hand to the orchestrator, close the event | event claims, conversation map, orchestrator |
| Event claims (`core/normalizer.py`) | `processed_events`: status, owner token, lease | claim, wait for a retry, complete, fail | adapter, orchestrator |
| Sending (`adapters/telegram/sender.py`) | `conversation_message_map`: thread, task and role of each message | send an answer chunk by chunk, each with a row of its own | adapter, orchestrator |
| Routing (`routing/`) | none | intent, roles addressed, owner, collaborators of a text | orchestrator |
| Orchestrator (`core/orchestrator.py`) | a lock and a cancel version for each group, in memory | control commands (before the lock), approval commands, social, single, delegated and collective work (under it), binding tasks to messages | all below |
| Task service and handoff (`tasks/`) | `tasks`, `task_dependencies`, `task_handoffs`, `task_agent_runs` | create, update, stop, pause, resume, start and close an agent run, record a failure, hand off | orchestrator, database |
| Loop guard (`safety/loop_guard.py`) | `threads`: turns, agents, status | one question before each turn | orchestrator |
| Conflict detector (`safety/conflict_detector.py`) | none | reads the tasks in progress | orchestrator |
| Approval gateway (`approval/gateway.py`) | `approvals`: status, owner token, lease, deadline | create, approve, reject, execute, recover | orchestrator, executor |
| Tool executor (`tools/executor.py`) | `tool_executions`, the journal, with a unique idempotency key | look up, deny, journal, call, finish | gateway, agent runtime, tools |
| Agent runtime (`agents/`) | the messages and tools of one turn | model call, tool calls, pending approvals | executor, gateway, usage meter |
| Usage meter (`llm/usage_meter.py`) | `usage_ledger`: calls charged to each thread | check a budget, charge a call | runtime, orchestrator, file intake |
| Memory (`memory/`) | `memories`, a Markdown file for each scope, a vector for each row | store, search, rebuild at start | orchestrator, runtime, start |
| Browser tools (`browser/`) | the page of each group's task-space | look, act on an approved page | executor |

File parsers, integrations, skills, personas and the registry of tools have no state
that several actors change; they decide what is asked, not in which order it happens,
and enter the models as constants or open choices.

### What is hard, and what makes each part correct

* **Actions outside the chat.** A claim has a lease of limited time, calls stall, the
  process dies between the journal, the tool and the closing update. Correct:
  one effect at most and only with permission, a recorded success is true, a
  closed request stays closed, a late call does not close another's claim, and a
  request resolves in the end.
* **One update, three bots.** Each bot claims; those that lose wait for a failure
  or a dead owner. Correct: nobody works beside the owner while leases hold, only
  the owner closes, a failed attempt is taken over.
* **Tasks.** Operations come from runs, from control commands and from retries.
  Correct: dependencies gate execution however it begins, a finished task is
  final, a handoff never returns.
* **A run and the commands that pass it.** Stop and pause do not wait for the
  group's lock; a run sees them only where it looks. Correct: a task is done only
  if its whole team delivered, no task stays in progress behind a run that ended,
  a stopped run sends at most the response it was sending and the notice of how its task
  ended (greetings apart, which go out for every role), every agent run ends, and the queue
  of the group drains.
* **Limits.** The loop guard and the usage meter count over retries and replies.
  Correct: a discussion within its limits gets its synthesis, and a thread passes its
  budget by no more than what one check let through.
* **Replies.** A user answers a chunk while the next one is being sent, before its row
  is written, before its task exists. Correct: a row never ties a task to another
  thread, and a reply to finished work goes on in it.
* **Pages.** A click is approved for the page as it was. Correct: it lands on that page or
  fails. A text about a page is written by a model that may not have looked. Correct: the
  runtime looks for it, as long as it has rounds left.
* **Starts.** The driver makes a table's definition durable at once and its rows at
  the next commit; a process may die in between, and the next one starts over.
  Correct: no row is destroyed, every start ends in service, and a migrated database
  is not migrated again.
* **Copies.** The files and vectors of the memory are written after the commit,
  without it, and their failures are swallowed. Correct: what a user was told is stored
  is stored, a copy is fresh unless its last update failed, and nobody finds what is
  another's.

## Modules

| Module | Models | State and actions |
|---|---|---|
| `OneShotAction` | the promise behind an approval, without gateway or journal | permission, times, verdict; ask, decide, perform, report |
| `ApprovalExecution` | `gateway.py` and the approved path of `executor.py` | `approval` and `journal` are the two rows, `call` is where each run of `execute_approved_request` is between two awaits; `ttlPassed` and `leaseLive` are the two comparisons with the clock; `Die` is a crash, or an exception that leaves the call |
| `ApprovalCommand` | the same gateway driven by `/approve` and `/reject` only, with browser clicks for tools | the guards of `_handle_approval_command`: the group lock, the group of the request, the answer of `approve_request`; `page` is what a task-space shows, `bound` the `_state_hash` of a request, `verified` the clicks between comparison and click; `Drift` is a page that changes by itself |
| `EventLease` | `claim_event_owned`, `wait_for_event_retry`, `mark_event_*` and the handler around them | `row` is the event's row, `handler` each bot's run; `LeaseExpires`, `Crash` |
| `TaskService` | `tasks/service.py` and `tasks/handoff.py` | one variable for each column that matters; one action for each operation; `starting` holds the calls of `start_agent_run` between their read and their upsert |
| `LoopGuard` | `loop_guard.py` | the `threads` row; `TakeTurn` and `RefuseTurn` are its two answers |
| `GroupWork` | the orchestrator over one group; EXTENDS `TaskService` and `LoopGuard` and calls their actions | `pc` is where each message's run is, a step ends where the code awaits; `version` is the group's cancel version, `cancelVersion` the one a run read, `lock` the group's lock; `Greet` and `Chat` are the two loops over the roles of a social message; `lateSends`, `lateNotices` and `lateGreetings` count what a run sent after the version moved |
| `AgentTurn` | `AgentRuntime.execute` | `pc` is the place in the loop; the model's replies and the tools' results are open; `discovered`, `succeeded`, `forced`, `failed`, `pending` are the sets the code keeps; `requests` counts rows in `approvals`; `outcome` is which `return` was taken, `answeredAt` the round of the text it returned; `grounds` are the browser tools that had succeeded when the last text was written |
| `Routing` | `intent.py`, `addressing.py`, `fast_path.py`, `role_router.py`, `task_analysis.py` | no state: operators from what the patterns find in a text to intent, roles, owner and team |
| `Conversation` | one group's messages from arrival to answer: hydration in the adapter, routing, binding and sending; EXTENDS `Routing` | `rows` is the conversation map, `context` what a message inherited, `job` the run under the lock, `posted` the messages the bots sent, `spent` the ledger; any step may raise, any row may be lost, the process may die anywhere |
| `SchemaMigration` | `init_schema` statement by statement | `disk` is what a crash leaves, `conn` what the connection sees, `inTx` the driver's transaction; one action for each statement |
| `Memory` | `service.py`, `vault.py`, `vector_index.py`, `judge.py`, `retriever.py`, and the copies' rebuild at start; EXTENDS `SchemaMigration` | `value`, `mirror` and `index` are the rows and their two copies, `writer` where each handler is between its awaits |

`MCApprovalExecution`, `MCApprovalCommand`, `MCEventLease`, `MCTaskService`,
`MCGroupWork`, `MCAgentTurn`, `MCConversation` and `MCMemory` give the constants their
values; `ApprovalExecution_proofs`, `ApprovalCommand_proofs`, `EventLease_proofs`,
`TaskService_proofs`, `GroupWork_proofs`, `AgentTurn_proofs`, `Conversation_proofs` and
`Memory_proofs` hold the proofs.
Operators whose comment begins with "Mutant" are not part of the model: each is a
plausible mistake in the definition next to it, and shows that a property would notice.

Choices a reader should know:

* Every operation of the gateway, the event claims and the task service may be
  called at any time by anyone in its own module; the composed modules
  (`ApprovalCommand`, `GroupWork`) restrict them to what the program does. What
  holds in the first holds in the second; what fails only in the first is a
  statement about the interface.
* A control command is one step of `GroupWork`. The code moves the version and
  then makes its database call; any call a run makes after it saw the new version
  is served after that transaction, because the lock of the database is first
  come, first served.
* In `GroupWork` an agent's answer is abstracted to whether it answers or raises, a send
  to whether it raises, a budget to whether it lets the run go on. That a message is no work
  is open at each run: `Decline` stands for every message that one notice answers (an
  approval command, a memory directive, a conflict with no task to name, the budget's
  refusal), `Socialize` for a social one. `Conversation` has these in full, and in
  turn leaves statuses, commands and the guard to `GroupWork`: a stop or a refusal may
  come there at any of their places.
* A text is the set of signals the patterns of `routing/` look for and the roles it
  mentions, by place and form. Which texts a message may have is a constant.
* A page is a number that every change raises: two contents have two fingerprints.
* A memory row's value is the number of the write it came from, a vector the value it was
  made of and the partition it is in. Ranking, and limits on what is returned, are left
  out: a search may return any part of what it finds.
* `lapsed`, `granted`, `successes`, `owned`, `named`, `left`, `lateSends`,
  `lateNotices`, `lateGreetings`, `grounds`, `toolRounds`, `drifted`,
  `clickedOn`, `unchecked`, `had`, `staleFiles`, `staleVectors`, `confirmed` and `served`
  record history for the properties and never guard a step of the program (`owned` is
  compared with the guard of the handoff, which reads rows; `had` keeps ids from being
  used twice).

## Runs

| Run | Instance | What it shows |
|---|---|---|
| `approval_api` | two requests in two groups, one with a denied tool, two calls | one effect at most, only after permission; a recorded success is true; closed is final; the lease fences a late call; every approved request resolves if its execution keeps being asked for; the gateway implements `OneShotAction` |
| `approval_command` | three requests in two groups, two for one page, one with a denied tool; two handlers, one change of a page | driven by the command alone no call is overtaken, so a request closed unrun had no effect; a click lands on the page it was approved for, and of two clicks approved for one page the second fails |
| `event_lease` | three bots, one update, two restarts | who may work and who may close, success once unless a lease lapsed, takeover of a failed attempt |
| `task_service` | two tasks, three roles, every operation in every order | dependencies gate execution, finished tasks are final, no role gets a task twice |
| `group_work` | a collective and a delegated message, two disturbances (commands or crashes) | no incomplete task is done, one late response at most (or the greetings of a social message), the guard leaves room for the synthesis, agent runs end |
| `group_retry` | a collective and a single message, two runs each, one disturbance | no task is left in progress except by a crash, the queue drains, over what a first run left behind: a used thread, a blocked or finished task |
| `agent_turn` | two page reads, a click that needs approval, the search, four rounds | a text about a page was written with the page in view, unless the rounds were used up and the model's own calls took all but three of them; one request for an action; equal browser failures end the turn; every turn ends |
| `conversation` | two messages, the second of three texts, one with an image, and perhaps a reply to anything to be seen; one exception, lost row or crash | a row's task is in the row's thread, a reply to finished work goes on in it, a thread's checked calls stay within budget plus the calls of one check |
| `memory` | every older version of the database, two crashes at any statement, two users with three old rows and two writes | no row vanishes, what was told is stored, copies are fresh unless their last update failed, a search finds all the user may see and nothing else, a database that served is not migrated again, every start ends in service |

Three runs state what the repository's documents or tests say and find it violated
(`PROJECT.json` quotes the lines):

| Run | What the program does instead |
|---|---|
| `approval_stuck` | After a crash an executing request stays executing: the recovery runs only behind a decision the request refuses. |
| `group_target` | A stop that names one task moves the version of the whole group, and the run of another task cancels itself. |
| `start_crash` | A process that dies between the new table of the journal and the commit of its rows leaves an empty table that the next start takes for migrated; the old rows stay in the table set aside, which nothing reads. |

### Observed while modelling

What the program does where no document says otherwise, so that no run contradicts one:

* A reclaim through the gateway's own interface may close as expired a request whose first
  execution is only slow and then acts (`gateway.py:112-141`). The approval command never
  starts an execution twice, so the product does not reach this (`NoStaleExecutor`).
* A run that raises after a stop is run again by a waiting bot; it reads the version the
  stop left and its response is sent (`orchestrator.py:617`).
* A conflicting message is examined under the lock, that is after the run it conflicts
  with ended (`orchestrator.py:459`).
* A stop does not hold greetings back: those of every addressed role are sent one after the
  other and the version is not looked at between them (`orchestrator.py:437-442`). What the
  documents say of stale responses (`docs/RELEASE_NOTES.md:11`, `docs/BUG_BACKLOG.md:22`) is
  about work that ends after the stop; the agents' social answers (445-457) are held back.
  `OneLateResponse` counts greetings apart and shows that such a run sends nothing else.
* In the last round a text that the runtime holds back for a read of the page is returned all
  the same, although the read succeeded: no round is left to write another
  (`runtime.py:487-488`). `AnswerHasEvidence` says what it takes: the runtime's reads and its
  retry of an empty reply use three rounds at most, so the model spent the others on calls of
  its own. No test goes to the last round;
  `test_browser_inspection_forces_snapshot_before_final_answer` has rounds to spare.
* A database call that raises between the creation of a delegated task and its handoff
  (`orchestrator.py:521-539`, outside any `try`) leaves the task as it is, as a crash would.
  `GroupWork` takes database calls to succeed there, and so does `NoOrphan`.
* A reply to an earlier chunk of a delegated first answer finds the thread and no task: the
  task is bound to the message and the answer's last chunk (`orchestrator.py:515-528`).
  `ReplyContinues` is about replies to the ids `send_message` returned, the last chunks.
* A delegated run that raises after its first answer is run again and answers twice,
  with two tasks; the earlier chunks of the answer keep the old task, consistently with
  their thread (`TaskInThread`).
* A reply hydrated before its parent had a row keeps a thread of its own in its row, while
  its run joins the parent's thread (`_restore_reply_context`).
* The router charges its call to the message's own thread, not the one it joined
  (`role_router.py:71`); social answers and vision calls check no budget. `BudgetHolds` is
  about the calls that are checked.
* A crash between the new table of the memories and the commit of its rows leaves the old
  rows in the table set aside, like those of the journal. For `NothingVanishes` they are
  kept: the property is about rows that are destroyed, `start_crash` about rows nothing reads.
* A shared row whose last audit entry names a user becomes private at the next start,
  whenever it was written. The writers of `Memory` write a user's rows only, so this falls
  outside `StartsKeep`, which is about what users were told is stored. The file of the shared
  scope is not removed when all its rows became private; vectors of deleted duplicates stay,
  and are not found.
* A thread that reached a limit of the loop guard is not opened again; a task that waits for
  a cancelled dependency waits for good; a file whose row could not be inserted stays on
  disk (`files/intake.py`).

### Bounds

* Two executions are enough for every race between a stalled call and its
  successor. Requests touch no common row; the second differs in group and policy, the
  third of `approval_command` shares the page of the first. One change of a page falls
  before, between or after the steps of a click. The proofs have no bound.
* One update suffices because events share no row; the three bots are the real
  ones. Two restarts allow a crash in the attempt that took over after a crash.
* Two tasks make a chain of dependencies, three roles a handoff that could
  return. `MaxStarts` bounds agent runs, `MaxRetries` is 2 instead of 3.
* `MaxDisturbances` bounds commands and crashes together, `MaxRuns` the runs of a
  message, one bot after the other. Two commands make pause and resume within
  one run. Two messages are the one that holds the lock and the one that waits.
* `MaxTurns` is 3 for a team of two and its synthesis, as 4 is for a team of three.
* Four rounds are the default of `MAX_TOOL_ROUNDS`: enough for an empty reply, both
  forced reads and the answer, and for both reads with a call of the model that leave no
  round for the answer. A reply has one call at most, because the calls of
  one reply are answered one by one like those of two rounds; searches find
  nothing or everything.
* `conversation`: two messages are a parent and its reply, or two that compete. The first
  is delegated work in two chunks, so a reply may come between them; the texts of the
  second reach single, delegated, collective, social and routed handling and a notice.
  One fault (`MaxFaults`) makes a second run over what the first left. A turn charges at
  most one call and the budgets are 1 and 2, so each is reached and passed.
* `memory`: rows 1 and 2 are duplicates, row 3 stays shared, rows 4 and 5 are a new key
  and the key of another user. Two columns stand for those the migration adds, for a crash
  before, between and after. Two writes are an overwrite, or two keys; `MaxItems` is 2
  instead of 5, `BackfillLimit` 2 of up to four rows.
* `task_service` uses the symmetry of tasks and roles, `approval_command` that of handlers
  and of the two requests for one page; both check safety only. No run with a liveness
  property uses symmetry.

Deadlock is not an error in any run: a closed request, an event handled by every
bot, a finished task, a drained queue or a served database has nothing left to do.

### Fairness

* `ApprovalExecution`: a scheduled call goes on, and a tool call ends, since each
  tool has a timeout; clocks advance; strong fairness on asking for the execution
  again is the premise of `Resolves`, whoever asks. `ApprovalCommand` replaces
  that premise by a user who repeats `/approve`, and `approval_stuck` shows it
  does not help.
* `EventLease`: every handler goes on and leases run out. No fairness for
  deliveries, crashes and deadlines that end the waiting.
* `GroupWork`: every run goes on, since model calls and sends have timeouts and the
  lock is first come, first served, and a waiting bot takes a failed message
  over. No fairness for commands or crashes.
* `AgentTurn`: the loop goes on, since model calls and tools have timeouts.
* `Memory`: a start runs on, and the process manager starts a process that ended again
  (`ecosystem.config.cjs`). No fairness for writers and crashes.
* `Conversation` and `approval_command` check safety only and assume none.

## Proofs

The proofs hold for any sets of requests, calls, bots, events, tasks, roles, messages and
rows, under the named assumptions in the modules: null values are not elements of the
sets they stand beside (`NoTask` is no task's number, `NoTable` no set of rows, `NoVector`
no vector), users' messages have ids apart from the numbers of the bots' messages, the old
table is finite, tables of constants have their types, and bounds are numbers. Only
`DiscussionFits` assumes more, and says so.

Each invariant was first checked by TLC on a run's instance. All of them are proved the same
way: it holds at first, a lemma for each action or group of actions keeps it, and the
property follows.

* **`ApprovalExecution_proofs`.** `TypeOK`, `EffectAtMostOnce`, `ExecutedIsTrue`,
  `ClosedIsFinal`, `LeaseFences`, and that the specification implements
  `OneShotAction`. `EffectAtMostOnce` alone is not inductive: it says nothing of
  a call about to run the tool. The invariant `IInv` adds that a running call is the
  only one on its journal row and that this row says so (`RunnersAreAlone`, from the
  unique key), that effects follow the journal and not the lease
  (`EffectsFollowJournal`), that a success on its way to the request is in the
  journal (`SuccessIsJournalled`), and that nothing runs without permission
  (`OnlyGrantedRun`). The lease plays no part: safety rests on the key. The
  refinement maps every step to the step of `OneShotAction` it performs, or to a
  stutter (`Simulation`).
* **`ApprovalCommand_proofs`.** `NoStaleExecutor`, `ClosedUnrunIsClean` and
  `ClicksApprovedPage`, for any number of requests, handlers, groups and changes. The
  group's lock makes a handler the only one in its group (`OneHandler`), so the request it
  approved is still approved when it claims and its own until it ends (`HandlersOwn`), and
  the page cannot be turned by an agent or another click between comparison and click
  (`VerifiedPage`). What is not executing or executed had no effect (`UnrunIsClean`).
* **`EventLease_proofs`.** `TypeOK`, `StaleOnlyAfterLapse`, `SucceedsOnce`,
  `ClosedByOwner`. `SucceedsOnce` needs that after a success without a lapse only
  the closing step of the same bot remains (`DoneIsAlmostClosed`), and that a row
  without a live lease has lapsed or is closed (`LapseIsRecorded`,
  `LiveIsProcessing`).
* **`TaskService_proofs`.** `TypeOK`, `DependenciesGate`, `TerminalIsFinal`,
  `NeverOwnedTwice`. The gate needs that dependencies exist before the tasks that
  need them (`DepsExist`) and that a finished task stays finished; the anti-cycle
  guard works because the handoff rows and the present owner name every owner
  there was (`RowsNameOwners`).
* **`GroupWork_proofs`.** `GroupTypeOK`, `NoOrphan`, `OneLateResponse` and
  `DoneIsComplete`, for any messages, teams without a repeated role, threads and limits,
  over the invariant of `TaskService_proofs`, which the crashes keep too. `RunInv` says
  which places belong to a run that has the lock, a task or a turn. `NoOrphan` needs that
  a task in progress is the task of a run past its start (`OrphanInv`), and that tasks
  made by the orchestrator have no dependency that could refuse their end.
  `OneLateResponse` needs that a run that sent late is where every way on either looks at
  the version or sends nothing but the notice that ends it (`LatePlaces`), that a notice is a
  run's last message, and that a run that greets does nothing else, once for each role. `DoneIsComplete` is about the distance
  between a look and a step: while the version has not moved, who contributed has a run
  that succeeded; once the synthesis was asked for, all have, and a stop no longer
  changes that (`Gathered`). `WholeTeam` turns the code's count of contributions into the
  set of the team's roles.
* `GuardLeavesRoom` (`DiscussionFits`) is proved under `WithinLimits`: a collective team has
  fewer roles than the guard allows turns, no more than it allows agents, and its thread has
  no second collective message. The code's discussions are of that kind as long as a thread
  has one: three roles, `MAX_AGENTS` 3, `MAX_TURNS` 4. Then the guard's row keeps step with
  the run (`RoomInv`): before a turn it has seen at most the roles before it, after the turn
  that role too, so that the synthesis finds a turn left and its role seated. Which roles sit
  there is counted by their number in the code; `SeatForMember` goes from the set to the
  number. Without `WithinLimits` the property is false, and a reply that opens a second
  discussion in the same thread meets an exhausted guard (see *Observed while modelling*).
* **`AgentTurn_proofs`.** `TurnTypeOK`, `AnswerHasEvidence`, `OneRequestPerAction`,
  `RepetitionEnds`, with any number of calls in a reply. `AnswerHasEvidence` needs
  that a read the runtime forced has succeeded while the turn is open
  (`ForcedIsRead`), since a forced read is not tried again, that the last reply was written
  with every read in view that succeeded before it (`TextInView`), and where the rounds went
  that the model did not spend on calls: two forced reads and one retry at most
  (`RoundsSpent`); `OneRequestPerAction`
  that every row is remembered in the step that makes it (`RequestedIsPending`).
* **`Conversation_proofs`.** `TaskInThread`, `BudgetHolds` and `ReplyContinues`, for any
  messages, texts, replies, chunks and faults. `ThreadInv` says that everything that names a
  task names one of its own thread: rows, the context of a message that has read its parent,
  the row a message being sent will inherit, and the run under the lock. `BudgetInv` counts
  the calls a run may still charge against the room its last check left: one turn, or two
  for delegated work, none outside a run. `ReplyInv` follows a run's task to the rows a user
  can reply to: its answers are messages no other run posted (`AnswersApart`, `PostIsNew`);
  collective work has its task, and has bound it, before it says anything, delegated work
  binds the answers it already gave (`NoAnswerYet`); from then on the rows of its message and
  answers name that task, and so does the row the next chunk inherits (`RunRows`). A run that
  ended therefore leaves its answers' rows in its task (`FinishedRows`), and a reply reads
  its parent's row again under the lock, when no run is under way.
* **`Memory_proofs`.** `StoreTypeOK`, `NothingVanishes`, `ToldIsStored`, `CopiesFresh`,
  `SearchExact` and `StartsKeep`, for any older database, rows, users, handlers, columns,
  crashes and limits. `MemoryInv` speaks of the file and of what the connection sees alike,
  since a commit makes the one the other and a crash does the reverse. `Sound` says where a
  row may be, and that owners change only as long as nothing was removed for having
  another's (`Owned` or `Whole`): a row that was overtaken by a newer one of its owner and
  key would otherwise be left without it when that one moves to a user. `StatementInv` says
  what each statement of the migration finds, so that no statement drops a table before its
  rows are copied. `SettledInv` says that a database that served has nothing left to migrate
  and that no transaction of a later start changes its rows or their owners: that is
  `StartsKeep`, and why what was told stays stored over crashes. `NewestExists`, from the
  well-foundedness of the numbers, shows that a removal leaves a row for each owner and key.
  `WriterInv` has one handler at a time between its awaits, with the row it wrote as it left
  it; `FilesInv` and `VectorsInv` say where a copy may be out of date; `PartitionInv` that a
  vector is in its owner's partition or in the shared one: no embedded row is out of its
  owner's reach, and the join with the table's owner hides from others those that became
  private later.

Only model-checked: every liveness property (`Resolves`, `TakenOver`, `RunsEnd`,
`Drains`, `TurnEnds`, `Starts`), since fairness and ENABLED are beyond the prover. Every
other property of the passing runs is a theorem.

## Plan

What is left, in this order:

1. What the user is told of an approval asked for in the last round of `AgentTurn`.
2. Saved attachments (`storage/attachments.py`): a file, its row and their crash.

## Not modelled

* Polling, the health check and the activity shown while an agent works
  (`bot_registry.py`, parts of `adapter.py`), HTTP clients (`integrations/`) and browser
  backends: input and output; their failures are outcomes of the steps that use them.
* Text: the patterns of routing, prompts, parsers, judging and ranking of memories. What
  they decide is a constant or an open choice.
* The role scope of memories: a role's memory is a scope like a user's. A search by text uses
  the owner in the table; the copy in `memory_fts` is rebuilt from it at each start.
* The registry and policy of tools, skills and personas: tables filled at start. A denial
  is `JournalDenial`.
* The command-line adapter: one message at a time, without claims.
* Prices and the choice of models: a call is one unit.
* Cancellation of asyncio tasks: it happens only when the process stops.
* The clock's value: only the comparisons the code makes.
