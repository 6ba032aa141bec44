------------------------- MODULE ApprovalExecution --------------------------
(***************************************************************************)
(* The approval gateway (src/src/approval/gateway.py) and the executor it  *)
(* drives (src/src/tools/executor.py), down to the transactions on the     *)
(* approvals row and on the tool_executions journal row of its idempotency *)
(* key.  A call is one run of execute_approved_request; between two awaits *)
(* any other call, or the clock, may take a step, and the call may die     *)
(* (the process crashes, or an exception leaves the call).                 *)
(*                                                                         *)
(* Time is abstracted to two facts the code tests: whether the execution   *)
(* lease is still live and whether the approval's deadline has passed.     *)
(***************************************************************************)
EXTENDS Naturals

CONSTANTS
  Approvals,    \* approval ids, each with its own idempotency key
  Calls,        \* concurrent runs of execute_approved_request
  NoCall,       \* execution_owner_token is NULL
  NoApproval,   \* what an idle call works on
  Groups,       \* chat groups that send decisions
  GroupOf,      \* the group each approval was requested in
  Refused       \* approvals whose tool the executor denies (not registered,
                \* or parameters outside its schema)

ASSUME NoCallAssumption == NoCall \notin Calls
ASSUME NoApprovalAssumption == NoApproval \notin Approvals
ASSUME GroupAssumption == GroupOf \in [Approvals -> Groups]
ASSUME RefusedAssumption == Refused \subseteq Approvals

VARIABLES
  approval,     \* the approvals table: status, owner token, lease still live
  ttlPassed,    \* utc_now() > expires_at
  journal,      \* status of the tool_executions row of the approval's key
  call,         \* where each call is, its approval, the executor's result
  effects,      \* times the external system performed the action
  granted       \* approvals a user approved (history)

vars == <<approval, ttlPassed, journal, call, effects, granted>>

-----------------------------------------------------------------------------
Terminal == {"executed", "failed", "unknown", "rejected", "expired"}
Status == {"none", "pending", "approved", "executing"} \cup Terminal
JournalStatus == {"none", "running", "succeeded", "failed", "unknown", "denied"}
Outcome == {"none", "success", "failed", "unknown", "running"}
Where == {"idle", "granted", "lookup", "insert", "tool", "finish", "record"}

Row == [status : Status, owner : Calls \cup {NoCall}, leaseLive : BOOLEAN]
CallState == [pc : Where, of : Approvals \cup {NoApproval}, outcome : Outcome]

NoRow == [status |-> "none", owner |-> NoCall, leaseLive |-> FALSE]
IdleCall == [pc |-> "idle", of |-> NoApproval, outcome |-> "none"]

Init == /\ approval = [a \in Approvals |-> NoRow]
        /\ ttlPassed = [a \in Approvals |-> FALSE]
        /\ journal = [a \in Approvals |-> "none"]
        /\ call = [c \in Calls |-> IdleCall]
        /\ effects = [a \in Approvals |-> 0]
        /\ granted = {}

At(c, a, pc) == call[c].pc = pc /\ call[c].of = a

Goto(c, pc, outcome) ==
  call' = [call EXCEPT ![c] = [pc |-> pc, of |-> call[c].of, outcome |-> outcome]]

Start(c, a, pc) ==
  call' = [call EXCEPT ![c] = [pc |-> pc, of |-> a, outcome |-> "none"]]

Return(c) == call' = [call EXCEPT ![c] = IdleCall]

-----------------------------------------------------------------------------
(* Deciding on a request.                                                    *)

CreateRequest(a) ==
  /\ approval[a].status = "none"
  /\ approval' = [approval EXCEPT ![a].status = "pending"]
  /\ UNCHANGED <<ttlPassed, journal, call, effects, granted>>

(* approve_request closes a request that is too late, or whose parameters no
   longer hash to the stored hash, and approves it otherwise.                *)
Decision(a, sameParameters) ==
  IF ttlPassed[a] THEN "expired"
  ELSE IF sameParameters THEN "approved" ELSE "rejected"

(* Mutant: a decision is taken on any request that is not executing.         *)
MayDecideTwice(a, g) ==
  g = GroupOf[a] /\ approval[a].status \notin {"none", "executing"}

MayDecide(a, g) == g = GroupOf[a] /\ approval[a].status = "pending"

ApproveRow(a, g, sameParameters) ==
  /\ MayDecide(a, g)
  /\ LET new == Decision(a, sameParameters)
     IN /\ approval' = [approval EXCEPT ![a].status = new]
        /\ granted' = IF new = "approved" THEN granted \cup {a} ELSE granted

Approve(a, g, sameParameters) ==
  /\ ApproveRow(a, g, sameParameters)
  /\ UNCHANGED <<ttlPassed, journal, call, effects>>

Reject(a, g) ==
  /\ MayDecide(a, g)
  /\ approval' = [approval EXCEPT ![a].status = "rejected"]
  /\ UNCHANGED <<ttlPassed, journal, call, effects, granted>>

-----------------------------------------------------------------------------
(* The claim transaction of execute_approved_request.  A row that is         *)
(* executed, or executing under a live lease, or closed is answered without  *)
(* a change.                                                                 *)

LeaseExpired(a) ==
  approval[a].status = "executing" /\ ~approval[a].leaseLive

(* Mutant: a failed execution may be claimed again.                          *)
ClaimableOrFailed(a) ==
  \/ approval[a].status \in {"approved", "failed"}
  \/ LeaseExpired(a) /\ journal[a] = "none"

(* Approved, or claimed by a call whose lease expired before it journalled
   anything: _recover_expired_execution returns None.                        *)
Claimable(a) ==
  \/ approval[a].status = "approved"
  \/ LeaseExpired(a) /\ journal[a] = "none"

Claim(c, a) ==
  /\ Claimable(a) /\ ~ttlPassed[a]
  /\ approval' = [approval EXCEPT
                    ![a] = [status |-> "executing", owner |-> c, leaseLive |-> TRUE]]
  /\ Start(c, a, "lookup")
  /\ UNCHANGED <<ttlPassed, journal, effects, granted>>

(* The expiry update leaves the owner token and the lease as they are.       *)
Expire(c, a) ==
  /\ Claimable(a) /\ ttlPassed[a]
  /\ approval' = [approval EXCEPT ![a].status = "expired"]
  /\ Return(c)
  /\ UNCHANGED <<ttlPassed, journal, effects, granted>>

(* Mutant: an attempt still running in the journal is awaited for ever.      *)
RecoveredStatusWaiting(entry) ==
  CASE entry = "succeeded" -> "executed"
    [] entry = "running" -> "executing"
    [] entry = "unknown" -> "unknown"
    [] OTHER -> "failed"

(* Mutant: an attempt still running in the journal is taken as done.         *)
RecoveredStatusTrusting(entry) ==
  CASE entry \in {"succeeded", "running"} -> "executed"
    [] entry = "unknown" -> "unknown"
    [] OTHER -> "failed"

RecoveredStatus(entry) ==
  CASE entry = "succeeded" -> "executed"
    [] entry \in {"failed", "denied"} -> "failed"
    [] OTHER -> "unknown"

Closed(status) == [status |-> status, owner |-> NoCall, leaseLive |-> FALSE]

Recover(c, a) ==
  /\ LeaseExpired(a) /\ journal[a] # "none"
  /\ approval' = [approval EXCEPT ![a] = Closed(RecoveredStatus(journal[a]))]
  /\ Return(c)
  /\ UNCHANGED <<ttlPassed, journal, effects, granted>>

ClaimTransaction(c, a) == Claim(c, a) \/ Expire(c, a) \/ Recover(c, a)

ExecuteApprovedRequest(c, a) ==
  /\ call[c].pc = "idle"
  /\ ClaimTransaction(c, a)

-----------------------------------------------------------------------------
(* execute_tool, driven by the claiming call with is_approved set and the    *)
(* approval's idempotency key.                                               *)

(* What an earlier attempt under the same key answers; a denied row gives no
   answer and the call goes on to insert its own.                            *)
ReplayAnswer(entry) ==
  CASE entry = "succeeded" -> "success"
    [] entry \in {"running", "unknown", "failed"} -> entry
    [] OTHER -> "none"

LookupJournal(c) ==
  LET a == call[c].of
      answer == ReplayAnswer(journal[a])
  IN /\ call[c].pc = "lookup"
     /\ Goto(c, IF answer = "none" THEN "insert" ELSE "record", answer)
     /\ UNCHANGED <<approval, ttlPassed, journal, effects, granted>>

(* Mutant: idempotency_key is not UNIQUE.                                    *)
KeyNotUnique(a) == TRUE

KeyIsFree(a) == journal[a] = "none"

(* A denied tool is journalled as such; if the key is taken that INSERT raises
   and the call dies (Die).                                                  *)
JournalDenial(c) ==
  LET a == call[c].of
  IN /\ call[c].pc = "insert" /\ a \in Refused /\ KeyIsFree(a)
     /\ journal' = [journal EXCEPT ![a] = "denied"]
     /\ Goto(c, "record", "failed")
     /\ UNCHANGED <<approval, ttlPassed, effects, granted>>

JournalAttempt(c) ==
  LET a == call[c].of
  IN /\ call[c].pc = "insert" /\ a \notin Refused /\ KeyIsFree(a)
     /\ journal' = [journal EXCEPT ![a] = "running"]
     /\ Goto(c, "tool", "none")
     /\ UNCHANGED <<approval, ttlPassed, effects, granted>>

(* The key was taken since the lookup: execute_tool starts over.             *)
JournalCollision(c) ==
  /\ call[c].pc = "insert" /\ call[c].of \notin Refused /\ ~KeyIsFree(call[c].of)
  /\ Goto(c, "lookup", "none")
  /\ UNCHANGED <<approval, ttlPassed, journal, effects, granted>>

(* The tool is outside Morrow: it returns only after it acted, and raises,
   with UnknownExternalResultError or another exception, having acted or not. *)
CallTool(c, acted, outcome) ==
  LET a == call[c].of
  IN /\ call[c].pc = "tool"
     /\ outcome = "success" => acted
     /\ effects' = [effects EXCEPT ![a] = IF acted THEN @ + 1 ELSE @]
     /\ Goto(c, "finish", outcome)
     /\ UNCHANGED <<approval, ttlPassed, journal, granted>>

FinishedAs(outcome) == IF outcome = "success" THEN "succeeded" ELSE outcome

FinishJournal(c) ==
  /\ call[c].pc = "finish"
  /\ journal' = [journal EXCEPT ![call[c].of] = FinishedAs(call[c].outcome)]
  /\ Goto(c, "record", call[c].outcome)
  /\ UNCHANGED <<approval, ttlPassed, effects, granted>>

(* Writing "succeeded" raises inside the try block (a result json cannot
   serialise, a locked database): the except branch writes "failed".         *)
FinishFails(c) ==
  /\ call[c].pc = "finish" /\ call[c].outcome = "success"
  /\ journal' = [journal EXCEPT ![call[c].of] = "failed"]
  /\ Goto(c, "record", "failed")
  /\ UNCHANGED <<approval, ttlPassed, effects, granted>>

-----------------------------------------------------------------------------
(* The closing update of execute_approved_request.                           *)

(* Mutant: the executor's own status is stored.                              *)
RecordedRaw(outcome) ==
  IF outcome = "success" THEN "executed" ELSE outcome

RecordedStatus(outcome) ==
  CASE outcome = "success" -> "executed"
    [] outcome = "unknown" -> "unknown"
    [] OTHER -> "failed"

(* Mutant: the update is not guarded by the owner token.                     *)
OwnerIgnored(c, a) == approval[a].status = "executing"

OwnsClaim(c, a) == approval[a].status = "executing" /\ approval[a].owner = c

RecordOutcome(c) ==
  LET a == call[c].of
  IN /\ call[c].pc = "record"
     /\ approval' = IF OwnsClaim(c, a)
                    THEN [approval EXCEPT ![a] = Closed(RecordedStatus(call[c].outcome))]
                    ELSE approval
     /\ Return(c)
     /\ UNCHANGED <<ttlPassed, journal, effects, granted>>

(* The process crashes or an exception leaves the call: what it committed
   stays, what it held in memory is gone.                                    *)
Die(c) ==
  /\ call[c].pc # "idle"
  /\ Return(c)
  /\ UNCHANGED <<approval, ttlPassed, journal, effects, granted>>

-----------------------------------------------------------------------------
(* Time.                                                                     *)

LeaseExpires(a) ==
  /\ approval[a].leaseLive
  /\ approval' = [approval EXCEPT ![a].leaseLive = FALSE]
  /\ UNCHANGED <<ttlPassed, journal, call, effects, granted>>

TtlPasses(a) ==
  /\ approval[a].status # "none" /\ ~ttlPassed[a]
  /\ ttlPassed' = [ttlPassed EXCEPT ![a] = TRUE]
  /\ UNCHANGED <<approval, journal, call, effects, granted>>

-----------------------------------------------------------------------------
Execute(c) ==
  \/ LookupJournal(c)
  \/ JournalDenial(c)
  \/ JournalAttempt(c)
  \/ JournalCollision(c)
  \/ \E acted \in BOOLEAN, outcome \in {"success", "failed", "unknown"} :
        CallTool(c, acted, outcome)
  \/ FinishJournal(c)
  \/ FinishFails(c)
  \/ RecordOutcome(c)

Time(a) == LeaseExpires(a) \/ TtlPasses(a)

Decide(a) ==
  \/ CreateRequest(a)
  \/ \E g \in Groups, sameParameters \in BOOLEAN : Approve(a, g, sameParameters)
  \/ \E g \in Groups : Reject(a, g)

Next ==
  \/ \E a \in Approvals : Decide(a) \/ Time(a)
  \/ \E c \in Calls, a \in Approvals : ExecuteApprovedRequest(c, a)
  \/ \E c \in Calls : Execute(c) \/ Die(c)

Spec == Init /\ [][Next]_vars

(* Calls are scheduled by the event loop and every tool call is bounded by its
   own timeout; clocks advance; and somebody keeps asking for the execution of
   a request that is not closed.                                             *)
Fairness ==
  /\ \A c \in Calls : WF_vars(Execute(c))
  /\ \A a \in Approvals : WF_vars(LeaseExpires(a)) /\ WF_vars(TtlPasses(a))
  /\ \A a \in Approvals : SF_vars(\E c \in Calls : ExecuteApprovedRequest(c, a))

FairSpec == Spec /\ Fairness

-----------------------------------------------------------------------------
(* Properties.                                                               *)

(* Every variable keeps its shape.                                           *)
TypeOK ==
  /\ approval \in [Approvals -> Row]
  /\ ttlPassed \in [Approvals -> BOOLEAN]
  /\ journal \in [Approvals -> JournalStatus]
  /\ call \in [Calls -> CallState]
  /\ \A c \in Calls : call[c].pc # "idle" => call[c].of \in Approvals
  /\ effects \in [Approvals -> Nat]
  /\ granted \subseteq Approvals

(* However often the execution of a request is asked for, by however many
   calls, across stalls, crashes and recoveries, the outside world sees the
   action at most once, and only if a user approved it.                      *)
EffectAtMostOnce ==
  \A a \in Approvals : effects[a] <= 1 /\ (effects[a] > 0 => a \in granted)

(* An approval shown as executed was executed: the journal recorded success
   and the action took effect.                                               *)
ExecutedIsTrue ==
  \A a \in Approvals :
    /\ approval[a].status = "executed" => journal[a] = "succeeded"
    /\ journal[a] = "succeeded" => effects[a] = 1

(* A request closed as rejected or expired never touched the outside world:
   the comment at gateway.py:113-115 calls taking over an expired claim safe
   because no external attempt was made.                                     *)
ClosedUnrunIsClean ==
  \A a \in Approvals : approval[a].status \in {"rejected", "expired"} => effects[a] = 0

(* A closed approval stays closed as it is: no decision, late call or recovery
   rewrites it.                                                              *)
ClosedIsFinal ==
  [][\A a \in Approvals :
       approval[a].status \in Terminal => approval'[a].status = approval[a].status]_vars

(* While a call's lease is live nobody but that call, at its last step, moves
   the approval: a call that outlived an earlier claim cannot close it.      *)
LeaseFences ==
  [][\A a \in Approvals :
       /\ approval[a].status = "executing" /\ approval[a].leaseLive
       /\ <<approval'[a].status, approval'[a].owner>>
            # <<approval[a].status, approval[a].owner>>
       => /\ approval[a].owner \in Calls
          /\ At(approval[a].owner, a, "record")]_vars

(* An approved request is closed in the end, whatever crashes, provided its
   execution keeps being asked for.                                          *)
Resolves ==
  \A a \in Approvals :
    approval[a].status \in {"approved", "executing"} ~> approval[a].status \in Terminal

-----------------------------------------------------------------------------
(* The refinement of OneShotAction: permission is the user's answer, which an
   approval that expired after it was given keeps.                           *)
PermissionOf(a) ==
  CASE a \in granted -> "given"
    [] approval[a].status = "none" -> "none"
    [] approval[a].status = "pending" -> "asked"
    [] OTHER -> "withheld"

VerdictOf(a) ==
  CASE approval[a].status = "executed" -> "success"
    [] a \in granted /\ approval[a].status \in {"failed", "unknown", "expired"} -> "other"
    [] OTHER -> "open"

Permission == [a \in Approvals |-> PermissionOf(a)]
Verdict == [a \in Approvals |-> VerdictOf(a)]

OneShot == INSTANCE OneShotAction
             WITH permission <- Permission, times <- effects, verdict <- Verdict

(* The gateway and the executor together keep the promise of OneShotAction.  *)
OneShotSpec == OneShot!Spec
=============================================================================
