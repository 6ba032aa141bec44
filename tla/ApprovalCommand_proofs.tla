----------------------- MODULE ApprovalCommand_proofs -----------------------
(***************************************************************************)
(* Proofs about ApprovalCommand, for any requests, handlers, groups and    *)
(* changes of pages.                                                       *)
(***************************************************************************)
EXTENDS ApprovalCommand, ApprovalExecution_proofs

Busy(c) == call[c].pc # "idle"

(* The handler that approved a request finds it approved, and then owns it.  *)
HandlersOwn ==
  /\ \A c \in Calls : call[c].pc = "granted" => approval[call[c].of].status = "approved"
  /\ NoStaleExecutor

(* The group's lock.                                                         *)
OneHandler ==
  \A c, d \in Calls :
    Busy(c) /\ Busy(d) /\ GroupOf[call[c].of] = GroupOf[call[d].of] => c = d

(* Only what was executed had an effect.                                     *)
UnrunIsClean ==
  \A a \in Approvals :
    approval[a].status \notin {"executing", "executed", "failed", "unknown"} => effects[a] = 0

CommandInv == TypeOK /\ HandlersOwn /\ OneHandler /\ UnrunIsClean

PageShape ==
  /\ page = [g \in Groups |-> page[g]]
  /\ bound = [a \in Approvals |-> bound[a]]
  /\ clickedOn = [a \in Approvals |-> clickedOn[a]]
  /\ verified \subseteq Calls

(* A handler about to click, whose page did not change by itself, has the page
   its request is bound to before it.                                        *)
VerifiedPage ==
  /\ \A c \in verified : call[c].pc = "tool"
  /\ \A c \in verified \ drifted : PageOf(call[c].of) = bound[call[c].of]

UnaskedIsUnclicked ==
  \A a \in Approvals : approval[a].status = "none" => clickedOn[a] = {}

PageInv == PageShape /\ VerifiedPage /\ UnaskedIsUnclicked /\ ClicksApprovedPage

-----------------------------------------------------------------------------
(* A handler's step after its claim.                                         *)
ExecutorStep(c) ==
  \/ LookupJournal(c) \/ JournalDenial(c) \/ JournalAttempt(c) \/ JournalCollision(c)
  \/ FinishJournal(c) \/ FinishFails(c) \/ RecordOutcome(c)
  \/ \E acted \in BOOLEAN, o \in {"success", "failed", "unknown"} : CallTool(c, acted, o)

LEMMA CommandCases ==
  ASSUME CommandNext
  PROVE  \/ \E g \in Groups : PreparePage(g) \/ Drift(g)
         \/ \E a \in Approvals : RequestClick(a) \/ CommandTime(a)
         \/ \E c \in Calls, a \in Approvals, g \in Groups :
              ApproveCommand(c, a, g) \/ RejectCommand(c, a, g)
         \/ \E c \in Calls :
              \/ ExecuteGranted(c) \/ Journal(c) \/ VerifyPage(c) \/ CommandDie(c)
              \/ \E acted \in BOOLEAN, o \in Outcome : Click(c, acted, o)
  BY DEF CommandNext, ClickTool

LEMMA InitCommand == ASSUME CommandInit PROVE CommandInv /\ PageInv
<1>1. TypeOK
  BY InitIInv DEF CommandInit, IInv
<1> QED
  BY <1>1 DEF CommandInit, Init, NoRow, IdleCall, CommandInv, HandlersOwn, NoStaleExecutor,
     OneHandler, Busy, UnrunIsClean, PageInv, PageShape, VerifiedPage, UnaskedIsUnclicked,
     ClicksApprovedPage

(* The executor's steps keep every handler at its own request.               *)
LEMMA ExecutorCommand ==
  ASSUME CommandInv, NEW c \in Calls, ExecutorStep(c)
  PROVE  CommandInv'
<1> USE DEF CommandInv
<1>1. TypeOK'
  <2>1. Next
    BY DEF ExecutorStep, Next, Execute
  <2> QED
    BY <2>1, NextTypeOK
<1>2. /\ call[c].pc \in {"lookup", "insert", "tool", "finish", "record"}
      /\ \A d \in Calls \ {c} : call'[d] = call[d]
      /\ \/ call'[c].pc = "idle"
         \/ call'[c].pc \notin {"idle", "granted"} /\ call'[c].of = call[c].of
  BY DEF ExecutorStep, TypeOK, LookupJournal, JournalDenial, JournalAttempt, JournalCollision,
     FinishJournal, FinishFails, RecordOutcome, CallTool, Goto, Return, IdleCall
<1>3. call[c].of \in Approvals /\ approval[call[c].of].status = "executing"
  BY <1>2 DEF TypeOK, HandlersOwn, NoStaleExecutor
<1>4. /\ \A a \in Approvals \ {call[c].of} : approval'[a] = approval[a] /\ effects'[a] = effects[a]
      /\ \/ approval' = approval
         \/ /\ call'[c].pc = "idle"
            /\ approval'[call[c].of].status \in {"executed", "failed", "unknown"}
  BY <1>2, <1>3 DEF ExecutorStep, TypeOK, LookupJournal, JournalDenial, JournalAttempt,
     JournalCollision, FinishJournal, FinishFails, RecordOutcome, CallTool, Closed,
     RecordedStatus, Return, IdleCall
<1>5. \A d \in Calls \ {c} : Busy(d) => call[d].of \in Approvals /\ call[d].of # call[c].of
  BY <1>2 DEF OneHandler, Busy, TypeOK
<1>6. HandlersOwn'
  BY <1>2, <1>3, <1>4, <1>5 DEF HandlersOwn, NoStaleExecutor, Busy
<1>7. OneHandler'
  BY <1>2 DEF OneHandler, Busy
<1>8. UnrunIsClean'
  BY <1>3, <1>4 DEF UnrunIsClean
<1> QED
  BY <1>1, <1>6, <1>7, <1>8

(* The claim of a handler that approved: nothing was run, so nothing is recovered. *)
LEMMA ClaimCommand ==
  ASSUME CommandInv, NEW c \in Calls, call[c].pc = "granted", ClaimTransaction(c, call[c].of)
  PROVE  CommandInv'
<1> USE DEF CommandInv
<1> DEFINE a == call[c].of
<1>1. a \in Approvals /\ approval[a].status = "approved"
  BY DEF TypeOK, HandlersOwn
<1>2. \A d \in Calls \ {c} : Busy(d) => call[d].of \in Approvals /\ call[d].of # a
  BY DEF OneHandler, Busy, TypeOK
<1>3. CASE Claim(c, a)
  <2> USE <1>3 DEF Claim, Start
  <2>1. TypeOK'
    BY <1>1 DEF TypeOK, Row, CallState, Status, Terminal, Outcome, Where
  <2>2. HandlersOwn' /\ OneHandler'
    BY <1>1, <1>2 DEF HandlersOwn, NoStaleExecutor, OneHandler, Busy, TypeOK
  <2>3. UnrunIsClean'
    BY <1>1 DEF UnrunIsClean, TypeOK
  <2> QED
    BY <2>1, <2>2, <2>3
<1>4. CASE Expire(c, a)
  <2> USE <1>4 DEF Expire, Return, IdleCall
  <2>1. TypeOK'
    BY <1>1, StatusUpdate DEF TypeOK, Row, CallState, Status, Terminal, Outcome, Where
  <2>2. HandlersOwn' /\ OneHandler'
    BY <1>1, <1>2 DEF HandlersOwn, NoStaleExecutor, OneHandler, Busy, TypeOK
  <2>3. UnrunIsClean'
    BY <1>1 DEF UnrunIsClean, TypeOK, Row
  <2> QED
    BY <2>1, <2>2, <2>3
<1> QED
  BY <1>1, <1>3, <1>4 DEF ClaimTransaction, Recover, LeaseExpired

LEMMA ApproveCommandInv ==
  ASSUME CommandInv, NEW c \in Calls, NEW a \in Approvals, NEW g \in Groups,
         ApproveCommand(c, a, g)
  PROVE  CommandInv'
<1> USE DEF CommandInv
<1> DEFINE new == Decision(a, TRUE)
<1>1. /\ g = GroupOf[a] /\ approval[a].status = "pending" /\ new \in {"approved", "expired"}
      /\ approval' = [approval EXCEPT ![a].status = new]
      /\ granted' \subseteq granted \cup {a}
      /\ call[c].pc = "idle" /\ LockFree(g)
      /\ UNCHANGED <<ttlPassed, journal, effects>>
  BY DEF ApproveCommand, ApproveRow, MayDecide, Decision
<1>2. approval'[a].status = new /\ \A b \in Approvals \ {a} : approval'[b] = approval[b]
  BY <1>1 DEF TypeOK, Row
<1>3. \/ new = "approved" /\ Start(c, a, "granted")
      \/ Return(c)
  BY <1>1, <1>2 DEF ApproveCommand
<1>4. \A d \in Calls : Busy(d) => call[d].of \in Approvals /\ GroupOf[call[d].of] # GroupOf[a]
  BY <1>1 DEF LockFree, Busy, TypeOK
<1>5. TypeOK'
  <2>1. approval' \in [Approvals -> Row]
    BY <1>1, StatusUpdate DEF TypeOK, Status, Terminal
  <2>2. /\ call' \in [Calls -> CallState]
        /\ \A d \in Calls : call'[d].pc # "idle" => call'[d].of \in Approvals
    <3>1. CASE Start(c, a, "granted")
      BY <3>1 DEF TypeOK, Start, CallState, Outcome, Where
    <3>2. CASE Return(c)
      BY <3>2 DEF TypeOK, Return, IdleCall, CallState, Outcome, Where
    <3> QED
      BY <1>3, <3>1, <3>2
  <2> QED
    BY <1>1, <2>1, <2>2 DEF TypeOK
<1>6. HandlersOwn' /\ OneHandler'
  <2>1. CASE Start(c, a, "granted") /\ new = "approved"
    <3>1. /\ call'[c].pc = "granted" /\ call'[c].of = a
          /\ \A d \in Calls \ {c} : call'[d] = call[d]
      BY <2>1 DEF Start, TypeOK
    <3>2. \A d \in Calls \ {c} : Busy(d) => call[d].of # a
      BY <1>4
    <3>3. HandlersOwn'
      <4>1. \A d \in Calls \ {c} : Busy(d) => approval'[call[d].of] = approval[call[d].of]
        BY <1>2, <1>4, <3>2
      <4>2. \A d \in Calls :
              /\ call'[d].pc = "granted" => approval'[call'[d].of].status = "approved"
              /\ call'[d].pc \notin {"idle", "granted"} =>
                    /\ approval'[call'[d].of].status = "executing"
                    /\ approval'[call'[d].of].owner = d
        <5> TAKE d \in Calls
        <5>1. CASE d = c
          BY <1>2, <2>1, <3>1, <5>1
        <5>2. CASE d # c
          BY <3>1, <4>1, <5>2 DEF HandlersOwn, NoStaleExecutor, Busy
        <5> QED
          BY <5>1, <5>2
      <4>3. \A d \in Calls :
              call'[d].pc = "granted" => approval'[call'[d].of].status = "approved"
        BY <4>2
      <4>4. NoStaleExecutor'
        BY <4>2 DEF NoStaleExecutor
      <4> QED
        BY <4>3, <4>4 DEF HandlersOwn
    <3>4. OneHandler'
      BY <1>4, <3>1 DEF OneHandler, Busy
    <3> QED
      BY <3>3, <3>4
  <2>2. CASE Return(c)
    BY <1>2, <1>4, <2>2 DEF Return, IdleCall, HandlersOwn, NoStaleExecutor, OneHandler, Busy,
       TypeOK
  <2> QED
    BY <1>3, <2>1, <2>2
<1>7. UnrunIsClean'
  BY <1>1, <1>2 DEF UnrunIsClean
<1> QED
  BY <1>5, <1>6, <1>7

(* A request created or rejected, a clock: no handler is at it.              *)
LEMMA BystanderCommand ==
  ASSUME CommandInv, NEW a \in Approvals,
         \/ CreateRequest(a) \/ LeaseExpires(a) \/ TtlPasses(a)
         \/ \E g \in Groups : Reject(a, g)
  PROVE  CommandInv'
<1> USE DEF CommandInv
<1>1. TypeOK'
  <2>1. Next
    BY DEF Next, Decide, Time
  <2> QED
    BY <2>1, NextTypeOK
<1>2. /\ UNCHANGED <<call, effects>>
      /\ \A b \in Approvals \ {a} : approval'[b] = approval[b]
      /\ \/ approval[a].status \in {"none", "pending"} /\ approval'[a].status \in {"pending", "rejected"}
         \/ approval'[a].status = approval[a].status /\ approval'[a].owner = approval[a].owner
  BY DEF CreateRequest, LeaseExpires, TtlPasses, Reject, MayDecide, TypeOK, Row
<1>3. HandlersOwn'
  BY <1>2 DEF HandlersOwn, NoStaleExecutor, TypeOK
<1>4. OneHandler' /\ UnrunIsClean'
  BY <1>2 DEF OneHandler, Busy, UnrunIsClean
<1> QED
  BY <1>1, <1>3, <1>4

LEMMA DieCommand ==
  ASSUME CommandInv, NEW c \in Calls, Die(c) PROVE CommandInv'
<1>1. TypeOK'
  BY NextTypeOK DEF Next, CommandInv
<1> QED
  BY <1>1 DEF CommandInv, Die, Return, IdleCall, HandlersOwn, NoStaleExecutor, OneHandler, Busy,
     UnrunIsClean, TypeOK

LEMMA CommandStep ==
  ASSUME CommandInv, [CommandNext]_commandVars PROVE CommandInv'
<1>1. CASE UNCHANGED vars
  BY <1>1 DEF vars, CommandInv, TypeOK, HandlersOwn, NoStaleExecutor, OneHandler, Busy,
     UnrunIsClean
<1>2. ASSUME NEW g \in Groups, PreparePage(g) \/ Drift(g) PROVE CommandInv'
  BY <1>1, <1>2 DEF PreparePage, Drift
<1>3. ASSUME NEW a \in Approvals, RequestClick(a) \/ CommandTime(a) PROVE CommandInv'
  BY <1>3, BystanderCommand DEF RequestClick, CommandTime, Time
<1>4. ASSUME NEW c \in Calls, NEW a \in Approvals, NEW g \in Groups,
             ApproveCommand(c, a, g) \/ RejectCommand(c, a, g)
      PROVE  CommandInv'
  BY <1>4, ApproveCommandInv, BystanderCommand DEF RejectCommand
<1>5. ASSUME NEW c \in Calls, ExecuteGranted(c) PROVE CommandInv'
  BY <1>5, ClaimCommand DEF ExecuteGranted
<1>6. ASSUME NEW c \in Calls, Journal(c) \/ VerifyPage(c) \/ CommandDie(c)  PROVE CommandInv'
  BY <1>1, <1>6, ExecutorCommand, DieCommand
     DEF Journal, VerifyPage, CommandDie, ExecutorStep
<1>7. ASSUME NEW c \in Calls, NEW acted \in BOOLEAN, NEW o \in Outcome, Click(c, acted, o)
      PROVE  CommandInv'
  BY <1>7, ExecutorCommand DEF Click, RunBrowser, ExecutorStep
<1> QED
  BY <1>1, <1>2, <1>3, <1>4, <1>5, <1>6, <1>7, CommandCases DEF commandVars

(* Driven by the command, no handler executes on a claim that is not its own, for
   any number of requests, groups and handlers that stall or die
   (src/src/core/orchestrator.py:150-182).                                   *)
THEOREM NoStale == CommandSpec => []NoStaleExecutor
<1>1. CommandInit => CommandInv
  BY InitCommand
<1>2. CommandInv /\ [CommandNext]_commandVars => CommandInv'
  BY CommandStep
<1>3. CommandInv => NoStaleExecutor
  BY DEF CommandInv, HandlersOwn
<1> QED
  BY <1>1, <1>2, <1>3, PTL DEF CommandSpec

(* What was rejected or expired had no effect (src/src/approval/gateway.py:113). *)
THEOREM UnrunStaysClean == CommandSpec => []ClosedUnrunIsClean
<1>1. CommandInit => CommandInv
  BY InitCommand
<1>2. CommandInv /\ [CommandNext]_commandVars => CommandInv'
  BY CommandStep
<1>3. CommandInv => ClosedUnrunIsClean
  BY DEF CommandInv, UnrunIsClean, ClosedUnrunIsClean
<1> QED
  BY <1>1, <1>2, <1>3, PTL DEF CommandSpec

-----------------------------------------------------------------------------
(* The page.                                                                 *)
LEMMA PageUntouched ==
  ASSUME CommandInv, PageInv, UNCHANGED pageVars,
         \A c \in verified : call'[c] = call[c],
         \A a \in Approvals : approval'[a].status = "none" => approval[a].status = "none"
  PROVE  PageInv'
<1> USE DEF PageInv, pageVars
<1>1. PageShape' /\ VerifiedPage'
  BY DEF PageShape, VerifiedPage, PageOf
<1> QED
  BY <1>1 DEF UnaskedIsUnclicked, ClicksApprovedPage

(* No handler of a group whose lock is free is about to click.               *)
LEMMA FreeIsUnverified ==
  ASSUME CommandInv, PageInv, NEW g \in Groups, LockFree(g)
  PROVE  \A c \in verified : GroupOf[call[c].of] # g /\ GroupOf[call[c].of] \in Groups
  BY GroupAssumption DEF LockFree, PageInv, PageShape, VerifiedPage, CommandInv, TypeOK

LEMMA TurnPage ==
  ASSUME CommandInv, PageInv, NEW g \in Groups, PreparePage(g) \/ Drift(g)
  PROVE  PageInv'
<1> USE DEF PageInv
<1>1. /\ page' = [page EXCEPT ![g] = @ + 1]
      /\ UNCHANGED <<approval, call, bound, verified, clickedOn>>
      /\ drifted \subseteq drifted'
      /\ \A c \in verified \ drifted' : GroupOf[call[c].of] # g
  BY FreeIsUnverified DEF PreparePage, Drift, Turn, vars
<1>2. \A c \in verified : call[c].of \in Approvals
  BY DEF PageShape, VerifiedPage, CommandInv, TypeOK
<1>3. PageShape'
  BY <1>1 DEF PageShape
<1>4. VerifiedPage'
  BY <1>1, <1>2, GroupAssumption DEF PageShape, VerifiedPage, PageOf
<1> QED
  BY <1>1, <1>3, <1>4 DEF UnaskedIsUnclicked, ClicksApprovedPage

LEMMA RequestPage ==
  ASSUME CommandInv, PageInv, NEW a \in Approvals, RequestClick(a)
  PROVE  PageInv'
<1> USE DEF PageInv
<1>1. /\ bound' = [bound EXCEPT ![a] = PageOf(a)]
      /\ approval[a].status = "none" /\ approval' = [approval EXCEPT ![a].status = "pending"]
      /\ UNCHANGED <<call, page, verified, drifted, clickedOn>>
  BY DEF RequestClick, CreateRequest
<1>2. \A c \in verified : call[c].of \in Approvals \ {a}
  BY <1>1 DEF PageShape, VerifiedPage, CommandInv, HandlersOwn, NoStaleExecutor, TypeOK
<1>3. PageShape' /\ VerifiedPage'
  BY <1>1, <1>2 DEF PageShape, VerifiedPage, PageOf
<1>4. UnaskedIsUnclicked'
  BY <1>1 DEF UnaskedIsUnclicked, CommandInv, TypeOK, Row
<1>5. ClicksApprovedPage'
  BY <1>1 DEF ClicksApprovedPage, UnaskedIsUnclicked, PageShape
<1> QED
  BY <1>3, <1>4, <1>5

LEMMA VerifyPageInv ==
  ASSUME CommandInv, PageInv, NEW c \in Calls, VerifyPage(c)
  PROVE  PageInv'
<1> USE DEF PageInv
<1>1. CASE PageOf(call[c].of) = bound[call[c].of] /\ verified' = verified \cup {c} /\ UNCHANGED vars
  <2>1. UNCHANGED <<approval, call, page, bound, drifted, clickedOn>> /\ call[c].pc = "tool"
    BY <1>1 DEF VerifyPage, vars
  <2> QED
    BY <1>1, <2>1 DEF PageShape, VerifiedPage, PageOf, UnaskedIsUnclicked, ClicksApprovedPage
<1>2. CASE CallTool(c, FALSE, "failed") /\ UNCHANGED verified
  <2>1. /\ \A d \in verified : call'[d] = call[d]
        /\ UNCHANGED approval
    BY <1>2 DEF VerifyPage, CallTool, Goto, PageShape, CommandInv, TypeOK
  <2> QED
    BY <1>2, <2>1, PageUntouched DEF VerifyPage, pageVars
<1> QED
  BY <1>1, <1>2 DEF VerifyPage

LEMMA ClickPage ==
  ASSUME CommandInv, PageInv, NEW c \in Calls, NEW acted \in BOOLEAN, NEW o \in Outcome,
         Click(c, acted, o)
  PROVE  PageInv'
<1> USE DEF PageInv
<1> DEFINE a == call[c].of
           hit == IF c \in drifted THEN {} ELSE {PageOf(a)}
<1>1. /\ c \in verified /\ call[c].pc = "tool" /\ a \in Approvals
      /\ verified' = verified \ {c} /\ drifted' = drifted \ {c}
      /\ UNCHANGED <<approval, bound>>
      /\ \A d \in Calls \ {c} : call'[d] = call[d]
      /\ IF acted THEN /\ page' = [page EXCEPT ![GroupOf[a]] = @ + 1]
                       /\ clickedOn' = [clickedOn EXCEPT ![a] = @ \cup hit]
                  ELSE UNCHANGED <<page, clickedOn>>
  BY DEF Click, RunBrowser, CallTool, Goto, CommandInv, TypeOK
<1>2. hit \subseteq {bound[a]} /\ approval[a].status = "executing"
  BY <1>1 DEF VerifiedPage, CommandInv, HandlersOwn, NoStaleExecutor
<1> HIDE DEF hit
<1>3. \A d \in verified' : /\ d \in Calls \ {c} /\ call[d].pc = "tool"
                           /\ call[d].of \in Approvals /\ GroupOf[call[d].of] # GroupOf[a]
  BY <1>1 DEF PageShape, VerifiedPage, CommandInv, OneHandler, Busy, TypeOK
<1>4. PageShape'
  BY <1>1 DEF PageShape
<1>5. VerifiedPage'
  <2>1. \A d \in verified' \ drifted' : PageOf(call[d].of)' = PageOf(call[d].of)
    BY <1>1, <1>3, GroupAssumption DEF PageShape, PageOf
  <2> QED
    BY <1>1, <1>3, <2>1 DEF VerifiedPage, PageOf
<1>6. \A b \in Approvals :
        \/ clickedOn'[b] = clickedOn[b]
        \/ b = a /\ clickedOn'[b] = clickedOn[b] \cup hit
  <2>1. CASE acted
    BY <1>1, <2>1 DEF PageShape
  <2>2. CASE ~acted
    BY <1>1, <2>2
  <2> QED
    BY <2>1, <2>2
<1>7. UnaskedIsUnclicked'
  BY <1>1, <1>2, <1>6 DEF UnaskedIsUnclicked
<1>8. ClicksApprovedPage'
  BY <1>1, <1>2, <1>6 DEF ClicksApprovedPage
<1> QED
  BY <1>4, <1>5, <1>7, <1>8

LEMMA DiePage ==
  ASSUME CommandInv, PageInv, NEW c \in Calls, CommandDie(c)
  PROVE  PageInv'
<1> USE DEF PageInv
<1>1. /\ verified' = verified \ {c} /\ drifted' = drifted \ {c}
      /\ UNCHANGED <<approval, page, bound, clickedOn>>
      /\ \A d \in Calls \ {c} : call'[d] = call[d]
  BY DEF CommandDie, Die, Return, CommandInv, TypeOK
<1> QED
  BY <1>1 DEF PageShape, VerifiedPage, PageOf, UnaskedIsUnclicked, ClicksApprovedPage

LEMMA PageStep ==
  ASSUME CommandInv, PageInv, [CommandNext]_commandVars PROVE PageInv'
<1> USE DEF Same
<1>0. \A c \in verified : c \in Calls /\ call[c].pc = "tool"
  BY DEF PageInv, PageShape, VerifiedPage
<1>1. CASE UNCHANGED commandVars
  BY <1>1, PageUntouched DEF commandVars, vars
<1>2. ASSUME NEW a \in Approvals, RequestClick(a) \/ CommandTime(a) PROVE PageInv'
  <2>1. CASE CommandTime(a)
    BY <2>1, PageUntouched DEF CommandTime, Time, LeaseExpires, TtlPasses, CommandInv, TypeOK, Row
  <2> QED
    BY <1>2, <2>1, RequestPage
<1>3. ASSUME NEW c \in Calls, NEW a \in Approvals, NEW g \in Groups,
             ApproveCommand(c, a, g) \/ RejectCommand(c, a, g)
      PROVE  PageInv'
  <2>1. /\ UNCHANGED pageVars /\ call[c].pc = "idle"
        /\ \A d \in Calls \ {c} : call'[d] = call[d]
    BY <1>3 DEF ApproveCommand, RejectCommand, Reject, Start, Return, CommandInv, TypeOK
  <2>2. \A b \in Approvals : approval'[b].status = "none" => approval[b].status = "none"
    BY <1>3 DEF ApproveCommand, ApproveRow, Decision, RejectCommand, Reject, CommandInv, TypeOK, Row
  <2> QED
    BY <1>0, <2>1, <2>2, PageUntouched
<1>4. ASSUME NEW c \in Calls, ExecuteGranted(c) PROVE PageInv'
  <2>1. /\ UNCHANGED pageVars /\ call[c].pc = "granted" /\ call[c].of \in Approvals
        /\ \A d \in Calls \ {c} : call'[d] = call[d]
    BY <1>4 DEF ExecuteGranted, ClaimTransaction, Claim, Expire, Recover, Start, Return,
       CommandInv, TypeOK
  <2>2. \A b \in Approvals : approval'[b].status = "none" => approval[b].status = "none"
    BY <1>4, <2>1 DEF ExecuteGranted, ClaimTransaction, Claim, Expire, Recover, Closed,
       RecoveredStatus, CommandInv, TypeOK, Row
  <2> QED
    BY <1>0, <2>1, <2>2, PageUntouched
<1>5. ASSUME NEW c \in Calls, Journal(c) PROVE PageInv'
  <2>1. /\ UNCHANGED pageVars /\ call[c].pc # "tool"
        /\ \A d \in Calls \ {c} : call'[d] = call[d]
    BY <1>5 DEF Journal, LookupJournal, JournalDenial, JournalAttempt, JournalCollision,
       FinishJournal, FinishFails, RecordOutcome, Goto, Return, CommandInv, TypeOK
  <2>2. \A b \in Approvals : approval'[b].status = "none" => approval[b].status = "none"
    BY <1>5 DEF Journal, LookupJournal, JournalDenial, JournalAttempt, JournalCollision,
       FinishJournal, FinishFails, RecordOutcome, Closed, RecordedStatus, CommandInv, TypeOK
  <2> QED
    BY <1>0, <2>1, <2>2, PageUntouched
<1> QED
  BY <1>1, <1>2, <1>3, <1>4, <1>5, CommandCases, TurnPage, VerifyPageInv, ClickPage, DiePage

(* A click lands on the page its request was bound to, unless the page changes by
   itself after the comparison (src/src/browser/tools.py:100-120).           *)
THEOREM ClicksApproved == CommandSpec => []ClicksApprovedPage
<1>1. CommandInit => CommandInv /\ PageInv
  BY InitCommand
<1>2. CommandInv /\ PageInv /\ [CommandNext]_commandVars => CommandInv' /\ PageInv'
  BY CommandStep, PageStep
<1>3. PageInv => ClicksApprovedPage
  BY DEF PageInv
<1> QED
  BY <1>1, <1>2, <1>3, PTL DEF CommandSpec
=============================================================================
