---------------------- MODULE ApprovalExecution_proofs ----------------------
(***************************************************************************)
(* Proofs about ApprovalExecution, for any number of approvals and calls.  *)
(***************************************************************************)
EXTENDS ApprovalExecution, TLAPS

(* The calls between their journal row and its last update.                  *)
Running(c) == call[c].pc \in {"tool", "finish"}

(* A running call has its approval's journal row to itself, marked running.  *)
RunnersAreAlone ==
  /\ \A c \in Calls : Running(c) => journal[call[c].of] = "running"
  /\ \A c, d \in Calls : Running(c) /\ Running(d) /\ call[c].of = call[d].of => c = d

(* What the world has seen is bounded by what the journal says.              *)
EffectsFollowJournal ==
  /\ \A a \in Approvals : journal[a] = "none" => effects[a] = 0
  /\ \A c \in Calls : call[c].pc = "tool" => effects[call[c].of] = 0
  /\ \A c \in Calls : call[c].pc = "finish" =>
       /\ call[c].outcome \in {"success", "failed", "unknown"}
       /\ call[c].outcome = "success" => effects[call[c].of] = 1
  /\ \A a \in Approvals : journal[a] = "succeeded" => effects[a] = 1
  /\ \A a \in Approvals : effects[a] \in {0, 1}

(* A success that a call is about to record is in the journal.               *)
SuccessIsJournalled ==
  /\ \A c \in Calls : call[c].pc = "record" /\ call[c].outcome = "success"
                        => journal[call[c].of] = "succeeded"
  /\ \A a \in Approvals : approval[a].status = "executed" => journal[a] = "succeeded"

(* Nothing runs, or ran, without the user's approval.                        *)
OnlyGrantedRun ==
  /\ \A a \in Approvals :
       approval[a].status \in {"approved", "executing", "executed", "failed", "unknown"}
         => a \in granted
  /\ \A a \in granted : approval[a].status \notin {"none", "pending", "rejected"}
  /\ \A c \in Calls : call[c].pc # "idle" => call[c].of \in granted
  /\ \A a \in Approvals : effects[a] > 0 => a \in granted

IInv ==
  /\ TypeOK
  /\ RunnersAreAlone
  /\ EffectsFollowJournal
  /\ SuccessIsJournalled
  /\ OnlyGrantedRun
-----------------------------------------------------------------------------
(* A step is a decision, the clock, the claim transaction, a step of the
   executor, or the death of a call.                                         *)
LEMMA NextCases ==
  ASSUME Next
  PROVE  \/ \E a \in Approvals :
              \/ CreateRequest(a) \/ LeaseExpires(a) \/ TtlPasses(a)
              \/ \E g \in Groups, p \in BOOLEAN : Approve(a, g, p)
              \/ \E g \in Groups : Reject(a, g)
         \/ \E c \in Calls, a \in Approvals :
              call[c].pc = "idle" /\ (Claim(c, a) \/ Expire(c, a) \/ Recover(c, a))
         \/ \E c \in Calls :
              \/ LookupJournal(c) \/ JournalDenial(c) \/ JournalAttempt(c)
              \/ JournalCollision(c) \/ FinishJournal(c) \/ FinishFails(c)
              \/ RecordOutcome(c) \/ Die(c)
              \/ \E acted \in BOOLEAN, o \in {"success", "failed", "unknown"} :
                    CallTool(c, acted, o)
BY DEF Next, Decide, Time, ExecuteApprovedRequest, ClaimTransaction, Execute

LEMMA InitIInv == ASSUME Init PROVE IInv
BY NoCallAssumption, NoApprovalAssumption
DEF Init, IInv, TypeOK, RunnersAreAlone, EffectsFollowJournal, SuccessIsJournalled,
    OnlyGrantedRun, Running, NoRow, IdleCall, Row, CallState, Status, Terminal, JournalStatus,
    Outcome, Where

(* Moving an approval to another status, or a call to another place, keeps the
   shape of the table.                                                       *)
LEMMA StatusUpdate ==
  ASSUME approval \in [Approvals -> Row], NEW a \in Approvals, NEW s \in Status
  PROVE  [approval EXCEPT ![a].status = s] \in [Approvals -> Row]
<1> DEFINE row == [approval[a] EXCEPT !.status = s]
<1>1. row \in Row
  <2>1. approval[a] \in Row
    OBVIOUS
  <2> QED BY <2>1 DEF Row
<1>2. [approval EXCEPT ![a].status = s] = [approval EXCEPT ![a] = row]
  OBVIOUS
<1> QED BY <1>1, <1>2

LEMMA CallUpdate ==
  ASSUME call \in [Calls -> CallState], NEW c \in Calls, NEW pc \in Where, NEW o \in Outcome,
         Goto(c, pc, o)
  PROVE  call' \in [Calls -> CallState] /\ call'[c].of = call[c].of /\ call'[c].pc = pc
         /\ call'[c].outcome = o /\ \A d \in Calls \ {c} : call'[d] = call[d]
<1> DEFINE new == [pc |-> pc, of |-> call[c].of, outcome |-> o]
<1>1. call[c] \in CallState /\ new \in CallState
  BY DEF CallState
<1>2. call' = [call EXCEPT ![c] = new]
  BY DEF Goto
<1>3. call'[c] = new /\ \A d \in Calls \ {c} : call'[d] = call[d]
  BY <1>2
<1>4. call' \in [Calls -> CallState]
  BY <1>1, <1>2
<1>5. new.of = call[c].of /\ new.pc = pc /\ new.outcome = o
  OBVIOUS
<1> QED BY <1>3, <1>4, <1>5

(* Type correctness is preserved by every action.                            *)
LEMMA NextTypeOK == ASSUME TypeOK, Next PROVE TypeOK'
<1> USE NoCallAssumption, NoApprovalAssumption
    DEF TypeOK, Row, CallState, Status, Terminal, JournalStatus, Outcome, Where
<1>1. ASSUME NEW a \in Approvals, CreateRequest(a) PROVE TypeOK'
  BY <1>1 DEF CreateRequest
<1>2. ASSUME NEW a \in Approvals, NEW g \in Groups, NEW p \in BOOLEAN, Approve(a, g, p)
      PROVE TypeOK'
  BY <1>2 DEF Approve, ApproveRow, MayDecide, Decision
<1>3. ASSUME NEW a \in Approvals, NEW g \in Groups, Reject(a, g) PROVE TypeOK'
  BY <1>3, StatusUpdate DEF Reject, MayDecide
<1>4. ASSUME NEW a \in Approvals, LeaseExpires(a) PROVE TypeOK'
  <2>1. approval[a] \in Row
    OBVIOUS
  <2>2. [approval[a] EXCEPT !.leaseLive = FALSE] \in Row
    BY <2>1 DEF Row
  <2> QED BY <1>4, <2>2 DEF LeaseExpires
<1>5. ASSUME NEW a \in Approvals, TtlPasses(a) PROVE TypeOK'
  BY <1>5 DEF TtlPasses
<1>6. ASSUME NEW c \in Calls, NEW a \in Approvals, Claim(c, a) PROVE TypeOK'
  BY <1>6 DEF Claim, Start
<1>7. ASSUME NEW c \in Calls, NEW a \in Approvals, Expire(c, a) PROVE TypeOK'
  BY <1>7 DEF Expire, Return, IdleCall
<1>8. ASSUME NEW c \in Calls, NEW a \in Approvals, Recover(c, a) PROVE TypeOK'
  BY <1>8 DEF Recover, Return, IdleCall, Closed, RecoveredStatus
<1>9. ASSUME NEW c \in Calls, LookupJournal(c) PROVE TypeOK'
  <2>1. ReplayAnswer(journal[call[c].of]) \in Outcome
    BY <1>9 DEF LookupJournal, ReplayAnswer
  <2>2. \E pc \in Where, o \in Outcome : Goto(c, pc, o) /\ pc # "idle" /\ call[c].pc # "idle"
    BY <1>9, <2>1 DEF LookupJournal
  <2>3. call' \in [Calls -> CallState]
        /\ \A d \in Calls : call'[d].pc # "idle" => call'[d].of \in Approvals
    BY <2>2, CallUpdate
  <2> QED BY <1>9, <2>3 DEF LookupJournal
<1>10. ASSUME NEW c \in Calls, JournalDenial(c) PROVE TypeOK'
  BY <1>10 DEF JournalDenial, Goto
<1>11. ASSUME NEW c \in Calls, JournalAttempt(c) PROVE TypeOK'
  BY <1>11 DEF JournalAttempt, Goto
<1>12. ASSUME NEW c \in Calls, JournalCollision(c) PROVE TypeOK'
  BY <1>12 DEF JournalCollision, Goto
<1>13. ASSUME NEW c \in Calls, FinishJournal(c) PROVE TypeOK'
  <2>1. FinishedAs(call[c].outcome) \in JournalStatus
    BY <1>13 DEF FinishedAs, FinishJournal
  <2> QED BY <1>13, <2>1 DEF FinishJournal, Goto
<1>14. ASSUME NEW c \in Calls, FinishFails(c) PROVE TypeOK'
  BY <1>14 DEF FinishFails, Goto
<1>15. ASSUME NEW c \in Calls, RecordOutcome(c) PROVE TypeOK'
  BY <1>15 DEF RecordOutcome, Return, IdleCall, Closed, RecordedStatus
<1>16. ASSUME NEW c \in Calls, Die(c) PROVE TypeOK'
  BY <1>16 DEF Die, Return, IdleCall
<1>17. ASSUME NEW c \in Calls, NEW acted \in BOOLEAN,
              NEW o \in {"success", "failed", "unknown"}, CallTool(c, acted, o)
       PROVE TypeOK'
  <2>1. call[c].pc # "idle" /\ Goto(c, "finish", o)
    BY <1>17 DEF CallTool
  <2>2. call' \in [Calls -> CallState]
        /\ \A d \in Calls : call'[d].pc # "idle" => call'[d].of \in Approvals
    BY <2>1, CallUpdate
  <2>3. effects' \in [Approvals -> Nat]
    BY <1>17 DEF CallTool
  <2> QED BY <1>17, <2>2, <2>3 DEF CallTool
<1> QED
  BY NextCases, <1>1, <1>2, <1>3, <1>4, <1>5, <1>6, <1>7, <1>8, <1>9, <1>10, <1>11, <1>12,
     <1>13, <1>14, <1>15, <1>16, <1>17

-----------------------------------------------------------------------------
(* The rest of the invariant.  Steps that leave the journal, the calls and the
   effects alone cannot disturb what relates those three.                    *)
LEMMA QuietStep ==
  ASSUME IInv, UNCHANGED <<journal, call, effects>>
  PROVE  /\ RunnersAreAlone' /\ EffectsFollowJournal'
         /\ (\A c \in Calls : call[c].pc = "record" /\ call[c].outcome = "success"
                => journal[call[c].of] = "succeeded")'
BY DEF IInv, RunnersAreAlone, EffectsFollowJournal, SuccessIsJournalled, Running

(* A call that goes to or stays outside "tool" and "finish", while journal and
   effects do not move, keeps the first two parts as well.                   *)
LEMMA BystanderStep ==
  ASSUME IInv, NEW c \in Calls, UNCHANGED <<journal, effects>>,
         call'[c].pc \notin {"tool", "finish"},
         \A d \in Calls \ {c} : call'[d] = call[d]
  PROVE  RunnersAreAlone' /\ EffectsFollowJournal'
BY DEF IInv, TypeOK, RunnersAreAlone, EffectsFollowJournal, Running

THEOREM NextIInv == ASSUME IInv, Next PROVE IInv'
<1> USE DEF IInv
<1>t. TypeOK'
  BY NextTypeOK
<1> USE DEF TypeOK
<1>1. ASSUME NEW a \in Approvals, CreateRequest(a) PROVE IInv'
  <2>1. OnlyGrantedRun' /\ SuccessIsJournalled'
    BY <1>1 DEF CreateRequest, OnlyGrantedRun, SuccessIsJournalled, Row
  <2> QED BY <1>1, <1>t, <2>1, QuietStep DEF CreateRequest
<1>2. ASSUME NEW a \in Approvals, NEW g \in Groups, NEW p \in BOOLEAN, Approve(a, g, p)
      PROVE IInv'
  <2>1. OnlyGrantedRun' /\ SuccessIsJournalled'
    BY <1>2 DEF Approve, ApproveRow, MayDecide, Decision, OnlyGrantedRun, SuccessIsJournalled, Row
  <2> QED BY <1>2, <1>t, <2>1, QuietStep DEF Approve, ApproveRow
<1>3. ASSUME NEW a \in Approvals, NEW g \in Groups, Reject(a, g) PROVE IInv'
  <2>1. OnlyGrantedRun' /\ SuccessIsJournalled'
    BY <1>3 DEF Reject, MayDecide, OnlyGrantedRun, SuccessIsJournalled, Row
  <2> QED BY <1>3, <1>t, <2>1, QuietStep DEF Reject
<1>4. ASSUME NEW a \in Approvals, LeaseExpires(a) PROVE IInv'
  <2>1. OnlyGrantedRun' /\ SuccessIsJournalled'
    BY <1>4 DEF LeaseExpires, OnlyGrantedRun, SuccessIsJournalled, Row
  <2> QED BY <1>4, <1>t, <2>1, QuietStep DEF LeaseExpires
<1>5. ASSUME NEW a \in Approvals, TtlPasses(a) PROVE IInv'
  <2>1. OnlyGrantedRun' /\ SuccessIsJournalled'
    BY <1>5 DEF TtlPasses, OnlyGrantedRun, SuccessIsJournalled
  <2> QED BY <1>5, <1>t, <2>1, QuietStep DEF TtlPasses
<1>6. ASSUME NEW c \in Calls, NEW a \in Approvals, Claim(c, a) PROVE IInv'
  <2>1. RunnersAreAlone' /\ EffectsFollowJournal'
    BY <1>6, BystanderStep DEF Claim, Start
  <2>2. OnlyGrantedRun' /\ SuccessIsJournalled'
    BY <1>6 DEF Claim, Start, Claimable, LeaseExpired, OnlyGrantedRun, SuccessIsJournalled
  <2> QED BY <1>t, <2>1, <2>2
<1>7. ASSUME NEW c \in Calls, NEW a \in Approvals, Expire(c, a) PROVE IInv'
  <2>1. RunnersAreAlone' /\ EffectsFollowJournal'
    BY <1>7, BystanderStep DEF Expire, Return, IdleCall
  <2>2. OnlyGrantedRun' /\ SuccessIsJournalled'
    BY <1>7 DEF Expire, Return, IdleCall, Claimable, LeaseExpired, OnlyGrantedRun,
                SuccessIsJournalled, Row
  <2> QED BY <1>t, <2>1, <2>2
<1>8. ASSUME NEW c \in Calls, NEW a \in Approvals, Recover(c, a) PROVE IInv'
  <2>1. RunnersAreAlone' /\ EffectsFollowJournal'
    BY <1>8, BystanderStep DEF Recover, Return, IdleCall
  <2>2. OnlyGrantedRun' /\ SuccessIsJournalled'
    BY <1>8 DEF Recover, Return, IdleCall, LeaseExpired, Closed, RecoveredStatus,
                OnlyGrantedRun, SuccessIsJournalled
  <2> QED BY <1>t, <2>1, <2>2
<1>9. ASSUME NEW c \in Calls, LookupJournal(c) PROVE IInv'
  <2>1. RunnersAreAlone' /\ EffectsFollowJournal'
    BY <1>9, BystanderStep DEF LookupJournal, Goto
  <2>2. OnlyGrantedRun' /\ SuccessIsJournalled'
    BY <1>9 DEF LookupJournal, Goto, ReplayAnswer, OnlyGrantedRun, SuccessIsJournalled
  <2> QED BY <1>t, <2>1, <2>2
<1>10. ASSUME NEW c \in Calls, JournalDenial(c) PROVE IInv'
  <2>1. RunnersAreAlone' /\ EffectsFollowJournal'
    BY <1>10 DEF JournalDenial, Goto, KeyIsFree, RunnersAreAlone, EffectsFollowJournal, Running
  <2>2. OnlyGrantedRun' /\ SuccessIsJournalled'
    BY <1>10 DEF JournalDenial, Goto, KeyIsFree, OnlyGrantedRun, SuccessIsJournalled
  <2> QED BY <1>t, <2>1, <2>2
<1>11. ASSUME NEW c \in Calls, JournalAttempt(c) PROVE IInv'
  <2>1. RunnersAreAlone'
    BY <1>11 DEF JournalAttempt, Goto, KeyIsFree, RunnersAreAlone, Running
  <2>2. EffectsFollowJournal'
    BY <1>11 DEF JournalAttempt, Goto, KeyIsFree, EffectsFollowJournal
  <2>3. OnlyGrantedRun' /\ SuccessIsJournalled'
    BY <1>11 DEF JournalAttempt, Goto, KeyIsFree, OnlyGrantedRun, SuccessIsJournalled
  <2> QED BY <1>t, <2>1, <2>2, <2>3
<1>12. ASSUME NEW c \in Calls, JournalCollision(c) PROVE IInv'
  <2>1. RunnersAreAlone' /\ EffectsFollowJournal'
    BY <1>12, BystanderStep DEF JournalCollision, Goto
  <2>2. OnlyGrantedRun' /\ SuccessIsJournalled'
    BY <1>12 DEF JournalCollision, Goto, OnlyGrantedRun, SuccessIsJournalled
  <2> QED BY <1>t, <2>1, <2>2
<1>13. ASSUME NEW c \in Calls, FinishJournal(c) PROVE IInv'
  <2>1. RunnersAreAlone'
    BY <1>13 DEF FinishJournal, Goto, RunnersAreAlone, Running
  <2>2. EffectsFollowJournal'
    BY <1>13 DEF FinishJournal, Goto, FinishedAs, EffectsFollowJournal, RunnersAreAlone, Running,
                 CallState, Outcome
  <2>3. OnlyGrantedRun'
    BY <1>13 DEF FinishJournal, Goto, OnlyGrantedRun, CallState
  <2>4. journal[call[c].of] = "running" /\ call[c].of \in Approvals
    BY <1>13 DEF FinishJournal, RunnersAreAlone, Running
  <2>5. call[c].outcome = "success" => journal'[call[c].of] = "succeeded"
    BY <1>13, <2>4 DEF FinishJournal, FinishedAs
  <2>6. SuccessIsJournalled'
    BY <1>13, <2>4, <2>5 DEF FinishJournal, Goto, SuccessIsJournalled
  <2> QED BY <1>t, <2>1, <2>2, <2>3, <2>6
<1>14. ASSUME NEW c \in Calls, FinishFails(c) PROVE IInv'
  <2>1. RunnersAreAlone'
    BY <1>14 DEF FinishFails, Goto, RunnersAreAlone, Running
  <2>2. EffectsFollowJournal'
    BY <1>14 DEF FinishFails, Goto, EffectsFollowJournal
  <2>3. OnlyGrantedRun' /\ SuccessIsJournalled'
    BY <1>14 DEF FinishFails, Goto, OnlyGrantedRun, SuccessIsJournalled, RunnersAreAlone, Running
  <2> QED BY <1>t, <2>1, <2>2, <2>3
<1>15. ASSUME NEW c \in Calls, RecordOutcome(c) PROVE IInv'
  <2>1. RunnersAreAlone' /\ EffectsFollowJournal'
    BY <1>15, BystanderStep DEF RecordOutcome, Return, IdleCall
  <2>2. OnlyGrantedRun' /\ SuccessIsJournalled'
    BY <1>15 DEF RecordOutcome, Return, IdleCall, OwnsClaim, Closed, RecordedStatus,
                 OnlyGrantedRun, SuccessIsJournalled
  <2> QED BY <1>t, <2>1, <2>2
<1>16. ASSUME NEW c \in Calls, Die(c) PROVE IInv'
  <2>1. RunnersAreAlone' /\ EffectsFollowJournal'
    BY <1>16, BystanderStep DEF Die, Return, IdleCall
  <2>2. OnlyGrantedRun' /\ SuccessIsJournalled'
    BY <1>16 DEF Die, Return, IdleCall, OnlyGrantedRun, SuccessIsJournalled
  <2> QED BY <1>t, <2>1, <2>2
<1>17. ASSUME NEW c \in Calls, NEW acted \in BOOLEAN,
              NEW o \in {"success", "failed", "unknown"}, CallTool(c, acted, o)
       PROVE IInv'
  <2>1. RunnersAreAlone'
    BY <1>17 DEF CallTool, Goto, RunnersAreAlone, Running
  <2>2. EffectsFollowJournal'
    BY <1>17 DEF CallTool, Goto, EffectsFollowJournal, RunnersAreAlone, Running
  <2>3. OnlyGrantedRun' /\ SuccessIsJournalled'
    BY <1>17 DEF CallTool, Goto, OnlyGrantedRun, SuccessIsJournalled
  <2> QED BY <1>t, <2>1, <2>2, <2>3
<1> QED
  BY NextCases, <1>1, <1>2, <1>3, <1>4, <1>5, <1>6, <1>7, <1>8, <1>9, <1>10, <1>11, <1>12,
     <1>13, <1>14, <1>15, <1>16, <1>17

-----------------------------------------------------------------------------
(* Stuttering preserves anything.                                            *)
LEMMA StutterIInv == ASSUME IInv, UNCHANGED vars PROVE IInv'
BY DEF IInv, vars, TypeOK, RunnersAreAlone, EffectsFollowJournal, SuccessIsJournalled,
       OnlyGrantedRun, Running

THEOREM Invariance == Spec => []IInv
<1>1. IInv /\ [Next]_vars => IInv'
  BY NextIInv, StutterIInv
<1> QED BY InitIInv, <1>1, PTL DEF Spec

(* Every variable keeps its shape.                                           *)
THEOREM TypeCorrect == Spec => []TypeOK
<1>1. IInv => TypeOK
  BY DEF IInv
<1> QED BY Invariance, <1>1, PTL

(* The outside world sees an approved action at most once, for any number of
   calls that overlap, stall past their lease, die and are recovered.        *)
THEOREM AtMostOnce == Spec => []EffectAtMostOnce
<1>1. ASSUME IInv PROVE EffectAtMostOnce
  <2>1. \A a \in Approvals : effects[a] \in {0, 1}
    BY <1>1 DEF IInv, EffectsFollowJournal
  <2>2. \A a \in Approvals : effects[a] <= 1
    BY <2>1, 0 <= 1, 1 <= 1
  <2> QED BY <1>1, <2>2 DEF IInv, OnlyGrantedRun, EffectAtMostOnce
<1> QED BY Invariance, <1>1, PTL

(* An approval shown as executed took effect.                                *)
THEOREM ExecutedTrue == Spec => []ExecutedIsTrue
<1>1. IInv => ExecutedIsTrue
  BY DEF IInv, EffectsFollowJournal, SuccessIsJournalled, ExecutedIsTrue
<1> QED BY Invariance, <1>1, PTL

-----------------------------------------------------------------------------
(* How a step moves the approvals table: only these actions write it.        *)
LEMMA ApprovalWriters ==
  ASSUME TypeOK, Next, NEW a \in Approvals
  PROVE  \/ approval'[a].status = approval[a].status /\ approval'[a].owner = approval[a].owner
         \/ approval[a].status \in {"none", "pending", "approved"}
         \/ LeaseExpired(a)
         \/ \E c \in Calls : At(c, a, "record") /\ OwnsClaim(c, a)
<1> USE DEF TypeOK
<1>1. ASSUME NEW b \in Approvals,
             \/ CreateRequest(b) \/ LeaseExpires(b) \/ TtlPasses(b)
             \/ \E g \in Groups, p \in BOOLEAN : Approve(b, g, p)
             \/ \E g \in Groups : Reject(b, g)
      PROVE  \/ approval'[a].status = approval[a].status /\ approval'[a].owner = approval[a].owner
             \/ approval[a].status \in {"none", "pending", "approved"}
  <2>1. CASE LeaseExpires(b)
    <3>1. approval[a] \in Row
      OBVIOUS
    <3>2. approval'[a] = approval[a] \/ approval'[a] = [approval[a] EXCEPT !.leaseLive = FALSE]
      BY <2>1 DEF LeaseExpires
    <3> QED BY <3>1, <3>2 DEF Row
  <2>2. CASE CreateRequest(b) \/ TtlPasses(b)
    BY <2>2 DEF CreateRequest, TtlPasses
  <2>3. CASE \E g \in Groups, p \in BOOLEAN : Approve(b, g, p)
    BY <2>3 DEF Approve, ApproveRow, MayDecide
  <2>4. CASE \E g \in Groups : Reject(b, g)
    BY <2>4 DEF Reject, MayDecide
  <2> QED BY <1>1, <2>1, <2>2, <2>3, <2>4
<1>2. ASSUME NEW c \in Calls, NEW b \in Approvals,
             Claim(c, b) \/ Expire(c, b) \/ Recover(c, b)
      PROVE  \/ approval'[a] = approval[a]
             \/ approval[a].status \in {"none", "pending", "approved"}
             \/ LeaseExpired(a)
  BY <1>2 DEF Claim, Expire, Recover, Claimable
<1>3. ASSUME NEW c \in Calls, RecordOutcome(c)
      PROVE  \/ approval'[a] = approval[a]
             \/ At(c, a, "record") /\ OwnsClaim(c, a)
  BY <1>3 DEF RecordOutcome, At
<1>4. ASSUME NEW c \in Calls,
             \/ LookupJournal(c) \/ JournalDenial(c) \/ JournalAttempt(c)
             \/ JournalCollision(c) \/ FinishJournal(c) \/ FinishFails(c) \/ Die(c)
             \/ \E acted \in BOOLEAN, o \in {"success", "failed", "unknown"} :
                   CallTool(c, acted, o)
      PROVE  approval' = approval
  BY <1>4 DEF LookupJournal, JournalDenial, JournalAttempt, JournalCollision, FinishJournal,
              FinishFails, Die, CallTool
<1> QED BY NextCases, <1>1, <1>2, <1>3, <1>4

(* A closed approval is never written again.                                 *)
THEOREM ClosedFinal == Spec => ClosedIsFinal
<1> DEFINE Closes(a) ==
      approval[a].status \in Terminal => approval'[a].status = approval[a].status
<1>1. ASSUME TypeOK, Next, NEW a \in Approvals PROVE Closes(a)
  BY <1>1, ApprovalWriters DEF LeaseExpired, OwnsClaim, Terminal
<1>2. ASSUME UNCHANGED vars, NEW a \in Approvals PROVE Closes(a)
  BY <1>2 DEF vars
<1>3. TypeOK /\ [Next]_vars => [\A a \in Approvals : Closes(a)]_vars
  BY <1>1, <1>2
<1> QED BY <1>3, TypeCorrect, PTL DEF Spec, ClosedIsFinal

(* Only the holder of a live lease moves an executing approval.              *)
THEOREM LeaseFence == Spec => LeaseFences
<1> DEFINE Fenced(a) ==
      /\ approval[a].status = "executing" /\ approval[a].leaseLive
      /\ <<approval'[a].status, approval'[a].owner>> # <<approval[a].status, approval[a].owner>>
      => /\ approval[a].owner \in Calls
         /\ At(approval[a].owner, a, "record")
<1>1. ASSUME TypeOK, Next, NEW a \in Approvals PROVE Fenced(a)
  BY <1>1, ApprovalWriters DEF LeaseExpired, OwnsClaim
<1>2. ASSUME UNCHANGED vars, NEW a \in Approvals PROVE Fenced(a)
  BY <1>2 DEF vars
<1>3. TypeOK /\ [Next]_vars => [\A a \in Approvals : Fenced(a)]_vars
  BY <1>1, <1>2
<1> QED BY <1>3, TypeCorrect, PTL DEF Spec, LeaseFences

-----------------------------------------------------------------------------
(* The refinement.  A step of one approval leaves the abstract state of the
   others alone, so what follows looks at one approval at a time.            *)
Elsewhere(a) ==
  \A b \in Approvals \ {a} : approval'[b].status = approval[b].status
                             /\ (b \in granted' <=> b \in granted)
                             /\ effects'[b] = effects[b]

LEMMA Pointwise ==
  ASSUME TypeOK, TypeOK', NEW a \in Approvals, Elsewhere(a)
  PROVE  /\ Permission' = [Permission EXCEPT ![a] = PermissionOf(a)']
         /\ Verdict' = [Verdict EXCEPT ![a] = VerdictOf(a)']
         /\ effects' = [effects EXCEPT ![a] = effects'[a]]
         /\ Permission[a] = PermissionOf(a) /\ Verdict[a] = VerdictOf(a)
<1>1. \A b \in Approvals \ {a} : PermissionOf(b)' = PermissionOf(b) /\ VerdictOf(b)' = VerdictOf(b)
  BY DEF Elsewhere, PermissionOf, VerdictOf
<1>2. Permission' = [Permission EXCEPT ![a] = PermissionOf(a)']
  BY <1>1 DEF Permission
<1>3. Verdict' = [Verdict EXCEPT ![a] = VerdictOf(a)']
  BY <1>1 DEF Verdict
<1>4. effects' = [effects EXCEPT ![a] = effects'[a]]
  BY DEF TypeOK, Elsewhere
<1> QED BY <1>2, <1>3, <1>4 DEF Permission, Verdict

(* The six ways an approval may move, seen from OneShotAction.               *)
AbstractStep(a) ==
  \/ UNCHANGED <<PermissionOf(a), effects[a], VerdictOf(a)>>
  \/ UNCHANGED <<effects[a], VerdictOf(a)>>
     /\ PermissionOf(a) = "none" /\ PermissionOf(a)' = "asked"
  \/ UNCHANGED <<effects[a], VerdictOf(a)>>
     /\ PermissionOf(a) = "asked" /\ PermissionOf(a)' \in {"given", "withheld"}
  \/ UNCHANGED <<PermissionOf(a), VerdictOf(a)>>
     /\ PermissionOf(a) = "given" /\ effects[a] = 0 /\ effects'[a] = 1
  \/ UNCHANGED <<PermissionOf(a), effects[a]>>
     /\ VerdictOf(a) = "open" /\ effects[a] = 1 /\ VerdictOf(a)' = "success"
  \/ UNCHANGED <<PermissionOf(a), effects[a]>>
     /\ VerdictOf(a) = "open" /\ PermissionOf(a) = "given" /\ VerdictOf(a)' = "other"

LEMMA LiftStep ==
  ASSUME TypeOK, TypeOK', NEW a \in Approvals, Elsewhere(a), AbstractStep(a)
  PROVE  [OneShot!Next]_(OneShot!vars)
<1> USE Pointwise
<1>1. CASE UNCHANGED <<PermissionOf(a), effects[a], VerdictOf(a)>>
  <2>1. Permission' = [Permission EXCEPT ![a] = Permission[a]]
        /\ Verdict' = [Verdict EXCEPT ![a] = Verdict[a]]
        /\ effects' = [effects EXCEPT ![a] = effects[a]]
    BY <1>1
  <2>2. UNCHANGED <<Permission, effects, Verdict>>
    BY <2>1 DEF Permission, Verdict, TypeOK
  <2> QED BY <2>2 DEF OneShot!vars
<1>2. ASSUME ~UNCHANGED <<PermissionOf(a), effects[a], VerdictOf(a)>> PROVE OneShot!Step(a)
  <2>1. UNCHANGED PermissionOf(a) => UNCHANGED Permission
    <3> SUFFICES ASSUME UNCHANGED PermissionOf(a) PROVE Permission' = Permission
      OBVIOUS
    <3>1. Permission' = [Permission EXCEPT ![a] = Permission[a]]
      OBVIOUS
    <3> QED BY <3>1 DEF Permission
  <2>2. UNCHANGED VerdictOf(a) => UNCHANGED Verdict
    <3> SUFFICES ASSUME UNCHANGED VerdictOf(a) PROVE Verdict' = Verdict
      OBVIOUS
    <3>1. Verdict' = [Verdict EXCEPT ![a] = Verdict[a]]
      OBVIOUS
    <3> QED BY <3>1 DEF Verdict
  <2>3. UNCHANGED effects[a] => UNCHANGED effects
    BY DEF TypeOK, Elsewhere
  <2> QED
    BY <1>2, <2>1, <2>2, <2>3
    DEF AbstractStep, OneShot!Step, OneShot!Ask, OneShot!Decide, OneShot!Perform,
        OneShot!ReportSuccess, OneShot!ReportOther
<1>3. OneShot!Step(a) => OneShot!Next
  BY DEF OneShot!Next
<1> QED BY <1>1, <1>2, <1>3

(* A step that writes neither a status, the effects nor the granted set is
   invisible.                                                                *)
LEMMA InvisibleStep ==
  ASSUME UNCHANGED <<effects, granted>>,
         \A a \in Approvals : approval'[a].status = approval[a].status
  PROVE  UNCHANGED OneShot!vars
<1>1. \A a \in Approvals : PermissionOf(a)' = PermissionOf(a) /\ VerdictOf(a)' = VerdictOf(a)
  BY DEF PermissionOf, VerdictOf
<1> QED BY <1>1 DEF OneShot!vars, Permission, Verdict

(* How the status of one approval may change, and what that is abstractly.   *)
LEMMA StatusStep ==
  ASSUME IInv, NEW a \in Approvals, UNCHANGED effects,
         \/ approval[a].status = "none" /\ approval'[a].status = "pending" /\ granted' = granted
         \/ approval[a].status = "pending" /\ approval'[a].status = "approved"
            /\ granted' = granted \cup {a}
         \/ approval[a].status = "pending" /\ approval'[a].status \in {"expired", "rejected"}
            /\ granted' = granted
         \/ approval[a].status \in {"approved", "executing"} /\ granted' = granted
            /\ \/ approval'[a].status \in {"executing", "failed", "unknown", "expired"}
               \/ approval'[a].status = "executed" /\ effects[a] = 1
  PROVE  AbstractStep(a)
<1> USE DEF IInv, OnlyGrantedRun, AbstractStep, PermissionOf, VerdictOf
<1>1. CASE approval[a].status = "none" /\ approval'[a].status = "pending" /\ granted' = granted
  BY <1>1
<1>2. CASE /\ approval[a].status = "pending" /\ approval'[a].status = "approved"
           /\ granted' = granted \cup {a}
  BY <1>2
<1>3. CASE /\ approval[a].status = "pending" /\ approval'[a].status \in {"expired", "rejected"}
           /\ granted' = granted
  BY <1>3
<1>4. CASE /\ approval[a].status \in {"approved", "executing"} /\ granted' = granted
           /\ \/ approval'[a].status \in {"executing", "failed", "unknown", "expired"}
              \/ approval'[a].status = "executed" /\ effects[a] = 1
  BY <1>4
<1> QED BY <1>1, <1>2, <1>3, <1>4

(* What recovery and the closing update may answer, and when it is success.  *)
LEMMA VerdictRanges ==
  ASSUME NEW x
  PROVE  /\ RecoveredStatus(x) = "executed" => x = "succeeded"
         /\ RecoveredStatus(x) # "executed" => RecoveredStatus(x) \in {"failed", "unknown"}
         /\ RecordedStatus(x) = "executed" => x = "success"
         /\ RecordedStatus(x) # "executed" => RecordedStatus(x) \in {"failed", "unknown"}
<1>1. CASE x \in {"succeeded", "failed", "denied"}
  BY <1>1 DEF RecoveredStatus, RecordedStatus
<1>2. CASE x \in {"success", "unknown"}
  BY <1>2 DEF RecoveredStatus, RecordedStatus
<1>3. CASE x \notin {"succeeded", "failed", "denied", "success", "unknown"}
  BY <1>3 DEF RecoveredStatus, RecordedStatus
<1> QED BY <1>1, <1>2, <1>3

LEMMA Simulation == ASSUME IInv, IInv', Next PROVE [OneShot!Next]_(OneShot!vars)
<1> USE DEF IInv, TypeOK
<1>1. ASSUME NEW a \in Approvals, CreateRequest(a) PROVE [OneShot!Next]_(OneShot!vars)
  BY <1>1, StatusStep, LiftStep DEF CreateRequest, Elsewhere, Row
<1>2. ASSUME NEW a \in Approvals, NEW g \in Groups, NEW p \in BOOLEAN, Approve(a, g, p)
      PROVE  [OneShot!Next]_(OneShot!vars)
  <2>1. Elsewhere(a)
    BY <1>2 DEF Approve, ApproveRow, Elsewhere
  <2>2. AbstractStep(a)
    BY <1>2, StatusStep DEF Approve, ApproveRow, MayDecide, Decision, Row
  <2> QED BY <2>1, <2>2, LiftStep
<1>3. ASSUME NEW a \in Approvals, NEW g \in Groups, Reject(a, g)
      PROVE  [OneShot!Next]_(OneShot!vars)
  BY <1>3, StatusStep, LiftStep DEF Reject, MayDecide, Elsewhere, Row
<1>4. ASSUME NEW a \in Approvals, LeaseExpires(a) PROVE [OneShot!Next]_(OneShot!vars)
  BY <1>4, InvisibleStep DEF LeaseExpires, Row
<1>5. ASSUME NEW a \in Approvals, TtlPasses(a) PROVE [OneShot!Next]_(OneShot!vars)
  BY <1>5, InvisibleStep DEF TtlPasses
<1>6. ASSUME NEW c \in Calls, NEW a \in Approvals, Claim(c, a)
      PROVE  [OneShot!Next]_(OneShot!vars)
  BY <1>6, StatusStep, LiftStep DEF Claim, Claimable, LeaseExpired, Elsewhere
<1>7. ASSUME NEW c \in Calls, NEW a \in Approvals, Expire(c, a)
      PROVE  [OneShot!Next]_(OneShot!vars)
  BY <1>7, StatusStep, LiftStep DEF Expire, Claimable, LeaseExpired, Elsewhere, Row
<1>8. ASSUME NEW c \in Calls, NEW a \in Approvals, Recover(c, a)
      PROVE  [OneShot!Next]_(OneShot!vars)
  <2>1. Elsewhere(a)
    BY <1>8 DEF Recover, Elsewhere
  <2>2. \/ approval'[a].status \in {"failed", "unknown"}
        \/ approval'[a].status = "executed" /\ effects[a] = 1
    <3>1. approval'[a].status = RecoveredStatus(journal[a]) /\ effects'[a] = effects[a]
      BY <1>8 DEF Recover, Closed
    <3>2. \/ RecoveredStatus(journal[a]) \in {"failed", "unknown"}
          \/ RecoveredStatus(journal[a]) = "executed" /\ journal[a] = "succeeded"
      BY VerdictRanges
    <3> QED BY <3>1, <3>2 DEF EffectsFollowJournal
  <2>3. AbstractStep(a)
    BY <1>8, <2>2, StatusStep DEF Recover, LeaseExpired
  <2> QED BY <2>1, <2>3, LiftStep
<1>9. ASSUME NEW c \in Calls, RecordOutcome(c) PROVE [OneShot!Next]_(OneShot!vars)
  <2>1. PICK a \in Approvals : a = call[c].of
    BY <1>9 DEF RecordOutcome
  <2>2. CASE OwnsClaim(c, a)
    <3>1. Elsewhere(a)
      BY <1>9, <2>1 DEF RecordOutcome, Elsewhere
    <3>2. \/ approval'[a].status \in {"failed", "unknown"}
          \/ approval'[a].status = "executed" /\ effects[a] = 1
      <4>1. approval'[a].status = RecordedStatus(call[c].outcome)
        BY <1>9, <2>1, <2>2 DEF RecordOutcome, Closed
      <4>2. \/ RecordedStatus(call[c].outcome) \in {"failed", "unknown"}
            \/ RecordedStatus(call[c].outcome) = "executed" /\ call[c].outcome = "success"
        BY VerdictRanges
      <4>3. call[c].outcome = "success" => effects[a] = 1
        BY <1>9, <2>1 DEF RecordOutcome, SuccessIsJournalled, EffectsFollowJournal
      <4> QED BY <4>1, <4>2, <4>3
    <3>3. AbstractStep(a)
      BY <1>9, <2>1, <2>2, <3>2, StatusStep DEF RecordOutcome, OwnsClaim
    <3> QED BY <2>1, <3>1, <3>3, LiftStep
  <2>3. CASE ~OwnsClaim(c, a)
    BY <1>9, <2>1, <2>3, InvisibleStep DEF RecordOutcome
  <2> QED BY <2>2, <2>3
<1>10. ASSUME NEW c \in Calls,
              \/ LookupJournal(c) \/ JournalDenial(c) \/ JournalAttempt(c)
              \/ JournalCollision(c) \/ FinishJournal(c) \/ FinishFails(c) \/ Die(c)
       PROVE  [OneShot!Next]_(OneShot!vars)
  BY <1>10, InvisibleStep DEF LookupJournal, JournalDenial, JournalAttempt, JournalCollision,
     FinishJournal, FinishFails, Die
<1>11. ASSUME NEW c \in Calls, NEW acted \in BOOLEAN,
              NEW o \in {"success", "failed", "unknown"}, CallTool(c, acted, o)
       PROVE  [OneShot!Next]_(OneShot!vars)
  <2>1. PICK a \in Approvals : a = call[c].of /\ a \in granted /\ effects[a] = 0
    BY <1>11 DEF CallTool, EffectsFollowJournal, OnlyGrantedRun
  <2>2. Elsewhere(a) /\ UNCHANGED <<approval, granted>>
    BY <1>11, <2>1 DEF CallTool, Elsewhere
  <2>3. effects'[a] \in {0, 1}
    BY <1>11, <2>1, 0 + 1 = 1 DEF CallTool
  <2>4. UNCHANGED <<PermissionOf(a), VerdictOf(a)>>
    BY <2>2 DEF PermissionOf, VerdictOf
  <2>6. PermissionOf(a) = "given"
    BY <2>1 DEF PermissionOf, OnlyGrantedRun
  <2>5. AbstractStep(a)
    BY <2>1, <2>3, <2>4, <2>6 DEF AbstractStep
  <2> QED BY <2>1, <2>2, <2>5, LiftStep
<1> QED
  BY NextCases, <1>1, <1>2, <1>3, <1>4, <1>5, <1>6, <1>7, <1>8, <1>9, <1>10, <1>11

(* The gateway and the executor keep the promise of OneShotAction: permission
   is given once, a permitted action takes effect at most once, and it is
   reported done only after it took effect.                                  *)
THEOREM Refinement == Spec => OneShotSpec
<1>1. Init => OneShot!Init
  BY DEF Init, OneShot!Init, Permission, Verdict, PermissionOf, VerdictOf, NoRow
<1>2. ASSUME UNCHANGED vars PROVE UNCHANGED OneShot!vars
  BY <1>2, InvisibleStep DEF vars
<1>3. IInv /\ IInv' /\ [Next]_vars => [OneShot!Next]_(OneShot!vars)
  BY <1>2, Simulation
<1> QED BY <1>1, <1>3, Invariance, PTL DEF Spec, OneShotSpec, OneShot!Spec
=============================================================================
