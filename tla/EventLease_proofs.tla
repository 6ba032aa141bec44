-------------------------- MODULE EventLease_proofs -------------------------
(***************************************************************************)
(* Proofs about EventLease, for any number of bots, messages and restarts. *)
(***************************************************************************)
EXTENDS EventLease, TLAPS

(* A lease that is over was seen to run out.                                 *)
LapseIsRecorded ==
  \A e \in Events : row[e].status = "processing" /\ ~row[e].leaseLive => e \in lapsed

(* Until its lease runs out, a message that was processed to the end is only
   waiting for its row to be marked.                                         *)
DoneIsAlmostClosed ==
  \A e \in Events : e \notin lapsed /\ successes[e] > 0 =>
    /\ successes[e] = 1
    /\ row[e].status \in {"processing", "completed"}
    /\ \A b \in Bots : /\ handler[b][e].pc # "working"
                       /\ handler[b][e].pc = "closing" => handler[b][e].ok

(* Only a claim gives a lease.                                               *)
LiveIsProcessing == \A e \in Events : row[e].leaseLive => row[e].status = "processing"

IInv == /\ TypeOK /\ StaleOnlyAfterLapse /\ LapseIsRecorded /\ DoneIsAlmostClosed
        /\ LiveIsProcessing

(* Only one bot's run moves in a step, and how.                              *)
LEMMA GotoStep ==
  ASSUME handler \in [Bots -> [Events -> Handler]], NEW b \in Bots, NEW e \in Events,
         NEW new \in Handler,
         handler' = [handler EXCEPT ![b][e] = new]
  PROVE  /\ handler' \in [Bots -> [Events -> Handler]]
         /\ handler'[b][e] = new
         /\ \A d \in Bots, f \in Events : d # b \/ f # e => handler'[d][f] = handler[d][f]
OBVIOUS

LEMMA PcStep ==
  ASSUME handler \in [Bots -> [Events -> Handler]], NEW b \in Bots, NEW e \in Events,
         NEW pc \in Place, Goto(b, e, pc)
  PROVE  /\ handler' = [handler EXCEPT ![b][e] = [handler[b][e] EXCEPT !.pc = pc]]
         /\ [handler[b][e] EXCEPT !.pc = pc] \in Handler
         /\ [handler[b][e] EXCEPT !.pc = pc].pc = pc
         /\ [handler[b][e] EXCEPT !.pc = pc].ok = handler[b][e].ok
<1>1. handler[b][e] \in Handler
  OBVIOUS
<1> QED BY <1>1 DEF Goto, Handler

(* What every step of a handler does to the handlers: the runs of b and e end
   in "new", all others stay.                                                *)
Moves(b, e, new) ==
  /\ new \in Handler
  /\ handler' \in [Bots -> [Events -> Handler]]
  /\ handler'[b][e] = new
  /\ \A d \in Bots, f \in Events : d # b \/ f # e => handler'[d][f] = handler[d][f]

LEMMA GotoMoves ==
  ASSUME TypeOK, NEW b \in Bots, NEW e \in Events, NEW pc \in Place, Goto(b, e, pc)
  PROVE  \E new : Moves(b, e, new) /\ new.pc = pc /\ new.ok = handler[b][e].ok
<1> DEFINE new == [handler[b][e] EXCEPT !.pc = pc]
<1>1. /\ handler' = [handler EXCEPT ![b][e] = new] /\ new \in Handler
      /\ new.pc = pc /\ new.ok = handler[b][e].ok
  BY PcStep DEF TypeOK
<1> HIDE DEF new
<1>2. Moves(b, e, new)
  BY <1>1, GotoStep DEF Moves, TypeOK
<1> QED BY <1>1, <1>2

LEMMA ReturnMoves ==
  ASSUME TypeOK, NEW b \in Bots, NEW e \in Events, Return(b, e)
  PROVE  Moves(b, e, IdleHandler)
<1>1. IdleHandler \in Handler
  BY DEF IdleHandler, Handler, Place
<1> QED BY <1>1, GotoStep DEF Moves, TypeOK, Return

LEMMA WorkMoves ==
  ASSUME TypeOK, NEW b \in Bots, NEW e \in Events, NEW ok \in BOOLEAN, Work(b, e, ok)
  PROVE  \E new : Moves(b, e, new) /\ new.pc = "closing" /\ new.ok = ok
<1> DEFINE new == [pc |-> "closing", seen |-> handler[b][e].seen,
                   prompt |-> handler[b][e].prompt, ok |-> ok]
<1>1. handler[b][e] \in Handler /\ new \in Handler
  BY DEF TypeOK, Handler, Place
<1>2. handler' = [handler EXCEPT ![b][e] = new]
  BY <1>1 DEF Work, TypeOK, Handler
<1>3. new.pc = "closing" /\ new.ok = ok
  OBVIOUS
<1> HIDE DEF new
<1> QED BY <1>1, <1>2, <1>3, GotoStep DEF Moves, TypeOK

-----------------------------------------------------------------------------
LEMMA InitIInv == ASSUME Init PROVE IInv
BY NoBotAssumption, BoundAssumption
DEF Init, IInv, TypeOK, StaleOnlyAfterLapse, LapseIsRecorded, DoneIsAlmostClosed, LiveIsProcessing,
    InFlight, NoRow, IdleHandler, Row, Handler, RowStatus, Place

(* A run that is not in flight before or after a step, while rows and histories
   stay, disturbs nothing.                                                   *)
LEMMA BystanderStep ==
  ASSUME IInv, NEW b \in Bots, NEW e \in Events, NEW new, Moves(b, e, new),
         new.pc \notin {"working", "closing"},
         UNCHANGED <<row, lapsed, successes, boot>>, received' \in [Bots -> SUBSET Events]
  PROVE  IInv'
<1>1. TypeOK'
  BY DEF Moves, IInv, TypeOK
<1>2. \A d \in Bots, f \in Events :
        handler'[d][f].pc \in {"working", "closing"} => handler'[d][f] = handler[d][f]
  BY DEF Moves
<1>3. StaleOnlyAfterLapse'
  BY <1>2 DEF IInv, StaleOnlyAfterLapse, InFlight
<1>4. LapseIsRecorded'
  BY DEF IInv, LapseIsRecorded
<1>5. DoneIsAlmostClosed'
  BY <1>2 DEF IInv, DoneIsAlmostClosed
<1>6. LiveIsProcessing'
  BY DEF IInv, LiveIsProcessing
<1> QED BY <1>1, <1>3, <1>4, <1>5, <1>6 DEF IInv

THEOREM NextIInv == ASSUME IInv, Next PROVE IInv'
<1> USE NoBotAssumption DEF IInv
<1>1. ASSUME NEW b \in Bots, NEW e \in Events, Deliver(b, e) PROVE IInv'
  <2>1. received' \in [Bots -> SUBSET Events]
    BY <1>1 DEF Deliver, TypeOK
  <2>2. PICK new : Moves(b, e, new) /\ new.pc = "arrived"
    BY <1>1, GotoMoves DEF Deliver, Place
  <2> QED BY <1>1, <2>1, <2>2, BystanderStep DEF Deliver
<1>2. ASSUME NEW b \in Bots, NEW e \in Events, ClaimEvent(b, e) PROVE IInv'
  <2>1. PICK new : Moves(b, e, new) /\ new.pc = "working"
    BY <1>2, GotoMoves DEF ClaimEvent, Place
  <2> DEFINE claimed == [status |-> "processing", attempt |-> row[e].attempt + 1,
                         owner |-> b, leaseLive |-> TRUE]
  <2>2. /\ row' = [row EXCEPT ![e] = claimed] /\ row[e] \in Row
        /\ UNCHANGED <<received, boot, lapsed, successes>> /\ Claimable(e)
    BY <1>2 DEF ClaimEvent, TypeOK
  <2>3. claimed \in Row /\ claimed.status = "processing" /\ claimed.owner = b /\ claimed.leaseLive
    BY <2>2 DEF Row, RowStatus
  <2> HIDE DEF claimed
  <2>4. TypeOK'
    BY <2>1, <2>2, <2>3 DEF TypeOK, Moves
  <2>5. e \notin lapsed => successes[e] = 0 /\ \A d \in Bots : ~InFlight(d, e)
    BY <2>2 DEF Claimable, LapseIsRecorded, StaleOnlyAfterLapse, DoneIsAlmostClosed, TypeOK, InFlight
  <2>6. StaleOnlyAfterLapse'
    BY <2>1, <2>2, <2>3, <2>5 DEF StaleOnlyAfterLapse, Moves, InFlight, TypeOK
  <2>7. LapseIsRecorded'
    BY <2>2, <2>3 DEF LapseIsRecorded, TypeOK
  <2>8. DoneIsAlmostClosed'
    BY <2>1, <2>2, <2>3, <2>5 DEF DoneIsAlmostClosed, Moves, TypeOK
  <2>9. LiveIsProcessing'
    BY <2>2, <2>3 DEF LiveIsProcessing, TypeOK
  <2> QED BY <2>4, <2>6, <2>7, <2>8, <2>9
<1>3. ASSUME NEW b \in Bots, NEW e \in Events, NEW prompt \in BOOLEAN, StartWaiting(b, e, prompt)
      PROVE IInv'
  <2> DEFINE new == [pc |-> "waiting", seen |-> row[e].attempt, prompt |-> prompt, ok |-> FALSE]
  <2>1. new \in Handler /\ new.pc = "waiting"
    BY DEF TypeOK, Row, Handler, Place
  <2>2. handler' = [handler EXCEPT ![b][e] = new]
    BY <1>3 DEF StartWaiting
  <2> HIDE DEF new
  <2>3. Moves(b, e, new)
    BY <2>1, <2>2, GotoStep DEF Moves, TypeOK
  <2> QED BY <1>3, <2>1, <2>3, BystanderStep DEF StartWaiting, TypeOK
<1>4. ASSUME NEW b \in Bots, NEW e \in Events, LoseRetry(b, e) \/ GiveUp(b, e) PROVE IInv'
  <2>1. Moves(b, e, IdleHandler) /\ IdleHandler.pc = "idle"
    BY <1>4, ReturnMoves DEF LoseRetry, GiveUp, IdleHandler
  <2> QED BY <1>4, <2>1, BystanderStep DEF LoseRetry, GiveUp, TypeOK
<1>5. ASSUME NEW b \in Bots, NEW e \in Events, Poll(b, e) PROVE IInv'
  <2>1. \E new : Moves(b, e, new) /\ new.pc \in {"idle", "retry"}
    BY <1>5, ReturnMoves, GotoMoves DEF Poll, IdleHandler, Place
  <2> QED BY <1>5, <2>1, BystanderStep DEF Poll, TypeOK
<1>6. ASSUME NEW b \in Bots, NEW e \in Events, NEW ok \in BOOLEAN, Work(b, e, ok) PROVE IInv'
  <2>1. PICK new : Moves(b, e, new) /\ new.pc = "closing" /\ new.ok = ok
    BY <1>6, WorkMoves
  <2>2. /\ handler[b][e].pc = "working" /\ UNCHANGED <<row, received, boot, lapsed>>
        /\ successes' = [successes EXCEPT ![e] = IF ok THEN successes[e] + 1 ELSE successes[e]]
    BY <1>6 DEF Work
  <2>3. TypeOK'
    BY <2>1, <2>2 DEF TypeOK, Moves
  <2>4. StaleOnlyAfterLapse' /\ LapseIsRecorded'
    <3>1. \A d \in Bots, f \in Events : InFlight(d, f)' => InFlight(d, f)
      BY <2>1, <2>2 DEF Moves, InFlight
    <3>2. StaleOnlyAfterLapse'
      BY <2>2, <3>1 DEF StaleOnlyAfterLapse
    <3>3. LapseIsRecorded'
      BY <2>2 DEF LapseIsRecorded
    <3> QED BY <3>2, <3>3
  <2>5. e \notin lapsed => /\ successes[e] = 0 /\ row[e].status = "processing"
                           /\ \A d \in Bots \ {b} : ~InFlight(d, e)
    BY <2>2 DEF DoneIsAlmostClosed, StaleOnlyAfterLapse, InFlight, TypeOK
  <2>6. DoneIsAlmostClosed'
    BY <2>1, <2>2, <2>5 DEF DoneIsAlmostClosed, Moves, InFlight, TypeOK
  <2>7. LiveIsProcessing'
    BY <2>2 DEF LiveIsProcessing
  <2> QED BY <2>3, <2>4, <2>6, <2>7
<1>7. ASSUME NEW b \in Bots, NEW e \in Events, MarkEvent(b, e) PROVE IInv'
  <2>1. Moves(b, e, IdleHandler) /\ IdleHandler.pc = "idle"
    BY <1>7, ReturnMoves DEF MarkEvent, IdleHandler
  <2> DEFINE closed == Closed(e, handler[b][e].ok)
  <2>2. /\ closed \in Row /\ closed.owner = NoBot /\ ~closed.leaseLive
        /\ closed.status = IF handler[b][e].ok THEN "completed" ELSE "failed"
    BY DEF Closed, Row, RowStatus, TypeOK
  <2>3. /\ row' = IF Owns(b, e) THEN [row EXCEPT ![e] = closed] ELSE row
        /\ handler[b][e].pc = "closing" /\ UNCHANGED <<received, boot, lapsed, successes>>
    BY <1>7 DEF MarkEvent
  <2> HIDE DEF closed
  <2>4. TypeOK'
    BY <2>1, <2>2, <2>3 DEF TypeOK, Moves
  <2>5. Owns(b, e) /\ e \notin lapsed => \A d \in Bots \ {b} : ~InFlight(d, e)
    BY DEF StaleOnlyAfterLapse, Owns
  <2>6. StaleOnlyAfterLapse'
    BY <2>1, <2>2, <2>3, <2>5 DEF StaleOnlyAfterLapse, Moves, InFlight, TypeOK
  <2>7. LapseIsRecorded'
    BY <2>2, <2>3 DEF LapseIsRecorded, TypeOK
  <2>8. DoneIsAlmostClosed'
    BY <2>1, <2>2, <2>3 DEF DoneIsAlmostClosed, Moves, TypeOK
  <2>9. LiveIsProcessing'
    BY <2>2, <2>3 DEF LiveIsProcessing, TypeOK
  <2> QED BY <2>4, <2>6, <2>7, <2>8, <2>9
<1>8. ASSUME NEW e \in Events, LeaseExpires(e) PROVE IInv'
  <2> DEFINE expired == [row[e] EXCEPT !.leaseLive = FALSE]
  <2>1. /\ row[e] \in Row /\ expired \in Row /\ expired.status = row[e].status
        /\ expired.owner = row[e].owner /\ ~expired.leaseLive
    BY DEF TypeOK, Row
  <2>2. /\ row' = [row EXCEPT ![e] = expired] /\ lapsed' = lapsed \cup {e}
        /\ UNCHANGED <<handler, received, boot, successes>>
    BY <1>8 DEF LeaseExpires
  <2> HIDE DEF expired
  <2>3. TypeOK'
    BY <2>1, <2>2 DEF TypeOK
  <2>4. LiveIsProcessing'
    BY <2>1, <2>2 DEF LiveIsProcessing, TypeOK
  <2> QED
    BY <2>1, <2>2, <2>3, <2>4
    DEF TypeOK, StaleOnlyAfterLapse, LapseIsRecorded, DoneIsAlmostClosed, InFlight
<1>9. ASSUME Crash PROVE IInv'
  <2>1. IdleHandler \in Handler /\ IdleHandler.pc = "idle"
    BY DEF IdleHandler, Handler, Place
  <2>2. TypeOK'
    BY <1>9, <2>1 DEF Crash, TypeOK
  <2>3. \A b \in Bots, e \in Events : handler'[b][e].pc = "idle"
    BY <1>9, <2>1 DEF Crash
  <2> QED
    BY <1>9, <2>2, <2>3
    DEF Crash, StaleOnlyAfterLapse, LapseIsRecorded, DoneIsAlmostClosed, LiveIsProcessing,
        InFlight
<1> QED
  BY <1>1, <1>2, <1>3, <1>4, <1>5, <1>6, <1>7, <1>8, <1>9 DEF Next, Handle

LEMMA Stutter == ASSUME IInv, UNCHANGED vars PROVE IInv'
BY DEF vars, IInv, TypeOK, StaleOnlyAfterLapse, LapseIsRecorded, DoneIsAlmostClosed,
       LiveIsProcessing, InFlight

(* The inductive invariant holds in every state of every behaviour.          *)
THEOREM Invariance == Spec => []IInv
<1>1. Init => IInv
  BY InitIInv
<1>2. IInv /\ [Next]_vars => IInv'
  BY NextIInv, Stutter
<1> QED BY <1>1, <1>2, PTL DEF Spec

(* Type correctness, and only a claimed row names an owner.                  *)
THEOREM TypeCorrect == Spec => []TypeOK
<1>1. IInv => TypeOK
  BY DEF IInv
<1> QED BY <1>1, Invariance, PTL

(* Until a message's lease runs out, only the holder of its row processes it:
   claim_event_owned keeps two bots from answering one message.              *)
THEOREM OneWorkerPerLease == Spec => []StaleOnlyAfterLapse
<1>1. IInv => StaleOnlyAfterLapse
  BY DEF IInv
<1> QED BY <1>1, Invariance, PTL

(* A message whose lease never ran out is processed to the end at most once,
   across failures, takeovers and restarts.                                  *)
THEOREM OnceUnlessLapsed == Spec => []SucceedsOnce
<1>1. IInv => SucceedsOnce
  BY DEF IInv, TypeOK, DoneIsAlmostClosed, SucceedsOnce
<1> QED BY <1>1, Invariance, PTL

-----------------------------------------------------------------------------
(* What ClosedByOwner says of one step and one message.                      *)
RowStep(e) ==
  /\ row[e].status = "completed" => row'[e] = row[e]
  /\ row[e].status = "processing" /\ row'[e].status # "processing"
       => row[e].owner \in Bots /\ handler[row[e].owner][e].pc = "closing"

LEMMA ClosedStep == ASSUME IInv, [Next]_vars, NEW e \in Events PROVE RowStep(e)
<1> USE DEF IInv, RowStep
<1>1. ASSUME row' = row PROVE RowStep(e)
  BY <1>1
<1>2. ASSUME NEW b \in Bots, NEW f \in Events, ClaimEvent(b, f) PROVE RowStep(e)
  BY <1>2 DEF ClaimEvent, Claimable, TypeOK
<1>3. ASSUME NEW b \in Bots, NEW f \in Events, MarkEvent(b, f) PROVE RowStep(e)
  <2>1. CASE Owns(b, f)
    <3> DEFINE closed == Closed(f, handler[b][f].ok)
    <3>1. row' = [row EXCEPT ![f] = closed] /\ handler[b][f].pc = "closing"
      BY <1>3, <2>1 DEF MarkEvent
    <3> HIDE DEF closed
    <3> QED BY <2>1, <3>1 DEF Owns, TypeOK
  <2>2. CASE ~Owns(b, f)
    BY <1>1, <1>3, <2>2 DEF MarkEvent
  <2> QED BY <2>1, <2>2
<1>4. ASSUME NEW f \in Events, LeaseExpires(f) PROVE RowStep(e)
  <2> DEFINE expired == [row[f] EXCEPT !.leaseLive = FALSE]
  <2>1. row[f] \in Row /\ row[f].leaseLive /\ row' = [row EXCEPT ![f] = expired]
    BY <1>4 DEF LeaseExpires, TypeOK
  <2>2. expired.status = row[f].status
    BY <2>1 DEF Row
  <2>3. row[f].status # "completed"
    BY <2>1 DEF LiveIsProcessing
  <2> HIDE DEF expired
  <2> QED BY <2>1, <2>2, <2>3 DEF TypeOK
<1> QED
  BY <1>1, <1>2, <1>3, <1>4
  DEF Next, Handle, Deliver, StartWaiting, LoseRetry, Poll, GiveUp, Work, Crash, vars

(* A completed message stays completed, and an attempt is closed by its holder
   only: the token in the WHERE clause of mark_event_* fences stale workers.  *)
THEOREM ClosedOnlyByOwner == Spec => ClosedByOwner
<1>1. IInv /\ [Next]_vars => [\A e \in Events : RowStep(e)]_vars
  BY ClosedStep
<1> QED BY <1>1, Invariance, PTL DEF Spec, ClosedByOwner, RowStep
=============================================================================
