-------------------------- MODULE AgentTurn_proofs --------------------------
(***************************************************************************)
(* Proofs about AgentTurn, for any tools, any limit of rounds and replies  *)
(* with any number of calls.                                               *)
(***************************************************************************)
EXTENDS AgentTurn, TLAPS

(* A turn has an outcome once it has ended, and returns nothing before.      *)
OpenUntilEnded == /\ outcome = "none" <=> pc # "ended"
                  /\ outcome = "none" => answeredAt = 0

(* What the runtime had to read itself it has read, or the turn is over.     *)
ForcedIsRead == outcome = "none" => forced \subseteq succeeded

(* The turn remembers each request it made, and made it once.                *)
RequestedIsPending == \A a \in Actions : requests[a] = IF a \in pending THEN 1 ELSE 0

(* A text without calls is looked at before anything else is read.           *)
TextInView == pc = "reply" /\ text => grounds = succeeded

(* What each round was for: the model's calls, a read of the runtime's, the retry
   of an empty reply, or the reply that is being looked at.                  *)
ForcedReads == (IF "open" \in forced THEN 1 ELSE 0) + (IF "snapshot" \in forced THEN 1 ELSE 0)
RoundsSpent ==
  outcome = "none" =>
    round = toolRounds + ForcedReads + emptyRetries + (IF pc = "reply" THEN 1 ELSE 0)

IInv == /\ TurnTypeOK /\ RepetitionEnds /\ AnswerHasEvidence
        /\ OpenUntilEnded /\ ForcedIsRead /\ RequestedIsPending
        /\ TextInView /\ RoundsSpent

-----------------------------------------------------------------------------
LEMMA InitIInv == ASSUME TurnInit PROVE IInv
<1>1. discovered \subseteq Tools
  BY FindingsAssumption DEF TurnInit, AutoDiscovered, Tools
<1>2. calls \in Seq(Call) /\ failed \in [Browser \X Errors -> 0..2]
  BY DEF TurnInit
<1>3. /\ round \in 0..MaxRounds /\ lastContent \in 0..round /\ answeredAt \in 0..round
      /\ emptyRetries \in 0..1 /\ toolRounds \in 0..round
  BY RoundsAssumption DEF TurnInit
<1>4. requests \in [Actions -> Nat] /\ RequestedIsPending
  BY DEF TurnInit, RequestedIsPending
<1>5. RepetitionEnds
  BY DEF TurnInit, RepetitionEnds
<1>6. TurnTypeOK
  BY <1>1, <1>2, <1>3, <1>4 DEF TurnInit, TurnTypeOK
<1>7. RoundsSpent
  BY DEF TurnInit, RoundsSpent, ForcedReads
<1> QED BY <1>4, <1>5, <1>6, <1>7
        DEF IInv, TurnInit, AnswerHasEvidence, OpenUntilEnded, ForcedIsRead, TextInView

(* The answer to a call leaves the calls a list, and none behind a round.    *)
LEMMA AnsweredCalls ==
  ASSUME TurnTypeOK, calls # <<>>, Answered
  PROVE  /\ calls' \in Seq(Call)
         /\ pc' \in {"model", "tools"}
         /\ pc' = "model" => calls' = <<>>
         /\ UNCHANGED <<asked, ending, historyVars>>
<1>1. Tail(calls) \in Seq(Call)
  BY DEF TurnTypeOK
<1> QED BY <1>1 DEF Answered, Continue

(* A failure is counted; if it is the second of its kind the turn ends.      *)
LEMMA FailureStep ==
  ASSUME IInv, pc = "tools", calls # <<>>, NEW t \in Tools, NEW error \in Errors,
         Fails(t, error)
  PROVE  /\ failed' \in [Browser \X Errors -> 0..2]
         /\ RepetitionEnds'
         /\ calls' \in Seq(Call)
         /\ UNCHANGED <<asked, historyVars>>
         /\ \/ pc' \in {"model", "tools"} /\ UNCHANGED ending
            \/ pc' = "ended" /\ outcome' = "notice" /\ answeredAt' = 0
         /\ pc' = "model" => calls' = <<>>
<1>1. outcome = "none" /\ TurnTypeOK /\ RepetitionEnds
  BY DEF IInv, OpenUntilEnded
<1>2. CASE t \notin Browser
  <2>1. Answered /\ failed' = failed
    BY <1>2 DEF Fails
  <2> QED BY <1>1, <2>1, AnsweredCalls DEF RepetitionEnds, TurnTypeOK, ending
<1>3. CASE t \in Browser
  <2> DEFINE k == <<t, error>>
  <2>1. k \in Browser \X Errors
    BY <1>3
  <2>2. failed \in [Browser \X Errors -> 0..2]
    BY <1>1 DEF TurnTypeOK
  <2>3. \A l \in Browser \X Errors : failed[l] <= 1
    <3> SUFFICES ASSUME NEW d \in Browser, NEW f \in Errors PROVE failed[<<d, f>>] <= 1
      OBVIOUS
    <3>1. ~(failed[<<d, f>>] >= 2)
      BY <1>1 DEF RepetitionEnds
    <3>2. failed[<<d, f>>] \in 0..2
      BY <2>2
    <3> QED BY <3>1, <3>2
  <2>4. failed' = [failed EXCEPT ![k] = @ + 1]
    BY <1>3 DEF Fails
  <2>5. failed' \in [Browser \X Errors -> 0..2]
    BY <2>1, <2>2, <2>3, <2>4
  <2>6. IF failed[k] + 1 >= 2 THEN End("notice", 0) /\ calls' = Tail(calls) ELSE Answered
    BY <1>3 DEF Fails, Repeated
  <2>7. \A l \in Browser \X Errors : failed'[l] >= 2 => l = k /\ failed[k] + 1 >= 2
    BY <2>1, <2>2, <2>3, <2>4
  <2>8. CASE failed[k] + 1 >= 2
    <3>1. /\ pc' = "ended" /\ outcome' = "notice" /\ answeredAt' = 0
          /\ UNCHANGED <<asked, historyVars>>
      BY <2>6, <2>8 DEF End
    <3>2. calls' \in Seq(Call)
      <4>1. calls' = Tail(calls)
        BY <2>6, <2>8
      <4>2. calls \in Seq(Call)
        BY <1>1 DEF TurnTypeOK
      <4> QED BY <4>1, <4>2
    <3>3. RepetitionEnds'
      BY <3>1 DEF RepetitionEnds
    <3> QED BY <2>5, <3>1, <3>2, <3>3
  <2>9. CASE ~(failed[k] + 1 >= 2)
    <3>1. Answered
      BY <2>6, <2>9
    <3>2. RepetitionEnds'
      BY <2>7, <2>9 DEF RepetitionEnds
    <3> QED BY <1>1, <2>5, <3>1, <3>2, AnsweredCalls
  <2> QED BY <2>8, <2>9
<1> QED BY <1>2, <1>3

(* Where no read is required, everything that was asked for has been read.   *)
LEMMA NothingRequired ==
  ASSUME RequiredRead = "none", forced \subseteq succeeded, grounds = succeeded
  PROVE  Grounded
BY DEF RequiredRead, Unread, Grounded, InBrowser

(* The runtime's own reads and its retry take three rounds at most.          *)
LEMMA ThreeOwnRounds ==
  ASSUME IInv, pc = "model", round = MaxRounds
  PROVE  toolRounds + 3 >= MaxRounds
<1>1. /\ emptyRetries \in 0..1 /\ toolRounds \in Nat /\ ForcedReads \in 0..2
      /\ MaxRounds = toolRounds + ForcedReads + emptyRetries
  BY RoundsAssumption DEF IInv, TurnTypeOK, OpenUntilEnded, RoundsSpent, ForcedReads
<1> QED BY <1>1

-----------------------------------------------------------------------------
LEMMA AskModelStep ==
  ASSUME IInv, NEW hasText \in BOOLEAN, NEW list \in Replies, AskModel(hasText, list)
  PROVE  IInv'
<1>1. round \in 0..MaxRounds /\ lastContent \in 0..round /\ outcome = "none" /\ answeredAt \in 0..round
  BY DEF IInv, TurnTypeOK, OpenUntilEnded, AskModel
<1>2. /\ round' = round + 1 /\ round < MaxRounds /\ pc = "model" /\ answeredAt = 0
      /\ lastContent' = IF hasText THEN round + 1 ELSE lastContent
      /\ text' = hasText /\ calls' = list /\ UNCHANGED <<asked, ending, memory>>
      /\ pc' = IF list = <<>> THEN "reply" ELSE "tools"
      /\ grounds' = IF hasText THEN succeeded ELSE grounds
      /\ toolRounds' = IF list = <<>> THEN toolRounds ELSE toolRounds + 1
  BY DEF AskModel, NextRound, IInv, OpenUntilEnded
<1>3. /\ round' \in 0..MaxRounds /\ lastContent' \in 0..round' /\ answeredAt' \in 0..round'
      /\ grounds' \subseteq Browser /\ toolRounds' \in 0..round'
  BY <1>1, <1>2, RoundsAssumption DEF ending, IInv, TurnTypeOK
<1>4. list \in Seq(Call)
  BY RoundsAssumption DEF Replies
<1>5. TurnTypeOK'
  BY <1>2, <1>3, <1>4 DEF IInv, TurnTypeOK, asked, ending, memory
<1>6. RoundsSpent'
  <2>1. toolRounds \in Nat /\ emptyRetries \in Nat /\ ForcedReads \in Nat
    BY <1>1, RoundsAssumption DEF IInv, TurnTypeOK, ForcedReads
  <2>2. round = toolRounds + ForcedReads + emptyRetries /\ UNCHANGED <<forced, emptyRetries>>
    BY <1>1, <1>2, <2>1 DEF IInv, RoundsSpent, memory
  <2>3. ForcedReads' = ForcedReads
    BY <2>2 DEF ForcedReads
  <2> QED BY <1>2, <2>1, <2>2, <2>3 DEF RoundsSpent
<1> QED BY <1>1, <1>2, <1>5, <1>6 DEF IInv, RepetitionEnds, AnswerHasEvidence, OpenUntilEnded,
     ForcedIsRead, RequestedIsPending, TextInView, asked, ending, memory

(* The turn ends and forgets nothing.                                        *)
LEMMA EndStep ==
  ASSUME IInv, pc # "ended", NEW how \in {"answer", "leftover", "fallback", "notice", "raised"},
         NEW at \in 0..round, End(how, at), UNCHANGED <<reply, memory, calls>>,
         how = "answer" => pc = "reply" /\ text /\ RequiredRead = "none",
         how = "leftover" => toolRounds + 3 >= MaxRounds,
         how \notin {"answer", "leftover"} => at = 0
  PROVE  IInv'
<1>1. outcome = "none" /\ forced \subseteq succeeded
  BY DEF IInv, OpenUntilEnded, ForcedIsRead
<1>2. pc' = "ended" /\ outcome' = how /\ answeredAt' = at /\ UNCHANGED historyVars
  BY DEF End
<1>3. TurnTypeOK'
  BY <1>2 DEF IInv, TurnTypeOK, End, asked, reply, memory, historyVars
<1>4. RepetitionEnds'
  BY <1>1 DEF IInv, RepetitionEnds, memory
<1>5. AnswerHasEvidence'
  <2>1. Grounded' = Grounded
    BY <1>2 DEF Grounded, InBrowser, End, asked, historyVars
  <2>2. how = "answer" => Grounded
    BY <1>1, NothingRequired DEF IInv, TextInView
  <2> QED BY <1>2, <2>1, <2>2 DEF AnswerHasEvidence, historyVars
<1> QED BY <1>2, <1>3, <1>4, <1>5 DEF IInv, OpenUntilEnded, ForcedIsRead, RequestedIsPending,
     TextInView, RoundsSpent, memory

LEMMA ForceReadStep ==
  ASSUME IInv, NEW read \in {"open", "snapshot"}, ForceRead(read)
  PROVE  IInv'
<1>1. outcome = "none" /\ pc = "reply" /\ pc' = "model" /\ calls = <<>>
  BY DEF IInv, OpenUntilEnded, ForceRead, Continue, TurnTypeOK
<1>2. TurnTypeOK'
  BY <1>1, BrowserAssumption
  DEF IInv, TurnTypeOK, ForceRead, Continue, asked, reply, ending, historyVars
<1>3. RoundsSpent'
  <2>1. read \notin forced /\ forced' = forced \cup {read}
    BY DEF ForceRead, RequiredRead, Unread
  <2>2. ForcedReads' = ForcedReads + 1
    BY <2>1 DEF ForcedReads
  <2>3. round = toolRounds + ForcedReads + emptyRetries + 1
    BY <1>1 DEF IInv, RoundsSpent
  <2>4. toolRounds \in Nat /\ emptyRetries \in Nat /\ ForcedReads \in Nat
    BY RoundsAssumption DEF IInv, TurnTypeOK, ForcedReads
  <2>5. UNCHANGED <<round, toolRounds, emptyRetries>>
    BY DEF ForceRead, Continue, reply, historyVars
  <2> QED BY <1>1, <2>2, <2>3, <2>4, <2>5 DEF RoundsSpent
<1> QED BY <1>1, <1>2, <1>3 DEF IInv, RepetitionEnds, AnswerHasEvidence, OpenUntilEnded,
     ForcedIsRead, RequestedIsPending, TextInView, ForceRead, Continue, asked, ending

LEMMA ReadFailsStep ==
  ASSUME IInv, NEW read \in {"open", "snapshot"}, ReadFails(read)
  PROVE  IInv'
<1>1. outcome = "none" /\ pc' = "ended" /\ outcome' = "notice" /\ answeredAt' = 0
  BY DEF IInv, OpenUntilEnded, ReadFails, End
<1>2. round \in Nat
  BY RoundsAssumption DEF IInv, TurnTypeOK
<1>3. TurnTypeOK'
  BY <1>1, <1>2 DEF IInv, TurnTypeOK, ReadFails, End, asked, reply, historyVars
<1> QED BY <1>1, <1>3 DEF IInv, RepetitionEnds, AnswerHasEvidence, OpenUntilEnded,
     ForcedIsRead, RequestedIsPending, TextInView, RoundsSpent, ReadFails

LEMMA RetryEmptyStep ==
  ASSUME IInv, RetryEmpty PROVE IInv'
<1>1. outcome = "none" /\ pc = "reply" /\ pc' = "model" /\ calls = <<>>
  BY DEF IInv, OpenUntilEnded, RetryEmpty, Continue, TurnTypeOK
<1>2. emptyRetries' \in 0..1
  BY DEF IInv, TurnTypeOK, RetryEmpty
<1>3. TurnTypeOK'
  BY <1>1, <1>2 DEF IInv, TurnTypeOK, RetryEmpty, Continue, asked, reply, ending, historyVars
<1>4. RoundsSpent'
  <2>1. round = toolRounds + ForcedReads + emptyRetries + 1
    BY <1>1 DEF IInv, RoundsSpent
  <2>2. toolRounds \in Nat /\ emptyRetries \in Nat /\ ForcedReads \in Nat
    BY RoundsAssumption DEF IInv, TurnTypeOK, ForcedReads
  <2>3. UNCHANGED <<round, toolRounds, ForcedReads>> /\ emptyRetries' = emptyRetries + 1
    BY DEF RetryEmpty, Continue, reply, historyVars, ForcedReads
  <2> QED BY <1>1, <2>1, <2>2, <2>3 DEF RoundsSpent
<1> QED BY <1>1, <1>3, <1>4 DEF IInv, RepetitionEnds, AnswerHasEvidence, OpenUntilEnded,
     ForcedIsRead, RequestedIsPending, TextInView, RetryEmpty, Continue, asked, ending

(* A round that goes on answering its calls has been counted.                *)
LEMMA SameRound ==
  ASSUME IInv, pc = "tools", pc' \in {"model", "tools", "ended"},
         pc' = "ended" => outcome' # "none",
         UNCHANGED <<round, toolRounds, forced, emptyRetries>>
  PROVE  RoundsSpent' /\ TextInView'
<1>1. ForcedReads' = ForcedReads
  BY DEF ForcedReads
<1>2. outcome = "none"
  BY DEF IInv, OpenUntilEnded
<1> QED BY <1>1, <1>2 DEF IInv, RoundsSpent, TextInView

(* A call that fails touches nothing but the count and its place in the list. *)
LEMMA FailsStep ==
  ASSUME IInv, pc = "tools", calls # <<>>, NEW t \in Tools, NEW error \in Errors,
         Fails(t, error),
         UNCHANGED <<reply, discovered, succeeded, forced, pending, emptyRetries, requests>>
  PROVE  IInv'
<1>1. /\ failed' \in [Browser \X Errors -> 0..2] /\ RepetitionEnds'
      /\ calls' \in Seq(Call) /\ UNCHANGED <<asked, historyVars>>
      /\ \/ pc' \in {"model", "tools"} /\ UNCHANGED ending
         \/ pc' = "ended" /\ outcome' = "notice" /\ answeredAt' = 0
      /\ pc' = "model" => calls' = <<>>
  BY FailureStep
<1>2. outcome = "none" /\ answeredAt = 0 /\ round \in Nat
  BY RoundsAssumption DEF IInv, OpenUntilEnded, TurnTypeOK
<1>3. TurnTypeOK'
  BY <1>1, <1>2 DEF IInv, TurnTypeOK, asked, reply, ending, historyVars
<1>4. RoundsSpent' /\ TextInView'
  BY <1>1, SameRound DEF reply, historyVars
<1> QED BY <1>1, <1>2, <1>3, <1>4 DEF IInv, AnswerHasEvidence, OpenUntilEnded, ForcedIsRead,
     RequestedIsPending, ending

(* The row is made and remembered in the same step.                          *)
LEMMA RequestKept ==
  ASSUME IInv, NEW t \in Actions,
         requests' = IF IsNew(t) THEN [requests EXCEPT ![t] = @ + 1] ELSE requests,
         pending' = pending \cup {t}
  PROVE  RequestedIsPending' /\ requests' \in [Actions -> Nat] /\ pending' \subseteq Actions
BY DEF IInv, TurnTypeOK, RequestedIsPending, IsNew

LEMMA ProposeStep ==
  ASSUME IInv, NEW c \in Call, Propose(c) PROVE IInv'
<1>1. RequestedIsPending' /\ requests' \in [Actions -> Nat] /\ pending' \subseteq Actions
  BY RequestKept DEF Propose
<1>2. /\ calls' \in Seq(Call) /\ pc' \in {"model", "tools"}
      /\ pc' = "model" => calls' = <<>>
      /\ UNCHANGED <<asked, ending, historyVars>>
  BY AnsweredCalls DEF IInv, Propose
<1>3. outcome = "none" /\ answeredAt = 0
  BY DEF IInv, OpenUntilEnded, Propose
<1>4. TurnTypeOK'
  BY <1>1, <1>2 DEF IInv, TurnTypeOK, Propose, asked, reply, ending, historyVars
<1>5. RoundsSpent' /\ TextInView'
  BY <1>2, SameRound DEF Propose, reply, historyVars
<1> QED BY <1>1, <1>2, <1>3, <1>4, <1>5 DEF IInv, RepetitionEnds, AnswerHasEvidence,
     OpenUntilEnded, ForcedIsRead, Propose, asked, ending

LEMMA ProposeFailsStep ==
  ASSUME IInv, NEW c \in Call, ProposeFails(c) PROVE IInv'
<1>1. RequestedIsPending' /\ requests' \in [Actions -> Nat] /\ pending' \subseteq Actions
  BY RequestKept DEF ProposeFails
<1>2. /\ pc' = "ended" /\ outcome' = "raised" /\ answeredAt' = 0
      /\ UNCHANGED <<asked, historyVars>>
  BY DEF ProposeFails, End
<1>3. outcome = "none" /\ round \in Nat
  BY RoundsAssumption DEF IInv, OpenUntilEnded, TurnTypeOK, ProposeFails
<1>4. TurnTypeOK'
  BY <1>1, <1>2, <1>3 DEF IInv, TurnTypeOK, ProposeFails, asked, reply, historyVars
<1>5. RoundsSpent' /\ TextInView'
  BY <1>2 DEF RoundsSpent, TextInView
<1> QED BY <1>1, <1>2, <1>3, <1>4, <1>5 DEF IInv, RepetitionEnds, AnswerHasEvidence,
     OpenUntilEnded, ForcedIsRead, ProposeFails

LEMMA RunStep ==
  ASSUME IInv, NEW c \in Call, NEW found \in Findings, Run(c, found) PROVE IInv'
<1>1. /\ calls' \in Seq(Call) /\ pc' \in {"model", "tools"}
      /\ pc' = "model" => calls' = <<>>
      /\ UNCHANGED <<asked, ending, historyVars>>
  BY AnsweredCalls DEF IInv, Run
<1>2. outcome = "none" /\ answeredAt = 0 /\ succeeded \subseteq succeeded'
  BY DEF IInv, OpenUntilEnded, Run
<1>3. discovered' \subseteq Tools /\ succeeded' \subseteq Browser
  BY FindingsAssumption DEF IInv, TurnTypeOK, Run, Tools
<1>4. TurnTypeOK'
  BY <1>1, <1>3 DEF IInv, TurnTypeOK, Run, asked, reply, ending, historyVars
<1>5. RoundsSpent' /\ TextInView'
  BY <1>1, SameRound DEF Run, reply, historyVars
<1> QED BY <1>1, <1>2, <1>4, <1>5 DEF IInv, RepetitionEnds, AnswerHasEvidence, OpenUntilEnded,
     ForcedIsRead, RequestedIsPending, Run, asked, ending

LEMMA NextIInv == ASSUME IInv, TurnNext PROVE IInv'
<1>0. round \in Nat /\ lastContent \in 0..round
  BY RoundsAssumption DEF IInv, TurnTypeOK
<1>1. ASSUME NEW hasText \in BOOLEAN, NEW list \in Replies, AskModel(hasText, list) PROVE IInv'
  BY <1>1, AskModelStep
<1>2. CASE RoundsUsedUp
  BY <1>0, <1>2, EndStep, ThreeOwnRounds DEF RoundsUsedUp
<1>3. CASE Raise
  BY <1>0, <1>3, EndStep DEF Raise
<1>4. ASSUME NEW read \in {"open", "snapshot"}, ForceRead(read) \/ ReadFails(read) PROVE IInv'
  BY <1>4, ForceReadStep, ReadFailsStep
<1>5. CASE Answer
  BY <1>0, <1>5, EndStep DEF Answer
<1>6. CASE RetryEmpty
  BY <1>6, RetryEmptyStep
<1>7. CASE GiveUpEmpty
  BY <1>0, <1>7, EndStep DEF GiveUpEmpty
<1>8. ASSUME NEW c \in Call, Refuse(c) PROVE IInv'
  BY <1>8, FailsStep DEF Refuse, Call, Errors
<1>9. ASSUME NEW c \in Call, Propose(c) \/ ProposeFails(c) PROVE IInv'
  BY <1>9, ProposeStep, ProposeFailsStep
<1>10. ASSUME NEW c \in Call, NEW found \in Findings, Run(c, found) PROVE IInv'
  BY <1>10, RunStep
<1>11. ASSUME NEW c \in Call, NEW error \in ToolErrors, RunFails(c, error) PROVE IInv'
  BY <1>11, FailsStep DEF RunFails, Call, Errors
<1> QED BY <1>1, <1>2, <1>3, <1>4, <1>5, <1>6, <1>7, <1>8, <1>9, <1>10, <1>11 DEF TurnNext

LEMMA StutterIInv == ASSUME IInv, UNCHANGED turnVars PROVE IInv'
BY DEF IInv, TurnTypeOK, RepetitionEnds, AnswerHasEvidence, Grounded, OpenUntilEnded,
   ForcedIsRead, RequestedIsPending, TextInView, RoundsSpent, ForcedReads, InBrowser, turnVars,
   asked, reply, memory, ending, historyVars

(* The invariant holds in every state of every turn.                         *)
THEOREM Invariance == TurnSpec => []IInv
<1>1. TurnInit => IInv
  BY InitIInv
<1>2. IInv /\ [TurnNext]_turnVars => IInv'
  BY NextIInv, StutterIInv
<1> QED BY <1>1, <1>2, PTL DEF TurnSpec

(* Every variable of a turn keeps its type (runtime.py:338).                 *)
THEOREM TypeCorrect == TurnSpec => []TurnTypeOK
<1>1. IInv => TurnTypeOK
  BY DEF IInv
<1> QED BY <1>1, Invariance, PTL

(* A text about a page was written with the page in view, for any tools and any
   number of rounds; only the text left over when the rounds are used up may not
   have been, and then all rounds but three went to the model's own calls
   (runtime.py:372-419, 487-489).                                            *)
THEOREM Evidence == TurnSpec => []AnswerHasEvidence
<1>1. IInv => AnswerHasEvidence
  BY DEF IInv
<1> QED BY <1>1, Invariance, PTL

(* A turn asks for the same action once (runtime.py:452-458).                *)
THEOREM AskedOnce == TurnSpec => []OneRequestPerAction
<1>1. IInv => OneRequestPerAction
  BY DEF IInv, RequestedIsPending, OneRequestPerAction
<1> QED BY <1>1, Invariance, PTL

(* The second equal failure of a browser tool ends the turn
   (runtime.py:476-486).                                                     *)
THEOREM RepetitionStops == TurnSpec => []RepetitionEnds
<1>1. IInv => RepetitionEnds
  BY DEF IInv
<1> QED BY <1>1, Invariance, PTL
=============================================================================
