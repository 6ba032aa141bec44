------------------------------ MODULE AgentTurn -----------------------------
(***************************************************************************)
(* One turn of an agent (AgentRuntime.execute in src/src/agents/runtime.py) *)
(* from its first model call to the text it returns: the rounds, the tools *)
(* the model may call, the requests for approval it causes, and the pages  *)
(* the runtime reads on its own before it lets a browser answer pass.      *)
(*                                                                         *)
(* A tool stands for the tool with its arguments.  What the model replies  *)
(* is any text or none and any short list of calls; what a tool answers is *)
(* a success or one of its errors; every await may raise instead.          *)
(***************************************************************************)
EXTENDS Naturals, Sequences

CONSTANTS
  Reads,          \* local tools that need no approval
  Actions,        \* external actions
  Browser,        \* the tools of the browser domain
  Findings,       \* the sets of tools a search may find
  ToolErrors,     \* what a tool that fails may say
  MaxRounds,      \* max_tool_rounds
  MaxCalls        \* bound: calls in one reply of the model

ASSUME RoundsAssumption == MaxRounds \in Nat \ {0} /\ MaxCalls \in Nat
ASSUME BrowserAssumption == {"open", "snapshot"} \subseteq Browser
ASSUME ActionsAssumption == Actions \cap (Reads \cup {"open", "snapshot", "search"}) = {}
ASSUME FindingsAssumption ==
  Findings \subseteq SUBSET ({"open", "snapshot"} \cup Reads \cup Actions \cup Browser)
ASSUME ErrorsAssumption == {"invalid", "undiscovered"} \cap ToolErrors = {}

VARIABLES
  asks,           \* what the message asks for: "browser", "inspection"
  inThread,       \* the message continues a conversation
  hasUrl,         \* the message names a page
  pc,             \* "model", "reply", "tools" or "ended"
  round,          \* model calls so far
  text,           \* the last reply has a text
  lastContent,    \* the round of the last text, 0 before the first
  calls,          \* calls of the last reply still to be answered
  discovered,     \* tools the model may call
  succeeded,      \* successful_browser_tools
  forced,         \* forced_browser_attempts
  failed,         \* failed_tool_calls of the browser
  pending,        \* pending_approvals
  emptyRetries,   \* empty_final_retries
  requests,       \* rows this turn made in approvals for each action
  outcome,        \* how the turn ended
  answeredAt,     \* the round of the text that was returned
  grounds,        \* browser tools that had succeeded at the last text (history)
  toolRounds      \* rounds whose reply called tools (history)

asked == <<asks, inThread, hasUrl>>
reply == <<round, text, lastContent>>
memory == <<discovered, succeeded, forced, failed, pending, emptyRetries, requests>>
ending == <<outcome, answeredAt>>
historyVars == <<grounds, toolRounds>>
turnVars == <<asked, reply, memory, ending, historyVars, pc, calls>>

Tools == {"search", "open", "snapshot"} \cup Reads \cup Actions \cup Browser
Errors == {"invalid", "undiscovered"} \cup ToolErrors
Call == [tool : Tools, valid : BOOLEAN]
Replies == UNION {[1..n -> Call] : n \in 0..MaxCalls}

(* browser_requested and settings.browser_enabled.                           *)
InBrowser == "browser" \in asks

(* The text is searched first, and a browser request gets the two reads.     *)
AutoDiscovered ==
  {found \cup (IF InBrowser THEN {"open", "snapshot"} ELSE {}) : found \in Findings}

TurnInit ==
  /\ asks \in SUBSET {"browser", "inspection"}
  /\ inThread \in BOOLEAN /\ hasUrl \in BOOLEAN
  /\ pc = "model" /\ round = 0 /\ text = FALSE /\ lastContent = 0 /\ calls = <<>>
  /\ discovered \in AutoDiscovered
  /\ succeeded = {} /\ forced = {} /\ pending = {}
  /\ failed = [k \in Browser \X Errors |-> 0]
  /\ emptyRetries = 0
  /\ requests = [a \in Actions |-> 0]
  /\ outcome = "none" /\ answeredAt = 0
  /\ grounds = {} /\ toolRounds = 0

End(how, at) ==
  /\ pc' = "ended" /\ outcome' = how /\ answeredAt' = at
  /\ UNCHANGED <<asked, historyVars>>

Continue(place) == pc' = place /\ UNCHANGED <<asked, ending, historyVars>>

-----------------------------------------------------------------------------
(* The model.                                                                *)

(* Mutant: only a round that calls tools is counted.                         *)
RoundUnlessText(hasText) == IF hasText THEN round ELSE round + 1

NextRound(hasText) == round + 1

AskModel(hasText, list) ==
  /\ pc = "model" /\ round < MaxRounds
  /\ round' = NextRound(hasText) /\ text' = hasText /\ calls' = list
  /\ lastContent' = IF hasText THEN round + 1 ELSE lastContent
  /\ pc' = IF list = <<>> THEN "reply" ELSE "tools"
  /\ grounds' = IF hasText THEN succeeded ELSE grounds
  /\ toolRounds' = IF list = <<>> THEN toolRounds ELSE toolRounds + 1
  /\ UNCHANGED <<asked, ending, memory>>

(* After the last round the last text is returned, whatever came after it.   *)
RoundsUsedUp ==
  /\ pc = "model" /\ round = MaxRounds
  /\ End(IF lastContent > 0 THEN "leftover" ELSE "fallback", lastContent)
  /\ UNCHANGED <<reply, memory, calls>>

(* A model call, a request for approval or a journal row raises.             *)
Raise ==
  /\ pc = "model" => round < MaxRounds
  /\ pc # "ended"
  /\ End("raised", 0)
  /\ UNCHANGED <<reply, memory, calls>>

-----------------------------------------------------------------------------
(* A reply without calls.                                                    *)
Unread(t) == t \notin succeeded \cup forced

(* Mutant: a page is opened only for a request that inspects it.             *)
RequiredReadIfInspected ==
  CASE "inspection" \in asks /\ InBrowser /\ Unread("snapshot")
         /\ ("open" \in succeeded \/ inThread) -> "snapshot"
    [] InBrowser /\ Unread("open") /\ ~inThread /\ "inspection" \in asks -> "open"
    [] OTHER -> "none"

(* Mutant: a page that was opened counts as read.                            *)
RequiredReadIfUnopened ==
  CASE InBrowser /\ Unread("open") /\ ~inThread -> "open"
    [] OTHER -> "none"

(* What the runtime reads itself before it lets an answer pass: the page of
   the thread or the one just opened, or else the page the message names.
   The last read is out of reach: a forced open succeeds or ends the turn.   *)
RequiredRead ==
  CASE "inspection" \in asks /\ InBrowser /\ Unread("snapshot")
         /\ ("open" \in succeeded \/ inThread) -> "snapshot"
    [] InBrowser /\ Unread("open") /\ ~inThread -> "open"
    [] "inspection" \in asks /\ InBrowser /\ Unread("snapshot") -> "snapshot"
    [] OTHER -> "none"

ForceRead(read) ==
  /\ pc = "reply" /\ RequiredRead = read
  /\ read = "open" => hasUrl
  /\ forced' = forced \cup {read}
  /\ succeeded' = succeeded \cup {read}
  /\ Continue("model")
  /\ UNCHANGED <<reply, calls, discovered, failed, pending, emptyRetries, requests>>

(* The read fails, or there is no page to open: the user is told so.         *)
ReadFails(read) ==
  /\ pc = "reply" /\ RequiredRead = read
  /\ forced' = IF read = "open" /\ ~hasUrl THEN forced ELSE forced \cup {read}
  /\ End("notice", 0)
  /\ UNCHANGED <<reply, calls, discovered, succeeded, failed, pending, emptyRetries, requests>>

Answer ==
  /\ pc = "reply" /\ RequiredRead = "none" /\ text
  /\ End("answer", round)
  /\ UNCHANGED <<reply, memory, calls>>

RetryEmpty ==
  /\ pc = "reply" /\ RequiredRead = "none" /\ ~text /\ emptyRetries < 1
  /\ emptyRetries' = emptyRetries + 1
  /\ Continue("model")
  /\ UNCHANGED <<reply, calls, discovered, succeeded, forced, failed, pending, requests>>

GiveUpEmpty ==
  /\ pc = "reply" /\ RequiredRead = "none" /\ ~text /\ emptyRetries = 1
  /\ End("fallback", 0)
  /\ UNCHANGED <<reply, memory, calls>>

-----------------------------------------------------------------------------
(* A reply with calls, answered one after the other.                         *)
Callable(c) == c.valid /\ c.tool \in discovered \cup {"search"}

(* The result is in the context; the next call, or the next round, follows.  *)
Answered ==
  /\ calls' = Tail(calls)
  /\ Continue(IF Tail(calls) = <<>> THEN "model" ELSE "tools")

(* Mutant: the third failure ends the turn.                                  *)
RepeatedTwice(k) == failed[k] + 1 > 2

Repeated(k) == failed[k] + 1 >= 2

(* An error result; the browser failing twice in the same way ends the turn. *)
Fails(t, error) ==
  IF t \notin Browser THEN Answered /\ UNCHANGED failed
  ELSE /\ failed' = [failed EXCEPT ![<<t, error>>] = @ + 1]
       /\ IF Repeated(<<t, error>>)
          THEN End("notice", 0) /\ calls' = Tail(calls)
          ELSE Answered

Refuse(c) ==
  /\ pc = "tools" /\ calls # <<>> /\ c = Head(calls)
  /\ ~Callable(c)
  /\ Fails(c.tool, IF c.valid THEN "undiscovered" ELSE "invalid")
  /\ UNCHANGED <<reply, discovered, succeeded, forced, pending, emptyRetries, requests>>

(* Mutant: the requests of earlier rounds are not looked for.                *)
NotAskedYet(a) == TRUE

IsNew(a) == a \notin pending

(* An external action is not run: an approval is asked for, once.            *)
Propose(c) ==
  /\ pc = "tools" /\ calls # <<>> /\ c = Head(calls)
  /\ Callable(c) /\ c.tool \in Actions
  /\ requests' = IF IsNew(c.tool) THEN [requests EXCEPT ![c.tool] = @ + 1] ELSE requests
  /\ pending' = pending \cup {c.tool}
  /\ Answered
  /\ UNCHANGED <<reply, discovered, succeeded, forced, failed, emptyRetries>>

(* The request is made, and journalling the proposal raises.                 *)
ProposeFails(c) ==
  /\ pc = "tools" /\ calls # <<>> /\ c = Head(calls)
  /\ Callable(c) /\ c.tool \in Actions /\ IsNew(c.tool)
  /\ requests' = [requests EXCEPT ![c.tool] = @ + 1]
  /\ pending' = pending \cup {c.tool}
  /\ End("raised", 0)
  /\ UNCHANGED <<reply, calls, discovered, succeeded, forced, failed, emptyRetries>>

(* A tool runs; a search makes what it found callable.                       *)
Run(c, found) ==
  /\ pc = "tools" /\ calls # <<>> /\ c = Head(calls)
  /\ Callable(c) /\ c.tool \notin Actions
  /\ discovered' = IF c.tool = "search" THEN discovered \cup found ELSE discovered
  /\ succeeded' = IF c.tool \in Browser THEN succeeded \cup {c.tool} ELSE succeeded
  /\ Answered
  /\ UNCHANGED <<reply, forced, failed, pending, emptyRetries, requests>>

RunFails(c, error) ==
  /\ pc = "tools" /\ calls # <<>> /\ c = Head(calls)
  /\ Callable(c) /\ c.tool \notin Actions
  /\ Fails(c.tool, error)
  /\ UNCHANGED <<reply, discovered, succeeded, forced, pending, emptyRetries, requests>>

-----------------------------------------------------------------------------
TurnNext ==
  \/ \E hasText \in BOOLEAN, list \in Replies : AskModel(hasText, list)
  \/ RoundsUsedUp \/ Raise
  \/ \E read \in {"open", "snapshot"} : ForceRead(read) \/ ReadFails(read)
  \/ Answer \/ RetryEmpty \/ GiveUpEmpty
  \/ \E c \in Call :
       \/ Refuse(c) \/ Propose(c) \/ ProposeFails(c)
       \/ \E found \in Findings : Run(c, found)
       \/ \E error \in ToolErrors : RunFails(c, error)

(* Model calls and tools return or time out, so the loop goes on.            *)
TurnSpec == TurnInit /\ [][TurnNext]_turnVars /\ WF_turnVars(TurnNext)

-----------------------------------------------------------------------------
(* Properties.                                                               *)

(* Every variable keeps its shape; no round begins with a call unanswered.   *)
TurnTypeOK ==
  /\ asks \subseteq {"browser", "inspection"} /\ inThread \in BOOLEAN /\ hasUrl \in BOOLEAN
  /\ pc \in {"model", "reply", "tools", "ended"}
  /\ round \in 0..MaxRounds /\ lastContent \in 0..round /\ text \in BOOLEAN
  /\ calls \in Seq(Call)
  /\ pc \in {"model", "reply"} => calls = <<>>
  /\ discovered \subseteq Tools /\ succeeded \subseteq Browser
  /\ forced \subseteq {"open", "snapshot"} /\ pending \subseteq Actions
  /\ failed \in [Browser \X Errors -> 0..2]
  /\ emptyRetries \in 0..1
  /\ requests \in [Actions -> Nat]
  /\ outcome \in {"none", "answer", "leftover", "fallback", "notice", "raised"}
  /\ answeredAt \in 0..round
  /\ grounds \subseteq Browser /\ toolRounds \in 0..round

(* The last text was written after the page it was asked about was read, and
   after one was opened where there was no conversation to continue.         *)
Grounded ==
  InBrowser => /\ "inspection" \in asks => "snapshot" \in grounds
               /\ ~inThread => "open" \in grounds

(* A text about a page was written with the page in view, by whatever mix of the
   model's calls and the runtime's own reads (runtime.py:372-419).  The one
   exception is the text returned when the rounds are used up, which may be one
   held back for a read (runtime.py:487): then it is the model's own calls that
   took the rounds, all but the three the runtime can take with its two reads and
   its one retry.                                                            *)
AnswerHasEvidence ==
  answeredAt > 0 /\ ~Grounded => outcome = "leftover" /\ toolRounds + 3 >= MaxRounds

(* "Repeated identical external calls inside one agent run reuse the same pending
   approval" (RELIABLE_ACTION_LAYER.md:29), across rounds and failures.      *)
OneRequestPerAction == \A a \in Actions : requests[a] <= 1

(* A browser call that failed twice in the same way is the turn's last
   (tests/test_behavioral_hardening.py:63).                                  *)
RepetitionEnds ==
  \A t \in Browser, error \in Errors : failed[<<t, error>>] >= 2 => outcome = "notice"

(* Every turn ends, and with something to say unless it raised.              *)
TurnEnds == <>(outcome # "none" /\ (outcome \in {"answer", "leftover"} => answeredAt > 0))
=============================================================================
