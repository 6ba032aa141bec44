-------------------------- MODULE ApprovalCommand ---------------------------
(***************************************************************************)
(* The gateway as the product drives it, for browser clicks: the only      *)
(* caller of execute_approved_request is _handle_approval_command in       *)
(* src/src/core/orchestrator.py, which answers "/approve <id>" and         *)
(* "/reject <id>" while it holds the lock of the message's group.  A call  *)
(* is here one message handler.                                            *)
(*                                                                         *)
(* A request to click is bound to the page the group's task-space shows    *)
(* (src/src/browser/tools.py); the page is compared again before the click *)
(* and then clicked, each in a browser process of its own.  A page is a    *)
(* number that every change raises: fingerprints of two contents differ.   *)
(***************************************************************************)
EXTENDS ApprovalExecution

CONSTANTS
  NoPage,     \* a request that is bound to no page
  MaxChanges  \* bound: changes of pages

ASSUME PageAssumption == NoPage \notin Nat /\ MaxChanges \in Nat

VARIABLES
  page,      \* what the task-space of each group shows
  changes,   \* changes of pages so far (bound)
  bound,     \* _state_hash of each request
  verified,  \* calls that found the page unchanged and are about to click
  drifted,   \* such calls whose page has changed by itself since (history)
  clickedOn  \* the pages each request's click reached (history)

pageVars == <<page, changes, bound, verified, drifted, clickedOn>>
commandVars == <<vars, pageVars>>

CommandInit ==
  /\ Init
  /\ page = [g \in Groups |-> 0] /\ changes = 0
  /\ bound = [a \in Approvals |-> NoPage]
  /\ verified = {} /\ drifted = {}
  /\ clickedOn = [a \in Approvals |-> {}]

PageOf(a) == page[GroupOf[a]]
Turn(g) == page' = [page EXCEPT ![g] = @ + 1] /\ changes' = changes + 1
Same == UNCHANGED pageVars

(* Mutant: a handler does not wait for the group's lock.                     *)
NoLock(g) == TRUE

(* async with self._group_locks[group]: one handler per group at a time.     *)
LockFree(g) == \A c \in Calls : call[c].pc # "idle" => GroupOf[call[c].of] # g

-----------------------------------------------------------------------------
(* An agent's turn, which holds the group's lock: it fills in the page, and it
   asks for a click, bound to the page as it is then.                        *)
PreparePage(g) ==
  /\ LockFree(g) /\ changes < MaxChanges
  /\ Turn(g)
  /\ UNCHANGED <<vars, bound, verified, drifted, clickedOn>>

RequestClick(a) ==
  /\ LockFree(GroupOf[a])
  /\ CreateRequest(a)
  /\ bound' = [bound EXCEPT ![a] = PageOf(a)]
  /\ UNCHANGED <<page, changes, verified, drifted, clickedOn>>

(* The page changes by itself.                                               *)
Drift(g) ==
  /\ changes < MaxChanges
  /\ Turn(g)
  /\ drifted' = drifted \cup {c \in verified : GroupOf[call[c].of] = g}
  /\ UNCHANGED <<vars, bound, verified, clickedOn>>

-----------------------------------------------------------------------------
(* Mutant: "/approve" is answered before the lock, as control commands are, and
   goes on to execute whatever approve_request said.                         *)
ApproveAnyway(c, a, g) ==
  /\ call[c].pc = "idle"
  /\ approval[a].status # "none" /\ g = GroupOf[a]
  /\ \/ ApproveRow(a, g, TRUE)
     \/ ~MayDecide(a, g) /\ UNCHANGED <<approval, granted>>
  /\ Start(c, a, "granted")
  /\ Same /\ UNCHANGED <<ttlPassed, journal, effects>>

(* Approves the stored parameters and goes on only if approve_request agreed.
   For a request of another group, or already decided, it only replies.      *)
ApproveCommand(c, a, g) ==
  /\ call[c].pc = "idle" /\ LockFree(g)
  /\ ApproveRow(a, g, TRUE)
  /\ IF approval'[a].status = "approved" THEN Start(c, a, "granted") ELSE Return(c)
  /\ Same /\ UNCHANGED <<ttlPassed, journal, effects>>

ExecuteGranted(c) ==
  /\ call[c].pc = "granted"
  /\ ClaimTransaction(c, call[c].of)
  /\ Same

RejectCommand(c, a, g) == call[c].pc = "idle" /\ LockFree(g) /\ Reject(a, g) /\ Same

-----------------------------------------------------------------------------
(* The tool: browser_click with the stored _state_hash.                      *)

(* _verify_expected_state: another page, or a snapshot that fails, raises.   *)
VerifyPage(c) ==
  /\ call[c].pc = "tool" /\ c \notin verified
  /\ \/ PageOf(call[c].of) = bound[call[c].of]
        /\ verified' = verified \cup {c} /\ UNCHANGED vars
     \/ CallTool(c, FALSE, "failed") /\ UNCHANGED verified
  /\ UNCHANGED <<page, changes, bound, drifted, clickedOn>>

(* _run: the browser's process clicks.  One that is late is killed, and the
   timeout is a failure whether or not the click was made.                   *)
RunBrowser(c, acted, outcome) ==
  /\ outcome \in {"success", "failed"}
  /\ CallTool(c, acted, outcome)

(* A click changes the page.                                                 *)
Click(c, acted, outcome) ==
  LET a == call[c].of IN
  /\ c \in verified
  /\ RunBrowser(c, acted, outcome)
  /\ verified' = verified \ {c} /\ drifted' = drifted \ {c}
  /\ IF acted THEN /\ page' = [page EXCEPT ![GroupOf[a]] = @ + 1]
                   /\ clickedOn' = [clickedOn EXCEPT ![a] =
                                      @ \cup (IF c \in drifted THEN {} ELSE {PageOf(a)})]
              ELSE UNCHANGED <<page, clickedOn>>
  /\ UNCHANGED <<changes, bound>>

ClickTool(c) ==
  \/ VerifyPage(c)
  \/ \E acted \in BOOLEAN, outcome \in Outcome : Click(c, acted, outcome)

(* execute_tool around the tool.                                             *)
Journal(c) ==
  /\ \/ LookupJournal(c) \/ JournalDenial(c) \/ JournalAttempt(c) \/ JournalCollision(c)
     \/ FinishJournal(c) \/ FinishFails(c) \/ RecordOutcome(c)
  /\ Same

CommandDie(c) ==
  /\ Die(c)
  /\ verified' = verified \ {c} /\ drifted' = drifted \ {c}
  /\ UNCHANGED <<page, changes, bound, clickedOn>>

CommandTime(a) == Time(a) /\ Same

CommandNext ==
  \/ \E g \in Groups : PreparePage(g) \/ Drift(g)
  \/ \E a \in Approvals : RequestClick(a) \/ CommandTime(a)
  \/ \E c \in Calls, a \in Approvals, g \in Groups :
        ApproveCommand(c, a, g) \/ RejectCommand(c, a, g)
  \/ \E c \in Calls : ExecuteGranted(c) \/ Journal(c) \/ ClickTool(c) \/ CommandDie(c)

CommandSpec == CommandInit /\ [][CommandNext]_commandVars

(* The event loop schedules handlers, clocks advance, and the user repeats
   "/approve" for a request that is not closed as often as it is answered.   *)
CommandFairSpec ==
  /\ CommandSpec
  /\ \A c \in Calls : WF_commandVars(ExecuteGranted(c) \/ Journal(c) \/ ClickTool(c))
  /\ \A a \in Approvals :
        /\ WF_commandVars(LeaseExpires(a) /\ Same) /\ WF_commandVars(TtlPasses(a) /\ Same)
        /\ SF_commandVars(\E c \in Calls, g \in Groups : ApproveCommand(c, a, g))

-----------------------------------------------------------------------------
(* Properties.                                                               *)

(* No handler runs the executor on a claim that is not its own: driven by the
   command alone, a claim is never taken over while its holder may still act.
   (Through the gateway's own interface it can be: see ClosedUnrunIsClean.)   *)
NoStaleExecutor ==
  \A c \in Calls :
    call[c].pc \notin {"idle", "granted"} =>
      /\ approval[call[c].of].status = "executing"
      /\ approval[call[c].of].owner = c

(* A click lands on the page its request was bound to, whatever agents and other
   clicks did in between: of two requests for one page the second fails.  Only a
   page that changes by itself between the comparison and the click escapes
   (tools.py:115).                                                           *)
ClicksApprovedPage == \A a \in Approvals : clickedOn[a] \subseteq {bound[a]}

(* An approval left in "executing" by a crash is closed in the end: README.md:240
   gives executions a lease and a recovery.  No command of the product reaches
   that recovery once the handler that approved is gone.                     *)
ExecutingResolves ==
  \A a \in Approvals : approval[a].status = "executing" ~> approval[a].status \in Terminal
=============================================================================
