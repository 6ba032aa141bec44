----------------------------- MODULE EventLease -----------------------------
(***************************************************************************)
(* One Telegram message, three bots: every bot of the group receives it    *)
(* and runs message_handler (src/src/adapters/telegram/adapter.py).  The   *)
(* processed_events row of the message (src/src/core/normalizer.py) lets   *)
(* one of them process it under a lease; the others wait and take over if  *)
(* the first fails or is gone.  All handlers live in one process and die   *)
(* with it; Telegram may deliver again after a crash.                      *)
(***************************************************************************)
EXTENDS Naturals

CONSTANTS
  Bots,           \* the bots that receive each message
  Events,         \* messages, by canonical event id
  NoBot,          \* owner_token is NULL
  MaxBoots        \* bound: starts of the process

ASSUME NoBotAssumption == NoBot \notin Bots
ASSUME BoundAssumption == MaxBoots \in Nat

VARIABLES
  row,          \* processed_events
  handler,      \* [Bots -> [Events -> ...]], each bot's run of message_handler
  received,     \* messages each bot received since the process started
  boot,         \* which start of the process this is
  lapsed,       \* messages whose lease ran out at some time (history)
  successes     \* runs that processed each message to the end (history)

vars == <<row, handler, received, boot, lapsed, successes>>

RowStatus == {"none", "processing", "completed", "failed"}
Place == {"idle", "arrived", "waiting", "retry", "working", "closing"}

Row == [status : RowStatus, attempt : Nat, owner : Bots \cup {NoBot}, leaseLive : BOOLEAN]
Handler == [pc : Place, seen : Nat, prompt : BOOLEAN, ok : BOOLEAN]

NoRow == [status |-> "none", attempt |-> 0, owner |-> NoBot, leaseLive |-> FALSE]
IdleHandler == [pc |-> "idle", seen |-> 0, prompt |-> FALSE, ok |-> FALSE]

Init == /\ row = [e \in Events |-> NoRow]
        /\ handler = [b \in Bots |-> [e \in Events |-> IdleHandler]]
        /\ received = [b \in Bots |-> {}]
        /\ boot = 1
        /\ lapsed = {}
        /\ successes = [e \in Events |-> 0]

InFlight(b, e) == handler[b][e].pc \in {"working", "closing"}

Goto(b, e, pc) == handler' = [handler EXCEPT ![b][e].pc = pc]
Return(b, e) == handler' = [handler EXCEPT ![b][e] = IdleHandler]

-----------------------------------------------------------------------------
(* Telegram delivers a message once to each bot, and may do so again after a
   restart (external).                                                       *)
Deliver(b, e) ==
  /\ e \notin received[b]
  /\ received' = [received EXCEPT ![b] = @ \cup {e}]
  /\ Goto(b, e, "arrived")
  /\ UNCHANGED <<row, boot, lapsed, successes>>

(* Mutant: the lease is not looked at.                                       *)
ClaimableAnyway(e) == row[e].status # "completed"

(* claim_event_owned: no row yet, or neither completed nor held.             *)
Claimable(e) ==
  /\ row[e].status # "completed"
  /\ row[e].status = "processing" => ~row[e].leaseLive

(* A claim always brings a token of its own, kept in the run's context: the
   bot stands for it, since a bot has one run per message at a time.         *)
ClaimEvent(b, e) ==
  /\ handler[b][e].pc \in {"arrived", "retry"}
  /\ Claimable(e)
  /\ row' = [row EXCEPT ![e] = [status |-> "processing", attempt |-> row[e].attempt + 1,
                                owner |-> b, leaseLive |-> TRUE]]
  /\ Goto(b, e, "working")
  /\ UNCHANGED <<received, boot, lapsed, successes>>

(* The first claim is lost: wait_for_event_retry starts its deadline, one lease
   long.  A wait is prompt if it starts less than a poll after the claim it
   lost to, so that its deadline and that lease end within one poll.         *)
StartWaiting(b, e, prompt) ==
  /\ handler[b][e].pc = "arrived" /\ ~Claimable(e)
  /\ prompt => row[e].status = "processing" /\ InFlight(row[e].owner, e)
  /\ handler' = [handler EXCEPT ![b][e] =
                   [pc |-> "waiting", seen |-> row[e].attempt, prompt |-> prompt, ok |-> FALSE]]
  /\ UNCHANGED <<row, received, boot, lapsed, successes>>

(* The second claim is lost to another bot: the run ends.                    *)
LoseRetry(b, e) ==
  /\ handler[b][e].pc = "retry" /\ ~Claimable(e)
  /\ Return(b, e)
  /\ UNCHANGED <<row, received, boot, lapsed, successes>>

(* Mutant: a claim in processing is waited for whatever its lease.           *)
FailureOnly(e) == row[e].status = "failed"

TakeoverIsSafe(e) ==
  \/ row[e].status = "failed"
  \/ row[e].status = "processing" /\ ~row[e].leaseLive

Poll(b, e) ==
  /\ handler[b][e].pc = "waiting"
  /\ \/ row[e].status = "completed" /\ Return(b, e)
     \/ TakeoverIsSafe(e) /\ Goto(b, e, "retry")
  /\ UNCHANGED <<row, received, boot, lapsed, successes>>

(* The wait's deadline passes.  It cannot pass before the lease it started
   behind is over, nor between two polls of a wait that is not prompt.       *)
GiveUp(b, e) ==
  /\ handler[b][e].pc = "waiting"
  /\ \/ row[e].attempt # handler[b][e].seen
     \/ row[e].status = "processing" /\ ~row[e].leaseLive /\ handler[b][e].prompt
  /\ Return(b, e)
  /\ UNCHANGED <<row, received, boot, lapsed, successes>>

(* Context, attachments and the orchestrator, behind the group's lock.       *)
Work(b, e, ok) ==
  /\ handler[b][e].pc = "working"
  /\ handler' = [handler EXCEPT ![b][e] =
                   [pc |-> "closing", seen |-> handler[b][e].seen,
                    prompt |-> handler[b][e].prompt, ok |-> ok]]
  /\ successes' = [successes EXCEPT ![e] = IF ok THEN @ + 1 ELSE @]
  /\ UNCHANGED <<row, received, boot, lapsed>>

(* Mutant: the update asks for the event id and the status only.             *)
TokenIgnored(b, e) == row[e].status = "processing"

Owns(b, e) == row[e].status = "processing" /\ row[e].owner = b

(* Mutant: the update leaves the owner's token in the row.                   *)
ClosedWithOwner(e, ok) ==
  [status |-> IF ok THEN "completed" ELSE "failed", attempt |-> row[e].attempt,
   owner |-> row[e].owner, leaseLive |-> FALSE]

Closed(e, ok) ==
  [status |-> IF ok THEN "completed" ELSE "failed", attempt |-> row[e].attempt,
   owner |-> NoBot, leaseLive |-> FALSE]

(* mark_event_completed or mark_event_failed, then the run ends.             *)
MarkEvent(b, e) ==
  /\ handler[b][e].pc = "closing"
  /\ row' = IF Owns(b, e) THEN [row EXCEPT ![e] = Closed(e, handler[b][e].ok)] ELSE row
  /\ Return(b, e)
  /\ UNCHANGED <<received, boot, lapsed, successes>>

LeaseExpires(e) ==
  /\ row[e].leaseLive
  /\ row' = [row EXCEPT ![e].leaseLive = FALSE]
  /\ lapsed' = lapsed \cup {e}
  /\ UNCHANGED <<handler, received, boot, successes>>

Crash ==
  /\ boot < MaxBoots
  /\ boot' = boot + 1
  /\ handler' = [b \in Bots |-> [e \in Events |-> IdleHandler]]
  /\ received' = [b \in Bots |-> {}]
  /\ UNCHANGED <<row, lapsed, successes>>

-----------------------------------------------------------------------------
Handle(b, e) ==
  \/ ClaimEvent(b, e)
  \/ \E prompt \in BOOLEAN : StartWaiting(b, e, prompt)
  \/ LoseRetry(b, e)
  \/ Poll(b, e)
  \/ \E ok \in BOOLEAN : Work(b, e, ok)
  \/ MarkEvent(b, e)

Next ==
  \/ \E b \in Bots, e \in Events : Deliver(b, e) \/ Handle(b, e) \/ GiveUp(b, e)
  \/ \E e \in Events : LeaseExpires(e)
  \/ Crash

(* The event loop runs every handler, a poll comes before a deadline that is
   more than a poll away, and clocks advance.                                *)
Spec == /\ Init /\ [][Next]_vars
        /\ \A b \in Bots, e \in Events : WF_vars(Handle(b, e))
        /\ \A e \in Events : WF_vars(LeaseExpires(e))

-----------------------------------------------------------------------------
(* Properties.                                                               *)

(* Every variable keeps its shape, and only a claimed row has an owner.      *)
TypeOK ==
  /\ row \in [Events -> Row]
  /\ handler \in [Bots -> [Events -> Handler]]
  /\ received \in [Bots -> SUBSET Events]
  /\ boot \in Nat
  /\ lapsed \subseteq Events
  /\ successes \in [Events -> Nat]
  /\ \A e \in Events : row[e].owner # NoBot => row[e].status = "processing"

(* As long as a message's lease never ran out, a run that processes it holds
   the row: no two bots process one message, across failures and takeovers.  *)
StaleOnlyAfterLapse ==
  \A b \in Bots, e \in Events :
    InFlight(b, e) /\ e \notin lapsed => row[e].status = "processing" /\ row[e].owner = b

(* A message is processed to the end twice only if its lease ran out.        *)
SucceedsOnce == \A e \in Events : successes[e] > 1 => e \in lapsed

(* A completed message is never reopened, and an attempt is closed only by the
   run that holds it: a stale worker does not finish the attempt of another
   (README.md:234).                                                          *)
ClosedByOwner ==
  [][\A e \in Events :
       /\ row[e].status = "completed" => row'[e] = row[e]
       /\ row[e].status = "processing" /\ row'[e].status # "processing"
            => row[e].owner \in Bots /\ handler[row[e].owner][e].pc = "closing"]_vars

(* The attempt b waits behind has failed or lost its process, and nobody works.
   A bot that lost the claim and has not begun to wait yet is not meant: it has
   not read which attempt it waits behind.                                   *)
Orphaned(b, e) ==
  /\ handler[b][e].pc = "waiting" /\ handler[b][e].seen = row[e].attempt
  /\ ~handler[b][e].prompt
  /\ row[e].status \in {"processing", "failed"}
  /\ \A d \in Bots : ~InFlight(d, e)

(* A bot that has begun to wait behind an attempt that failed, or whose process
   died, takes the message over, or another bot does, unless the process dies
   again.                                                                    *)
TakenOver ==
  \A e \in Events, k \in 1..MaxBoots :
    /\ boot = k
    /\ \E b \in Bots : Orphaned(b, e)
    ~> \/ \E b \in Bots : InFlight(b, e)
       \/ boot > k
=============================================================================
