------------------------------- MODULE Routing ------------------------------
(***************************************************************************)
(* Where a message of a user goes: its intent (src/src/routing/intent.py), *)
(* whom it addresses (addressing.py), its one owner when it addresses      *)
(* nobody (fast_path.py, role_router.py), and who works with that owner    *)
(* (task_analysis.py).  A text is abstracted to the signals the patterns   *)
(* of these files look for and to its mentions of roles:                   *)
(*   text.signals   which patterns it matches                              *)
(*   text.mentions  records [role, at, form], form "at" for @role, "head"  *)
(*                  in the leading clause, "word" anywhere else            *)
(***************************************************************************)
EXTENDS Naturals, Sequences, FiniteSets, SequencesExt

Everyone == <<"manager", "marketing", "advisor">>
Roles == {"manager", "marketing", "advisor"}
NoRole == "nobody"

(* The alternatives in the order they are tried; the first that is found.    *)
FirstOf(choices, signals, otherwise) ==
  LET found == SelectSeq(choices, LAMBDA c : c \in signals) IN
  IF found = <<>> THEN otherwise ELSE Head(found)

ControlCommand(text) == FirstOf(<<"cancel", "pause", "resume">>, text.signals, "none")

Intent(text) ==
  LET signal == FirstOf(<<"work", "social question", "question", "greeting">>,
                        text.signals, "work")
  IN CASE ControlCommand(text) # "none" -> "command"
       [] signal \in {"social question", "greeting"} -> "social"
       [] signal = "question" -> "question"
       [] OTHER -> "work request"

(* A word that only speaks of a role does not address it.                    *)
DirectMentions(text) == {x \in text.mentions : x.form # "word"}

(* The roles a text addresses, in the order it first addresses them.         *)
ExplicitRoles(text) ==
  LET direct == DirectMentions(text)
      first(r) == CHOOSE x \in direct :
                    x.role = r /\ \A y \in direct : y.role = r => x.at <= y.at
  IN SetToSortSeq({x.role : x \in direct}, LAMBDA r, s : first(r).at < first(s).at)

(* The manager coordinates work it is part of.                               *)
WorkCoordinator(targets) ==
  IF \E i \in DOMAIN targets : targets[i] = "manager" THEN "manager" ELSE Head(targets)

(* Several roles answer a social message each, and do work together.         *)
ForExplicit(targets, intent) ==
  [targets |-> targets,
   together |-> Len(targets) > 1 /\ intent # "social",
   coordinator |-> IF Len(targets) > 1 /\ intent = "social" THEN NoRole
                   ELSE WorkCoordinator(targets)]

Detect(text) ==
  LET named == ExplicitRoles(text)
      intent == Intent(text)
  IN IF named # <<>> THEN ForExplicit(named, intent)
     ELSE IF "everyone" \in text.signals THEN ForExplicit(Everyone, intent)
     ELSE [targets |-> <<>>, together |-> FALSE, coordinator |-> NoRole]

(* Explicit role, then the role replied to, then the owner of an active task the
   text names, or of the only one when it asks to go on; or nobody.  ownerOf has the
   owner of each active task.                                                *)
FastPath(text, replyRole, ownerOf) ==
  LET active == DOMAIN ownerOf IN
  IF ExplicitRoles(text) # <<>> THEN {Head(ExplicitRoles(text))}
  ELSE IF replyRole # NoRole THEN {replyRole}
  ELSE IF "task id" \in text.signals \/ ("continue" \in text.signals /\ Cardinality(active) = 1)
         THEN {ownerOf[t] : t \in active}
  ELSE {}

(* The model decides where the fast path does not; whatever goes wrong, and a
   call its price rules out, leaves the message to the manager.              *)
Routed(priced) == IF priced THEN Roles ELSE {"manager"}

(* Who works with the owner of a message.                                    *)
Collaborators(text, owner) ==
  LET wanted == CASE owner = "manager" -> <<"marketing", "advisor">>
                  [] owner = "marketing" -> <<"advisor">>
                  [] owner = "advisor" -> <<>>
  IN SelectSeq(wanted, LAMBDA r : r \in text.signals)

(* The team of collective work: the coordinator, then the others in order.   *)
Team(coordinator, targets) ==
  <<coordinator>> \o SelectSeq(targets, LAMBDA r : r # coordinator)
=============================================================================
