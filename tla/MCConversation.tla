--------------------------- MODULE MCConversation ---------------------------
(* Instances of Conversation for TLC: the first message is for marketing, and its
   analysis brings in the advisor; the second shows an image to whoever the
   conversation or the router says, is for two roles together, or greets two. *)
EXTENDS Conversation, TLC

CONSTANTS m1, m2

Says(signals, mentions) == [signals |-> signals, mentions |-> mentions, attachment |-> "none"]
Shows(signals, mentions) == [Says(signals, mentions) EXCEPT !.attachment = "image"]
Mention(role, at, form) == [role |-> role, at |-> at, form |-> form]

MCTexts ==
  m1 :> {Says({"work", "advisor"}, {Mention("marketing", 1, "head")})}
  @@ m2 :> {Shows({"work", "advisor", "continue"}, {Mention("marketing", 3, "word")}),
            Says({"work"}, {Mention("advisor", 1, "at"), Mention("manager", 2, "at")}),
            Says({"greeting", "fast greeting", "notice"},
                 {Mention("advisor", 1, "at"), Mention("manager", 2, "at")})}
MCChunks == [r \in Roles |-> IF r = "marketing" THEN 2 ELSE 1]
=============================================================================
