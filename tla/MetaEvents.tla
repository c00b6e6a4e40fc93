----------------------------- MODULE MetaEvents -----------------------------
(***************************************************************************)
(* What Meta puts in the body of a webhook, and what the parser makes of   *)
(* it (app/integrations/meta/parser.py).  A body is the set of its         *)
(* messages, delivery receipts and lead forms: the entries and changes     *)
(* that group them, and the fields the worker reads later, are left out;   *)
(* so is a referral of the wrong shape, which fails the whole body.        *)
(***************************************************************************)

\* an id, a sender or a state that is absent, empty or of the wrong shape
CONSTANT Missing

Message(id, from) == [kind |-> "message", id |-> id, detail |-> from]
Receipt(id, status) == [kind |-> "status", id |-> id, detail |-> status]
LeadForm(id) == [kind |-> "leadgen", id |-> id, detail |-> Missing]
\* a change of a field the application has not subscribed to
Unsubscribed(id) == [kind |-> "other", id |-> id, detail |-> Missing]

\* the parser skips an item it cannot understand, and only that one
Understood(i) ==
  \/ i.kind \in {"message", "status"} /\ i.id # Missing /\ i.detail # Missing
  \/ i.kind = "leadgen" /\ i.id # Missing

\* the whole body is dropped if one item of it is malformed
AllOrNothing(body) == IF \A i \in body : Understood(i) THEN body ELSE {}

\* parse_webhook
Parsed(body) == {i \in body : Understood(i)}

\* the key of a receipt is the message's alone
EventKeyNoState(i) == IF i.kind = "leadgen" THEN <<i.kind, i.id>> ELSE <<i.id>>

\* "the dedupe key has to include the state": one message has several receipts
EventKey(i) ==
  CASE i.kind = "message" -> <<i.id>>
    [] i.kind = "status" -> <<i.id, i.detail>>
    [] i.kind = "leadgen" -> <<i.kind, i.id>>

=============================================================================
