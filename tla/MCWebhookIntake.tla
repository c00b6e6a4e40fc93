-------------------------- MODULE MCWebhookIntake ---------------------------
(* WebhookIntake for TLC.                                                  *)
EXTENDS WebhookIntake

CONSTANTS m1, p1

OneMessage == {Message(m1, p1)}

\* two receipts of a message and one that lost its state
Receipts == {Receipt(m1, "delivered"), Receipt(m1, "read"), Receipt(m1, Missing)}

EventKeys == {EventKey(i) : i \in {j \in Items : Understood(j)}}

=============================================================================
