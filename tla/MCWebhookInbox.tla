--------------------------- MODULE MCWebhookInbox ---------------------------
(* WebhookInbox for TLC.  The runs differ in the bounds their .cfg sets.   *)
EXTENDS WebhookInbox, TLC

Symmetry == Permutations(Workers) \cup Permutations(Schedulers)

=============================================================================
