---------------------------- MODULE MCSalesTurn -----------------------------
(* SalesTurn for TLC.  A decision suggests any stage, asks for at most two  *)
(* actions, and gives a delay if it asks for a follow-up or asks for        *)
(* nothing; its text may be sent, and its machine is judged by the turn.    *)
EXTENDS SalesTurn

SmallDecisions ==
  {d \in Decision : d.usable /\ ~d.noBuild /\ Cardinality(d.actions) <= 2
                    /\ (d.delay => "schedule_follow_up" \in d.actions)}

=============================================================================
