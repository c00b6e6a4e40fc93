----------------------------- MODULE SalesFunnel ----------------------------
(***************************************************************************)
(* One customer's way through the funnel when transactions never overlap:  *)
(* every turn of the model, follow-up, operator's action and install       *)
(* report is one step (app/services/conversations.py set_stage and its     *)
(* callers).  What fails here is wrong with the rules themselves; what     *)
(* holds here and fails in Conversation is lost to concurrency.            *)
(***************************************************************************)
EXTENDS SalesStages

CONSTANT Decisions  \* what the model may answer

ASSUME DecisionsAssumption == Decisions \subseteq Decision

VARIABLES
  stage, mode,
  optedOut,
  installed,  \* "no", "downloaded" or "activated"
  returned    \* history: an operator has given the conversation back to the AI

funnel == <<stage, mode, optedOut, installed, returned>>

FunnelTypeOK ==
  /\ stage \in Stages
  /\ mode \in {"ai", "human"}
  /\ optedOut \in BOOLEAN
  /\ installed \in {"no", "downloaded", "activated"}
  /\ returned \in BOOLEAN

\* a conversation opens where the customer already is
FunnelInit ==
  /\ installed \in {"no", "downloaded", "activated"}
  /\ stage = Moved("new", IF installed = "no" THEN "new" ELSE installed, TRUE)
  /\ mode = "ai"
  /\ optedOut = FALSE
  /\ returned = FALSE

\* what acting on a decision does from stage s; `linked`: the link went out with the reply
Decide(s, d, linked) ==
  LET g == Guarded(d, s)
      said == Suggested(s, g)
  IN  /\ linked => d.usable /\ "send_download_link" \in g.actions
      /\ stage' = Acted(IF linked THEN Moved(said, "link_sent", FALSE) ELSE said, mode, g.actions)
      /\ mode' = IF "request_human_handoff" \in g.actions THEN "human" ELSE mode
      /\ optedOut' = ("opt_out" \in g.actions)

\* the customer writes to a conversation the AI handles: their message and the turn
Turn(d, linked) ==
  /\ mode = "ai"
  /\ Decide(Revived(stage), d, linked)
  /\ UNCHANGED <<installed, returned>>

\* the customer writes while a human has the conversation, or the model gives nothing
Heard ==
  /\ stage' = Revived(stage)
  /\ optedOut' = FALSE
  /\ UNCHANGED <<mode, installed, returned>>

\* a due follow-up passes relevance_block, and the model writes it
FollowUp(d, linked) ==
  /\ mode = "ai" /\ ~optedOut /\ installed = "no" /\ stage \notin StopsFollowUp
  /\ d.usable
  /\ Decide(stage, d, linked)
  /\ UNCHANGED <<installed, returned>>

TakeOver ==
  /\ mode' = "human"
  /\ stage' = HandedOff(stage, mode)
  /\ UNCHANGED <<optedOut, installed, returned>>

\* an operator gives the conversation back; a stage the funnel forbids fails the request
Release(t) ==
  /\ t # NoStage => CanTransition(stage, t)
  /\ mode' = "ai"
  /\ stage' = Returned(stage, t)
  /\ returned' = TRUE
  /\ UNCHANGED <<optedOut, installed>>

\* the desktop backend confirms an install or an activation; a repeat is a no-op, and
\* one the conversation's stage does not allow fails and is rolled back
Report(level) ==
  /\ installed \in (IF level = "activated" THEN {"no", "downloaded"} ELSE {"no"})
  /\ CanTransition(stage, level)
  /\ installed' = level
  /\ stage' = Moved(stage, level, TRUE)
  /\ UNCHANGED <<mode, optedOut, returned>>

FunnelNext ==
  \/ \E d \in Decisions, linked \in BOOLEAN : Turn(d, linked) \/ FollowUp(d, linked)
  \/ Heard
  \/ TakeOver
  \/ \E t \in Stages \cup {NoStage} : Release(t)
  \/ \E level \in {"downloaded", "activated"} : Report(level)

FunnelSpec == FunnelInit /\ [][FunnelNext]_funnel

-----------------------------------------------------------------------------
(* Whoever asked us to stop is in a stage that stops follow-ups, or an      *)
(* operator has put the conversation elsewhere: opting out and the stage    *)
(* are two writes of _apply_actions, in two tables, and a later turn that   *)
(* clears one must not leave the other behind.                              *)
OptedOutIsStopped == optedOut /\ ~returned => stage \in StopsFollowUp

(* From one step to the next a conversation on the conversion path never    *)
(* falls back along it (domain.py 85-89), whatever one decision suggests,   *)
(* links and refuses in one turn.                                           *)
NeverBackwards ==
  [][(stage \in Path /\ stage' \in Path) => Rank[stage'] >= Rank[stage] ]_funnel

(* The verified stages tell the truth: a conversation that shows an install *)
(* has one, unless an operator named the stage.                             *)
SoldIsVerified ==
  stage \in {"downloaded", "activated"} /\ ~returned => installed # "no"

=============================================================================
