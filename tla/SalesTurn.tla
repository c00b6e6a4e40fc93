----------------------------- MODULE SalesTurn ------------------------------
(***************************************************************************)
(* The turns of SalesFunnel with what decides them: which objective the     *)
(* backend gives the model (app/ai/objectives.py), what we know of the      *)
(* customer's machine (app/ai/guardrails.py validate_decision), and whether *)
(* the download link has been sent.  The objectives' wording is left out.   *)
(***************************************************************************)
EXTENDS SalesFunnel

VARIABLES
  platform,  \* the note on the customer's machine
  linkSent,  \* the customer's link has been sent, from this thread or another
  claimed,   \* history: the stage became link_sent though no link was sent
  deferred   \* history: the last step was a turn that scheduled a callback

turn == <<platform, linkSent, claimed, deferred>>
turnVars == <<funnel, turn>>

\* a Windows machine and a Mac both have an installer
Platforms == {"unknown", "desktop", "other"}

TurnTypeOK ==
  /\ FunnelTypeOK
  /\ platform \in Platforms
  /\ linkSent \in BOOLEAN /\ claimed \in BOOLEAN /\ deferred \in BOOLEAN

TurnInit ==
  /\ FunnelInit
  /\ platform = "unknown"
  /\ linkSent \in BOOLEAN
  /\ claimed = FALSE /\ deferred = FALSE

-----------------------------------------------------------------------------
(* What is left of an answer of the model (app/integrations/openai/         *)
(* client.py): a field of the wrong shape falls back to its default, unless *)
(* a decision is not worth having without it.                               *)

\* the fields of _RECOVERABLE_FIELDS that the rules look at
Recoverable == {"stage", "actions", "delay"}
AnswerFields == Recoverable \cup {"text", "platform"}

Defaulted(d, bad) ==
  [d EXCEPT !.stage = IF "stage" \in bad THEN NoStage ELSE @,
            !.actions = IF "actions" \in bad THEN {} ELSE @,
            !.delay = @ /\ "delay" \notin bad]

\* _parse_decision of an answer that says d, its fields `bad` malformed
ParsedDecision(d, bad) == IF bad \subseteq Recoverable THEN {Defaulted(d, bad)} ELSE {}

\* the decisions generate_reply may return; without one the turn is Heard
Heeded == UNION {ParsedDecision(d, bad) : d \in Decisions, bad \in SUBSET AnswerFields}

-----------------------------------------------------------------------------
(* The objective of a turn that the customer started.                       *)

NoObjective == StopsFollowUp

Ladder(replies) == IF replies = 0 THEN "opening" ELSE IF replies = 1 THEN "connect" ELSE "nudge"

SendLink == IF platform = "desktop" THEN "send link" ELSE "send link, ask platform"

\* the machine looked at only after the stage
StageFirst(s, replies) ==
  IF s \in NoObjective THEN "none"
  ELSE IF linkSent \/ s = "link_sent" THEN "post link"
  ELSE IF s = "objection_handling" THEN "objection"
  ELSE IF s = "download_suggested" THEN SendLink
  ELSE IF platform = "other" THEN "unshippable"
  ELSE Ladder(replies)

\* next_objective
NextObjective(s, replies) ==
  IF s \in NoObjective THEN "none"
  ELSE IF linkSent \/ s = "link_sent" THEN "post link"
  ELSE IF platform = "other" THEN "unshippable"
  ELSE IF s = "objection_handling" THEN "objection"
  ELSE IF s = "download_suggested" THEN SendLink
  ELSE Ladder(replies)

-----------------------------------------------------------------------------
\* the machine that a decision is judged by: what the model reports now, or else the note
Machine(reported) == IF reported # "unknown" THEN reported ELSE platform

\* the notes of a decision, overwritten by the machine if there is one to write
Note(reported, noted) ==
  IF Machine(reported) # "unknown" THEN Machine(reported) ELSE noted

Judged(d, reported) == [d EXCEPT !.noBuild = Machine(reported) = "other"]

\* what one decision leaves behind; from: the stage it is judged in
Leaves(d, from, linked) ==
  /\ linkSent' = (linkSent \/ linked)
  /\ claimed' = (~linkSent' /\ (claimed \/ (stage' = "link_sent" /\ from # "link_sent")))
  /\ deferred' = ("schedule_follow_up" \in Guarded(d, from).actions)

AnswerCustomer(d, reported, noted, linked) ==
  /\ Turn(Judged(d, reported), linked)
  /\ platform' = Note(reported, noted)
  /\ Leaves(Judged(d, reported), Revived(stage), linked)

CheckIn(d, reported, noted, linked) ==
  /\ FollowUp(Judged(d, reported), linked)
  /\ platform' = Note(reported, noted)
  /\ Leaves(Judged(d, reported), stage, linked)

\* another thread of the same customer sends their link
SentElsewhere ==
  /\ linkSent' = TRUE /\ claimed' = FALSE
  /\ UNCHANGED <<funnel, platform, deferred>>

\* everything that is not a turn of the model
Otherwise ==
  /\ \/ Heard \/ TakeOver
     \/ \E t \in Stages \cup {NoStage} : Release(t)
     \/ \E level \in {"downloaded", "activated"} : Report(level)
  /\ claimed' = (~linkSent /\ (claimed \/ (stage' = "link_sent" /\ stage # "link_sent")))
  /\ deferred' = FALSE
  /\ UNCHANGED <<platform, linkSent>>

\* noted: what the notes of the decision say of the machine; they count only if nothing else does
Reports(reported) ==
  {<<reported, noted>> : noted \in IF Machine(reported) = "unknown" THEN Platforms ELSE {"unknown"}}

TurnNext ==
  \/ \E d \in Heeded, linked \in BOOLEAN, reported \in Platforms :
       \E said \in Reports(reported) :
         \/ AnswerCustomer(d, said[1], said[2], linked)
         \/ CheckIn(d, said[1], said[2], linked)
  \/ SentElsewhere
  \/ Otherwise

TurnSpec == TurnInit /\ [][TurnNext]_turnVars

-----------------------------------------------------------------------------
(* The objective never asks the model for what the guardrails will take     *)
(* away - a link for a machine without a build ("the turn that needed this  *)
(* objective most never got it", objectives.py 257-261) - and never tells   *)
(* it that "the link is already with them" when none went out, unless the   *)
(* stage says link_sent because the model or an operator named it.          *)
ObjectiveIsSound ==
  \A replies \in 0..2 :
    LET o == NextObjective(Revived(stage), replies) IN
    /\ o \in {"send link", "send link, ask platform"} => platform # "other"
    /\ o = "post link" => linkSent \/ claimed

(* "'Not now' is a deferral.  Never let it be recorded as a refusal"        *)
(* (guardrails.py 178): after a turn that scheduled a callback the          *)
(* conversation is not in the stage that cancels it, whatever else the same *)
(* decision suggested and asked for.                                        *)
DeferralIsNotRefusal == deferred => stage # "not_interested"

=============================================================================
