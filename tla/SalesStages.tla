----------------------------- MODULE SalesStages ----------------------------
(***************************************************************************)
(* The sales funnel's rules, without state: which stage may follow which   *)
(* (app/domain.py) and what the guardrails leave of a decision of the      *)
(* model (app/ai/guardrails.py).  Texts are abstracted to what the rules   *)
(* ask of them: whether a reply is usable, whether a delay was given.      *)
(***************************************************************************)
EXTENDS Naturals, FiniteSets

Stages == {"new", "contacted", "engaged", "qualified", "product_explained",
           "objection_handling", "download_suggested", "link_sent", "downloaded",
           "activated", "not_interested", "human_handoff", "closed"}

SystemOnly == {"downloaded", "activated", "closed"}

StopsFollowUp == {"downloaded", "activated", "not_interested", "human_handoff", "closed"}

\* Rank[s]: the place of s on the conversion path
Rank == [new |-> 1, contacted |-> 2, engaged |-> 3, qualified |-> 4,
         product_explained |-> 5, download_suggested |-> 6, link_sent |-> 7]
Path == DOMAIN Rank

Exits == {"not_interested", "human_handoff", "downloaded", "activated", "closed"}

ObjectionReturns == {"qualified", "product_explained", "download_suggested", "link_sent"}

\* the transitions table; OffPath holds the rows that are not built from the path
OffPath ==
  [objection_handling |-> ObjectionReturns \cup Exits,
   not_interested |-> {"engaged", "human_handoff", "closed", "downloaded", "activated"},
   human_handoff |-> {"engaged", "download_suggested", "link_sent", "downloaded",
                      "activated", "not_interested", "closed"},
   downloaded |-> {"activated", "human_handoff", "closed"},
   activated |-> {"human_handoff", "closed"},
   closed |-> {"engaged", "human_handoff"}]

\* the funnel this one replaced: any live stage may follow any other
AllowedBothWays(s) ==
  IF s \in Path THEN Path \cup {"objection_handling"} \cup Exits ELSE OffPath[s]

Allowed(s) ==
  IF s \in Path
  THEN {t \in Path : Rank[t] > Rank[s]} \cup {"objection_handling"} \cup Exits
  ELSE OffPath[s]

CanTransition(s, t) == s = t \/ t \in Allowed(s)

\* the stages only verified events may set, left to the model
MaySetUnverified(s, t, system) == s # t /\ CanTransition(s, t)

\* set_stage changes nothing or raises unless this holds
MaySet(s, t, system) == s # t /\ CanTransition(s, t) /\ (system \/ t \notin SystemOnly)

-----------------------------------------------------------------------------
Actions == {"send_download_link", "offer_download_link", "schedule_follow_up",
            "mark_not_interested", "request_human_handoff", "opt_out"}
LinkActions == {"send_download_link", "offer_download_link"}

NoStage == "no stage"

(* A decision: the stage it suggests, the actions it asks for, whether it   *)
(* gives a delay for the follow-up, whether the customer's platform has no  *)
(* build, and whether its text may be sent.                                 *)
Decision == [stage : Stages \cup {NoStage}, actions : SUBSET Actions,
             delay : BOOLEAN, noBuild : BOOLEAN, usable : BOOLEAN]

\* validate_stage
ValidStage(suggested, current) ==
  IF suggested # NoStage /\ MaySet(current, suggested, FALSE) THEN suggested ELSE NoStage

\* validate_actions: no follow-up without a delay, and opting out ends the selling
ValidActions(d) ==
  LET kept == IF d.delay THEN d.actions ELSE d.actions \ {"schedule_follow_up"}
  IN  IF "opt_out" \in kept THEN kept \ (LinkActions \cup {"schedule_follow_up"}) ELSE kept

\* a refusal is taken at its word
NeverDeferred(s, A) == FALSE

\* resolve_deferral: whoever asks to be contacted later has not refused
Deferred(s, A) == "schedule_follow_up" \in A

DeferredStage(s, A) == IF Deferred(s, A) /\ s = "not_interested" THEN NoStage ELSE s

DeferredActions(s, A) == IF Deferred(s, A) THEN A \ {"mark_not_interested"} ELSE A

\* resolve_link_offer: no download without a build, and an offer is not a delivery
LinkOffer(A, noBuild) ==
  IF noBuild THEN A \ LinkActions
  ELSE IF LinkActions \subseteq A THEN A \ {"send_download_link"} ELSE A

\* validate_decision
Guarded(d, current) ==
  LET s == ValidStage(d.stage, current)
      A == ValidActions(d)
  IN  [d EXCEPT !.stage = DeferredStage(s, A),
                !.actions = LinkOffer(DeferredActions(s, A), d.noBuild)]

-----------------------------------------------------------------------------
(* What a transaction makes of the stage it has loaded.                     *)

\* set_stage, a refused move left unmade
Moved(s, t, system) == IF MaySet(s, t, system) THEN t ELSE s

\* advance_on_inbound
Revived(s) == IF s \in {"new", "contacted", "not_interested"} THEN "engaged" ELSE s

\* _apply_stage
Suggested(s, d) == IF d.stage = NoStage THEN s ELSE Moved(s, d.stage, FALSE)

\* hand_off_to_human moves the stage only if no human has the conversation yet
HandedOff(s, mode) == IF mode = "human" THEN s ELSE Moved(s, "human_handoff", FALSE)

\* opting out recorded on the customer only
ActedOnCustomer(s, mode, A) ==
  LET handed == IF "request_human_handoff" \in A THEN HandedOff(s, mode) ELSE s
  IN  IF "mark_not_interested" \in A THEN Moved(handed, "not_interested", FALSE) ELSE handed

\* _apply_actions: the handing off first, then the refusals
Acted(s, mode, A) ==
  LET handed == IF "request_human_handoff" \in A THEN HandedOff(s, mode) ELSE s
  IN  IF A \cap {"mark_not_interested", "opt_out"} # {}
      THEN Moved(handed, "not_interested", FALSE) ELSE handed

\* the stage of the request, which may be none, written as it came
ReturnedUnchecked(s, t) == t

\* return_to_ai: the operator names a stage, or the hand-off is undone
Returned(s, t) ==
  IF t # NoStage THEN Moved(s, t, TRUE)
  ELSE IF s = "human_handoff" THEN Moved(s, "engaged", FALSE) ELSE s

=============================================================================
