--------------------------- MODULE SalesTurn_proofs ---------------------------
(***************************************************************************)
(* SalesFunnel and SalesTurn for every model: the theorems hold whatever    *)
(* set of decisions it may answer; in SalesTurn each of them is judged by   *)
(* the customer's machine and cut to its usable fields.                     *)
(***************************************************************************)
EXTENDS SalesTurn, TLAPS

-----------------------------------------------------------------------------
(* The funnel.                                                              *)

(* The path and the places on it: the ranks of _CONVERSATION_STAGES.       *)
LEMMA PathFacts ==
  /\ Path = {"new", "contacted", "engaged", "qualified", "product_explained",
             "download_suggested", "link_sent"}
  /\ Path \subseteq Stages
  /\ \A s \in Path : Rank[s] \in 1..7
  /\ Rank["new"] = 1 /\ Rank["contacted"] = 2 /\ Rank["engaged"] = 3 /\ Rank["link_sent"] = 7
BY DEF Path, Rank, Stages

(* A transition between two places on the path climbs (_build_transitions). *)
LEMMA AllowedClimbs ==
  ASSUME NEW s \in Path, NEW t \in Path, t \in Allowed(s)
  PROVE  Rank[t] > Rank[s]
BY PathFacts DEF Allowed, Exits

(* Whatever is asked of set_stage, the stage stays or moves to the target,  *)
(* along a transition, and to a verified stage only on the system's word.   *)
LEMMA MovedFacts ==
  ASSUME NEW s \in Stages, NEW t \in Stages, NEW system \in BOOLEAN
  PROVE  /\ Moved(s, t, system) \in {s, t}
         /\ Moved(s, t, system) # s => t \in Allowed(s) /\ (system \/ t \notin SystemOnly)
         /\ s # t /\ t \in Allowed(s) /\ (system \/ t \notin SystemOnly)
            => Moved(s, t, system) = t
BY DEF Moved, MaySet, CanTransition

(* What a reply or a follow-up leaves of the stage it found.               *)
Afterwards(s, m, g, linked) ==
  Acted(IF linked THEN Moved(Suggested(s, g), "link_sent", FALSE) ELSE Suggested(s, g),
        m, g.actions)

(* Guardrails keep a decision a decision.                                  *)
LEMMA GuardedType ==
  ASSUME NEW d \in Decision, NEW s \in Stages
  PROVE  /\ Guarded(d, s).stage \in Stages \cup {NoStage}
         /\ Guarded(d, s).actions \in SUBSET Actions
<1> DEFINE A == ValidActions(d)
           v == ValidStage(d.stage, s)
<1>1. v \in Stages \cup {NoStage}
  BY DEF ValidStage, Decision
<1>2. A \in SUBSET Actions
  BY DEF ValidActions, Decision
<1>3. LinkOffer(DeferredActions(v, A), d.noBuild) \in SUBSET Actions
  BY <1>2 DEF LinkOffer, DeferredActions
<1>4. DeferredStage(v, A) \in Stages \cup {NoStage}
  BY <1>1 DEF DeferredStage
<1>5. /\ Guarded(d, s).stage = DeferredStage(v, A)
      /\ Guarded(d, s).actions = LinkOffer(DeferredActions(v, A), d.noBuild)
  BY DEF Guarded, Decision
<1> QED BY <1>3, <1>4, <1>5

(* The suggested stage is taken over a transition the model may make, or    *)
(* not at all.                                                              *)
LEMMA SuggestedFacts ==
  ASSUME NEW s \in Stages, NEW g, g.stage \in Stages \cup {NoStage}
  PROVE  /\ Suggested(s, g) \in Stages
         /\ Suggested(s, g) # s => Suggested(s, g) \in Allowed(s) \ SystemOnly
<1>1. CASE g.stage = NoStage
  BY <1>1 DEF Suggested
<1>2. CASE g.stage # NoStage
  <2>1. g.stage \in Stages /\ Suggested(s, g) = Moved(s, g.stage, FALSE)
    BY <1>2 DEF Suggested
  <2>2. /\ Moved(s, g.stage, FALSE) \in {s, g.stage}
        /\ Moved(s, g.stage, FALSE) # s => g.stage \in Allowed(s) \ SystemOnly
    BY <2>1, MovedFacts
  <2> QED BY <2>1, <2>2
<1> QED BY <1>1, <1>2

(* Acting on the refusals and the hand-off moves the stage to not_interested *)
(* or human_handoff or leaves it.                                            *)
LEMMA ActedFacts ==
  ASSUME NEW s \in Stages, NEW m \in {"ai", "human"}, NEW A \in SUBSET Actions
  PROVE  /\ Acted(s, m, A) \in {s, "human_handoff", "not_interested"}
         /\ "opt_out" \in A => Acted(s, m, A) \in StopsFollowUp
<1> DEFINE handed == IF "request_human_handoff" \in A THEN HandedOff(s, m) ELSE s
<1>1. {"human_handoff", "not_interested"} \subseteq Stages
  BY DEF Stages
<1>2. handed \in {s, "human_handoff"}
  BY <1>1, MovedFacts DEF HandedOff
<1>3. handed \in Stages
  BY <1>1, <1>2
<1>4. Moved(handed, "not_interested", FALSE) \in {handed, "not_interested"}
  BY <1>1, <1>3, MovedFacts
<1>5. Moved(handed, "not_interested", FALSE) \in StopsFollowUp
  <2>1. CASE handed \in StopsFollowUp
    BY <1>4, <2>1 DEF StopsFollowUp
  <2>2. CASE handed \notin StopsFollowUp
    <3>1. "not_interested" \in Allowed(handed)
      BY <1>3, <2>2, PathFacts DEF Allowed, OffPath, Exits, Stages, StopsFollowUp
    <3>2. "not_interested" \notin SystemOnly /\ handed # "not_interested"
      BY <2>2 DEF SystemOnly, StopsFollowUp
    <3>3. Moved(handed, "not_interested", FALSE) = "not_interested"
      BY <1>1, <1>3, <3>1, <3>2, MovedFacts
    <3> QED BY <3>3 DEF StopsFollowUp
  <2> QED BY <2>1, <2>2
<1> QED BY <1>2, <1>4, <1>5 DEF Acted

(* One turn of the model: the stage stays a stage, becomes a verified one    *)
(* only if it was, does not fall along the path, and has stopped follow-ups  *)
(* if the customer asked us to stop.                                         *)
LEMMA AfterwardsFacts ==
  ASSUME NEW s \in Stages, NEW m \in {"ai", "human"}, NEW d \in Decision,
         NEW linked \in BOOLEAN
  PROVE  LET g == Guarded(d, s)
             t == Afterwards(s, m, g, linked)
         IN  /\ t \in Stages
             /\ t \in SystemOnly => t = s
             /\ s \in Path /\ t \in Path => Rank[t] >= Rank[s]
             /\ "opt_out" \in g.actions => t \in StopsFollowUp
<1> DEFINE g == Guarded(d, s)
           said == Suggested(s, g)
           sent == IF linked THEN Moved(said, "link_sent", FALSE) ELSE said
           t == Afterwards(s, m, g, linked)
<1>1. g.stage \in Stages \cup {NoStage} /\ g.actions \in SUBSET Actions
  BY GuardedType
<1>2. said \in Stages /\ (said # s => said \in Allowed(s) \ SystemOnly)
  BY <1>1, SuggestedFacts
<1>3. "link_sent" \in Stages /\ "link_sent" \notin SystemOnly /\ "link_sent" \in Path
  BY PathFacts DEF Stages, SystemOnly
<1>4. sent \in {said, "link_sent"} /\ sent \in Stages
  BY <1>2, <1>3, MovedFacts
<1>5. /\ t \in {sent, "human_handoff", "not_interested"}
      /\ "opt_out" \in g.actions => t \in StopsFollowUp
  BY <1>1, <1>4, ActedFacts DEF Afterwards
<1>6. t \in Stages
  BY <1>4, <1>5 DEF Stages
<1>7. t \in SystemOnly => t = s
  BY <1>2, <1>3, <1>4, <1>5 DEF SystemOnly
<1>8. ASSUME s \in Path, t \in Path PROVE Rank[t] >= Rank[s]
  <2>1. t \in {said, "link_sent"}
    BY <1>4, <1>5, <1>8, PathFacts
  <2>2. CASE t = "link_sent"
    BY <1>8, <2>2, PathFacts
  <2>3. CASE t = said /\ said = s
    BY <1>8, <2>3, PathFacts
  <2>4. CASE t = said /\ said # s
    BY <1>2, <1>8, <2>4, AllowedClimbs, PathFacts
  <2> QED BY <2>1, <2>2, <2>3, <2>4
<1> QED BY <1>5, <1>6, <1>7, <1>8

-----------------------------------------------------------------------------
(* The named invariants are inductive together: an opt-out is written with   *)
(* the stage, and a verified stage with the install.                         *)
FunnelInv == FunnelTypeOK /\ OptedOutIsStopped /\ SoldIsVerified

(* What NeverBackwards asks of a step.                                       *)
Climbs == stage \in Path /\ stage' \in Path => Rank[stage'] >= Rank[stage]

(* The customer's message revives a conversation towards the path.           *)
LEMMA RevivedFacts ==
  ASSUME NEW s \in Stages
  PROVE  /\ Revived(s) \in Stages
         /\ Revived(s) \in {s, "engaged"}
         /\ s \in Path => Revived(s) \in Path /\ Rank[Revived(s)] >= Rank[s]
BY PathFacts DEF Revived, Stages

(* A turn of the model, in a reply (from the revived stage) or a follow-up.  *)
LEMMA DecideStep ==
  ASSUME FunnelInv, NEW s \in {stage, Revived(stage)}, NEW d \in Decision,
         NEW linked \in BOOLEAN, Decide(s, d, linked), UNCHANGED <<installed, returned>>
  PROVE  FunnelInv' /\ Climbs
<1> DEFINE g == Guarded(d, s)
           t == Afterwards(s, mode, g, linked)
<1> USE DEF FunnelInv
<1>1. stage \in Stages /\ mode \in {"ai", "human"}
  BY DEF FunnelTypeOK
<1>2. s \in Stages /\ s \in {stage, "engaged"} /\ (stage \in Path => s \in Path /\ Rank[s] >= Rank[stage])
  BY <1>1, RevivedFacts, PathFacts
<1>3. /\ t \in Stages
      /\ t \in SystemOnly => t = s
      /\ s \in Path /\ t \in Path => Rank[t] >= Rank[s]
      /\ "opt_out" \in g.actions => t \in StopsFollowUp
  BY <1>1, <1>2, AfterwardsFacts
<1>4. /\ stage' = t
      /\ mode' = IF "request_human_handoff" \in g.actions THEN "human" ELSE mode
      /\ optedOut' = ("opt_out" \in g.actions)
  BY DEF Decide, Afterwards
<1> HIDE DEF g, t
<1>5. stage' = t /\ FunnelTypeOK'
  BY <1>1, <1>3, <1>4 DEF FunnelTypeOK
<1>6. OptedOutIsStopped'
  BY <1>3, <1>4, <1>5 DEF OptedOutIsStopped
<1>7. SoldIsVerified'
  BY <1>2, <1>3, <1>5 DEF SoldIsVerified, SystemOnly
<1>8. Climbs
  BY <1>2, <1>3, <1>5, PathFacts DEF Climbs
<1> QED BY <1>5, <1>6, <1>7, <1>8

(* Only an operator's release may put an opted-out customer's conversation   *)
(* where follow-ups go, and only a release or a report sets a verified stage. *)
LEMMA FunnelStep == FunnelInv /\ [FunnelNext]_funnel => FunnelInv' /\ Climbs
<1> SUFFICES ASSUME FunnelInv, [FunnelNext]_funnel PROVE FunnelInv' /\ Climbs
  OBVIOUS
<1> USE DEF FunnelInv
<1>1. stage \in Stages /\ mode \in {"ai", "human"} /\ FunnelTypeOK
  BY DEF FunnelTypeOK
<1>2. ASSUME NEW d \in Decisions, NEW linked \in BOOLEAN, Turn(d, linked) \/ FollowUp(d, linked)
      PROVE  FunnelInv' /\ Climbs
  <2>1. d \in Decision
    BY DecisionsAssumption
  <2>2. CASE Turn(d, linked)
    BY <2>1, <2>2, DecideStep DEF Turn
  <2>3. CASE FollowUp(d, linked)
    BY <2>1, <2>3, DecideStep DEF FollowUp
  <2> QED BY <1>2, <2>2, <2>3
<1>3. CASE Heard
  <2>1. stage' = Revived(stage) /\ FunnelTypeOK'
    BY <1>1, <1>3, RevivedFacts DEF Heard, FunnelTypeOK
  <2>2. OptedOutIsStopped'
    BY <1>3 DEF Heard, OptedOutIsStopped
  <2>3. SoldIsVerified'
    BY <1>1, <1>3, <2>1, RevivedFacts DEF Heard, SoldIsVerified
  <2>4. Climbs
    BY <1>1, <2>1, RevivedFacts, PathFacts DEF Climbs
  <2> QED BY <2>1, <2>2, <2>3, <2>4
<1>4. CASE TakeOver
  <2>1. "human_handoff" \in Stages /\ "human_handoff" \in StopsFollowUp
        /\ "human_handoff" \notin Path
    BY PathFacts DEF Stages, StopsFollowUp
  <2>2. HandedOff(stage, mode) \in {stage, "human_handoff"}
    BY <1>1, <2>1, MovedFacts DEF HandedOff
  <2>3. stage' \in {stage, "human_handoff"} /\ FunnelTypeOK'
    BY <1>1, <1>4, <2>1, <2>2 DEF TakeOver, FunnelTypeOK
  <2>4. OptedOutIsStopped' /\ SoldIsVerified'
    BY <1>4, <2>1, <2>3 DEF TakeOver, OptedOutIsStopped, SoldIsVerified
  <2>5. Climbs
    BY <2>1, <2>3, PathFacts DEF Climbs
  <2> QED BY <2>3, <2>4, <2>5
<1>5. ASSUME NEW t \in Stages \cup {NoStage}, Release(t) PROVE FunnelInv' /\ Climbs
  <2>1. "engaged" \in Stages /\ "human_handoff" \notin Path
    BY PathFacts DEF Stages
  <2>2. /\ Returned(stage, t) \in Stages
        /\ Returned(stage, t) # stage =>
              Returned(stage, t) \in Allowed(stage) \/ stage = "human_handoff"
    <3>1. CASE t = NoStage
      BY <1>1, <2>1, <3>1, MovedFacts DEF Returned
    <3>2. CASE t # NoStage
      <4>1. t \in Stages /\ Returned(stage, t) = Moved(stage, t, TRUE)
        BY <3>2 DEF Returned
      <4>2. /\ Moved(stage, t, TRUE) \in {stage, t}
            /\ Moved(stage, t, TRUE) # stage => t \in Allowed(stage)
        BY <1>1, <4>1, MovedFacts
      <4> QED BY <1>1, <4>1, <4>2
    <3> QED BY <3>1, <3>2
  <2>3. stage' = Returned(stage, t) /\ FunnelTypeOK'
    BY <1>1, <1>5, <2>2 DEF Release, FunnelTypeOK
  <2>4. OptedOutIsStopped' /\ SoldIsVerified'
    BY <1>5 DEF Release, OptedOutIsStopped, SoldIsVerified
  <2>5. Climbs
    BY <1>1, <2>1, <2>2, <2>3, AllowedClimbs, PathFacts DEF Climbs
  <2> QED BY <2>3, <2>4, <2>5
<1>6. ASSUME NEW level \in {"downloaded", "activated"}, Report(level)
      PROVE  FunnelInv' /\ Climbs
  <2>1. level \in Stages /\ level \in StopsFollowUp /\ level \notin Path
    BY PathFacts DEF Stages, StopsFollowUp
  <2>2. Moved(stage, level, TRUE) \in {stage, level}
    BY <1>1, <2>1, MovedFacts
  <2>3. stage' \in {stage, level} /\ FunnelTypeOK'
    BY <1>1, <1>6, <2>1, <2>2 DEF Report, FunnelTypeOK
  <2>4. OptedOutIsStopped' /\ SoldIsVerified'
    BY <1>6, <2>1, <2>3 DEF Report, OptedOutIsStopped, SoldIsVerified
  <2>5. Climbs
    BY <2>1, <2>3, PathFacts DEF Climbs
  <2> QED BY <2>3, <2>4, <2>5
<1>7. CASE UNCHANGED funnel
  BY <1>1, <1>7, PathFacts DEF funnel, FunnelTypeOK, OptedOutIsStopped, SoldIsVerified, Climbs
<1> QED BY <1>2, <1>3, <1>4, <1>5, <1>6, <1>7 DEF FunnelNext

LEMMA FunnelStarts == FunnelInit => FunnelInv
<1> SUFFICES ASSUME FunnelInit PROVE FunnelInv
  OBVIOUS
<1>1. {"new", "downloaded", "activated"} \subseteq Stages
  BY DEF Stages
<1>2. Moved("new", IF installed = "no" THEN "new" ELSE installed, TRUE)
        \in {"new", IF installed = "no" THEN "new" ELSE installed}
  BY <1>1, MovedFacts DEF FunnelInit
<1>3. stage \in {"new", IF installed = "no" THEN "new" ELSE installed}
  BY <1>2 DEF FunnelInit
<1>4. stage \in Stages
  BY <1>1, <1>3 DEF FunnelInit
<1>5. FunnelTypeOK
  BY <1>4 DEF FunnelInit, FunnelTypeOK
<1>6. OptedOutIsStopped
  BY DEF FunnelInit, OptedOutIsStopped
<1>7. SoldIsVerified
  BY <1>3 DEF FunnelInit, SoldIsVerified
<1> QED BY <1>5, <1>6, <1>7 DEF FunnelInv

LEMMA FunnelInvHolds == FunnelSpec => []FunnelInv
BY FunnelStarts, FunnelStep, PTL DEF FunnelSpec

(* The state of the funnel is always well typed, whatever the model answers. *)
THEOREM FunnelTypeCorrect == FunnelSpec => []FunnelTypeOK
BY FunnelInvHolds, PTL DEF FunnelInv

(* A customer who asked us to stop is in a stage no follow-up is sent from,  *)
(* unless an operator has given the conversation back.                       *)
THEOREM StopIsStop == FunnelSpec => []OptedOutIsStopped
BY FunnelInvHolds, PTL DEF FunnelInv

(* No suggestion of the model ever shows an install nobody has confirmed.    *)
THEOREM OnlyVerified == FunnelSpec => []SoldIsVerified
BY FunnelInvHolds, PTL DEF FunnelInv

(* From one turn to the next the conversion path is only climbed.            *)
THEOREM ForwardOnly == FunnelSpec => NeverBackwards
<1>1. FunnelInv /\ [FunnelNext]_funnel
      => [(stage \in Path /\ stage' \in Path) => Rank[stage'] >= Rank[stage] ]_funnel
  BY FunnelStep DEF Climbs
<1> QED BY <1>1, FunnelInvHolds, PTL DEF FunnelSpec, NeverBackwards
-----------------------------------------------------------------------------
(* The turn.                                                                *)

(* A conversation says link_sent because the link went out, or because the   *)
(* model or an operator said so.                                             *)
LinkIsExplained == stage = "link_sent" => linkSent \/ claimed

TurnInv ==
  /\ FunnelInv
  /\ platform \in Platforms
  /\ linkSent \in BOOLEAN /\ claimed \in BOOLEAN /\ deferred \in BOOLEAN
  /\ LinkIsExplained
  /\ DeferralIsNotRefusal

(* Dropping what is malformed, and noting the machine, leave a decision.     *)
LEMMA HeededAreDecisions ==
  ASSUME NEW d \in Heeded, NEW reported \in Platforms
  PROVE  d \in Decision /\ Judged(d, reported) \in Decision
<1>1. PICK e \in Decisions, bad \in SUBSET AnswerFields : d \in ParsedDecision(e, bad)
  BY DEF Heeded
<1>2. d = Defaulted(e, bad)
  BY <1>1 DEF ParsedDecision
<1>3. e \in Decision
  BY DecisionsAssumption
<1>4. d \in Decision
  BY <1>2, <1>3 DEF Defaulted, Decision
<1>5. Judged(d, reported) \in Decision
  BY <1>4 DEF Judged, Decision
<1> QED BY <1>4, <1>5

(* A decision that keeps its callback has lost every way to refuse.          *)
LEMMA DeferralFacts ==
  ASSUME NEW d \in Decision, NEW s \in Stages,
         "schedule_follow_up" \in Guarded(d, s).actions
  PROVE  /\ Guarded(d, s).stage # "not_interested"
         /\ "mark_not_interested" \notin Guarded(d, s).actions
         /\ "opt_out" \notin Guarded(d, s).actions
<1> DEFINE A == ValidActions(d)
           v == ValidStage(d.stage, s)
<1>1. /\ Guarded(d, s).stage = DeferredStage(v, A)
      /\ Guarded(d, s).actions = LinkOffer(DeferredActions(v, A), d.noBuild)
  BY DEF Guarded, Decision
<1>2. Guarded(d, s).actions \subseteq DeferredActions(v, A)
  BY <1>1 DEF LinkOffer
<1>3. "schedule_follow_up" \in A /\ DeferredActions(v, A) = A \ {"mark_not_interested"}
  BY <1>2 DEF DeferredActions, Deferred
<1>4. "opt_out" \notin A
  BY <1>3 DEF ValidActions
<1>5. DeferredStage(v, A) # "not_interested"
  BY <1>3 DEF DeferredStage, Deferred, NoStage
<1> QED BY <1>1, <1>2, <1>3, <1>4, <1>5

(* So the conversation it is judged in does not end up refused.              *)
LEMMA DeferredStays ==
  ASSUME NEW d \in Decision, NEW s \in Stages, s # "not_interested", NEW linked \in BOOLEAN,
         stage \in Stages, mode \in {"ai", "human"}, Decide(s, d, linked),
         "schedule_follow_up" \in Guarded(d, s).actions
  PROVE  stage' # "not_interested"
<1> DEFINE g == Guarded(d, s)
           said == Suggested(s, g)
           sent == IF linked THEN Moved(said, "link_sent", FALSE) ELSE said
<1>1. /\ g.stage # "not_interested" /\ g.stage \in Stages \cup {NoStage}
      /\ "mark_not_interested" \notin g.actions /\ "opt_out" \notin g.actions
  BY DeferralFacts, GuardedType
<1>2. said \in Stages /\ said \in {s, g.stage}
  BY <1>1, SuggestedFacts DEF Suggested, Moved
<1>3. said # "not_interested"
  BY <1>1, <1>2
<1>4. sent \in {said, "link_sent"}
  BY DEF Moved
<1>5. sent # "not_interested"
  BY <1>3, <1>4
<1>6. stage' = Acted(sent, mode, g.actions)
  BY DEF Decide
<1> HIDE DEF g, said, sent
<1>7. Acted(sent, mode, g.actions) \in {sent, "human_handoff"}
  BY <1>1 DEF Acted, HandedOff, Moved
<1> QED BY <1>5, <1>6, <1>7

(* A turn or a check-in, judged in the stage s.                              *)
LEMMA JudgedStep ==
  ASSUME TurnInv, NEW s \in {stage, Revived(stage)}, s # "not_interested",
         NEW d \in Decision, NEW linked \in BOOLEAN,
         Decide(s, d, linked), UNCHANGED <<installed, returned>>,
         Leaves(d, s, linked), platform' \in Platforms
  PROVE  TurnInv' /\ Climbs
<1>1. FunnelInv /\ stage \in Stages /\ mode \in {"ai", "human"}
  BY DEF TurnInv, FunnelInv, FunnelTypeOK
<1>2. FunnelInv' /\ Climbs
  BY <1>1, DecideStep
<1>3. s \in Stages /\ (s = "link_sent" => stage = "link_sent")
  BY <1>1, RevivedFacts
<1>4. linkSent' \in BOOLEAN /\ claimed' \in BOOLEAN /\ deferred' \in BOOLEAN
  BY DEF TurnInv, Leaves
<1>5. LinkIsExplained'
  BY <1>3 DEF TurnInv, LinkIsExplained, Leaves
<1>6. DeferralIsNotRefusal'
  BY <1>1, <1>3, DeferredStays DEF Leaves, DeferralIsNotRefusal
<1> QED BY <1>2, <1>4, <1>5, <1>6 DEF TurnInv

LEMMA TurnStep == TurnInv /\ [TurnNext]_turnVars => TurnInv' /\ Climbs
<1> SUFFICES ASSUME TurnInv, [TurnNext]_turnVars PROVE TurnInv' /\ Climbs
  OBVIOUS
<1>1. FunnelInv /\ stage \in Stages /\ platform \in Platforms
  BY DEF TurnInv, FunnelInv, FunnelTypeOK
<1>2. ASSUME NEW d \in Heeded, NEW linked \in BOOLEAN, NEW reported \in Platforms,
             NEW said \in Reports(reported),
             \/ AnswerCustomer(d, said[1], said[2], linked)
             \/ CheckIn(d, said[1], said[2], linked)
      PROVE  TurnInv' /\ Climbs
  <2>1. said[1] = reported /\ said[2] \in Platforms
    BY <1>2 DEF Reports, Platforms
  <2>2. Judged(d, reported) \in Decision /\ Note(reported, said[2]) \in Platforms
    BY <1>1, <1>2, <2>1, HeededAreDecisions DEF Note, Machine
  <2>3. CASE AnswerCustomer(d, reported, said[2], linked)
    <3>1. Revived(stage) # "not_interested"
      BY DEF Revived
    <3>2. /\ Decide(Revived(stage), Judged(d, reported), linked)
          /\ UNCHANGED <<installed, returned>>
          /\ Leaves(Judged(d, reported), Revived(stage), linked)
          /\ platform' \in Platforms
      BY <2>2, <2>3 DEF AnswerCustomer, Turn
    <3> QED BY <2>2, <3>1, <3>2, JudgedStep
  <2>4. CASE CheckIn(d, reported, said[2], linked)
    <3>1. stage # "not_interested"
      BY <2>4 DEF CheckIn, FollowUp, StopsFollowUp
    <3>2. /\ Decide(stage, Judged(d, reported), linked)
          /\ UNCHANGED <<installed, returned>>
          /\ Leaves(Judged(d, reported), stage, linked)
          /\ platform' \in Platforms
      BY <2>2, <2>4 DEF CheckIn, FollowUp
    <3> QED BY <2>2, <3>1, <3>2, JudgedStep
  <2> QED BY <1>2, <2>1, <2>3, <2>4
<1>3. CASE SentElsewhere
  <2>1. FunnelInv' /\ Climbs
    BY <1>1, <1>3, FunnelStep DEF SentElsewhere
  <2> QED BY <1>3, <2>1
          DEF SentElsewhere, funnel, TurnInv, LinkIsExplained, DeferralIsNotRefusal
<1>4. CASE Otherwise
  <2>1. FunnelInv' /\ Climbs
    BY <1>1, <1>4, FunnelStep DEF Otherwise, FunnelNext
  <2> QED BY <1>4, <2>1 DEF Otherwise, TurnInv, LinkIsExplained, DeferralIsNotRefusal
<1>5. CASE UNCHANGED turnVars
  <2>1. FunnelInv' /\ Climbs
    BY <1>1, <1>5, FunnelStep DEF turnVars
  <2> QED BY <1>5, <2>1
          DEF turnVars, turn, funnel, TurnInv, LinkIsExplained, DeferralIsNotRefusal
<1> QED BY <1>2, <1>3, <1>4, <1>5 DEF TurnNext

LEMMA TurnStarts == TurnInit => TurnInv
<1> SUFFICES ASSUME TurnInit PROVE TurnInv
  OBVIOUS
<1>1. FunnelInv
  BY FunnelStarts DEF TurnInit
<1>2. stage # "link_sent"
  <2>1. {"new", "downloaded", "activated"} \subseteq Stages
    BY DEF Stages
  <2>2. Moved("new", IF installed = "no" THEN "new" ELSE installed, TRUE)
          \in {"new", IF installed = "no" THEN "new" ELSE installed}
    BY <2>1, MovedFacts DEF TurnInit, FunnelInit
  <2>3. stage \in {"new", "downloaded", "activated"}
    BY <2>2 DEF TurnInit, FunnelInit
  <2> QED BY <2>3
<1> QED BY <1>1, <1>2 DEF TurnInit, TurnInv, Platforms, LinkIsExplained, DeferralIsNotRefusal

LEMMA TurnInvHolds == TurnSpec => []TurnInv
BY TurnStarts, TurnStep, PTL DEF TurnSpec

(* The state of a conversation's turns is well typed, whatever fields of the *)
(* model's answers are malformed.                                            *)
THEOREM TurnTypeCorrect == TurnSpec => []TurnTypeOK
BY TurnInvHolds, PTL DEF TurnInv, FunnelInv, TurnTypeOK

(* The funnel stays well typed under the turns that decide by machine.       *)
THEOREM TurnFunnelTyped == TurnSpec => []FunnelTypeOK
BY TurnInvHolds, PTL DEF TurnInv, FunnelInv

(* A customer who asked us to stop is in a stage no follow-up is sent from,  *)
(* unless an operator has given the conversation back.                       *)
THEOREM TurnStops == TurnSpec => []OptedOutIsStopped
BY TurnInvHolds, PTL DEF TurnInv, FunnelInv

(* No suggestion of the model ever shows an install nobody has confirmed.    *)
THEOREM TurnVerified == TurnSpec => []SoldIsVerified
BY TurnInvHolds, PTL DEF TurnInv, FunnelInv

(* Whoever asked to be contacted later is not recorded as a refusal, for     *)
(* every combination of stage and actions one decision may hold.             *)
THEOREM DeferralsAreKept == TurnSpec => []DeferralIsNotRefusal
BY TurnInvHolds, PTL DEF TurnInv

(* The backend asks for no link it would withhold, and says one is out only  *)
(* if it is, or if the stage was named by the model or an operator.          *)
THEOREM ObjectivesAreSound == TurnSpec => []ObjectiveIsSound
<1>1. TurnInv => ObjectiveIsSound
  <2> SUFFICES ASSUME TurnInv, NEW replies \in 0..2
               PROVE  LET o == NextObjective(Revived(stage), replies) IN
                      /\ o \in {"send link", "send link, ask platform"} => platform # "other"
                      /\ o = "post link" => linkSent \/ claimed
    BY DEF ObjectiveIsSound
  <2>1. Revived(stage) = "link_sent" => linkSent \/ claimed
    BY DEF TurnInv, LinkIsExplained, Revived
  <2>2. /\ NextObjective(Revived(stage), replies) = "post link"
             => linkSent \/ Revived(stage) = "link_sent"
        /\ NextObjective(Revived(stage), replies) \in {"send link", "send link, ask platform"}
             => platform # "other"
    BY DEF NextObjective, SendLink, Ladder
  <2> QED BY <2>1, <2>2
<1> QED BY <1>1, TurnInvHolds, PTL

(* From one turn to the next the conversion path is only climbed.            *)
THEOREM TurnsClimb == TurnSpec => NeverBackwards
<1>1. TurnInv /\ [TurnNext]_turnVars
      => [(stage \in Path /\ stage' \in Path) => Rank[stage'] >= Rank[stage] ]_funnel
  BY TurnStep DEF Climbs
<1> QED BY <1>1, TurnInvHolds, PTL DEF TurnSpec, NeverBackwards
=============================================================================
