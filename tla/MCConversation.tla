--------------------------- MODULE MCConversation ---------------------------
(* Conversation for TLC: a few answers, each with something at stake.      *)
EXTENDS Conversation, TLC

Plain == [Template EXCEPT !.news = TRUE]
Qualifies == [Plain EXCEPT !.stage = "qualified"]
SendsLink == [Plain EXCEPT !.news = FALSE, !.actions = {"send_download_link"}]
Promises == [Template EXCEPT !.actions = {"schedule_follow_up"}, !.delay = TRUE]
HandsOff == [Template EXCEPT !.actions = {"request_human_handoff"}]
StopsUs == [Template EXCEPT !.actions = {"opt_out"}]
Unusable == [Template EXCEPT !.usable = FALSE]

TurnAnswers == {[Qualifies EXCEPT !.actions = HandsOff.actions], Unusable}
ChaseAnswers == {[Promises EXCEPT !.news = TRUE], StopsUs}

StageAnswers == {Plain, Qualifies, SendsLink, Promises, HandsOff, StopsUs}

ActorSymmetry == Permutations(Runners) \cup Permutations(Msgs)

=============================================================================
