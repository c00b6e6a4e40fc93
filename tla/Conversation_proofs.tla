------------------------- MODULE Conversation_proofs -------------------------
(***************************************************************************)
(* Conversation for any messages, reminders, actors, answers and bounds.   *)
(*                                                                         *)
(* The argument is about row locks.  Whoever adds a follow-up holds the    *)
(* conversation's row from the send on, and so does whoever takes note of  *)
(* a message; so what either has found pending is all there is until it    *)
(* commits, and a follow-up on its way, whose row is locked by its sender, *)
(* makes both of them wait.                                                *)
(*                                                                         *)
(* From it (ConversationInv) come one follow-up pending and follow-ups     *)
(* that are welcome.  That each message has one reply adds the lock of the *)
(* conversation (ReplyInv), that following up ends adds the count of rungs *)
(* (LadderInv), and that promises end the count of callbacks (PromiseInv). *)
(* Last, the conversation implements VoiceContract.                        *)
(***************************************************************************)
EXTENDS Conversation, FiniteSetTheorems, TLAPS

Delivering == {"flushing", "sending", "recording", "acting", "closing"}
BeforeReply == {"loaded", "cancelling", "queued", "locked", "thinking"}

\* whose session it is: a message's, stored after the ingest, or a reminder's
Owned(s) ==
  /\ s.pc \in BeforeReply \cup {"done"} => s.msg \in Msgs /\ s.rem = None
  /\ s.pc \in {"queued", "locked", "thinking", "done"} => s.msg \in stored
  /\ s.pc \in {"claimed", "composing"} => s.rem \in Reminders
  /\ s.pc \in Delivering /\ s.rem = None => s.msg \in stored
  /\ s.rem # None => s.rem \in s.locks /\ rem[s.rem].status = "pending"
  /\ s.pc = "reporting" => s.level # "no"

\* a message being taken note of has found all that is pending
Ingesting(s) == s.pc = "cancelling" => "conv" \in s.locks /\ Pending \subseteq s.snap

\* what has gone out is recorded on the conversation's row, and only then followed up
Following(s) ==
  /\ s.pc \in {"acting", "closing"} /\ s.outcome = "sent" => "conv" \in s.locks
  /\ s.pc = "closing" /\ s.plan # "none" => s.outcome = "sent"
  /\ s.pc = "closing" /\ "conv" \in s.locks /\ Cancels(s) => Pending \subseteq s.snap \cup {s.rem}

\* what FollowUpIsWelcome asks, from the look at the state on
Welcome(s) ==
  s.rem # None /\ s.pc \in {"composing", "flushing", "sending"} =>
     Heard = rem[s.rem].since /\ (cust.optedOut => unguarded)

Good(s) == Owned(s) /\ Ingesting(s) /\ Following(s) /\ Welcome(s)

\* what a follow-up's sender never does
Chasing(s) == s.pc \notin BeforeReply /\ (s.pc \in Delivering => s.rem \in Reminders)

TablesTyped ==
  /\ conv \in [stage : Stages, mode : {"ai", "human"}]
  /\ cust \in [optedOut : BOOLEAN, installed : {"no", "downloaded", "activated"}]
  /\ linkSent \in BOOLEAN
  /\ stored \subseteq Msgs /\ answered \subseteq stored
  /\ rem \in [Reminders -> Reminder]

CountsTyped ==
  /\ settled \subseteq stored
  /\ tries \in [Msgs -> 0..MaxTries]
  /\ holder \in Runners \cup {None, "dead"}
  /\ replies \in [Msgs -> Nat]
  /\ chases \in 0..(Ladder + 1)
  /\ unrecorded \subseteq Msgs \cup {None}
  /\ unguarded \in BOOLEAN
  /\ crashes \in 0..MaxCrashes

SessionsGood ==
  /\ tx \in [Actors -> Session]
  /\ \A a, b \in Actors : a # b => tx[a].locks \cap tx[b].locks = {}
  /\ \A a \in Actors : Good(tx[a])
  /\ \A c \in Chasers : Chasing(tx[c])

RemindersGood ==
  /\ \A r \in Reminders : rem[r].since <= Heard
  /\ \A p, q \in Pending : p = q

ConversationInv == TablesTyped /\ CountsTyped /\ SessionsGood /\ RemindersGood

\* a turn from its look at what is answered to its commit
Replying(s) == s.pc \in {"locked", "thinking"} \/ (s.pc \in Delivering /\ s.rem = None)

\* a reply that has gone out and is not recorded yet
Unsettled(s) == s.rem = None /\ s.outcome = "sent" /\ s.pc \in {"recording", "acting", "closing"}

\* where Redis answers, the turn that holds the lock is the only one that replies, to a
\* message nobody has answered, and a reply that has gone out is accounted for
ReplyInv ==
  /\ \A a \in Actors : Replying(tx[a]) => holder = a
  /\ \A a \in Actors : tx[a].rem = None /\ tx[a].pc \in {"flushing", "sending"} =>
        tx[a].msg \notin answered
  /\ \A m \in Msgs : replies[m] # 0 =>
        \/ m \in answered \cup unrecorded
        \/ \E a \in Actors : tx[a].msg = m /\ Unsettled(tx[a])
  /\ RepliedOnce

\* a follow-up that has gone out and is not recorded yet
InFlight(s) == /\ s.rem # None /\ s.outcome = "sent"
               /\ s.pc \in {"recording", "acting", "closing"}

\* the rungs of the ladder used or about to be, and the follow-ups that have gone out,
\* since the last stored message
Rungs == {r \in Reminders : rem[r].status \in {"sent", "pending"} /\ rem[r].since = Heard}
Out == {r \in Reminders : /\ rem[r].since = Heard
                          /\ \/ rem[r].status = "sent"
                             \/ \E a \in Actors : InFlight(tx[a]) /\ tx[a].rem = r}

\* what a session knows of the ladder
Counting(s) ==
  /\ s.heard <= Heard
  /\ s.rem # None => s.msg = None
  /\ s.rem # None /\ s.pc \in Delivering \cup {"composing"} => rem[s.rem].since = Heard
  /\ s.pc = "cancelling" => s.msg \in s.locks \ stored
  /\ s.pc = "closing" /\ s.plan # "none" => Spent(s) < Ladder

\* there are no more rungs than the ladder has, and every follow-up received is on one,
\* unless one that went out was rolled back
LadderInv ==
  /\ \A a \in Actors : Counting(tx[a])
  /\ Cardinality(Rungs) <= Ladder
  /\ None \notin unrecorded => chases <= Cardinality(Out)

-----------------------------------------------------------------------------
(* What the rules make of a stage is a stage, and of an answer an answer.    *)
LEMMA StagesStay ==
  /\ \A s, t \in Stages, system \in BOOLEAN : Moved(s, t, system) \in Stages
  /\ \A s \in Stages : Revived(s) \in Stages /\ Returned(s, NoStage) \in Stages
  /\ \A s \in Stages, m \in {"ai", "human"} : HandedOff(s, m) \in Stages
  /\ \A s \in Stages, m \in {"ai", "human"}, A \in SUBSET Actions : Acted(s, m, A) \in Stages
<1>1. \A s, t \in Stages, system \in BOOLEAN : Moved(s, t, system) \in Stages
  BY DEF Moved
<1>2. /\ {"engaged", "human_handoff", "not_interested", "link_sent"} \subseteq Stages
      /\ FALSE \in BOOLEAN
  BY DEF Stages
<1>3. \A s \in Stages : Revived(s) \in Stages /\ Returned(s, NoStage) \in Stages
  BY <1>1, <1>2 DEF Revived, Returned
<1>4. \A s \in Stages, m \in {"ai", "human"} : HandedOff(s, m) \in Stages
  BY <1>1, <1>2 DEF HandedOff
<1>5. \A s \in Stages, m \in {"ai", "human"}, A \in SUBSET Actions : Acted(s, m, A) \in Stages
  BY <1>1, <1>2, <1>4 DEF Acted
<1> QED BY <1>1, <1>3, <1>4, <1>5

(* The guarded answer is an answer.                                          *)
LEMMA GuardedAnswer ==
  ASSUME NEW d \in Answer, NEW v \in Stages
  PROVE  Guarded(d, v) \in Answer
<1> DEFINE A == ValidActions(d)
           t == ValidStage(d.stage, v)
<1>1. t \in Stages \cup {NoStage}
  BY DEF ValidStage, Answer
<1>2. A \in SUBSET Actions
  BY DEF ValidActions, Answer
<1>3. LinkOffer(DeferredActions(t, A), d.noBuild) \in SUBSET Actions
  BY <1>2 DEF LinkOffer, DeferredActions
<1>4. DeferredStage(t, A) \in Stages \cup {NoStage}
  BY <1>1 DEF DeferredStage
<1>5. Guarded(d, v) = [d EXCEPT !.stage = DeferredStage(t, A),
                                !.actions = LinkOffer(DeferredActions(t, A), d.noBuild)]
  BY DEF Guarded
<1> HIDE DEF A, t
<1> QED BY <1>3, <1>4, <1>5 DEF Answer

(* No more messages are stored than there are.                               *)
LEMMA HeardFacts ==
  ASSUME TablesTyped
  PROVE  Heard \in 0..Cardinality(Msgs)
BY FS_Subset, FS_CardinalityType, ConversationAssumption DEF TablesTyped, Heard

(* An idle session has nothing and promises nothing.                         *)
LEMMA IdleFacts ==
  /\ Idle \in Session /\ Good(Idle) /\ Chasing(Idle)
  /\ Idle.locks = {} /\ Idle.pc = "idle" /\ Idle.outcome = "none"
  /\ Template \in Answer
<1>1. Template \in Answer
  BY DEF Template, Answer
<1>2. Cardinality(Msgs) \in Nat
  BY FS_CardinalityType, ConversationAssumption
<1>3. Idle \in Session
  BY <1>1, <1>2 DEF Idle, Session, Stages
<1>4. Good(Idle) /\ Chasing(Idle)
  BY DEF Idle, Good, Owned, Ingesting, Following, Welcome, Chasing, Delivering, BeforeReply
<1> QED BY <1>1, <1>3, <1>4 DEF Idle

(* A session that has loaded the conversation and its customer.              *)
LEMMA LoadedFacts ==
  ASSUME TablesTyped, NEW s \in Session
  PROVE  /\ Loaded(s) \in Session
         /\ Loaded(s).pc = s.pc /\ Loaded(s).msg = s.msg /\ Loaded(s).rem = s.rem
         /\ Loaded(s).locks = s.locks /\ Loaded(s).snap = s.snap /\ Loaded(s).outcome = s.outcome
         /\ Loaded(s).plan = s.plan /\ Loaded(s).choice = s.choice /\ Loaded(s).view = s.view
         /\ Loaded(s).heard = Heard
BY HeardFacts, ZenonT(60) DEF Loaded, Session, TablesTyped

-----------------------------------------------------------------------------
(* One actor's session goes on, and of the tables only what no session       *)
(* relies on may change: the stage, the handling mode, the installation.     *)
LEMMA TableStep ==
  ASSUME ConversationInv, NEW a \in Actors, NEW s \in Session,
         tx' = [tx EXCEPT ![a] = s],
         conv' \in [stage : Stages, mode : {"ai", "human"}],
         cust' \in [optedOut : BOOLEAN, installed : {"no", "downloaded", "activated"}],
         cust'.optedOut = cust.optedOut,
         UNCHANGED <<linkSent, stored, answered, rem, unguarded>>,
         \A row \in s.locks : row \in tx[a].locks \/ Free(row, a),
         Good(s), a \in Chasers => Chasing(s)
  PROVE  TablesTyped' /\ SessionsGood' /\ RemindersGood'
<1>1. \A b \in Actors : tx'[b] = IF b = a THEN s ELSE tx[b]
  BY DEF ConversationInv, SessionsGood
<1>2. TablesTyped' /\ RemindersGood' /\ Pending' = Pending /\ Heard' = Heard
  BY DEF ConversationInv, TablesTyped, RemindersGood, Pending, Heard
<1>3. tx' \in [Actors -> Session]
  BY <1>1 DEF ConversationInv, SessionsGood
<1>4. \A b, c \in Actors : b # c => tx'[b].locks \cap tx'[c].locks = {}
  BY <1>1 DEF ConversationInv, SessionsGood, Free
<1>5. \A b \in Actors : Good(tx'[b])
  BY <1>1 DEF ConversationInv, SessionsGood
<1>6. (\A b \in Actors : Good(tx[b]))'
  BY <1>2, <1>5 DEF Good, Owned, Ingesting, Following, Welcome, Cancels, Handover, OptsOut
<1>7. (\A c \in Chasers : Chasing(tx[c]))'
  <2>1. \A c \in Chasers : Chasing(tx'[c])
    BY <1>1 DEF ConversationInv, SessionsGood, Actors
  <2> QED BY <2>1 DEF Chasing
<1> QED BY <1>2, <1>3, <1>4, <1>6, <1>7 DEF SessionsGood

(* ... or the tables are left as they are.                                   *)
LEMMA SessionStep ==
  ASSUME ConversationInv, NEW a \in Actors, NEW s \in Session,
         tx' = [tx EXCEPT ![a] = s],
         UNCHANGED <<tables, unguarded>>,
         \A row \in s.locks : row \in tx[a].locks \/ Free(row, a),
         Good(s), a \in Chasers => Chasing(s)
  PROVE  TablesTyped' /\ SessionsGood' /\ RemindersGood'
BY TableStep DEF ConversationInv, TablesTyped, tables

-----------------------------------------------------------------------------
(* The steps of a transaction before its commit leave the tables alone.      *)
Leaving(a) == tx' = [tx EXCEPT ![a] = Idle] /\ UNCHANGED <<tables, unguarded>>

(* A session that is dropped.                                                *)
LEMMA LeavingStep ==
  ASSUME ConversationInv, NEW a \in Actors, Leaving(a)
  PROVE  TablesTyped' /\ SessionsGood' /\ RemindersGood'
BY IdleFacts, SessionStep DEF Leaving

(* What giving the lock up and rolling back leave behind.                    *)
LEMMA HolderTyped ==
  ASSUME ConversationInv, NEW a \in Actors
  PROVE  /\ Unlocked(a) \in Runners \cup {None, "dead"}
         /\ Lost(tx[a]) \subseteq Msgs \cup {None}
<1>1. tx[a].msg \in Msgs \cup {None}
  BY DEF ConversationInv, SessionsGood, Session
<1> QED BY <1>1 DEF ConversationInv, CountsTyped, Unlocked, Lost

(* The ways a turn or a follow-up ends without a commit of its own.          *)
LEMMA TurnsEnd ==
  ASSUME ConversationInv, NEW a \in Actors,
         Retry(a) \/ Settle(a) \/ ComposeFails(a) \/ Crash(a) \/ Abort(a)
  PROVE  ConversationInv'
<1>1. Leaving(a)
  BY DEF Retry, Settle, ComposeFails, Crash, Abort, Leaving, received
<1>2. TablesTyped' /\ SessionsGood' /\ RemindersGood'
  BY <1>1, LeavingStep
<1>3. tx[a].pc = "done" => tx[a].msg \in stored
  BY DEF ConversationInv, SessionsGood, Good, Owned
<1>4. CountsTyped'
  <2>1. CASE Retry(a) \/ Settle(a) \/ ComposeFails(a)
    BY <1>1, <1>3, <2>1, HolderTyped
       DEF Retry, Settle, ComposeFails, ConversationInv, CountsTyped, received, tables
  <2>2. CASE Crash(a) \/ Abort(a)
    BY <2>2, HolderTyped, ConversationAssumption
       DEF Crash, Abort, ConversationInv, CountsTyped, received, tables
  <2> QED BY <2>1, <2>2
<1> QED BY <1>2, <1>4 DEF ConversationInv

(* A session whose place in the turn is all that changes.                    *)
LEMMA PlaceFacts ==
  ASSUME NEW s \in Session,
         NEW p \in {"queued", "locked", "thinking", "flushing", "sending", "done"}
  PROVE  /\ [s EXCEPT !.pc = p] \in Session
         /\ [s EXCEPT !.pc = p].pc = p
         /\ [s EXCEPT !.pc = p].msg = s.msg /\ [s EXCEPT !.pc = p].rem = s.rem
         /\ [s EXCEPT !.pc = p].locks = s.locks /\ [s EXCEPT !.pc = p].heard = s.heard
BY DEF Session

(* From the ingest to the lock.                                              *)
LEMMA QueueSteps ==
  ASSUME ConversationInv, NEW a \in Runners,
         RateLimited(a) \/ TakeLock(a) \/ ProceedUnlocked(a)
  PROVE  ConversationInv'
<1>1. a \in Actors /\ a \notin Chasers
  BY ConversationAssumption DEF Actors
<1>2. PICK p \in {"done", "locked"} : /\ tx' = [tx EXCEPT ![a] = [tx[a] EXCEPT !.pc = p]]
                                     /\ tx[a].pc = "queued"
                                     /\ UNCHANGED <<tables, unguarded>>
  BY <1>1 DEF RateLimited, TakeLock, ProceedUnlocked, ConversationInv, SessionsGood, received
<1> DEFINE s == [tx[a] EXCEPT !.pc = p]
<1>3. tx[a] \in Session /\ Good(tx[a])
  BY <1>1 DEF ConversationInv, SessionsGood
<1>4. s \in Session /\ s.pc = p /\ s.msg = tx[a].msg /\ s.rem = tx[a].rem /\ s.locks = tx[a].locks
  <2>1. p \in {"queued", "locked", "thinking", "flushing", "sending", "done"}
    OBVIOUS
  <2> QED BY <1>3, <2>1, PlaceFacts
<1>5. Good(s)
  BY <1>2, <1>3, <1>4 DEF Good, Owned, Ingesting, Following, Welcome, BeforeReply, Delivering
<1> HIDE DEF s
<1>6. TablesTyped' /\ SessionsGood' /\ RemindersGood'
  BY <1>1, <1>2, <1>4, <1>5, SessionStep DEF s
<1>7. CountsTyped'
  BY DEF RateLimited, TakeLock, ProceedUnlocked, ConversationInv, CountsTyped, received, tables
<1> QED BY <1>6, <1>7 DEF ConversationInv

(* A session that begins: nothing sent, nothing planned, no follow-up.       *)
Beginning(s) ==
  /\ s \in Session
  /\ s.rem = None /\ s.outcome = "none"
  /\ s.pc \in {"loaded", "taking", "releasing", "reporting"}
  /\ s.pc = "loaded" => s.msg \in Msgs
  /\ s.pc = "reporting" => s.level # "no"

(* A beginning session has nothing to keep.                                  *)
LEMMA BeginningGood ==
  ASSUME NEW s, Beginning(s)
  PROVE  Good(s)
BY DEF Beginning, Good, Owned, Ingesting, Following, Welcome, BeforeReply, Delivering

(* A slot takes the message's event.                                         *)
LEMMA BeginTurnStep ==
  ASSUME ConversationInv, NEW a \in Runners, NEW m \in Msgs, BeginTurn(a, m)
  PROVE  ConversationInv'
<1> DEFINE s == [Loaded(Idle) EXCEPT !.pc = "loaded", !.msg = m]
<1>1. a \in Actors /\ a \notin Chasers
  BY ConversationAssumption DEF Actors
<1>2. Loaded(Idle) \in Session /\ Loaded(Idle).locks = {} /\ Loaded(Idle).rem = None
      /\ Loaded(Idle).outcome = "none"
  BY IdleFacts, LoadedFacts DEF ConversationInv, Idle
<1>3. Beginning(s) /\ s.locks = {}
  BY <1>2, ZenonT(60) DEF Beginning, Session
<1>4. tx' = [tx EXCEPT ![a] = s] /\ UNCHANGED <<tables, unguarded>>
  BY DEF BeginTurn, received
<1> HIDE DEF s
<1>5. TablesTyped' /\ SessionsGood' /\ RemindersGood'
  BY <1>1, <1>3, <1>4, BeginningGood, SessionStep DEF Beginning
<1>6. tries[m] + 1 \in 0..MaxTries
  BY ConversationAssumption DEF BeginTurn, ConversationInv, CountsTyped
<1>7. CountsTyped'
  BY <1>6 DEF BeginTurn, ConversationInv, CountsTyped, received, tables
<1> QED BY <1>5, <1>7 DEF ConversationInv

(* An operator opens the conversation.                                       *)
LEMMA OperatorBegins ==
  ASSUME ConversationInv, NEW o \in Operators, BeginTakeOver(o) \/ BeginRelease(o)
  PROVE  ConversationInv'
<1> DEFINE s(p) == [Loaded(Idle) EXCEPT !.pc = p]
<1>1. o \in Actors
  BY DEF Actors
<1>2. Loaded(Idle) \in Session /\ Loaded(Idle).locks = {} /\ Loaded(Idle).rem = None
      /\ Loaded(Idle).outcome = "none"
  BY IdleFacts, LoadedFacts DEF ConversationInv, Idle
<1>3. ASSUME NEW p \in {"taking", "releasing"}
      PROVE  Beginning(s(p)) /\ s(p).locks = {} /\ Chasing(s(p))
  BY <1>2 DEF Beginning, Session, Chasing, BeforeReply, Delivering
<1>4. PICK p \in {"taking", "releasing"} : tx' = [tx EXCEPT ![o] = s(p)]
  BY DEF BeginTakeOver, BeginRelease
<1>5. UNCHANGED <<tables, unguarded>>
  BY DEF BeginTakeOver, BeginRelease, received
<1> HIDE DEF s
<1>6. TablesTyped' /\ SessionsGood' /\ RemindersGood'
  BY <1>1, <1>3, <1>4, <1>5, BeginningGood, SessionStep DEF Beginning
<1>7. CountsTyped'
  BY DEF BeginTakeOver, BeginRelease, ConversationInv, CountsTyped, received, tables
<1> QED BY <1>6, <1>7 DEF ConversationInv

(* The backend locks the customer.                                           *)
LEMMA ReportBegins ==
  ASSUME ConversationInv, NEW b \in Backends, NEW level \in {"downloaded", "activated"},
         BeginReport(b, level)
  PROVE  ConversationInv'
<1> DEFINE s == [Loaded(Idle) EXCEPT !.pc = "reporting", !.level = level, !.locks = {"cust"}]
<1>1. b \in Actors
  BY DEF Actors
<1>2. Loaded(Idle) \in Session /\ Loaded(Idle).rem = None /\ Loaded(Idle).outcome = "none"
  BY IdleFacts, LoadedFacts DEF ConversationInv, Idle
<1>3. Beginning(s) /\ s.locks = {"cust"} /\ Chasing(s)
  BY <1>2, ZenonT(60) DEF Beginning, Session, Rows, Chasing, BeforeReply, Delivering
<1>4. tx' = [tx EXCEPT ![b] = s] /\ UNCHANGED <<tables, unguarded>> /\ Free("cust", b)
  BY DEF BeginReport, received
<1> HIDE DEF s
<1>5. TablesTyped' /\ SessionsGood' /\ RemindersGood'
  BY <1>1, <1>3, <1>4, BeginningGood, SessionStep DEF Beginning
<1>6. CountsTyped'
  BY DEF BeginReport, ConversationInv, CountsTyped, received, tables
<1> QED BY <1>5, <1>6 DEF ConversationInv

(* After the ingest nothing of the message's transaction is left but the id. *)
LEMMA AfterIngestFacts ==
  ASSUME NEW s \in Session, s.msg \in Msgs
  PROVE  /\ AfterIngest(s) \in Session
         /\ AfterIngest(s).pc \in {"queued", "done"}
         /\ AfterIngest(s).msg = s.msg /\ AfterIngest(s).rem = None
         /\ AfterIngest(s).locks = {} /\ AfterIngest(s).heard = 0
<1> DEFINE t(p) == [Idle EXCEPT !.pc = p, !.msg = s.msg]
<1>1. ASSUME NEW p \in {"queued", "done"}
      PROVE  /\ t(p) \in Session /\ t(p).pc = p /\ t(p).msg = s.msg
             /\ t(p).rem = None /\ t(p).locks = {} /\ t(p).heard = 0
  <2>1. Idle.rem = None /\ Idle.heard = 0
    BY DEF Idle
  <2> QED BY <2>1, IdleFacts, ZenonT(60) DEF Session
<1>2. AfterIngest(s) = t("queued") \/ AfterIngest(s) = t("done")
  BY DEF AfterIngest
<1> HIDE DEF t
<1> QED BY <1>1, <1>2

(* The message is inserted, or found stored already.                         *)
LEMMA StoreMessageStep ==
  ASSUME ConversationInv, NEW a \in Runners, StoreMessage(a)
  PROVE  ConversationInv'
<1> DEFINE s == tx[a]
           t == [s EXCEPT !.pc = "cancelling", !.locks = {s.msg, "conv"}, !.snap = Pending,
                          !.stage = Revived(@), !.moved = (Revived(s.stage) # s.stage)]
<1>1. a \in Actors /\ a \notin Chasers
  BY ConversationAssumption DEF Actors
<1>2. s \in Session /\ Good(s) /\ s.pc = "loaded" /\ s.msg \in Msgs /\ s.rem = None
  BY <1>1 DEF ConversationInv, SessionsGood, Good, Owned, BeforeReply, StoreMessage
<1>3. UNCHANGED <<tables, unguarded>>
  BY DEF StoreMessage, received
<1>4. TablesTyped' /\ SessionsGood' /\ RemindersGood'
  <2>1. CASE s.msg \in stored
    <3>1. tx' = [tx EXCEPT ![a] = AfterIngest(s)]
      BY <2>1 DEF StoreMessage
    <3>2. Good(AfterIngest(s))
      BY <1>2, <2>1, AfterIngestFacts
         DEF Good, Owned, Ingesting, Following, Welcome, BeforeReply, Delivering
    <3> QED BY <1>1, <1>2, <1>3, <3>1, <3>2, AfterIngestFacts, SessionStep
  <2>2. CASE s.msg \notin stored
    <3>1. tx' = [tx EXCEPT ![a] = t] /\ Free("conv", a) /\ Free(s.msg, a)
      BY <2>2 DEF StoreMessage
    <3>2. /\ Revived(s.stage) \in Stages
          /\ {s.msg, "conv"} \in SUBSET Rows
          /\ Pending \in SUBSET Reminders
      BY <1>2, StagesStay DEF Session, Rows, Pending
    <3>3. /\ t \in Session
          /\ t.pc = "cancelling" /\ t.rem = None /\ t.msg = s.msg
          /\ t.locks = {s.msg, "conv"} /\ t.snap = Pending
      <4> DEFINE stage == Revived(s.stage)
                 moved == stage # s.stage
                 locks == {s.msg, "conv"}
      <4>1. stage \in Stages /\ moved \in BOOLEAN /\ locks \in SUBSET Rows
        BY <3>2
      <4>2. t = [s EXCEPT !.pc = "cancelling", !.locks = locks, !.snap = Pending,
                          !.stage = stage, !.moved = moved]
        OBVIOUS
      <4> HIDE DEF t, stage, moved, locks
      <4>3. t \in Session
        BY <1>2, <3>2, <4>1, <4>2, ZenonT(60) DEF Session
      <4>4. /\ t.pc = "cancelling" /\ t.rem = None /\ t.msg = s.msg
            /\ t.locks = locks /\ t.snap = Pending
        BY <1>2, <4>2 DEF Session
      <4> QED BY <4>3, <4>4 DEF locks
    <3> HIDE DEF t
    <3>4. Good(t)
      BY <1>2, <3>3 DEF Good, Owned, Ingesting, Following, Welcome, BeforeReply, Delivering
    <3> QED BY <1>1, <1>3, <3>1, <3>3, <3>4, SessionStep
  <2> QED BY <2>1, <2>2
<1>5. CountsTyped'
  BY DEF StoreMessage, ConversationInv, CountsTyped, received, tables
<1> QED BY <1>4, <1>5 DEF ConversationInv

(* Deciding changes the stage, the answer and the place, and nothing else.   *)
LEMMA DecidingFacts ==
  ASSUME NEW s \in Session, NEW d \in Answer
  PROVE  /\ Deciding(s, d) \in Session
         /\ Deciding(s, d).pc \in {"flushing", "sending"}
         /\ Deciding(s, d).msg = s.msg /\ Deciding(s, d).rem = s.rem
         /\ Deciding(s, d).locks = s.locks /\ Deciding(s, d).heard = s.heard
<1> DEFINE g == Guarded(d, s.view)
           t == Suggested(s.stage, g)
           moved == t # s.stage
           p == IF d.news \/ t # s.stage THEN "flushing" ELSE "sending"
<1>1. s.view \in Stages /\ s.stage \in Stages
  BY DEF Session
<1>2. g \in Answer
  BY <1>1, GuardedAnswer
<1>3. g.stage \in Stages \cup {NoStage}
  BY <1>2 DEF Answer
<1>4. t \in Stages
  BY <1>1, <1>3, StagesStay DEF Suggested
<1>5. p \in {"flushing", "sending"} /\ moved \in BOOLEAN
  OBVIOUS
<1>6. Deciding(s, d) = [s EXCEPT !.pc = p, !.stage = t, !.moved = moved, !.choice = g]
  BY DEF Deciding
<1> HIDE DEF g, t, p, moved
<1>7. [s EXCEPT !.pc = p, !.stage = t, !.moved = moved, !.choice = g] \in Session
  BY <1>2, <1>4, <1>5, ZenonT(60) DEF Session
<1> QED BY <1>5, <1>6, <1>7 DEF Session

(* Transaction 2a.                                                           *)
LEMMA LoadInputsStep ==
  ASSUME ConversationInv, NEW a \in Runners, LoadInputs(a)
  PROVE  ConversationInv'
<1> DEFINE s == tx[a]
           t == [s EXCEPT !.pc = "thinking", !.view = conv.stage, !.linkSeen = linkSent]
           d == [s EXCEPT !.pc = "done"]
<1>1. a \in Actors /\ a \notin Chasers
  BY ConversationAssumption DEF Actors
<1>2. s \in Session /\ Good(s) /\ s.pc = "locked" /\ s.msg \in stored /\ s.rem = None /\ s.msg \in Msgs
  BY <1>1 DEF ConversationInv, SessionsGood, Good, Owned, BeforeReply, LoadInputs
<1>3. UNCHANGED <<tables, unguarded>>
  BY DEF LoadInputs, received
<1>4. tx' = [tx EXCEPT ![a] = t] \/ tx' = [tx EXCEPT ![a] = d]
  BY DEF LoadInputs
<1>5. /\ t \in Session /\ t.pc = "thinking" /\ t.msg = s.msg /\ t.rem = None /\ t.locks = s.locks
      /\ d \in Session /\ d.pc = "done" /\ d.msg = s.msg /\ d.rem = None /\ d.locks = s.locks
  <2>1. conv.stage \in Stages /\ linkSent \in BOOLEAN
    BY DEF ConversationInv, TablesTyped
  <2>2. t \in Session /\ t.pc = "thinking" /\ t.msg = s.msg /\ t.rem = None /\ t.locks = s.locks
    BY <1>2, <2>1, ZenonT(60) DEF Session
  <2>3. d \in Session /\ d.pc = "done" /\ d.msg = s.msg /\ d.rem = None /\ d.locks = s.locks
    BY <1>2, PlaceFacts
  <2> QED BY <2>2, <2>3
<1> HIDE DEF t, d
<1>6. Good(t) /\ Good(d)
  BY <1>2, <1>5 DEF Good, Owned, Ingesting, Following, Welcome, BeforeReply, Delivering
<1> HIDE DEF s
<1>7. TablesTyped' /\ SessionsGood' /\ RemindersGood'
  BY <1>1, <1>3, <1>4, <1>5, <1>6, SessionStep DEF s
<1>8. CountsTyped'
  BY DEF LoadInputs, ConversationInv, CountsTyped, received, tables
<1> QED BY <1>7, <1>8 DEF ConversationInv

(* Transaction 2b begins.                                                    *)
LEMMA ReplyStep ==
  ASSUME ConversationInv, NEW a \in Runners, NEW d \in Answers, Reply(a, d)
  PROVE  ConversationInv'
<1> DEFINE s == tx[a]
           t == Deciding(Loaded(s), d)
           e == [s EXCEPT !.pc = "done"]
<1>1. a \in Actors /\ a \notin Chasers /\ d \in Answer
  BY ConversationAssumption DEF Actors
<1>2. /\ s \in Session /\ Good(s) /\ s.pc = "thinking"
      /\ s.msg \in stored /\ s.rem = None /\ s.msg \in Msgs
  BY <1>1 DEF ConversationInv, SessionsGood, Good, Owned, BeforeReply, Reply
<1>3. UNCHANGED <<tables, unguarded>>
  BY DEF Reply, received
<1>4. tx' = [tx EXCEPT ![a] = t] \/ tx' = [tx EXCEPT ![a] = e]
  BY DEF Reply
<1>5. /\ t \in Session /\ t.pc \in {"flushing", "sending"} /\ t.msg = s.msg /\ t.rem = None
      /\ t.locks = s.locks
  BY <1>1, <1>2, LoadedFacts, DecidingFacts DEF ConversationInv
<1>6. e \in Session /\ e.pc = "done" /\ e.msg = s.msg /\ e.rem = None /\ e.locks = s.locks
  BY <1>2, PlaceFacts
<1> HIDE DEF t, e
<1>7. Good(t) /\ Good(e)
  BY <1>2, <1>5, <1>6 DEF Good, Owned, Ingesting, Following, Welcome, BeforeReply, Delivering
<1> HIDE DEF s
<1>8. TablesTyped' /\ SessionsGood' /\ RemindersGood'
  BY <1>1, <1>3, <1>4, <1>5, <1>6, <1>7, SessionStep DEF s
<1>9. CountsTyped'
  BY DEF Reply, ConversationInv, CountsTyped, received, tables
<1> QED BY <1>8, <1>9 DEF ConversationInv

(* The follow-up is written.                                                 *)
LEMMA ComposeStep ==
  ASSUME ConversationInv, NEW c \in Chasers, NEW d \in Answers \cup {Template}, Compose(c, d)
  PROVE  ConversationInv'
<1> DEFINE s == tx[c]
           t == Deciding(s, d)
<1>1. c \in Actors /\ d \in Answer
  BY ConversationAssumption, IdleFacts DEF Actors
<1>2. s \in Session /\ Good(s) /\ s.pc = "composing" /\ s.rem \in Reminders /\ s.rem # None
  BY <1>1, ConversationAssumption DEF ConversationInv, SessionsGood, Good, Owned, Compose
<1>3. UNCHANGED <<tables, unguarded>> /\ tx' = [tx EXCEPT ![c] = t]
  BY DEF Compose, received
<1>4. /\ t \in Session /\ t.pc \in {"flushing", "sending"} /\ t.rem = s.rem
      /\ t.locks = s.locks
  BY <1>1, <1>2, DecidingFacts
<1> HIDE DEF t
<1>5. Good(t) /\ Chasing(t)
  BY <1>2, <1>4 DEF Good, Owned, Ingesting, Following, Welcome, Chasing, BeforeReply, Delivering
<1> HIDE DEF s
<1>6. TablesTyped' /\ SessionsGood' /\ RemindersGood'
  BY <1>1, <1>3, <1>4, <1>5, SessionStep DEF s
<1>7. CountsTyped'
  BY DEF Compose, ConversationInv, CountsTyped, received, tables
<1> QED BY <1>6, <1>7 DEF ConversationInv

(* The follow-up's row is locked.                                            *)
LEMMA ClaimStep ==
  ASSUME ConversationInv, NEW c \in Chasers, NEW r \in Reminders, Claim(c, r)
  PROVE  ConversationInv'
<1> DEFINE s == [Idle EXCEPT !.pc = "claimed", !.rem = r, !.locks = {r}]
<1>1. c \in Actors /\ r # None
  BY ConversationAssumption DEF Actors
<1>2. UNCHANGED <<tables, unguarded>> /\ tx' = [tx EXCEPT ![c] = s] /\ Free(r, c)
      /\ rem[r].status = "pending"
  BY DEF Claim, received
<1>3. {r} \in SUBSET Rows
  BY DEF Rows
<1>4. s \in Session /\ s.pc = "claimed" /\ s.rem = r /\ s.locks = {r}
  BY <1>3, IdleFacts DEF Session
<1> HIDE DEF s
<1>5. Good(s) /\ Chasing(s)
  BY <1>1, <1>2, <1>4
     DEF Good, Owned, Ingesting, Following, Welcome, Chasing, BeforeReply, Delivering
<1>6. TablesTyped' /\ SessionsGood' /\ RemindersGood'
  BY <1>1, <1>2, <1>4, <1>5, SessionStep
<1>7. CountsTyped'
  BY DEF Claim, ConversationInv, CountsTyped, received, tables
<1> QED BY <1>6, <1>7 DEF ConversationInv

-----------------------------------------------------------------------------
(* The steps of a delivery, whoever's it is.                                 *)
LEMMA DeliveringFacts ==
  ASSUME ConversationInv, NEW a \in Runners \cup Chasers
  PROVE  /\ a \in Actors /\ tx[a] \in Session /\ Good(tx[a])
         /\ a \in Chasers /\ tx[a].pc \in Delivering => tx[a].rem \in Reminders
BY DEF ConversationInv, SessionsGood, Actors, Chasing

(* What Flush makes of the session.                                          *)
LEMMA FlushSession ==
  ASSUME ConversationInv, NEW a \in Runners \cup Chasers, Flush(a)
  PROVE  tx' = [tx EXCEPT ![a] = [tx[a] EXCEPT !.pc = "sending",
                                               !.locks = tx[a].locks \cup {"conv"}]]
<1>1. a \in Actors /\ tx[a] \in Session
  BY DeliveringFacts
<1> QED BY <1>1 DEF Flush, ConversationInv, SessionsGood, Session

(* The first write of the conversation's row.                                *)
LEMMA FlushStep ==
  ASSUME ConversationInv, NEW a \in Runners \cup Chasers, Flush(a)
  PROVE  ConversationInv'
<1> DEFINE s == tx[a]
           t == [s EXCEPT !.pc = "sending", !.locks = s.locks \cup {"conv"}]
<1>1. /\ a \in Actors /\ s \in Session /\ Good(s) /\ s.pc = "flushing"
      /\ a \in Chasers => s.rem \in Reminders
  BY DeliveringFacts DEF Flush, Delivering
<1>2. UNCHANGED <<tables, unguarded>> /\ Free("conv", a) /\ tx' = [tx EXCEPT ![a] = t]
  BY FlushSession DEF Flush, received
<1>3. s.locks \cup {"conv"} \in SUBSET Rows
  BY <1>1 DEF Session, Rows
<1>4. /\ t \in Session /\ t.pc = "sending" /\ t.rem = s.rem /\ t.msg = s.msg
      /\ t.locks = s.locks \cup {"conv"}
  BY <1>1, <1>3 DEF Session
<1> HIDE DEF t
<1>5. Good(t) /\ (a \in Chasers => Chasing(t))
  BY <1>1, <1>4 DEF Good, Owned, Ingesting, Following, Welcome, Chasing, BeforeReply, Delivering
<1> HIDE DEF s
<1>6. TablesTyped' /\ SessionsGood' /\ RemindersGood'
  BY <1>1, <1>2, <1>4, <1>5, SessionStep DEF s
<1>7. CountsTyped'
  BY DEF Flush, ConversationInv, CountsTyped, received, tables
<1> QED BY <1>6, <1>7 DEF ConversationInv

(* The call to Meta.                                                         *)
LEMMA SendStep ==
  ASSUME ConversationInv, NEW a \in Runners \cup Chasers,
         NEW outcome \in {"none", "sent", "failed"}, Send(a, outcome)
  PROVE  ConversationInv'
<1> DEFINE s == tx[a]
           linked == outcome = "sent" /\ Links(s)
           t == [s EXCEPT !.pc = "recording", !.outcome = outcome, !.linked = linked]
<1>1. /\ a \in Actors /\ s \in Session /\ Good(s) /\ s.pc = "sending"
      /\ a \in Chasers => s.rem \in Reminders
  BY DeliveringFacts DEF Send, Delivering
<1>2. UNCHANGED <<tables, unguarded>> /\ tx' = [tx EXCEPT ![a] = t]
  BY DEF Send
<1>3. linked \in BOOLEAN
  OBVIOUS
<1> HIDE DEF linked
<1>4. /\ t \in Session /\ t.pc = "recording" /\ t.rem = s.rem /\ t.msg = s.msg
      /\ t.locks = s.locks
  BY <1>1, <1>3, ZenonT(60) DEF Session
<1> HIDE DEF t
<1>5. Good(t) /\ (a \in Chasers => Chasing(t))
  BY <1>1, <1>4 DEF Good, Owned, Ingesting, Following, Welcome, Chasing, BeforeReply, Delivering
<1>6. CountsTyped'
  <2>1. replies' \in [Msgs -> Nat]
    <3>1. replies \in [Msgs -> Nat]
      BY DEF ConversationInv, CountsTyped
    <3>2. replies' = replies \/ replies' = [replies EXCEPT ![s.msg] = replies[s.msg] + 1]
      BY DEF Send
    <3> HIDE DEF s
    <3> QED BY <3>1, <3>2
  <2>2. chases' \in 0..(Ladder + 1)
    BY ConversationAssumption DEF Send, ConversationInv, CountsTyped
  <2> QED BY <2>1, <2>2 DEF Send, ConversationInv, CountsTyped, tables
<1> HIDE DEF s
<1>7. TablesTyped' /\ SessionsGood' /\ RemindersGood'
  BY <1>1, <1>2, <1>4, <1>5, SessionStep DEF s
<1> QED BY <1>6, <1>7 DEF ConversationInv

(* The outbound message, the link's stage and the first actions.             *)
LEMMA RecordStep ==
  ASSUME ConversationInv, NEW a \in Runners \cup Chasers, Record(a)
  PROVE  ConversationInv'
<1> DEFINE s == tx[a]
           locks == IF WritesConversation(s) THEN s.locks \cup {"conv"} ELSE s.locks
           moved == s.moved \/ {AfterLink(s), StageAfter(s)} # {s.stage}
           t == [s EXCEPT !.pc = "acting", !.locks = locks, !.moved = moved,
                          !.stage = StageAfter(s)]
<1>1. /\ a \in Actors /\ s \in Session /\ Good(s) /\ s.pc = "recording"
      /\ a \in Chasers => s.rem \in Reminders
  BY DeliveringFacts DEF Record, Delivering
<1>2. /\ UNCHANGED <<tables, unguarded>>
      /\ WritesConversation(s) => Free("conv", a)
      /\ tx' = [tx EXCEPT ![a] = t]
  BY DEF Record, received
<1>3. /\ locks \in SUBSET Rows /\ s.locks \subseteq locks
      /\ \A row \in locks : row \in s.locks \/ Free(row, a)
      /\ s.outcome = "sent" => "conv" \in locks
  <2>1. s.locks \in SUBSET Rows /\ "conv" \in Rows
    BY <1>1 DEF Session, Rows
  <2>2. s.outcome = "sent" => WritesConversation(s)
    BY DEF WritesConversation
  <2> QED BY <1>2, <2>1, <2>2
<1>4. moved \in BOOLEAN
  BY <1>1 DEF Session
<1>5. StageAfter(s) \in Stages
  <2>1. s.stage \in Stages /\ s.mode \in {"ai", "human"} /\ s.choice.actions \in SUBSET Actions
    BY <1>1 DEF Session, Answer
  <2>2. "link_sent" \in Stages
    BY DEF Stages
  <2>3. AfterLink(s) \in Stages
    BY <2>1, <2>2, StagesStay DEF AfterLink
  <2> QED BY <2>1, <2>3, StagesStay DEF StageAfter
<1> HIDE DEF locks, moved
<1>6. t \in Session
  BY <1>1, <1>3, <1>4, <1>5 DEF Session
<1>7. /\ t.pc = "acting" /\ t.rem = s.rem /\ t.msg = s.msg /\ t.locks = locks
      /\ t.outcome = s.outcome
  BY <1>1 DEF Session
<1> HIDE DEF t
<1>8. Good(t) /\ (a \in Chasers => Chasing(t))
  BY <1>1, <1>3, <1>7
     DEF Good, Owned, Ingesting, Following, Welcome, Chasing, BeforeReply, Delivering
<1> HIDE DEF s
<1>9. TablesTyped' /\ SessionsGood' /\ RemindersGood'
  BY <1>1, <1>2, <1>3, <1>6, <1>7, <1>8, SessionStep DEF s
<1>10. CountsTyped'
  BY DEF Record, ConversationInv, CountsTyped, received, tables
<1> QED BY <1>9, <1>10 DEF ConversationInv

(* The plan is made and what is pending is looked for.                       *)
LEMMA ActStep ==
  ASSUME ConversationInv, NEW a \in Runners \cup Chasers, Act(a)
  PROVE  ConversationInv'
<1> DEFINE s == tx[a]
           optedOut == s.optedOut \/ OptsOut(s)
           o == [s EXCEPT !.optedOut = optedOut]
           plan == Planned(o)
           p == [o EXCEPT !.plan = plan]
           locks == IF OptsOut(s) THEN s.locks \cup {"cust"} ELSE s.locks
           snap == IF Cancels(p) THEN Pending \ {s.rem} ELSE {}
           t == [p EXCEPT !.pc = "closing", !.locks = locks, !.snap = snap]
<1>1. /\ a \in Actors /\ s \in Session /\ Good(s) /\ s.pc = "acting"
      /\ a \in Chasers => s.rem \in Reminders
  BY DeliveringFacts DEF Act, Delivering
<1>2. optedOut \in BOOLEAN
  BY <1>1 DEF Session
<1> HIDE DEF optedOut
<1>3. o \in Session /\ o.outcome = s.outcome
  BY <1>1, <1>2 DEF Session
<1> HIDE DEF o
<1>4. plan \in {"none", "check-in", "promise"} /\ (plan # "none" => s.outcome = "sent")
  BY <1>3 DEF Planned
<1> HIDE DEF plan
<1>5. p \in Session /\ p.plan = plan
  BY <1>3, <1>4 DEF Session
<1>6. /\ p.outcome = s.outcome /\ p.rem = s.rem /\ p.msg = s.msg /\ p.locks = s.locks
      /\ p.choice = s.choice
  BY <1>1 DEF Session, o
<1> HIDE DEF p
<1>7. /\ UNCHANGED <<tables, unguarded>>
      /\ OptsOut(s) => Free("cust", a)
      /\ tx' = [tx EXCEPT ![a] = t]
  <2>1. OptsOut(s) => Free("cust", a)
    BY DEF Act
  <2>2. tx' = [tx EXCEPT ![a] = t]
    BY <1>6 DEF Act, o, p, plan, optedOut
  <2> QED BY <2>1, <2>2 DEF Act, received
<1>8. /\ locks \in SUBSET Rows /\ s.locks \subseteq locks
      /\ \A row \in locks : row \in s.locks \/ Free(row, a)
  <2>1. s.locks \in SUBSET Rows /\ "cust" \in Rows
    BY <1>1 DEF Session, Rows
  <2> QED BY <1>7, <2>1
<1>9. snap \in SUBSET Reminders /\ (Cancels(p) => Pending \subseteq snap \cup {s.rem})
  BY DEF Pending
<1> HIDE DEF locks, snap
<1>10. t \in Session
  BY <1>5, <1>8, <1>9 DEF Session
<1>11. /\ t.pc = "closing" /\ t.rem = s.rem /\ t.msg = s.msg /\ t.locks = locks
       /\ t.outcome = s.outcome /\ t.plan = plan /\ t.snap = snap /\ t.choice = p.choice
  BY <1>5, <1>6 DEF Session
<1>12. Cancels(t) => Cancels(p)
  BY <1>5, <1>11 DEF Cancels, Handover, OptsOut
<1> HIDE DEF t
<1>13. Good(t) /\ (a \in Chasers => Chasing(t))
  BY <1>1, <1>4, <1>8, <1>9, <1>11, <1>12
     DEF Good, Owned, Ingesting, Following, Welcome, Chasing, BeforeReply, Delivering
<1> HIDE DEF s
<1>14. TablesTyped' /\ SessionsGood' /\ RemindersGood'
  BY <1>1, <1>7, <1>8, <1>10, <1>11, <1>13, SessionStep DEF s
<1>15. CountsTyped'
  BY DEF Act, ConversationInv, CountsTyped, received, tables
<1> QED BY <1>14, <1>15 DEF ConversationInv

-----------------------------------------------------------------------------
(* The steps that change the tables.                                         *)
LEMMA OperatorStep ==
  ASSUME ConversationInv, NEW o \in Operators, TakeOver(o) \/ Release(o)
  PROVE  ConversationInv'
<1> DEFINE s == tx[o]
<1>1. o \in Actors
  BY DEF Actors
<1>2. s.stage \in Stages /\ s.mode \in {"ai", "human"}
  BY <1>1 DEF ConversationInv, SessionsGood, Session
<1>3. HandedOff(s.stage, s.mode) \in Stages /\ Returned(s.stage, NoStage) \in Stages
  BY <1>2, StagesStay
<1>4. conv' \in [stage : Stages, mode : {"ai", "human"}]
  BY <1>3 DEF TakeOver, Release, ConversationInv, TablesTyped
<1>5. tx' = [tx EXCEPT ![o] = Idle] /\ UNCHANGED <<cust, linkSent, stored, answered, rem, unguarded>>
  BY DEF TakeOver, Release, received
<1>6. TablesTyped' /\ SessionsGood' /\ RemindersGood'
  BY <1>1, <1>4, <1>5, IdleFacts, TableStep DEF ConversationInv, TablesTyped
<1>7. CountsTyped'
  BY DEF TakeOver, Release, ConversationInv, CountsTyped, received
<1> QED BY <1>6, <1>7 DEF ConversationInv

(* The install reaches the customer and the conversation.                    *)
LEMMA ReportStep ==
  ASSUME ConversationInv, NEW b \in Backends, Report(b)
  PROVE  ConversationInv'
<1> DEFINE s == tx[b]
<1>1. b \in Actors
  BY DEF Actors
<1>2. s.level \in {"downloaded", "activated"}
  BY <1>1 DEF ConversationInv, SessionsGood, Session, Good, Owned, Report
<1>3. s.level \in Stages
  BY <1>2 DEF Stages
<1>4. /\ conv' \in [stage : Stages, mode : {"ai", "human"}]
      /\ cust' \in [optedOut : BOOLEAN, installed : {"no", "downloaded", "activated"}]
      /\ cust'.optedOut = cust.optedOut
  BY <1>2, <1>3 DEF Report, ConversationInv, TablesTyped
<1>5. tx' = [tx EXCEPT ![b] = Idle] /\ UNCHANGED <<linkSent, stored, answered, rem, unguarded>>
  BY DEF Report, received
<1>6. TablesTyped' /\ SessionsGood' /\ RemindersGood'
  BY <1>1, <1>4, <1>5, IdleFacts, TableStep
<1>7. CountsTyped'
  BY DEF Report, ConversationInv, CountsTyped, received
<1> QED BY <1>6, <1>7 DEF ConversationInv

(* relevance_block passes the follow-up or cancels it.                       *)
LEMMA LookAgainStep ==
  ASSUME ConversationInv, NEW c \in Chasers, LookAgain(c)
  PROVE  ConversationInv'
<1> DEFINE s == tx[c]
<1>1. /\ c \in Actors /\ s \in Session /\ Good(s) /\ s.pc = "claimed"
      /\ s.rem \in Reminders /\ s.rem # None
  BY ConversationAssumption DEF LookAgain, ConversationInv, SessionsGood, Actors, Good, Owned
<1>2. s.rem \in s.locks /\ rem[s.rem].status = "pending"
  BY <1>1 DEF Good, Owned
<1>3. UNCHANGED <<conv, cust, linkSent, stored, answered, unguarded>>
  BY DEF LookAgain, received
<1>4. CountsTyped'
  BY DEF LookAgain, ConversationInv, CountsTyped, received
<1>5. CASE Irrelevant(s.rem)
  <2>1. tx' = [tx EXCEPT ![c] = Idle] /\ rem' = Cancelled({s.rem})
    BY <1>5 DEF LookAgain
  <2>2. rem' = [r \in Reminders |-> IF r = s.rem THEN [rem[r] EXCEPT !.status = "ended"] ELSE rem[r]]
    BY <1>2, <2>1 DEF Cancelled
  <2>3. /\ rem' \in [Reminders -> Reminder]
        /\ \A r \in Reminders : rem'[r].since = rem[r].since
        /\ \A r \in Reminders \ {s.rem} : rem'[r] = rem[r]
        /\ rem'[s.rem].status = "ended"
    BY <1>1, <2>2 DEF ConversationInv, TablesTyped, Reminder
  <2>4. TablesTyped' /\ Heard' = Heard /\ Pending' \subseteq Pending
    BY <1>3, <2>3 DEF ConversationInv, TablesTyped, Heard, Pending
  <2>5. RemindersGood'
    BY <2>3, <2>4 DEF ConversationInv, RemindersGood
  <2>6. \A b \in Actors : tx'[b] = IF b = c THEN Idle ELSE tx[b]
    BY <2>1 DEF ConversationInv, SessionsGood
  <2>7. /\ tx' \in [Actors -> Session]
        /\ \A b, d \in Actors : b # d => tx'[b].locks \cap tx'[d].locks = {}
    BY <2>1, <2>6, IdleFacts DEF ConversationInv, SessionsGood
  <2>8. (\A b \in Actors : Good(tx[b]))'
    <3>1. \A b \in Actors \ {c} : s.rem \notin tx[b].locks
      BY <1>1, <1>2 DEF ConversationInv, SessionsGood
    <3>2. \A b \in Actors \ {c} : Good(tx[b])
      BY DEF ConversationInv, SessionsGood
    <3>3. ASSUME NEW b \in Actors \ {c} PROVE (Good(tx[b]))'
      <4>1. tx'[b] = tx[b] /\ Good(tx[b]) /\ s.rem \notin tx[b].locks
        BY <2>6, <3>1, <3>2
      <4>2. tx[b].rem # None =>
              tx[b].rem \in Reminders /\ rem'[tx[b].rem] = rem[tx[b].rem]
        BY <2>3, <4>1 DEF Good, Owned, ConversationInv, SessionsGood, Session
      <4>3. (Owned(tx[b]))'
        BY <1>3, <4>1, <4>2 DEF Good, Owned
      <4>4. (Ingesting(tx[b]))'
        BY <2>4, <4>1 DEF Good, Ingesting
      <4>5. (Following(tx[b]))'
        BY <2>4, <4>1 DEF Good, Following, Cancels, Handover, OptsOut
      <4>6. (Welcome(tx[b]))'
        BY <1>3, <2>4, <4>1, <4>2 DEF Good, Welcome
      <4> QED BY <4>3, <4>4, <4>5, <4>6 DEF Good
    <3>4. (Good(tx[c]))'
      BY <1>1, <2>6 DEF Good, Owned, Ingesting, Following, Welcome, Idle, Delivering, BeforeReply
    <3> QED BY <3>3, <3>4
  <2>9. (\A d \in Chasers : Chasing(tx[d]))'
    BY <2>6, IdleFacts DEF ConversationInv, SessionsGood, Chasing, Actors
  <2> QED BY <1>4, <2>4, <2>5, <2>7, <2>8, <2>9 DEF ConversationInv, SessionsGood
<1>6. CASE ~Irrelevant(s.rem)
  <2> DEFINE l == Loaded(s)
             t == [l EXCEPT !.pc = "composing", !.view = conv.stage, !.linkSeen = linkSent]
  <2>1. tx' = [tx EXCEPT ![c] = t] /\ UNCHANGED rem
    BY <1>6 DEF LookAgain
  <2>2. l \in Session /\ l.rem = s.rem /\ l.msg = s.msg /\ l.locks = s.locks
    BY <1>1, LoadedFacts DEF ConversationInv
  <2>3. conv.stage \in Stages /\ linkSent \in BOOLEAN
    BY DEF ConversationInv, TablesTyped
  <2> HIDE DEF l
  <2>4. t \in Session /\ t.pc = "composing" /\ t.rem = s.rem /\ t.locks = s.locks
    BY <2>2, <2>3, ZenonT(60) DEF Session
  <2>5. Heard = rem[s.rem].since /\ ~cust.optedOut
    <3>1. rem[s.rem].since \in Nat /\ Heard \in Nat
      BY <1>1, HeardFacts, FS_CardinalityType, ConversationAssumption
         DEF ConversationInv, TablesTyped, Reminder
    <3>2. rem[s.rem].since <= Heard
      BY <1>1 DEF ConversationInv, RemindersGood
    <3> QED BY <1>6, <3>1, <3>2 DEF Irrelevant
  <2> HIDE DEF t
  <2>6. Good(t) /\ Chasing(t)
    BY <1>1, <1>2, <2>4, <2>5
       DEF Good, Owned, Ingesting, Following, Welcome, Chasing, Delivering, BeforeReply
  <2> HIDE DEF s
  <2>7. TablesTyped' /\ SessionsGood' /\ RemindersGood'
    BY <1>1, <1>3, <2>1, <2>4, <2>6, SessionStep DEF s, tables
  <2> QED BY <1>4, <2>7 DEF ConversationInv
<1> QED BY <1>5, <1>6

(* cancel_pending ends what it found pending and touches nothing else.       *)
LEMMA CancelledFacts ==
  ASSUME TablesTyped, NEW S \in SUBSET Reminders
  PROVE  /\ Cancelled(S) \in [Reminders -> Reminder]
         /\ \A r \in Reminders : /\ Cancelled(S)[r].since = rem[r].since
                                 /\ Cancelled(S)[r].status = "pending" =>
                                      rem[r].status = "pending" /\ r \notin S
                                 /\ r \notin S => Cancelled(S)[r] = rem[r]
<1> DEFINE ended(r) == [rem[r] EXCEPT !.status = "ended"]
<1>1. \A r \in Reminders : /\ rem[r] \in Reminder
                           /\ ended(r) \in Reminder /\ ended(r).since = rem[r].since
                           /\ ended(r).status = "ended"
  BY DEF TablesTyped, Reminder
<1>2. \A r \in Reminders : Cancelled(S)[r] = IF r \in S /\ rem[r].status = "pending"
                                             THEN ended(r) ELSE rem[r]
  BY DEF Cancelled
<1>3. Cancelled(S) = [r \in Reminders |-> Cancelled(S)[r]]
  BY DEF Cancelled
<1> HIDE DEF ended
<1> QED BY <1>1, <1>2, <1>3

(* The message is taken note of: nothing is pending any more, no follow-up   *)
(* is on its way, and no other transaction has the conversation's row.       *)
LEMMA CommitIngestStep ==
  ASSUME ConversationInv, NEW a \in Runners, CommitIngest(a)
  PROVE  ConversationInv'
<1> DEFINE s == tx[a]
           t == AfterIngest(s)
<1>1. a \in Actors /\ a \notin Chasers
  BY ConversationAssumption DEF Actors
<1>2. /\ s \in Session /\ Good(s) /\ s.pc = "cancelling" /\ s.msg \in Msgs
      /\ "conv" \in s.locks /\ Pending \subseteq s.snap /\ s.snap \in SUBSET Reminders
  BY <1>1
     DEF ConversationInv, SessionsGood, Session, Good, Owned, Ingesting, BeforeReply, CommitIngest
<1>3. /\ \A r \in s.snap : Free(r, a)
      /\ stored' = stored \cup {s.msg}
      /\ conv' = [conv EXCEPT !.stage = StageOf(s)]
      /\ cust' = [cust EXCEPT !.optedOut = @ /\ ~s.optedOut]
      /\ rem' = Cancelled(s.snap)
      /\ tx' = [tx EXCEPT ![a] = t]
      /\ UNCHANGED <<linkSent, answered>>
  BY DEF CommitIngest
<1>4. \A b \in Actors \ {a} : "conv" \notin tx[b].locks
  BY <1>1, <1>2 DEF ConversationInv, SessionsGood
<1>5. \A b \in Actors \ {a} : tx[b].rem = None
  <2> SUFFICES ASSUME NEW b \in Actors \ {a}, tx[b].rem # None PROVE FALSE
    OBVIOUS
  <2>1. tx[b].rem \in Reminders /\ tx[b].rem \in tx[b].locks /\ rem[tx[b].rem].status = "pending"
    BY DEF ConversationInv, SessionsGood, Session, Good, Owned
  <2>2. Free(tx[b].rem, a)
    BY <1>2, <1>3, <2>1 DEF Pending
  <2> QED BY <2>1, <2>2 DEF Free
<1>6. /\ rem' \in [Reminders -> Reminder] /\ Pending' = {}
      /\ \A r \in Reminders : rem'[r].since = rem[r].since
  BY <1>2, <1>3, CancelledFacts DEF ConversationInv, Pending
<1>7. Heard \in Nat /\ Heard' \in Nat /\ Heard <= Heard'
  <2>1. IsFiniteSet(stored') /\ stored \subseteq stored'
    BY <1>2, <1>3, FS_Subset, ConversationAssumption DEF ConversationInv, TablesTyped
  <2> QED BY <2>1, FS_Subset, FS_CardinalityType DEF Heard
<1>8. TablesTyped'
  <2>1. StageOf(s) \in Stages
    BY <1>2 DEF StageOf, Session, ConversationInv, TablesTyped
  <2>2. conv' \in [stage : Stages, mode : {"ai", "human"}]
    BY <1>3, <2>1 DEF ConversationInv, TablesTyped
  <2>3. cust' \in [optedOut : BOOLEAN, installed : {"no", "downloaded", "activated"}]
    BY <1>3 DEF ConversationInv, TablesTyped
  <2> QED BY <1>2, <1>3, <1>6, <2>2, <2>3 DEF ConversationInv, TablesTyped
<1>9. RemindersGood'
  <2>1. \A r \in Reminders : rem[r].since \in Nat /\ rem[r].since <= Heard
    BY FS_CardinalityType, ConversationAssumption
       DEF ConversationInv, TablesTyped, RemindersGood, Reminder
  <2> QED BY <1>6, <1>7, <2>1 DEF RemindersGood
<1>10. CountsTyped'
  BY <1>3, ConversationAssumption DEF CommitIngest, ConversationInv, CountsTyped
<1>11. /\ t \in Session /\ t.pc \in {"queued", "done"} /\ t.msg = s.msg
       /\ t.rem = None /\ t.locks = {}
  BY <1>2, AfterIngestFacts
<1> HIDE DEF t
<1>12. \A b \in Actors : tx'[b] = IF b = a THEN t ELSE tx[b]
  BY <1>3 DEF ConversationInv, SessionsGood
<1>13. /\ tx' \in [Actors -> Session]
       /\ \A b, d \in Actors : b # d => tx'[b].locks \cap tx'[d].locks = {}
  BY <1>3, <1>11, <1>12 DEF ConversationInv, SessionsGood
<1>14. (\A b \in Actors : Good(tx[b]))'
  <2>1. ASSUME NEW b \in Actors \ {a} PROVE (Good(tx[b]))'
    <3>1. tx'[b] = tx[b] /\ Good(tx[b]) /\ tx[b].rem = None /\ "conv" \notin tx[b].locks
      BY <1>4, <1>5, <1>12 DEF ConversationInv, SessionsGood
    <3>2. (Owned(tx[b]))'
      BY <1>3, <3>1 DEF Good, Owned
    <3>3. (Ingesting(tx[b]))' /\ (Following(tx[b]))' /\ (Welcome(tx[b]))'
      BY <3>1 DEF Good, Ingesting, Following, Welcome
    <3> QED BY <3>2, <3>3 DEF Good
  <2>2. (Good(tx[a]))'
    BY <1>1, <1>2, <1>3, <1>11, <1>12
       DEF Good, Owned, Ingesting, Following, Welcome, BeforeReply, Delivering
  <2> QED BY <2>1, <2>2
<1>15. (\A c \in Chasers : Chasing(tx[c]))'
  BY <1>1, <1>12 DEF ConversationInv, SessionsGood, Chasing, Actors
<1> QED BY <1>8, <1>9, <1>10, <1>13, <1>14, <1>15 DEF ConversationInv, SessionsGood

(* What a commit makes of the reminders.                                     *)
LEMMA RescheduledFacts ==
  ASSUME ConversationInv, NEW a \in Runners \cup Chasers, tx[a].pc = "closing",
         \A r \in tx[a].snap : Free(r, a),
         tx[a].plan # "none" => Unused # {}
  PROVE  /\ Rescheduled(tx[a]) \in [Reminders -> Reminder]
         /\ \A r \in Reminders : Rescheduled(tx[a])[r].since <= Heard
         /\ \A b \in Actors \ {a} : \A r \in Reminders :
              r \in tx[b].locks => Rescheduled(tx[a])[r] = rem[r]
         /\ tx[a].plan = "none" =>
              \A r \in Reminders : Rescheduled(tx[a])[r].status = "pending" => r \in Pending
         /\ tx[a].plan # "none" =>
              \A p, q \in Reminders :
                (/\ Rescheduled(tx[a])[p].status = "pending"
                 /\ Rescheduled(tx[a])[q].status = "pending") => p = q
<1> DEFINE s == tx[a]
           new == IF s.plan = "none" THEN None ELSE CHOOSE r \in Unused : TRUE
           kept == Cancelled(s.snap)
           fresh == [status |-> "pending", since |-> Heard, promised |-> s.plan = "promise"]
           settledAs(r) == [kept[r] EXCEPT !.status = IF s.outcome = "sent" THEN "sent" ELSE "ended"]
<1>1. /\ a \in Actors /\ s \in Session /\ Good(s) /\ s.snap \in SUBSET Reminders
  BY DeliveringFacts DEF Session
<1>2. s.plan = "none" => new = None
  OBVIOUS
<1>3. s.plan # "none" => new \in Unused /\ new \in Reminders
  BY DEF Unused
<1>4. /\ kept \in [Reminders -> Reminder]
      /\ \A r \in Reminders : /\ kept[r].since = rem[r].since
                              /\ kept[r].status = "pending" =>
                                   rem[r].status = "pending" /\ r \notin s.snap
                              /\ r \notin s.snap => kept[r] = rem[r]
  BY <1>1, CancelledFacts DEF ConversationInv
<1>5. fresh \in Reminder /\ fresh.since = Heard
  <2>1. Heard \in 0..Cardinality(Msgs)
    BY HeardFacts DEF ConversationInv
  <2> QED BY <2>1 DEF Reminder
<1>6. \A r \in Reminders : /\ settledAs(r) \in Reminder /\ settledAs(r).since = rem[r].since
                           /\ settledAs(r).status # "pending"
  BY <1>4 DEF Reminder
<1>7. /\ Rescheduled(s) = [r \in Reminders |-> IF r = new THEN fresh
                                               ELSE IF r = s.rem THEN settledAs(r) ELSE kept[r]]
  BY DEF Rescheduled
<1> HIDE DEF new, kept, fresh, settledAs
<1>8. \A r \in Reminders : Rescheduled(s)[r] = IF r = new THEN fresh
                                ELSE IF r = s.rem THEN settledAs(r) ELSE kept[r]
  BY <1>7
<1>9. Rescheduled(s) \in [Reminders -> Reminder]
  BY <1>4, <1>5, <1>6, <1>7
<1>10. \A r \in Reminders : Rescheduled(s)[r].since <= Heard
  <2>1. Heard \in Nat /\ \A r \in Reminders : rem[r].since <= Heard
    BY HeardFacts, FS_CardinalityType, ConversationAssumption DEF ConversationInv, RemindersGood
  <2> QED BY <1>4, <1>5, <1>6, <1>8, <2>1
<1>11. ASSUME NEW b \in Actors \ {a}, NEW r \in Reminders, r \in tx[b].locks
       PROVE  Rescheduled(s)[r] = rem[r]
  <2>1. r # new
    BY <1>2, <1>3, <1>11, ConversationAssumption DEF Unused
  <2>2. r # s.rem
    BY <1>1, <1>11, ConversationAssumption DEF ConversationInv, SessionsGood, Good, Owned
  <2>3. r \notin s.snap
    BY <1>11 DEF Free
  <2> QED BY <1>4, <1>8, <2>1, <2>2, <2>3
<1>12. ASSUME s.plan = "none", NEW r \in Reminders, Rescheduled(s)[r].status = "pending"
       PROVE  r \in Pending
  <2>1. r # new
    BY <1>2, <1>12, ConversationAssumption
  <2> QED BY <1>4, <1>6, <1>8, <1>12, <2>1 DEF Pending
<1>13. ASSUME s.plan # "none", NEW r \in Reminders, Rescheduled(s)[r].status = "pending"
       PROVE  r = new
  <2>1. "conv" \in s.locks /\ Cancels(s)
    BY <1>1, <1>13 DEF Good, Following, Cancels
  <2>2. Pending \subseteq s.snap \cup {s.rem}
    BY <1>1, <2>1 DEF Good, Following
  <2> SUFFICES ASSUME r # new PROVE FALSE
    OBVIOUS
  <2>3. r # s.rem /\ Rescheduled(s)[r] = kept[r]
    BY <1>6, <1>8, <1>13
  <2>4. r \in Pending /\ r \notin s.snap
    BY <1>4, <1>13, <2>3 DEF Pending
  <2> QED BY <2>2, <2>3, <2>4
<1>14. s.plan # "none" =>
         \A p, q \in Reminders : (/\ Rescheduled(s)[p].status = "pending"
                                  /\ Rescheduled(s)[q].status = "pending") => p = q
  <2> SUFFICES ASSUME s.plan # "none", NEW p \in Reminders, NEW q \in Reminders,
                      Rescheduled(s)[p].status = "pending", Rescheduled(s)[q].status = "pending"
               PROVE  p = q
    OBVIOUS
  <2>1. p = new /\ q = new
    BY <1>13
  <2> QED BY <2>1
<1>15. \A b \in Actors \ {a} : \A r \in Reminders :
         r \in tx[b].locks => Rescheduled(s)[r] = rem[r]
  BY <1>11
<1>16. s.plan = "none" =>
         \A r \in Reminders : Rescheduled(s)[r].status = "pending" => r \in Pending
  BY <1>12
<1> QED BY <1>9, <1>10, <1>14, <1>15, <1>16

(* A delivery commits: one follow-up is pending at most, and none on its way is hurt.*)
LEMMA CommitStep ==
  ASSUME ConversationInv, NEW a \in Runners \cup Chasers, Commit(a)
  PROVE  ConversationInv'
<1> DEFINE s == tx[a]
           t == IF s.rem = None THEN [Idle EXCEPT !.pc = "done", !.msg = s.msg] ELSE Idle
<1>1. /\ a \in Actors /\ s \in Session /\ Good(s) /\ s.pc = "closing"
      /\ a \in Chasers => s.rem \in Reminders
  BY DeliveringFacts DEF Commit, Delivering
<1>2. s.rem = None => s.msg \in stored
  BY <1>1 DEF Good, Owned, Delivering
<1>3. /\ \A r \in s.snap : Free(r, a)
      /\ s.plan # "none" => Unused # {}
      /\ conv' = [stage |-> StageOf(s),
                  mode |-> IF Handover(s) /\ s.mode = "ai" THEN "human" ELSE conv.mode]
      /\ cust' = [cust EXCEPT !.optedOut = @ \/ OptsOut(s)]
      /\ linkSent' = (linkSent \/ s.linked)
      /\ answered' = answered \cup Logged(s)
      /\ rem' = Rescheduled(s)
      /\ tx' = [tx EXCEPT ![a] = t]
      /\ unguarded' = (unguarded \/ (OptsOut(s) /\ "conv" \notin s.locks))
      /\ UNCHANGED stored
  BY DEF Commit
<1>4. /\ rem' \in [Reminders -> Reminder]
      /\ \A r \in Reminders : rem'[r].since <= Heard
      /\ \A b \in Actors \ {a} : \A r \in Reminders : r \in tx[b].locks => rem'[r] = rem[r]
      /\ s.plan = "none" => Pending' \subseteq Pending
      /\ \A p, q \in Pending' : p = q
  <2>1. Pending' = {r \in Reminders : Rescheduled(s)[r].status = "pending"}
    BY <1>3 DEF Pending
  <2> QED BY <1>1, <1>3, <2>1, RescheduledFacts DEF ConversationInv, RemindersGood, Pending
<1>5. TablesTyped'
  <2>1. StageOf(s) \in Stages
    BY <1>1 DEF StageOf, Session, ConversationInv, TablesTyped
  <2>2. conv' \in [stage : Stages, mode : {"ai", "human"}]
    BY <1>3, <2>1 DEF ConversationInv, TablesTyped
  <2>3. cust' \in [optedOut : BOOLEAN, installed : {"no", "downloaded", "activated"}]
    BY <1>3 DEF ConversationInv, TablesTyped
  <2>4. answered' \subseteq stored'
    BY <1>2, <1>3 DEF Logged, ConversationInv, TablesTyped
  <2> QED BY <1>3, <1>4, <2>2, <2>3, <2>4 DEF ConversationInv, TablesTyped
<1>6. Heard' = Heard /\ RemindersGood'
  BY <1>3, <1>4 DEF RemindersGood, Heard
<1>7. CountsTyped'
  BY <1>3 DEF Commit, ConversationInv, CountsTyped
<1>8. /\ t \in Session /\ t.locks = {} /\ t.rem = None
      /\ t.pc \in {"idle", "done"} /\ (t.pc = "done" => s.rem = None /\ t.msg = s.msg)
  <2> DEFINE d == [Idle EXCEPT !.pc = "done", !.msg = s.msg]
  <2>1. s.msg \in Msgs \cup {None} /\ Idle.rem = None
    BY <1>1 DEF Session, Idle
  <2>2. d \in Session /\ d.locks = {} /\ d.rem = None /\ d.pc = "done" /\ d.msg = s.msg
    BY <2>1, IdleFacts, ZenonT(60) DEF Session
  <2>3. t = IF s.rem = None THEN d ELSE Idle
    OBVIOUS
  <2> HIDE DEF d, t
  <2> QED BY <2>1, <2>2, <2>3, IdleFacts
<1> HIDE DEF t
<1>9. \A b \in Actors : tx'[b] = IF b = a THEN t ELSE tx[b]
  BY <1>3 DEF ConversationInv, SessionsGood
<1>10. /\ tx' \in [Actors -> Session]
       /\ \A b, d \in Actors : b # d => tx'[b].locks \cap tx'[d].locks = {}
  BY <1>3, <1>8, <1>9 DEF ConversationInv, SessionsGood
<1>11. (\A b \in Actors : Good(tx[b]))'
  <2>1. ASSUME NEW b \in Actors \ {a} PROVE (Good(tx[b]))'
    <3>1. tx'[b] = tx[b] /\ Good(tx[b]) /\ s.locks \cap tx[b].locks = {}
      BY <1>1, <1>9 DEF ConversationInv, SessionsGood
    <3>2. tx[b].rem # None => /\ tx[b].rem \in Reminders /\ tx[b].rem \in tx[b].locks
                              /\ rem[tx[b].rem].status = "pending"
                              /\ rem'[tx[b].rem] = rem[tx[b].rem]
      BY <1>4, <3>1 DEF Good, Owned, ConversationInv, SessionsGood, Session
    <3>3. (Owned(tx[b]))'
      BY <1>3, <3>1, <3>2 DEF Good, Owned
    <3>4. "conv" \in tx[b].locks => Pending' \subseteq Pending
      BY <1>1, <1>4, <3>1 DEF Good, Following
    <3>5. (Ingesting(tx[b]))'
      BY <3>1, <3>4 DEF Good, Ingesting
    <3>6. (Following(tx[b]))'
      BY <3>1, <3>4 DEF Good, Following, Cancels, Handover, OptsOut
    <3>7. tx[b].rem # None /\ OptsOut(s) => "conv" \notin s.locks
      <4> SUFFICES ASSUME tx[b].rem # None, OptsOut(s), "conv" \in s.locks PROVE FALSE
        OBVIOUS
      <4>1. Pending \subseteq s.snap \cup {s.rem}
        BY <1>1 DEF Good, Following, Cancels
      <4>2. tx[b].rem \in Pending
        BY <3>2 DEF Pending
      <4>3. tx[b].rem \notin s.snap
        BY <1>3, <3>2 DEF Free
      <4>4. tx[b].rem # s.rem
        BY <1>1, <3>1, <3>2 DEF Good, Owned
      <4> QED BY <4>1, <4>2, <4>3, <4>4
    <3>8. cust'.optedOut = (cust.optedOut \/ OptsOut(s))
      BY <1>3 DEF ConversationInv, TablesTyped
    <3>9. (Welcome(tx[b]))'
      BY <1>3, <1>6, <3>1, <3>2, <3>7, <3>8 DEF Good, Welcome
    <3> QED BY <3>3, <3>5, <3>6, <3>9 DEF Good
  <2>2. (Good(tx[a]))'
    BY <1>1, <1>2, <1>3, <1>8, <1>9
       DEF Good, Owned, Ingesting, Following, Welcome, BeforeReply, Delivering, ConversationInv, TablesTyped
  <2> QED BY <2>1, <2>2
<1>12. (\A c \in Chasers : Chasing(tx[c]))'
  <2>1. a \in Chasers => s.rem # None
    BY <1>1, ConversationAssumption
  <2>2. a \in Chasers => t.pc = "idle"
    BY <1>8, <2>1
  <2> QED BY <1>9, <2>2 DEF ConversationInv, SessionsGood, Chasing, Actors, BeforeReply, Delivering
<1> QED BY <1>5, <1>6, <1>7, <1>10, <1>11, <1>12 DEF ConversationInv, SessionsGood

-----------------------------------------------------------------------------
LEMMA InitHolds == Init => ConversationInv
<1> SUFFICES ASSUME Init PROVE ConversationInv
  OBVIOUS
<1>1. Cardinality(Msgs) \in Nat
  BY FS_CardinalityType, ConversationAssumption
<1>2. Pending = {}
  BY DEF Init, Pending
<1>3. Heard = 0
  BY FS_EmptySet DEF Init, Heard
<1>4. TablesTyped
  <2> DEFINE unused == [status |-> "unused", since |-> 0, promised |-> FALSE]
  <2>1. unused \in Reminder
    BY <1>1 DEF Reminder
  <2>2. rem \in [Reminders -> Reminder]
    BY <2>1 DEF Init
  <2>3. conv \in [stage : Stages, mode : {"ai", "human"}]
    BY DEF Init, Stages
  <2>4. cust \in [optedOut : BOOLEAN, installed : {"no", "downloaded", "activated"}]
    BY DEF Init
  <2> QED BY <2>2, <2>3, <2>4 DEF Init, TablesTyped
<1>5. CountsTyped
  <2>1. tries \in [Msgs -> 0..MaxTries] /\ replies \in [Msgs -> Nat]
    BY ConversationAssumption DEF Init
  <2>2. chases \in 0..(Ladder + 1) /\ crashes \in 0..MaxCrashes
    BY ConversationAssumption DEF Init
  <2>3. settled \subseteq stored /\ unrecorded \subseteq Msgs \cup {None}
    BY DEF Init
  <2> QED BY <2>1, <2>2, <2>3 DEF Init, CountsTyped
<1>6. \A a \in Actors : tx[a] = Idle
  BY DEF Init
<1>7. SessionsGood
  <2>1. tx \in [Actors -> Session]
    BY IdleFacts DEF Init
  <2> QED BY <1>6, <2>1, IdleFacts DEF SessionsGood, Actors
<1>8. RemindersGood
  BY <1>2, <1>3 DEF Init, RemindersGood
<1> QED BY <1>4, <1>5, <1>7, <1>8 DEF ConversationInv

(* A stuttering step.                                                        *)
LEMMA UnchangedHolds == ConversationInv /\ UNCHANGED vars => ConversationInv'
<1> SUFFICES ASSUME ConversationInv, UNCHANGED vars PROVE ConversationInv'
  OBVIOUS
<1>1. TablesTyped' /\ CountsTyped' /\ RemindersGood'
  BY
     DEF vars, tables, received, ConversationInv, TablesTyped, CountsTyped, RemindersGood,
         Pending, Heard
<1>2. SessionsGood'
  BY DEF vars, tables, received, ConversationInv, SessionsGood, Good, Owned, Ingesting, Following,
         Welcome, Chasing, Pending, Heard, Cancels, Handover, OptsOut
<1> QED BY <1>1, <1>2 DEF ConversationInv

(* A dead holder's lock expires.                                             *)
LEMMA LockExpiresStep == ConversationInv /\ LockExpires => ConversationInv'
<1> SUFFICES ASSUME ConversationInv, LockExpires PROVE ConversationInv'
  OBVIOUS
<1>1. TablesTyped' /\ CountsTyped' /\ RemindersGood'
  BY DEF LockExpires, tables, received, ConversationInv, TablesTyped, CountsTyped, RemindersGood,
         Pending, Heard
<1>2. SessionsGood'
  BY DEF LockExpires, tables, received, ConversationInv, SessionsGood, Good, Owned, Ingesting,
         Following, Welcome, Chasing, Pending, Heard, Cancels, Handover, OptsOut
<1> QED BY <1>1, <1>2 DEF ConversationInv

(* Every step keeps ConversationInv.                                         *)
LEMMA NextHolds == ConversationInv /\ [Next]_vars => ConversationInv'
<1> SUFFICES ASSUME ConversationInv, [Next]_vars PROVE ConversationInv'
  OBVIOUS
<1>1. ASSUME NEW a \in Runners \cup Chasers, Deliver(a) PROVE ConversationInv'
  BY <1>1, FlushStep, SendStep, RecordStep, ActStep, CommitStep DEF Deliver
<1>2. ASSUME NEW a \in Runners, Run(a) PROVE ConversationInv'
  <2>1. a \in Actors
    BY DEF Actors
  <2> QED BY <1>1, <1>2, <2>1, BeginTurnStep, StoreMessageStep, CommitIngestStep, QueueSteps,
             LoadInputsStep, ReplyStep, TurnsEnd DEF Run
<1>3. ASSUME NEW c \in Chasers, Chase(c) PROVE ConversationInv'
  <2>1. c \in Actors
    BY DEF Actors
  <2> QED BY <1>1, <1>3, <2>1, ClaimStep, LookAgainStep, ComposeStep, TurnsEnd DEF Chase
<1>4. ASSUME NEW o \in Operators, BeginTakeOver(o) \/ TakeOver(o) \/ BeginRelease(o) \/ Release(o)
      PROVE  ConversationInv'
  BY <1>4, OperatorBegins, OperatorStep
<1>5. ASSUME NEW b \in Backends,
             (\E level \in {"downloaded", "activated"} : BeginReport(b, level)) \/ Report(b)
      PROVE  ConversationInv'
  BY <1>5, ReportBegins, ReportStep
<1>6. ASSUME NEW a \in Actors, Crash(a) \/ Abort(a) PROVE ConversationInv'
  BY <1>6, TurnsEnd
<1> QED BY <1>2, <1>3, <1>4, <1>5, <1>6, LockExpiresStep, UnchangedHolds DEF Next

(* Every reachable state is as ConversationInv says.                         *)
THEOREM ConversationHolds == Spec => []ConversationInv
BY InitHolds, NextHolds, PTL DEF Spec

(* The tables and the sessions hold what they should, and a row is locked by *)
(* one transaction at a time.                                                *)
THEOREM ConversationTypeCorrect == Spec => []TypeOK
<1>1. ConversationInv => TypeOK
  BY DEF ConversationInv, TablesTyped, CountsTyped, SessionsGood, TypeOK
<1> QED BY <1>1, ConversationHolds, PTL

(* At most one follow-up is pending (conversation_flow.py 762), however many *)
(* slots, follow-ups and answers there are.                                  *)
THEOREM OneFollowUp == Spec => []OneFollowUpPending
<1>1. ConversationInv => OneFollowUpPending
  <2> SUFFICES ASSUME ConversationInv PROVE Cardinality(Pending) <= 1
    BY DEF OneFollowUpPending
  <2>1. CASE Pending = {}
    BY <2>1, FS_EmptySet
  <2>2. CASE Pending # {}
    <3>1. PICK r \in Pending : TRUE
      BY <2>2
    <3>2. Pending = {r}
      BY <3>1 DEF ConversationInv, RemindersGood
    <3> QED BY <3>2, FS_Singleton
  <2> QED BY <2>1, <2>2
<1> QED BY <1>1, ConversationHolds, PTL

(* A follow-up on its way is one its customer has not made pointless         *)
(* (reminders.py 7-10), whatever the others do while the model writes it.    *)
THEOREM WelcomeFollowUps == Spec => []FollowUpIsWelcome
<1>1. ConversationInv => FollowUpIsWelcome
  <2> SUFFICES ASSUME ConversationInv, NEW c \in Chasers, tx[c].pc \in {"flushing", "sending"}
               PROVE  Heard = rem[tx[c].rem].since /\ (cust.optedOut => unguarded)
    BY DEF FollowUpIsWelcome
  <2>1. c \in Actors /\ tx[c].rem \in Reminders
    BY DEF ConversationInv, SessionsGood, Chasing, Delivering, Actors
  <2>2. tx[c].rem # None
    BY <2>1, ConversationAssumption
  <2> QED BY <2>1, <2>2 DEF ConversationInv, SessionsGood, Good, Welcome
<1> QED BY <1>1, ConversationHolds, PTL

-----------------------------------------------------------------------------
(* Where the lock holds: a step that answers nothing and sends nothing.      *)
LEMMA ReplyKept ==
  ASSUME ConversationInv, ReplyInv, NEW a \in Actors, NEW t,
         tx' = [tx EXCEPT ![a] = t],
         \A b \in Actors \ {a} : holder = b => holder' = b,
         Replying(t) => holder' = a,
         UNCHANGED <<answered, replies>>,
         unrecorded \subseteq unrecorded',
         t.rem = None /\ t.pc \in {"flushing", "sending"} => t.msg \notin answered,
         Unsettled(tx[a]) => tx[a].msg \in unrecorded' \/ (Unsettled(t) /\ t.msg = tx[a].msg)
  PROVE  ReplyInv'
<1>1. \A b \in Actors : tx'[b] = IF b = a THEN t ELSE tx[b]
  BY DEF ConversationInv, SessionsGood
<1>2. \A b \in Actors : Replying(tx'[b]) => holder' = b
  BY <1>1 DEF ReplyInv
<1>3. \A b \in Actors : tx'[b].rem = None /\ tx'[b].pc \in {"flushing", "sending"} =>
        tx'[b].msg \notin answered'
  BY <1>1 DEF ReplyInv
<1>4. ASSUME NEW m \in Msgs, replies'[m] # 0
      PROVE  m \in answered' \cup unrecorded' \/ \E b \in Actors : tx'[b].msg = m /\ Unsettled(tx'[b])
  <2>1. CASE m \in answered \cup unrecorded
    BY <2>1
  <2>2. CASE \E b \in Actors : tx[b].msg = m /\ Unsettled(tx[b])
    BY <1>1, <2>2
  <2> QED BY <1>4, <2>1, <2>2 DEF ReplyInv
<1>5. RepliedOnce'
  BY DEF ReplyInv, RepliedOnce
<1> QED BY <1>2, <1>3, <1>4, <1>5 DEF ReplyInv, Replying, Unsettled

(* A turn that ends without a commit leaves its reply, if any, in unrecorded.*)
LEMMA ReplyTurnsEnd ==
  ASSUME ConversationInv, ReplyInv, NEW a \in Actors,
         Retry(a) \/ Settle(a) \/ ComposeFails(a) \/ Crash(a) \/ Abort(a)
  PROVE  ReplyInv'
<1>1. tx' = [tx EXCEPT ![a] = Idle] /\ UNCHANGED <<answered, replies>>
  BY DEF Retry, Settle, ComposeFails, Crash, Abort, tables, received
<1>2. \A b \in Actors \ {a} : holder = b => holder' = b
  BY DEF Retry, Settle, ComposeFails, Crash, Abort, Unlocked
<1>3. unrecorded \subseteq unrecorded' /\ (Unsettled(tx[a]) => tx[a].msg \in unrecorded')
  <2>1. CASE Retry(a) \/ Settle(a) \/ ComposeFails(a)
    BY <2>1 DEF Retry, Settle, ComposeFails, received, Unsettled
  <2>2. CASE Crash(a) \/ Abort(a)
    BY <2>2 DEF Crash, Abort, Lost, Unsettled
  <2> QED BY <2>1, <2>2
<1>4. ~Replying(Idle) /\ Idle.pc = "idle"
  BY DEF Replying, Idle, Delivering
<1> QED BY <1>1, <1>2, <1>3, <1>4, ReplyKept

(* Steps that are not of a reply at all.                                     *)
LEMMA ReplyElsewhere ==
  ASSUME ConversationInv, ReplyInv, NEW a \in Actors, NEW t,
         tx' = [tx EXCEPT ![a] = t], UNCHANGED <<answered, replies, holder, unrecorded>>,
         ~Replying(t), ~Unsettled(tx[a])
  PROVE  ReplyInv'
<1>1. ~(t.rem = None /\ t.pc \in {"flushing", "sending"})
  BY DEF Replying, Delivering
<1> QED BY <1>1, ReplyKept

(* Operators, the backend and follow-ups do not reply to messages.           *)
LEMMA ReplyOtherActors ==
  ASSUME ConversationInv, ReplyInv
  PROVE  /\ \A o \in Operators :
              BeginTakeOver(o) \/ TakeOver(o) \/ BeginRelease(o) \/ Release(o) => ReplyInv'
         /\ \A b \in Backends : /\ \A level \in {"downloaded", "activated"} :
                                      BeginReport(b, level) => ReplyInv'
                                /\ Report(b) => ReplyInv'
         /\ \A c \in Chasers : /\ \A r \in Reminders : Claim(c, r) => ReplyInv'
                               /\ LookAgain(c) => ReplyInv'
<1>1. Loaded(Idle) \in Session /\ Idle \in Session /\ ~Replying(Idle)
  BY IdleFacts, LoadedFacts DEF ConversationInv, Replying, Delivering
<1>2. \A p \in {"taking", "releasing"} : ~Replying([Loaded(Idle) EXCEPT !.pc = p])
  BY <1>1 DEF Session, Replying, Delivering
<1>3. ASSUME NEW o \in Operators, BeginTakeOver(o) \/ TakeOver(o) \/ BeginRelease(o) \/ Release(o)
      PROVE  ReplyInv'
  <2>1. o \in Actors
    BY DEF Actors
  <2>2. UNCHANGED <<answered, replies, holder, unrecorded>> /\ ~Unsettled(tx[o])
    BY <1>3 DEF BeginTakeOver, TakeOver, BeginRelease, Release, tables, received, Unsettled
  <2>3. \/ tx' = [tx EXCEPT ![o] = Idle]
        \/ tx' = [tx EXCEPT ![o] = [Loaded(Idle) EXCEPT !.pc = "taking"]]
        \/ tx' = [tx EXCEPT ![o] = [Loaded(Idle) EXCEPT !.pc = "releasing"]]
    BY <1>3 DEF BeginTakeOver, TakeOver, BeginRelease, Release
  <2> QED BY <1>1, <1>2, <2>1, <2>2, <2>3, ReplyElsewhere
<1>4. ASSUME NEW b \in Backends, NEW level \in {"downloaded", "activated"}, BeginReport(b, level)
      PROVE  ReplyInv'
  <2> DEFINE t == [Loaded(Idle) EXCEPT !.pc = "reporting", !.level = level, !.locks = {"cust"}]
  <2>1. b \in Actors /\ tx' = [tx EXCEPT ![b] = t]
    BY <1>4 DEF Actors, BeginReport
  <2>2. UNCHANGED <<answered, replies, holder, unrecorded>> /\ ~Unsettled(tx[b])
    BY <1>4 DEF BeginReport, tables, received, Unsettled
  <2>3. t.pc = "reporting"
    BY <1>1 DEF Session
  <2> HIDE DEF t
  <2>4. ~Replying(t)
    BY <2>3 DEF Replying, Delivering
  <2> QED BY <2>1, <2>2, <2>4, ReplyElsewhere
<1>5. ASSUME NEW b \in Backends, Report(b) PROVE ReplyInv'
  <2>1. b \in Actors /\ tx' = [tx EXCEPT ![b] = Idle]
    BY <1>5 DEF Actors, Report
  <2>2. UNCHANGED <<answered, replies, holder, unrecorded>> /\ ~Unsettled(tx[b])
    BY <1>5 DEF Report, received, Unsettled
  <2> QED BY <1>1, <2>1, <2>2, ReplyElsewhere
<1>6. ASSUME NEW c \in Chasers, NEW r \in Reminders, Claim(c, r) PROVE ReplyInv'
  <2> DEFINE t == [Idle EXCEPT !.pc = "claimed", !.rem = r, !.locks = {r}]
  <2>1. c \in Actors /\ tx' = [tx EXCEPT ![c] = t]
    BY <1>6 DEF Actors, Claim
  <2>2. UNCHANGED <<answered, replies, holder, unrecorded>> /\ ~Unsettled(tx[c])
    BY <1>6 DEF Claim, tables, received, Unsettled
  <2>3. t.pc = "claimed"
    BY <1>1 DEF Session
  <2> HIDE DEF t
  <2>4. ~Replying(t)
    BY <2>3 DEF Replying, Delivering
  <2> QED BY <2>1, <2>2, <2>4, ReplyElsewhere
<1>7. ASSUME NEW c \in Chasers, LookAgain(c) PROVE ReplyInv'
  <2> DEFINE l == Loaded(tx[c])
             t == [l EXCEPT !.pc = "composing", !.view = conv.stage, !.linkSeen = linkSent]
  <2>1. c \in Actors /\ (tx' = [tx EXCEPT ![c] = Idle] \/ tx' = [tx EXCEPT ![c] = t])
    BY <1>7 DEF Actors, LookAgain
  <2>2. UNCHANGED <<answered, replies, holder, unrecorded>> /\ ~Unsettled(tx[c])
    BY <1>7 DEF LookAgain, received, Unsettled
  <2>3. l \in Session
    BY <2>1, LoadedFacts DEF ConversationInv, SessionsGood
  <2> HIDE DEF l
  <2>4. t.pc = "composing"
    BY <2>3 DEF Session
  <2> HIDE DEF t
  <2>5. ~Replying(t)
    BY <2>4 DEF Replying, Delivering
  <2> QED BY <1>1, <2>1, <2>2, <2>5, ReplyElsewhere
<1> QED BY <1>3, <1>4, <1>5, <1>6, <1>7

(* The ingest replies to nothing.                                            *)
LEMMA ReplyIngest ==
  ASSUME ConversationInv, ReplyInv, NEW a \in Runners,
         (\E m \in Msgs : BeginTurn(a, m)) \/ StoreMessage(a) \/ CommitIngest(a)
  PROVE  ReplyInv'
<1>1. a \in Actors
  BY DEF Actors
<1>2. tx[a] \in Session
  BY <1>1 DEF ConversationInv, SessionsGood
<1>3. UNCHANGED <<answered, replies, holder, unrecorded>> /\ ~Unsettled(tx[a])
  BY DEF BeginTurn, StoreMessage, CommitIngest, tables, received, Unsettled
<1>4. CASE \E m \in Msgs : BeginTurn(a, m)
  <2>1. PICK m \in Msgs : BeginTurn(a, m)
    BY <1>4
  <2> DEFINE t == [Loaded(Idle) EXCEPT !.pc = "loaded", !.msg = m]
  <2>2. tx' = [tx EXCEPT ![a] = t]
    BY <2>1 DEF BeginTurn
  <2>3. t.pc = "loaded"
    BY IdleFacts, LoadedFacts DEF ConversationInv, Session
  <2> HIDE DEF t
  <2>4. ~Replying(t)
    BY <2>3 DEF Replying, Delivering
  <2> QED BY <1>1, <1>3, <2>2, <2>4, ReplyElsewhere
<1>5. tx[a].msg \in Msgs => ~Replying(AfterIngest(tx[a]))
  BY <1>2, AfterIngestFacts DEF Replying, Delivering
<1>6. CASE StoreMessage(a)
  <2> DEFINE s == tx[a]
             t == [s EXCEPT !.pc = "cancelling", !.locks = {s.msg, "conv"}, !.snap = Pending,
                            !.stage = Revived(@), !.moved = (Revived(s.stage) # s.stage)]
  <2>1. tx' = [tx EXCEPT ![a] = AfterIngest(s)] \/ tx' = [tx EXCEPT ![a] = t]
    BY <1>6 DEF StoreMessage
  <2>2. s.msg \in Msgs
    BY <1>1, <1>6 DEF StoreMessage, ConversationInv, SessionsGood, Good, Owned, BeforeReply
  <2>3. t.pc = "cancelling"
    BY <1>2 DEF Session
  <2> HIDE DEF t
  <2>4. ~Replying(t)
    BY <2>3 DEF Replying, Delivering
  <2> QED BY <1>1, <1>3, <1>5, <2>1, <2>2, <2>4, ReplyElsewhere
<1>7. CASE CommitIngest(a)
  <2>1. tx' = [tx EXCEPT ![a] = AfterIngest(tx[a])]
    BY <1>7 DEF CommitIngest
  <2>2. tx[a].msg \in Msgs
    BY <1>1, <1>7 DEF CommitIngest, ConversationInv, SessionsGood, Good, Owned, BeforeReply
  <2> QED BY <1>1, <1>3, <1>5, <2>1, <2>2, ReplyElsewhere
<1> QED BY <1>4, <1>6, <1>7

(* A turn waits for the lock, has it, and looks at what is answered.         *)
LEMMA ReplyQueue ==
  ASSUME ConversationInv, ReplyInv, LockHolds, NEW a \in Runners,
         \/ RateLimited(a) \/ TakeLock(a) \/ ProceedUnlocked(a) \/ LoadInputs(a)
         \/ \E d \in Answers : Reply(a, d)
  PROVE  ReplyInv'
<1> DEFINE s == tx[a]
           out == [s EXCEPT !.pc = "done"]
<1>1. a \in Actors
  BY DEF Actors
<1>2. s \in Session
  BY <1>1 DEF ConversationInv, SessionsGood
<1>3. UNCHANGED <<answered, replies, unrecorded>> /\ ~Unsettled(s)
  BY DEF RateLimited, TakeLock, ProceedUnlocked, LoadInputs, Reply, tables, received, Unsettled
<1>4. ~Replying(out)
  <2>1. out.pc = "done"
    BY <1>2 DEF Session
  <2> QED BY <2>1 DEF Replying, Delivering
<1>5. CASE RateLimited(a)
  <2>1. tx' = [tx EXCEPT ![a] = out] /\ UNCHANGED holder
    BY <1>1, <1>5 DEF RateLimited, ConversationInv, SessionsGood
  <2> QED BY <1>1, <1>3, <1>4, <2>1, ReplyElsewhere
<1>6. CASE TakeLock(a)
  <2> DEFINE t == [s EXCEPT !.pc = "locked"]
  <2>1. tx' = [tx EXCEPT ![a] = t] /\ holder = None /\ holder' = a
    BY <1>1, <1>6 DEF TakeLock, ConversationInv, SessionsGood
  <2>2. t.pc = "locked"
    BY <1>2 DEF Session
  <2>3. \A b \in Actors \ {a} : holder = b => holder' = b
    BY <2>1, ConversationAssumption
  <2> HIDE DEF t
  <2> QED BY <1>1, <1>3, <2>1, <2>2, <2>3, ReplyKept
<1>7. CASE LoadInputs(a)
  <2> DEFINE t == [s EXCEPT !.pc = "thinking", !.view = conv.stage, !.linkSeen = linkSent]
  <2>1. (tx' = [tx EXCEPT ![a] = t] \/ tx' = [tx EXCEPT ![a] = out]) /\ UNCHANGED holder
    BY <1>7 DEF LoadInputs
  <2>2. t.pc = "thinking"
    BY <1>2 DEF Session
  <2>3. holder = a
    BY <1>1, <1>7 DEF LoadInputs, ReplyInv, Replying
  <2> HIDE DEF t, out
  <2> QED BY <1>1, <1>3, <1>4, <2>1, <2>2, <2>3, ReplyKept, ReplyElsewhere
<1>8. CASE \E d \in Answers : Reply(a, d)
  <2>1. PICK d \in Answers : Reply(a, d)
    BY <1>8
  <2> DEFINE t == Deciding(Loaded(s), d)
  <2>2. \/ tx' = [tx EXCEPT ![a] = t] /\ s.msg \notin answered
        \/ tx' = [tx EXCEPT ![a] = out]
    BY <2>1 DEF Reply, AlreadyAnswered
  <2>3. d \in Answer
    BY ConversationAssumption
  <2>4. t.msg = s.msg
    BY <1>2, <2>3, LoadedFacts, DecidingFacts DEF ConversationInv
  <2>5. holder = a /\ UNCHANGED holder
    BY <1>1, <2>1 DEF Reply, ReplyInv, Replying
  <2> HIDE DEF t, out
  <2> QED BY <1>1, <1>3, <1>4, <2>2, <2>4, <2>5, ReplyKept, ReplyElsewhere
<1> QED BY <1>5, <1>6, <1>7, <1>8 DEF ProceedUnlocked

(* A delivery that goes on with what it has sent or not sent.                *)
LEMMA ReplyGoesOn ==
  ASSUME ConversationInv, ReplyInv, NEW a \in Runners \cup Chasers,
         Flush(a) \/ Record(a) \/ Act(a)
  PROVE  ReplyInv'
<1> DEFINE s == tx[a]
           f == [s EXCEPT !.pc = "sending", !.locks = s.locks \cup {"conv"}]
           r == [s EXCEPT !.pc = "acting",
                          !.locks = IF WritesConversation(s) THEN @ \cup {"conv"} ELSE @,
                          !.moved = @ \/ {AfterLink(s), StageAfter(s)} # {s.stage},
                          !.stage = StageAfter(s)]
           o == [s EXCEPT !.optedOut = @ \/ OptsOut(s)]
           p == [o EXCEPT !.plan = Planned(o)]
           c == [p EXCEPT !.pc = "closing",
                          !.locks = IF OptsOut(s) THEN @ \cup {"cust"} ELSE @,
                          !.snap = IF Cancels(p) THEN Pending \ {s.rem} ELSE {}]
<1>1. a \in Actors /\ s \in Session
  BY DeliveringFacts
<1>2. UNCHANGED <<answered, replies, holder, unrecorded>>
  BY DEF Flush, Record, Act, tables, received
<1>3. s.pc \in {"flushing", "recording", "acting"}
  BY DEF Flush, Record, Act
<1>4. PICK t : /\ tx' = [tx EXCEPT ![a] = t]
               /\ t.msg = s.msg /\ t.rem = s.rem /\ t.outcome = s.outcome
               /\ \/ s.pc = "flushing" /\ t.pc = "sending"
                  \/ s.pc = "recording" /\ t.pc = "acting"
                  \/ s.pc = "acting" /\ t.pc = "closing"
  <2>1. CASE Flush(a)
    <3>1. tx' = [tx EXCEPT ![a] = f] /\ s.pc = "flushing"
      BY <2>1, FlushSession DEF Flush
    <3>2. f.pc = "sending" /\ f.msg = s.msg /\ f.rem = s.rem /\ f.outcome = s.outcome
      BY <1>1 DEF Session
    <3> QED BY <3>1, <3>2
  <2>2. CASE Record(a)
    <3>1. tx' = [tx EXCEPT ![a] = r] /\ s.pc = "recording"
      BY <2>2 DEF Record
    <3>2. r.pc = "acting" /\ r.msg = s.msg /\ r.rem = s.rem /\ r.outcome = s.outcome
      BY <1>1 DEF Session
    <3> QED BY <3>1, <3>2
  <2>3. CASE Act(a)
    <3>1. tx' = [tx EXCEPT ![a] = c] /\ s.pc = "acting"
      BY <2>3 DEF Act
    <3>2. c.pc = "closing" /\ c.msg = s.msg /\ c.rem = s.rem /\ c.outcome = s.outcome
      BY <1>1 DEF Session
    <3> QED BY <3>1, <3>2
  <2> QED BY <2>1, <2>2, <2>3
<1> HIDE DEF s
<1>5. Replying(t) => Replying(s)
  BY <1>3, <1>4 DEF Replying, Delivering
<1>6. Unsettled(s) => Unsettled(t)
  BY <1>3, <1>4 DEF Unsettled
<1>7. t.rem = None /\ t.pc \in {"flushing", "sending"} => t.msg \notin answered
  BY <1>1, <1>4 DEF s, ReplyInv
<1>8. Replying(t) => holder' = a
  BY <1>1, <1>2, <1>5 DEF s, ReplyInv
<1> QED BY <1>1, <1>2, <1>4, <1>6, <1>7, <1>8, ReplyKept DEF s

(* A follow-up is no reply.                                                  *)
LEMMA ReplyCompose ==
  ASSUME ConversationInv, ReplyInv, NEW c \in Chasers, NEW d \in Answers \cup {Template},
         Compose(c, d)
  PROVE  ReplyInv'
<1> DEFINE s == tx[c]
           t == Deciding(s, d)
<1>1. c \in Actors /\ d \in Answer
  BY ConversationAssumption, IdleFacts DEF Actors
<1>2. s \in Session /\ s.rem # None /\ s.pc = "composing"
  BY <1>1, ConversationAssumption DEF ConversationInv, SessionsGood, Good, Owned, Compose
<1>3. tx' = [tx EXCEPT ![c] = t] /\ UNCHANGED <<answered, replies, holder, unrecorded>>
  BY DEF Compose, tables, received
<1>4. t.pc \in {"flushing", "sending"} /\ t.rem = s.rem
  BY <1>1, <1>2, DecidingFacts
<1> HIDE DEF t
<1>5. ~Replying(t) /\ ~Unsettled(s)
  BY <1>2, <1>4 DEF Replying, Unsettled
<1> QED BY <1>1, <1>3, <1>5, ReplyElsewhere

(* A reply goes out only from the turn that holds the lock, to a message     *)
(* nobody has answered: every earlier one was rolled back.                   *)
LEMMA ReplySend ==
  ASSUME ConversationInv, ReplyInv, NEW a \in Runners \cup Chasers,
         NEW outcome \in {"none", "sent", "failed"}, Send(a, outcome)
  PROVE  ReplyInv'
<1> DEFINE s == tx[a]
           t == [s EXCEPT !.pc = "recording", !.outcome = outcome,
                          !.linked = (outcome = "sent" /\ Links(s))]
<1>1. a \in Actors /\ s \in Session /\ s.pc = "sending" /\ Good(s)
  BY DeliveringFacts DEF Send
<1>2. tx' = [tx EXCEPT ![a] = t] /\ UNCHANGED <<answered, holder, unrecorded>>
  BY DEF Send, tables
<1>3. t.pc = "recording" /\ t.msg = s.msg /\ t.rem = s.rem /\ t.outcome = outcome
  BY <1>1 DEF Session
<1> HIDE DEF t
<1>4. ~Unsettled(s) /\ (Replying(t) => Replying(s))
  BY <1>1, <1>3 DEF Unsettled, Replying, Delivering
<1>5. Replying(t) => holder' = a
  BY <1>1, <1>2, <1>4 DEF ReplyInv
<1>6. CASE ~(outcome = "sent" /\ s.rem = None)
  <2>1. UNCHANGED replies
    BY <1>6 DEF Send
  <2> QED BY <1>1, <1>2, <1>3, <1>4, <1>5, <2>1, ReplyKept
<1>7. CASE outcome = "sent" /\ s.rem = None
  <2>1. replies' = [replies EXCEPT ![s.msg] = replies[s.msg] + 1]
    BY <1>7 DEF Send
  <2>2. s.msg \in Msgs /\ s.msg \notin answered /\ Replying(s)
    BY <1>1, <1>7 DEF Good, Owned, ConversationInv, TablesTyped, ReplyInv, Delivering, Replying
  <2>3. replies[s.msg] = 0 \/ s.msg \in unrecorded
    <3> SUFFICES ASSUME replies[s.msg] # 0, s.msg \notin unrecorded PROVE FALSE
      OBVIOUS
    <3>1. PICK b \in Actors : tx[b].msg = s.msg /\ Unsettled(tx[b])
      BY <2>2 DEF ReplyInv
    <3>2. Replying(tx[b])
      BY <3>1 DEF Unsettled, Replying, Delivering
    <3>3. b = a
      BY <1>1, <2>2, <3>2 DEF ReplyInv
    <3> QED BY <1>4, <3>1, <3>3
  <2>4. \A b \in Actors : tx'[b] = IF b = a THEN t ELSE tx[b]
    BY <1>2 DEF ConversationInv, SessionsGood
  <2>5. \A m \in Msgs : replies'[m] = IF m = s.msg THEN replies[m] + 1 ELSE replies[m]
    BY <2>1 DEF ConversationInv, CountsTyped
  <2> HIDE DEF s
  <2>6. RepliedOnce'
    <3>1. \A m \in Msgs \ unrecorded : replies[m] <= 1
      BY DEF ReplyInv, RepliedOnce
    <3> QED BY <1>2, <2>3, <2>5, <3>1 DEF RepliedOnce
  <2>7. \A b \in Actors : Replying(tx'[b]) => holder' = b
    BY <1>2, <1>5, <2>4 DEF ReplyInv
  <2>8. \A b \in Actors : tx'[b].rem = None /\ tx'[b].pc \in {"flushing", "sending"} =>
          tx'[b].msg \notin answered'
    BY <1>2, <1>3, <2>4 DEF ReplyInv
  <2>9. ASSUME NEW m \in Msgs, replies'[m] # 0
        PROVE  m \in answered' \cup unrecorded' \/ \E b \in Actors : tx'[b].msg = m /\ Unsettled(tx'[b])
    <3>1. CASE m = s.msg
      BY <1>1, <1>3, <1>7, <2>4, <3>1 DEF Unsettled
    <3>2. CASE m # s.msg
      <4>1. replies[m] # 0
        BY <2>5, <2>9, <3>2
      <4>2. CASE m \in answered \cup unrecorded
        BY <1>2, <4>2
      <4>3. CASE \E b \in Actors : tx[b].msg = m /\ Unsettled(tx[b])
        BY <1>4, <2>4, <4>3 DEF s
      <4> QED BY <4>1, <4>2, <4>3 DEF ReplyInv
    <3> QED BY <3>1, <3>2
  <2> QED BY <2>6, <2>7, <2>8, <2>9 DEF ReplyInv, Replying, Unsettled
<1> QED BY <1>6, <1>7

(* A commit accounts for the reply, and no other turn is about to make one.  *)
LEMMA ReplyCommit ==
  ASSUME ConversationInv, ReplyInv, NEW a \in Runners \cup Chasers, Commit(a)
  PROVE  ReplyInv'
<1> DEFINE s == tx[a]
           t == IF s.rem = None THEN [Idle EXCEPT !.pc = "done", !.msg = s.msg] ELSE Idle
<1>1. a \in Actors /\ s \in Session /\ s.pc = "closing"
  BY DeliveringFacts DEF Commit
<1>2. /\ tx' = [tx EXCEPT ![a] = t] /\ answered' = answered \cup Logged(s)
      /\ UNCHANGED <<replies, holder, unrecorded>>
  BY DEF Commit
<1>3. t.pc \in {"idle", "done"}
  BY IdleFacts DEF Idle
<1> HIDE DEF t
<1>4. ~Replying(t)
  BY <1>3 DEF Replying, Delivering
<1>5. \A b \in Actors : tx'[b] = IF b = a THEN t ELSE tx[b]
  BY <1>2 DEF ConversationInv, SessionsGood
<1>6. \A b \in Actors : Replying(tx'[b]) => holder' = b
  BY <1>2, <1>4, <1>5 DEF ReplyInv
<1>7. ASSUME NEW b \in Actors, tx'[b].rem = None, tx'[b].pc \in {"flushing", "sending"}
      PROVE  tx'[b].msg \notin answered'
  <2>1. b # a /\ tx'[b] = tx[b]
    BY <1>3, <1>5, <1>7
  <2>2. Replying(tx[b]) /\ tx[b].msg \notin answered
    BY <1>7, <2>1 DEF ReplyInv, Replying, Delivering
  <2>3. s.rem # None
    BY <1>1, <2>1, <2>2 DEF ReplyInv, Replying, Delivering
  <2> QED BY <1>2, <2>1, <2>2, <2>3 DEF Logged
<1>8. Unsettled(s) => s.msg \in answered'
  BY <1>2 DEF Unsettled, Logged
<1>9. ASSUME NEW m \in Msgs, replies'[m] # 0
      PROVE  m \in answered' \cup unrecorded' \/ \E b \in Actors : tx'[b].msg = m /\ Unsettled(tx'[b])
  <2>1. CASE m \in answered \cup unrecorded
    BY <1>2, <2>1
  <2>2. CASE \E b \in Actors : tx[b].msg = m /\ Unsettled(tx[b])
    BY <1>5, <1>8, <2>2
  <2> QED BY <1>2, <1>9, <2>1, <2>2 DEF ReplyInv
<1>10. RepliedOnce'
  BY <1>2 DEF ReplyInv, RepliedOnce
<1> QED BY <1>6, <1>7, <1>9, <1>10 DEF ReplyInv, Replying, Unsettled

(* Every step keeps ReplyInv where the lock holds.                           *)
LEMMA ReplyNext ==
  ASSUME LockHolds, ConversationInv, ReplyInv, [Next]_vars
  PROVE  ReplyInv'
<1>1. ASSUME NEW a \in Runners \cup Chasers, Deliver(a) PROVE ReplyInv'
  BY <1>1, ReplyGoesOn, ReplySend, ReplyCommit DEF Deliver
<1>2. ASSUME NEW a \in Runners, Run(a) PROVE ReplyInv'
  <2>1. a \in Actors
    BY DEF Actors
  <2> QED BY <1>1, <1>2, <2>1, ReplyIngest, ReplyQueue, ReplyTurnsEnd DEF Run
<1>3. ASSUME NEW c \in Chasers, Chase(c) PROVE ReplyInv'
  <2>1. c \in Actors
    BY DEF Actors
  <2> QED BY <1>1, <1>3, <2>1, ReplyOtherActors, ReplyCompose, ReplyTurnsEnd DEF Chase
<1>4. ASSUME LockExpires PROVE ReplyInv'
  <2>1. \A b \in Actors : holder # b
    BY <1>4, ConversationAssumption DEF LockExpires
  <2>2. UNCHANGED <<tx, answered, replies, unrecorded>>
    BY <1>4 DEF LockExpires, tables, received
  <2> QED BY <2>1, <2>2 DEF ReplyInv, Replying, Unsettled, RepliedOnce
<1>5. CASE UNCHANGED vars
  BY <1>5 DEF vars, tables, received, ReplyInv, Replying, Unsettled, RepliedOnce
<1>6. ASSUME NEW a \in Actors, Crash(a) \/ Abort(a) PROVE ReplyInv'
  BY <1>6, ReplyTurnsEnd
<1> QED BY <1>2, <1>3, <1>4, <1>5, <1>6, ReplyOtherActors DEF Next

(* "A retry must not produce a second reply to the same customer message"    *)
(* (conversation_flow.py 181-182), for any number of slots and attempts,     *)
(* where Redis answers and no turn outlives its lock.                        *)
THEOREM OneReply ==
  ASSUME LockHolds
  PROVE  Spec => []RepliedOnce
<1>1. Init => ReplyInv
  <2> SUFFICES ASSUME Init PROVE ReplyInv
    OBVIOUS
  <2>1. \A a \in Actors : tx[a] = Idle /\ ~Replying(tx[a]) /\ tx[a].pc = "idle"
    BY DEF Init, Idle, Replying, Delivering
  <2>2. \A m \in Msgs : replies[m] = 0
    BY DEF Init
  <2> QED BY <2>1, <2>2 DEF ReplyInv, RepliedOnce
<1>2. ConversationInv /\ ReplyInv /\ [Next]_vars => ReplyInv'
  BY ReplyNext
<1>3. ReplyInv => RepliedOnce
  BY DEF ReplyInv
<1> QED BY <1>1, <1>2, <1>3, ConversationHolds, PTL DEF Spec

-----------------------------------------------------------------------------
(* Following up ends: what each step does to the rungs and to the count.     *)
LEMMA SpentSame ==
  ASSUME NEW s, \A r \in Reminders : /\ rem'[r].status = "sent" <=> rem[r].status = "sent"
                                     /\ rem'[r].since = rem[r].since
  PROVE  (Spent(s))' = Spent(s)
<1>1. {r \in Reminders : (rem'[r].status = "sent" \/ r = s.rem) /\ rem'[r].since >= s.heard}
      = {r \in Reminders : (rem[r].status = "sent" \/ r = s.rem) /\ rem[r].since >= s.heard}
  OBVIOUS
<1> QED BY <1>1 DEF Spent

(* The counts are numbers and the sets finite.                               *)
LEMMA LadderFacts ==
  ASSUME ConversationInv
  PROVE  /\ Heard \in Nat
         /\ \A a \in Actors : tx[a].heard \in Nat
         /\ \A r \in Reminders : rem[r].since \in Nat
         /\ chases \in Nat
         /\ IsFiniteSet(Out) /\ IsFiniteSet(Rungs)
         /\ Cardinality(Out) \in Nat /\ Cardinality(Rungs) \in Nat
<1>1. Cardinality(Msgs) \in Nat
  BY FS_CardinalityType, ConversationAssumption
<1>2. Heard \in Nat
  BY <1>1, HeardFacts DEF ConversationInv
<1>3. \A a \in Actors : tx[a].heard \in Nat
  BY <1>1 DEF ConversationInv, SessionsGood, Session
<1>4. \A r \in Reminders : rem[r].since \in Nat
  BY <1>1 DEF ConversationInv, TablesTyped, Reminder
<1>5. chases \in Nat
  BY ConversationAssumption DEF ConversationInv, CountsTyped
<1>6. IsFiniteSet(Out) /\ IsFiniteSet(Rungs)
  BY FS_Subset, ConversationAssumption DEF Out, Rungs
<1> QED BY <1>2, <1>3, <1>4, <1>5, <1>6, FS_CardinalityType

(* A step that neither sends a follow-up nor changes a reminder or a message.*)
LEMMA LadderKept ==
  ASSUME ConversationInv, ConversationInv', LadderInv, NEW a \in Actors, NEW t,
         tx' = [tx EXCEPT ![a] = t], UNCHANGED <<stored, rem>>,
         chases' = chases, unrecorded \subseteq unrecorded',
         Counting(t),
         InFlight(tx[a]) => None \in unrecorded' \/ (InFlight(t) /\ t.rem = tx[a].rem)
  PROVE  LadderInv'
<1>1. \A b \in Actors : tx'[b] = IF b = a THEN t ELSE tx[b]
  BY DEF ConversationInv, SessionsGood
<1>2. Heard' = Heard /\ Rungs' = Rungs
  BY DEF Heard, Rungs
<1>3. ASSUME NEW b \in Actors PROVE (Counting(tx[b]))'
  <2>1. Counting(tx'[b])
    BY <1>1 DEF LadderInv
  <2>2. (Spent(tx[b]))' = Spent(tx'[b])
    BY DEF Spent
  <2> QED BY <1>2, <2>1, <2>2 DEF Counting
<1>4. None \notin unrecorded' => Out \subseteq Out'
  <2> SUFFICES ASSUME None \notin unrecorded', NEW r \in Out PROVE r \in Out'
    OBVIOUS
  <2>1. r \in Reminders /\ rem'[r].since = Heard'
    BY <1>2 DEF Out
  <2>2. CASE rem[r].status = "sent"
    BY <2>1, <2>2 DEF Out
  <2>3. CASE \E b \in Actors : InFlight(tx[b]) /\ tx[b].rem = r
    <3>1. \E b \in Actors : InFlight(tx'[b]) /\ tx'[b].rem = r
      BY <1>1, <2>3
    <3> QED BY <2>1, <3>1 DEF Out, InFlight
  <2> QED BY <2>2, <2>3 DEF Out
<1>5. None \notin unrecorded' => Cardinality(Out) <= Cardinality(Out')
  <2>1. IsFiniteSet(Out')
    BY FS_Subset, ConversationAssumption DEF Out
  <2> QED BY <1>4, <2>1, FS_Subset
<1>6. None \notin unrecorded' => chases' <= Cardinality(Out')
  <2>1. Cardinality(Out) \in Nat /\ chases \in Nat
    BY LadderFacts
  <2>2. Cardinality(Out') \in Nat
    BY FS_Subset, FS_CardinalityType, ConversationAssumption DEF Out
  <2> QED BY <1>5, <2>1, <2>2 DEF LadderInv
<1> QED BY <1>2, <1>3, <1>6 DEF LadderInv

(* An idle session, and one that has just loaded, count on nothing.          *)
LEMMA LadderIdle ==
  ASSUME ConversationInv
  PROVE  Counting(Idle) /\ \A t : t.rem = None /\ t.heard \in {0, Heard} /\
                               t.pc \notin {"cancelling", "closing"} => Counting(t)
<1>1. Heard \in Nat
  BY LadderFacts
<1>2. \A t : t.rem = None /\ t.heard \in {0, Heard} /\ t.pc \notin {"cancelling", "closing"}
        => Counting(t)
  BY <1>1 DEF Counting
<1> QED BY <1>2 DEF Idle

(* A follow-up that went out and is dropped is in unrecorded.                *)
LEMMA LadderTurnsEnd ==
  ASSUME ConversationInv, ConversationInv', LadderInv, NEW a \in Actors,
         Retry(a) \/ Settle(a) \/ ComposeFails(a) \/ Crash(a) \/ Abort(a)
  PROVE  LadderInv'
<1>1. tx' = [tx EXCEPT ![a] = Idle] /\ UNCHANGED <<stored, rem, chases>>
  BY DEF Retry, Settle, ComposeFails, Crash, Abort, tables, received
<1>2. unrecorded \subseteq unrecorded' /\ (InFlight(tx[a]) => None \in unrecorded')
  <2>1. CASE Retry(a) \/ Settle(a) \/ ComposeFails(a)
    BY <2>1 DEF Retry, Settle, ComposeFails, received, InFlight
  <2>2. CASE Crash(a) \/ Abort(a)
    <3>1. InFlight(tx[a]) => tx[a].msg = None
      BY DEF LadderInv, Counting, InFlight
    <3> QED BY <2>2, <3>1 DEF Crash, Abort, Lost, InFlight
  <2> QED BY <2>1, <2>2
<1> QED BY <1>1, <1>2, LadderIdle, LadderKept

(* Beginnings, operators and the backend are off the ladder.                 *)
LEMMA LadderBegins ==
  ASSUME ConversationInv, ConversationInv', LadderInv
  PROVE  /\ \A a \in Runners, m \in Msgs : BeginTurn(a, m) => LadderInv'
         /\ \A o \in Operators : BeginTakeOver(o) \/ BeginRelease(o) => LadderInv'
         /\ \A b \in Backends : \A level \in {"downloaded", "activated"} :
              BeginReport(b, level) => LadderInv'
         /\ \A o \in Operators : TakeOver(o) \/ Release(o) => LadderInv'
         /\ \A b \in Backends : Report(b) => LadderInv'
<1> DEFINE l == Loaded(Idle)
<1>1. l \in Session /\ l.rem = None /\ l.heard = Heard
  BY IdleFacts, LoadedFacts DEF ConversationInv, Idle
<1> HIDE DEF l
<1>2. ASSUME NEW p \in {"loaded", "taking", "releasing"}, NEW m, NEW k, NEW R
      PROVE  /\ Counting([l EXCEPT !.pc = p, !.msg = m])
             /\ Counting([l EXCEPT !.pc = p])
             /\ Counting([l EXCEPT !.pc = "reporting", !.level = k, !.locks = R])
  <2> DEFINE t == [l EXCEPT !.pc = p, !.msg = m]
             u == [l EXCEPT !.pc = p]
             v == [l EXCEPT !.pc = "reporting", !.level = k, !.locks = R]
  <2>1. /\ t.rem = None /\ t.heard = Heard /\ t.pc = p
        /\ u.rem = None /\ u.heard = Heard /\ u.pc = p
        /\ v.rem = None /\ v.heard = Heard /\ v.pc = "reporting"
    BY <1>1 DEF Session
  <2> HIDE DEF t, u, v
  <2>2. Counting(t) /\ Counting(u) /\ Counting(v)
    BY <2>1, LadderIdle
  <2> QED BY <2>2 DEF t, u, v
<1>3. ASSUME NEW a \in Runners, NEW m \in Msgs, BeginTurn(a, m) PROVE LadderInv'
  <2> DEFINE t == [l EXCEPT !.pc = "loaded", !.msg = m]
  <2>1. /\ a \in Actors /\ tx' = [tx EXCEPT ![a] = t] /\ ~InFlight(tx[a])
        /\ UNCHANGED <<stored, rem, chases, unrecorded>>
    BY <1>3 DEF BeginTurn, tables, received, InFlight, Actors, l
  <2>2. Counting(t)
    BY <1>2
  <2> HIDE DEF t
  <2> QED BY <2>1, <2>2, LadderKept
<1>4. ASSUME NEW o \in Operators, BeginTakeOver(o) \/ BeginRelease(o) PROVE LadderInv'
  <2>1. PICK p \in {"taking", "releasing"} : tx' = [tx EXCEPT ![o] = [l EXCEPT !.pc = p]]
    BY <1>4 DEF BeginTakeOver, BeginRelease, l
  <2> DEFINE t == [l EXCEPT !.pc = p]
  <2>2. o \in Actors /\ ~InFlight(tx[o]) /\ UNCHANGED <<stored, rem, chases, unrecorded>>
    BY <1>4 DEF BeginTakeOver, BeginRelease, tables, received, InFlight, Actors
  <2>3. Counting(t)
    BY <1>2
  <2>4. tx' = [tx EXCEPT ![o] = t]
    BY <2>1
  <2> HIDE DEF t
  <2> QED BY <2>2, <2>3, <2>4, LadderKept
<1>5. ASSUME NEW b \in Backends, NEW level \in {"downloaded", "activated"}, BeginReport(b, level)
      PROVE  LadderInv'
  <2> DEFINE t == [l EXCEPT !.pc = "reporting", !.level = level, !.locks = {"cust"}]
  <2>1. /\ b \in Actors /\ tx' = [tx EXCEPT ![b] = t] /\ ~InFlight(tx[b])
        /\ UNCHANGED <<stored, rem, chases, unrecorded>>
    BY <1>5 DEF BeginReport, tables, received, InFlight, Actors, l
  <2>2. Counting(t)
    BY <1>2
  <2> HIDE DEF t
  <2> QED BY <2>1, <2>2, LadderKept
<1>6. ASSUME NEW b \in Operators \cup Backends, TakeOver(b) \/ Release(b) \/ Report(b)
      PROVE  LadderInv'
  <2>1. /\ b \in Actors /\ tx' = [tx EXCEPT ![b] = Idle] /\ ~InFlight(tx[b])
        /\ UNCHANGED <<stored, rem, chases, unrecorded>>
    BY <1>6 DEF TakeOver, Release, Report, received, InFlight, Actors
  <2> QED BY <2>1, LadderIdle, LadderKept
<1> QED BY <1>3, <1>4, <1>5, <1>6

(* So is a turn up to its reply.                                             *)
LEMMA LadderTurn ==
  ASSUME ConversationInv, ConversationInv', LadderInv, NEW a \in Runners,
         \/ StoreMessage(a) \/ RateLimited(a) \/ TakeLock(a) \/ ProceedUnlocked(a) \/ LoadInputs(a)
         \/ \E d \in Answers : Reply(a, d)
  PROVE  LadderInv'
<1> DEFINE s == tx[a]
<1>1. a \in Actors /\ s \in Session
  BY DEF Actors, ConversationInv, SessionsGood
<1>2. UNCHANGED <<stored, rem, chases, unrecorded>> /\ ~InFlight(s)
  BY
     DEF StoreMessage, RateLimited, TakeLock, ProceedUnlocked, LoadInputs, Reply, tables,
         received, InFlight
<1>3. s.heard <= Heard /\ s.rem = None
  BY <1>1 DEF LadderInv, Counting, ConversationInv, SessionsGood, Good, Owned, BeforeReply,
              StoreMessage, RateLimited, TakeLock, ProceedUnlocked, LoadInputs, Reply
<1>4. CASE StoreMessage(a)
  <2> DEFINE t == [s EXCEPT !.pc = "cancelling", !.locks = {s.msg, "conv"}, !.snap = Pending,
                            !.stage = Revived(@), !.moved = (Revived(s.stage) # s.stage)]
  <2>1. CASE s.msg \in stored
    <3>1. tx' = [tx EXCEPT ![a] = AfterIngest(s)]
      BY <1>4, <2>1 DEF StoreMessage
    <3>2. s.msg \in Msgs
      BY <2>1 DEF ConversationInv, TablesTyped
    <3>3. Counting(AfterIngest(s))
      BY <1>1, <3>2, AfterIngestFacts, LadderIdle
    <3> QED BY <1>1, <1>2, <3>1, <3>3, LadderKept
  <2>2. CASE s.msg \notin stored
    <3>1. tx' = [tx EXCEPT ![a] = t]
      BY <1>4, <2>2 DEF StoreMessage
    <3>2. /\ t.pc = "cancelling" /\ t.rem = s.rem /\ t.heard = s.heard
          /\ t.msg = s.msg /\ s.msg \in t.locks
      BY <1>1 DEF Session
    <3> HIDE DEF t
    <3>3. Counting(t)
      BY <1>3, <2>2, <3>2 DEF Counting
    <3> QED BY <1>1, <1>2, <3>1, <3>3, LadderKept
  <2> QED BY <2>1, <2>2
<1>5. CASE RateLimited(a) \/ TakeLock(a) \/ ProceedUnlocked(a)
  <2>1. PICK p \in {"done", "locked"} : tx' = [tx EXCEPT ![a] = [s EXCEPT !.pc = p]]
    BY <1>1, <1>5 DEF RateLimited, TakeLock, ProceedUnlocked, ConversationInv, SessionsGood
  <2> DEFINE t == [s EXCEPT !.pc = p]
  <2>2. p \in {"queued", "locked", "thinking", "flushing", "sending", "done"}
    OBVIOUS
  <2>3. t.pc = p /\ t.rem = s.rem /\ t.heard = s.heard
    BY <1>1, <2>2, PlaceFacts
  <2>4. tx' = [tx EXCEPT ![a] = t]
    BY <2>1
  <2> HIDE DEF t
  <2>5. Counting(t)
    BY <1>3, <2>3 DEF Counting
  <2> QED BY <1>1, <1>2, <2>4, <2>5, LadderKept
<1>6. CASE LoadInputs(a)
  <2> DEFINE t == [s EXCEPT !.pc = "thinking", !.view = conv.stage, !.linkSeen = linkSent]
             u == [s EXCEPT !.pc = "done"]
  <2>1. tx' = [tx EXCEPT ![a] = t] \/ tx' = [tx EXCEPT ![a] = u]
    BY <1>6 DEF LoadInputs
  <2>2. /\ t.pc = "thinking" /\ t.rem = s.rem /\ t.heard = s.heard
        /\ u.pc = "done" /\ u.rem = s.rem /\ u.heard = s.heard
    BY <1>1 DEF Session
  <2> HIDE DEF t, u
  <2>3. Counting(t) /\ Counting(u)
    BY <1>3, <2>2 DEF Counting
  <2> QED BY <1>1, <1>2, <2>1, <2>3, LadderKept
<1>7. CASE \E d \in Answers : Reply(a, d)
  <2>1. PICK d \in Answers : Reply(a, d)
    BY <1>7
  <2> DEFINE t == Deciding(Loaded(s), d)
             u == [s EXCEPT !.pc = "done"]
  <2>2. tx' = [tx EXCEPT ![a] = t] \/ tx' = [tx EXCEPT ![a] = u]
    BY <2>1 DEF Reply
  <2>3. d \in Answer
    BY ConversationAssumption
  <2>4. t.pc \in {"flushing", "sending"} /\ t.rem = None /\ t.heard = Heard
    BY <1>1, <1>3, <2>3, LoadedFacts, DecidingFacts DEF ConversationInv
  <2>5. u.pc = "done" /\ u.rem = s.rem /\ u.heard = s.heard
    BY <1>1, PlaceFacts
  <2> HIDE DEF t, u
  <2>6. Counting(t) /\ Counting(u)
    BY <1>3, <2>4, <2>5, LadderIdle DEF Counting
  <2> QED BY <1>1, <1>2, <2>2, <2>6, LadderKept
<1> QED BY <1>4, <1>5, <1>6, <1>7

(* A claimed follow-up is not looked at yet.                                 *)
LEMMA LadderClaim ==
  ASSUME ConversationInv, ConversationInv', LadderInv, NEW c \in Chasers, NEW r \in Reminders,
         Claim(c, r)
  PROVE  LadderInv'
<1> DEFINE t == [Idle EXCEPT !.pc = "claimed", !.rem = r, !.locks = {r}]
<1>1. /\ c \in Actors /\ tx' = [tx EXCEPT ![c] = t] /\ ~InFlight(tx[c])
      /\ UNCHANGED <<stored, rem, chases, unrecorded>>
  BY DEF Claim, tables, received, InFlight, Actors
<1>2. t.pc = "claimed" /\ t.msg = None /\ t.heard = 0
  BY IdleFacts DEF Session, Idle
<1> HIDE DEF t
<1>3. Counting(t)
  BY <1>2, LadderFacts DEF Counting, Delivering
<1> QED BY <1>1, <1>3, LadderKept

(* What is written was looked at.                                            *)
LEMMA LadderCompose ==
  ASSUME ConversationInv, ConversationInv', LadderInv, NEW c \in Chasers,
         NEW d \in Answers \cup {Template}, Compose(c, d)
  PROVE  LadderInv'
<1> DEFINE s == tx[c]
           t == Deciding(s, d)
<1>1. c \in Actors /\ d \in Answer /\ s \in Session /\ s.pc = "composing"
  BY ConversationAssumption, IdleFacts DEF Actors, ConversationInv, SessionsGood, Compose
<1>2. /\ tx' = [tx EXCEPT ![c] = t] /\ ~InFlight(s)
      /\ UNCHANGED <<stored, rem, chases, unrecorded>>
  BY DEF Compose, tables, received, InFlight
<1>3. t.pc \in {"flushing", "sending"} /\ t.rem = s.rem /\ t.heard = s.heard /\ t.msg = s.msg
  BY <1>1, DecidingFacts
<1> HIDE DEF t
<1>4. Counting(t)
  BY <1>1, <1>3 DEF LadderInv, Counting
<1> QED BY <1>1, <1>2, <1>4, LadderKept

(* From the send to the commit: what one delivery takes to its next step.    *)
LEMMA LadderGoesOn ==
  ASSUME ConversationInv, ConversationInv', LadderInv, NEW a \in Runners \cup Chasers,
         Flush(a) \/ Record(a) \/ Act(a)
  PROVE  LadderInv'
<1> DEFINE s == tx[a]
           f == [s EXCEPT !.pc = "sending", !.locks = s.locks \cup {"conv"}]
           r == [s EXCEPT !.pc = "acting",
                          !.locks = IF WritesConversation(s) THEN @ \cup {"conv"} ELSE @,
                          !.moved = @ \/ {AfterLink(s), StageAfter(s)} # {s.stage},
                          !.stage = StageAfter(s)]
           o == [s EXCEPT !.optedOut = @ \/ OptsOut(s)]
           p == [o EXCEPT !.plan = Planned(o)]
           c == [p EXCEPT !.pc = "closing",
                          !.locks = IF OptsOut(s) THEN @ \cup {"cust"} ELSE @,
                          !.snap = IF Cancels(p) THEN Pending \ {s.rem} ELSE {}]
<1>1. a \in Actors /\ s \in Session
  BY DeliveringFacts
<1>2. UNCHANGED <<stored, rem, chases, unrecorded>>
  BY DEF Flush, Record, Act, tables, received
<1>3. PICK t : /\ tx' = [tx EXCEPT ![a] = t]
               /\ t.msg = s.msg /\ t.rem = s.rem /\ t.outcome = s.outcome /\ t.heard = s.heard
               /\ \/ s.pc = "flushing" /\ t.pc = "sending"
                  \/ s.pc = "recording" /\ t.pc = "acting"
                  \/ /\ s.pc = "acting" /\ t.pc = "closing"
                     /\ t.plan # "none" => Spent(t) < Ladder
  <2>1. CASE Flush(a)
    <3>1. tx' = [tx EXCEPT ![a] = f] /\ s.pc = "flushing"
      BY <2>1, FlushSession DEF Flush
    <3>2. /\ f.pc = "sending" /\ f.msg = s.msg /\ f.rem = s.rem /\ f.outcome = s.outcome
          /\ f.heard = s.heard
      BY <1>1 DEF Session
    <3> QED BY <3>1, <3>2
  <2>2. CASE Record(a)
    <3>1. tx' = [tx EXCEPT ![a] = r] /\ s.pc = "recording"
      BY <2>2 DEF Record
    <3>2. /\ r.pc = "acting" /\ r.msg = s.msg /\ r.rem = s.rem /\ r.outcome = s.outcome
          /\ r.heard = s.heard
      BY <1>1 DEF Session
    <3> QED BY <3>1, <3>2
  <2>3. CASE Act(a)
    <3>1. tx' = [tx EXCEPT ![a] = c] /\ s.pc = "acting"
      BY <2>3 DEF Act
    <3>2. /\ c.pc = "closing" /\ c.msg = s.msg /\ c.rem = s.rem /\ c.outcome = s.outcome
          /\ c.heard = s.heard /\ o.heard = s.heard /\ o.rem = s.rem /\ c.plan = Planned(o)
      BY <1>1 DEF Session
    <3> HIDE DEF o, p, c
    <3>3. Spent(c) = Spent(o)
      BY <3>2 DEF Spent
    <3>4. Planned(o) # "none" => ~(Spent(o) >= Ladder)
      BY DEF Planned, Refused
    <3>5. Spent(o) \in Nat
      BY FS_Subset, FS_CardinalityType, ConversationAssumption DEF Spent
    <3>6. c.plan # "none" => Spent(c) < Ladder
      BY <3>2, <3>3, <3>4, <3>5, ConversationAssumption
    <3> QED BY <3>1, <3>2, <3>6
  <2> QED BY <2>1, <2>2, <2>3
<1> HIDE DEF s
<1>4. Counting(t)
  <2>1. Counting(s)
    BY <1>1 DEF s, LadderInv
  <2> QED BY <1>3, <2>1 DEF Counting, Delivering
<1>5. InFlight(s) => InFlight(t) /\ t.rem = s.rem
  BY <1>3 DEF InFlight
<1> QED BY <1>1, <1>2, <1>3, <1>4, <1>5, LadderKept DEF s

(* A follow-up that goes out is one more received and one more on its rung.  *)
LEMMA LadderSend ==
  ASSUME ConversationInv, ConversationInv', LadderInv, NEW a \in Runners \cup Chasers,
         NEW outcome \in {"none", "sent", "failed"}, Send(a, outcome)
  PROVE  LadderInv'
<1> DEFINE s == tx[a]
           t == [s EXCEPT !.pc = "recording", !.outcome = outcome,
                          !.linked = (outcome = "sent" /\ Links(s))]
<1>1. a \in Actors /\ s \in Session /\ s.pc = "sending" /\ Good(s) /\ Counting(s)
  BY DeliveringFacts DEF Send, LadderInv
<1>2. tx' = [tx EXCEPT ![a] = t] /\ UNCHANGED <<stored, rem, unrecorded>> /\ ~InFlight(s)
  BY <1>1 DEF Send, tables, InFlight
<1>3. /\ t.pc = "recording" /\ t.msg = s.msg /\ t.rem = s.rem /\ t.outcome = outcome
      /\ t.heard = s.heard
  BY <1>1 DEF Session
<1> HIDE DEF t
<1>4. Counting(t)
  BY <1>1, <1>3 DEF Counting, Delivering
<1>5. CASE ~(outcome = "sent" /\ s.rem # None)
  <2>1. chases' = chases
    BY <1>5 DEF Send
  <2> QED BY <1>1, <1>2, <1>4, <2>1, LadderKept
<1>6. CASE outcome = "sent" /\ s.rem # None
  <2>1. /\ s.rem \in Reminders /\ s.rem \in s.locks /\ rem[s.rem].status = "pending"
        /\ rem[s.rem].since = Heard
    BY <1>1, <1>6 DEF Good, Owned, Counting, Session, Delivering
  <2>2. \A b \in Actors : tx'[b] = IF b = a THEN t ELSE tx[b]
    BY <1>2 DEF ConversationInv, SessionsGood
  <2>3. Heard' = Heard /\ Rungs' = Rungs
    BY <1>2 DEF Heard, Rungs
  <2>4. ASSUME NEW b \in Actors PROVE (Counting(tx[b]))'
    <3>1. Counting(tx'[b])
      BY <1>4, <2>2 DEF LadderInv
    <3>2. (Spent(tx[b]))' = Spent(tx'[b])
      BY <1>2 DEF Spent
    <3> QED BY <1>2, <2>3, <3>1, <3>2 DEF Counting
  <2>5. s.rem \notin Out
    <3>1. \A b \in Actors : InFlight(tx[b]) => tx[b].rem # s.rem
      <4> SUFFICES ASSUME NEW b \in Actors, InFlight(tx[b]), tx[b].rem = s.rem PROVE FALSE
        OBVIOUS
      <4>1. b # a
        BY <1>2
      <4>2. s.rem \in tx[b].locks
        BY <1>6 DEF ConversationInv, SessionsGood, Good, Owned
      <4> QED BY <1>1, <2>1, <4>1, <4>2 DEF ConversationInv, SessionsGood
    <3> QED BY <2>1, <3>1 DEF Out
  <2>6. Out \cup {s.rem} \subseteq Out'
    <3>1. s.rem \in Out'
      <4>1. InFlight(tx'[a]) /\ tx'[a].rem = s.rem
        BY <1>1, <1>3, <1>6, <2>2 DEF InFlight
      <4> QED BY <1>1, <1>2, <2>1, <2>3, <4>1 DEF Out, InFlight
    <3>2. ASSUME NEW q \in Out PROVE q \in Out'
      <4>1. q \in Reminders /\ rem'[q].since = Heard' /\ rem' = rem
        BY <1>2, <2>3 DEF Out
      <4>2. CASE rem[q].status = "sent"
        BY <4>1, <4>2 DEF Out
      <4>3. CASE \E b \in Actors : InFlight(tx[b]) /\ tx[b].rem = q
        <5>1. \E b \in Actors : InFlight(tx'[b]) /\ tx'[b].rem = q
          BY <1>2, <2>2, <4>3
        <5> QED BY <4>1, <5>1 DEF Out, InFlight
      <4> QED BY <4>2, <4>3 DEF Out
    <3> QED BY <3>1, <3>2
  <2>7. Cardinality(Out) + 1 <= Cardinality(Out')
    <3>1. IsFiniteSet(Out') /\ Cardinality(Out') \in Nat
      BY FS_Subset, FS_CardinalityType, ConversationAssumption DEF Out
    <3>2. IsFiniteSet(Out) /\ Cardinality(Out) \in Nat
      BY LadderFacts
    <3>3. Cardinality(Out \cup {s.rem}) = Cardinality(Out) + 1
      BY <2>5, <3>2, FS_AddElement
    <3> QED BY <2>6, <3>1, <3>3, FS_Subset
  <2>8. chases' <= chases + 1
    BY LadderFacts DEF Send
  <2>9. None \notin unrecorded' => chases' <= Cardinality(Out')
    <3>1. Cardinality(Out) \in Nat /\ Cardinality(Out') \in Nat /\ chases \in Nat /\ chases' \in Nat
      BY LadderFacts, FS_Subset, FS_CardinalityType, ConversationAssumption
         DEF Out, ConversationInv, CountsTyped
    <3> QED BY <1>2, <2>7, <2>8, <3>1 DEF LadderInv
  <2> QED BY <2>3, <2>4, <2>9 DEF LadderInv
<1> QED BY <1>5, <1>6

(* The look at the state finds the follow-up on the first rung still free,   *)
(* or takes it off the ladder.                                               *)
LEMMA LadderLook ==
  ASSUME ConversationInv, ConversationInv', LadderInv, NEW c \in Chasers, LookAgain(c)
  PROVE  LadderInv'
<1> DEFINE s == tx[c]
<1>1. /\ c \in Actors /\ s \in Session /\ Good(s) /\ Counting(s) /\ s.pc = "claimed"
      /\ s.rem \in Reminders /\ s.rem # None
  BY ConversationAssumption
     DEF LookAgain, ConversationInv, SessionsGood, Actors, Good, Owned, LadderInv
<1>2. s.rem \in s.locks /\ rem[s.rem].status = "pending"
  BY <1>1 DEF Good, Owned
<1>3. UNCHANGED <<stored, chases, unrecorded>> /\ ~InFlight(s)
  BY DEF LookAgain, received, InFlight
<1>4. CASE Irrelevant(s.rem)
  <2>1. tx' = [tx EXCEPT ![c] = Idle] /\ rem' = Cancelled({s.rem})
    BY <1>4 DEF LookAgain
  <2>2. /\ \A r \in Reminders : rem'[r].since = rem[r].since
        /\ \A r \in Reminders \ {s.rem} : rem'[r] = rem[r]
        /\ rem'[s.rem].status = "ended"
    <3>1. \A r \in Reminders : rem'[r] =
             IF r = s.rem THEN [rem[r] EXCEPT !.status = "ended"] ELSE rem[r]
      BY <1>2, <2>1 DEF Cancelled
    <3> QED BY <1>1, <3>1 DEF ConversationInv, TablesTyped, Reminder
  <2>3. \A b \in Actors : tx'[b] = IF b = c THEN Idle ELSE tx[b]
    BY <2>1 DEF ConversationInv, SessionsGood
  <2>4. Heard' = Heard
    BY <1>3 DEF Heard
  <2>5. \A b \in Actors \ {c} : tx[b].rem # s.rem
    <3> SUFFICES ASSUME NEW b \in Actors \ {c}, tx[b].rem = s.rem PROVE FALSE
      OBVIOUS
    <3>1. s.rem \in tx[b].locks
      BY <1>1 DEF ConversationInv, SessionsGood, Good, Owned
    <3> QED BY <1>1, <1>2, <3>1 DEF ConversationInv, SessionsGood
  <2>6. ASSUME NEW b \in Actors PROVE (Counting(tx[b]))'
    <3>1. Counting(tx'[b])
      BY <2>3, LadderIdle DEF LadderInv
    <3>2. (Spent(tx[b]))' = Spent(tx'[b])
      <4>1. \A r \in Reminders : (rem'[r].status = "sent") <=> (rem[r].status = "sent")
        BY <1>2, <2>2
      <4>2. {r \in Reminders : (rem'[r].status = "sent" \/ r = tx'[b].rem)
                               /\ rem'[r].since >= tx'[b].heard}
            = {r \in Reminders : (rem[r].status = "sent" \/ r = tx'[b].rem)
                                 /\ rem[r].since >= tx'[b].heard}
        BY <2>2, <4>1
      <4> QED BY <4>2 DEF Spent
    <3>3. tx'[b].rem # None => tx'[b].rem \in Reminders
      BY <2>3 DEF ConversationInv, SessionsGood, Session, Idle
    <3>4. tx'[b].rem # None /\ tx'[b].pc \in Delivering \cup {"composing"} =>
            rem'[tx'[b].rem].since = Heard'
      BY <2>2, <2>4, <3>1, <3>3 DEF Counting
    <3> QED BY <1>3, <2>4, <3>1, <3>2, <3>4 DEF Counting
  <2>7. Cardinality(Rungs') <= Ladder
    <3>1. Rungs' \subseteq Rungs
      BY <2>2, <2>4 DEF Rungs
    <3>2. IsFiniteSet(Rungs) /\ Cardinality(Rungs) \in Nat
      BY LadderFacts
    <3>3. Cardinality(Rungs') <= Cardinality(Rungs) /\ Cardinality(Rungs') \in Nat
      BY <3>1, <3>2, FS_Subset, FS_CardinalityType
    <3> QED BY <3>2, <3>3, ConversationAssumption DEF LadderInv
  <2>8. Out' = Out
    <3>1. \A b \in Actors : /\ InFlight(tx'[b]) <=> InFlight(tx[b])
                            /\ InFlight(tx[b]) => tx'[b].rem = tx[b].rem
      BY <1>3, <2>3 DEF InFlight, Idle
    <3>2. \A r \in Reminders : (rem'[r].status = "sent") <=> (rem[r].status = "sent")
      BY <1>2, <2>2
    <3>3. Out' = {r \in Reminders : rem'[r].since = Heard' /\
                    (rem'[r].status = "sent" \/ \E b \in Actors : InFlight(tx'[b]) /\ tx'[b].rem = r)}
      BY DEF Out, InFlight
    <3> QED BY <2>2, <2>4, <3>1, <3>2, <3>3 DEF Out
  <2> QED BY <1>3, <2>6, <2>7, <2>8 DEF LadderInv
<1>5. CASE ~Irrelevant(s.rem)
  <2> DEFINE l == Loaded(s)
             t == [l EXCEPT !.pc = "composing", !.view = conv.stage, !.linkSeen = linkSent]
  <2>1. tx' = [tx EXCEPT ![c] = t] /\ UNCHANGED rem
    BY <1>5 DEF LookAgain
  <2>2. l \in Session /\ l.rem = s.rem /\ l.msg = s.msg /\ l.heard = Heard
    BY <1>1, LoadedFacts DEF ConversationInv
  <2> HIDE DEF l
  <2>3. t.pc = "composing" /\ t.rem = s.rem /\ t.msg = s.msg /\ t.heard = Heard
    BY <2>2 DEF Session
  <2> HIDE DEF t
  <2>4. Heard = rem[s.rem].since
    <3>1. rem[s.rem].since \in Nat /\ Heard \in Nat
      BY <1>1, LadderFacts
    <3>2. rem[s.rem].since <= Heard
      BY <1>1 DEF ConversationInv, RemindersGood
    <3> QED BY <1>5, <3>1, <3>2 DEF Irrelevant
  <2>5. Counting(t)
    BY <1>1, <2>3, <2>4, LadderFacts DEF Counting, Delivering
  <2> QED BY <1>1, <1>3, <2>1, <2>5, LadderKept
<1> QED BY <1>4, <1>5

(* A stored message starts the ladder again.                                 *)
LEMMA LadderIngest ==
  ASSUME ConversationInv, ConversationInv', LadderInv, NEW a \in Runners, CommitIngest(a)
  PROVE  LadderInv'
<1> DEFINE s == tx[a]
           t == AfterIngest(s)
<1>1. /\ a \in Actors /\ s \in Session /\ s.pc = "cancelling" /\ s.msg \in Msgs /\ s.msg \notin stored
      /\ s.msg \in s.locks /\ "conv" \in s.locks /\ Pending \subseteq s.snap
      /\ s.snap \in SUBSET Reminders
  BY DEF Actors, ConversationInv, SessionsGood, Session, Good, Owned, Ingesting, BeforeReply,
         CommitIngest, LadderInv, Counting
<1>2. /\ stored' = stored \cup {s.msg} /\ rem' = Cancelled(s.snap) /\ chases' = 0
      /\ tx' = [tx EXCEPT ![a] = t] /\ \A r \in s.snap : Free(r, a)
  BY DEF CommitIngest
<1>3. \A b \in Actors : tx'[b] = IF b = a THEN t ELSE tx[b]
  BY <1>2 DEF ConversationInv, SessionsGood
<1>4. \A r \in Reminders : rem'[r].since = rem[r].since
  BY <1>1, <1>2, CancelledFacts DEF ConversationInv
<1>5. Heard' = Heard + 1
  <2>1. IsFiniteSet(stored)
    BY FS_Subset, ConversationAssumption DEF ConversationInv, TablesTyped
  <2> QED BY <1>1, <1>2, <2>1, FS_AddElement DEF Heard
<1>6. t.rem = None /\ t.heard = 0 /\ t.pc \in {"queued", "done"}
  BY <1>1, AfterIngestFacts
<1> HIDE DEF t
<1>7. ASSUME NEW b \in Actors PROVE (Counting(tx[b]))'
  <2>1. CASE b = a
    <3>1. Heard' \in Nat
      BY <1>5, LadderFacts
    <3> QED BY <1>3, <1>6, <2>1, <3>1 DEF Counting
  <2>2. CASE b # a
    <3>1. tx'[b] = tx[b] /\ Counting(tx[b]) /\ Good(tx[b]) /\ tx[b].locks \cap s.locks = {}
      BY <1>1, <1>3, <2>2 DEF LadderInv, ConversationInv, SessionsGood
    <3>2. tx[b].rem = None
      <4> SUFFICES ASSUME tx[b].rem # None PROVE FALSE
        OBVIOUS
      <4>1. tx[b].rem \in Pending /\ tx[b].rem \in tx[b].locks
        BY <3>1 DEF Good, Owned, Pending, ConversationInv, SessionsGood, Session
      <4> QED BY <1>1, <1>2, <2>2, <4>1 DEF Free
    <3>3. tx[b].heard <= Heard'
      BY <1>5, <3>1, LadderFacts DEF Counting
    <3>4. tx[b].pc # "cancelling" /\ ~(tx[b].pc = "closing" /\ tx[b].plan # "none")
      BY <1>1, <3>1 DEF Good, Ingesting, Following
    <3> QED BY <3>1, <3>2, <3>3, <3>4 DEF Counting
  <2> QED BY <2>1, <2>2
<1>8. Rungs' = {}
  <2>1. \A r \in Reminders : rem'[r].since # Heard'
    BY <1>4, <1>5, LadderFacts DEF ConversationInv, RemindersGood
  <2> QED BY <2>1 DEF Rungs
<1>9. Cardinality(Rungs') <= Ladder
  BY <1>8, FS_EmptySet, ConversationAssumption
<1>10. Cardinality(Out') \in Nat
  BY FS_Subset, FS_CardinalityType, ConversationAssumption DEF Out
<1> QED BY <1>2, <1>7, <1>9, <1>10 DEF LadderInv

(* What a commit makes of the rungs: a follow-up that is queued finds one    *)
(* free, for its sender counted them while nobody else could add to them.    *)
LEMMA LadderCommit ==
  ASSUME ConversationInv, ConversationInv', LadderInv, NEW a \in Runners \cup Chasers, Commit(a)
  PROVE  LadderInv'
<1> DEFINE s == tx[a]
           t == IF s.rem = None THEN [Idle EXCEPT !.pc = "done", !.msg = s.msg] ELSE Idle
           new == IF s.plan = "none" THEN None ELSE CHOOSE r \in Unused : TRUE
           kept == Cancelled(s.snap)
<1>1. /\ a \in Actors /\ s \in Session /\ Good(s) /\ Counting(s) /\ s.pc = "closing"
      /\ s.snap \in SUBSET Reminders
  BY DeliveringFacts DEF Commit, LadderInv, Session
<1>2. /\ \A r \in s.snap : Free(r, a)
      /\ s.plan # "none" => Unused # {}
      /\ rem' = Rescheduled(s)
      /\ tx' = [tx EXCEPT ![a] = t]
      /\ UNCHANGED <<stored, chases, unrecorded>>
  BY DEF Commit
<1>3. t.rem = None /\ t.heard = 0 /\ t.pc \in {"idle", "done"}
  BY IdleFacts DEF Idle
<1> HIDE DEF t
<1>4. \A b \in Actors : tx'[b] = IF b = a THEN t ELSE tx[b]
  BY <1>2 DEF ConversationInv, SessionsGood
<1>5. Heard' = Heard
  BY <1>2 DEF Heard
<1>6. s.plan = "none" => new = None
  OBVIOUS
<1>7. s.plan # "none" => new \in Unused /\ new \in Reminders
  BY <1>2 DEF Unused
<1>8. /\ kept \in [Reminders -> Reminder]
      /\ \A r \in Reminders : /\ kept[r].since = rem[r].since
                              /\ kept[r].status = "pending" =>
                                   rem[r].status = "pending" /\ r \notin s.snap
                              /\ (kept[r].status = "sent") <=> (rem[r].status = "sent")
  <2>1. \A r \in Reminders : rem[r] \in Reminder
    BY DEF ConversationInv, TablesTyped
  <2>2. \A r \in Reminders : kept[r] = IF r \in s.snap /\ rem[r].status = "pending"
                                       THEN [rem[r] EXCEPT !.status = "ended"] ELSE rem[r]
    BY DEF Cancelled
  <2>3. \A r \in Reminders : (kept[r].status = "sent") <=> (rem[r].status = "sent")
    BY <2>1, <2>2 DEF Reminder
  <2> QED BY <1>1, <2>3, CancelledFacts DEF ConversationInv
<1>9. \A r \in Reminders :
        /\ r # new => rem'[r].since = rem[r].since
        /\ r = new => rem'[r].status = "pending"
        /\ r # new /\ r = s.rem => rem'[r].status = IF s.outcome = "sent" THEN "sent" ELSE "ended"
        /\ r # new /\ r # s.rem => rem'[r] = kept[r]
  <2> DEFINE fresh == [status |-> "pending", since |-> Heard, promised |-> s.plan = "promise"]
             settledAs(r) == [kept[r] EXCEPT !.status = IF s.outcome = "sent" THEN "sent" ELSE "ended"]
  <2>1. \A r \in Reminders : rem'[r] = IF r = new THEN fresh
                                       ELSE IF r = s.rem THEN settledAs(r) ELSE kept[r]
    BY <1>2 DEF Rescheduled
  <2>2. fresh.status = "pending"
    OBVIOUS
  <2>3. \A r \in Reminders : /\ settledAs(r).since = rem[r].since
                             /\ settledAs(r).status = IF s.outcome = "sent" THEN "sent" ELSE "ended"
    BY <1>8 DEF Reminder
  <2> HIDE DEF fresh, settledAs, new, kept
  <2> QED BY <1>8, <2>1, <2>2, <2>3
<1> HIDE DEF new, kept, s
<1>10. s.plan # "none" => "conv" \in s.locks /\ Pending \subseteq s.snap \cup {s.rem}
                          /\ s.outcome = "sent" /\ Spent(s) < Ladder
  BY <1>1 DEF Good, Following, Counting, Cancels
<1>11. new # None => rem[new].status \notin {"sent", "pending"} /\ new # s.rem
  <2>1. s.rem # None => s.rem \in s.locks
    BY <1>1 DEF Good, Owned
  <2> QED BY <1>1, <1>6, <1>7, <2>1, ConversationAssumption DEF Unused, s
<1>12. s.rem # None => s.rem \in Reminders /\ rem[s.rem].status = "pending"
  BY <1>1 DEF Good, Owned, Session
\* nobody else who is about to queue a follow-up is affected
<1>13. ASSUME NEW b \in Actors \ {a}, tx[b].pc = "closing", tx[b].plan # "none"
       PROVE  (Spent(tx[b]))' = Spent(tx[b])
  <2>1. "conv" \in tx[b].locks /\ tx'[b] = tx[b]
    BY <1>4, <1>13 DEF ConversationInv, SessionsGood, Good, Following
  <2>2. "conv" \notin s.locks
    BY <1>1, <2>1 DEF s, ConversationInv, SessionsGood
  <2>3. s.outcome # "sent" /\ new = None
    BY <1>1, <1>6, <1>10, <2>2 DEF Good, Following
  <2>4. \A r \in Reminders : /\ (rem'[r].status = "sent") <=> (rem[r].status = "sent")
                             /\ rem'[r].since = rem[r].since
    BY <1>8, <1>9, <1>12, <2>3, ConversationAssumption
  <2>5. {r \in Reminders : (rem'[r].status = "sent" \/ r = tx'[b].rem) /\ rem'[r].since >= tx'[b].heard}
        = {r \in Reminders : (rem[r].status = "sent" \/ r = tx[b].rem) /\ rem[r].since >= tx[b].heard}
    BY <2>1, <2>4
  <2> QED BY <2>5 DEF Spent
<1>14. ASSUME NEW b \in Actors PROVE (Counting(tx[b]))'
  <2>1. CASE b = a
    BY <1>3, <1>4, <1>5, <2>1, LadderFacts DEF Counting
  <2>2. CASE b # a
    <3>1. tx'[b] = tx[b] /\ Counting(tx[b])
      BY <1>4, <2>2 DEF LadderInv
    <3>2. tx[b].rem # None => /\ tx[b].rem \in Reminders /\ tx[b].rem \in tx[b].locks
      BY DEF ConversationInv, SessionsGood, Good, Owned, Session
    <3>3. tx[b].rem # None => rem'[tx[b].rem].since = rem[tx[b].rem].since
      BY <1>6, <1>7, <1>9, <3>2, ConversationAssumption DEF Unused
    <3> QED BY <1>2, <1>5, <1>13, <2>2, <3>1, <3>3 DEF Counting
  <2> QED BY <2>1, <2>2
<1>15. Cardinality(Rungs') <= Ladder
  <2>1. IsFiniteSet(Rungs) /\ Cardinality(Rungs) \in Nat
    BY LadderFacts
  <2>2. CASE s.plan = "none"
    <3>1. Rungs' \subseteq Rungs
      <4> SUFFICES ASSUME NEW r \in Reminders, rem'[r].status \in {"sent", "pending"},
                          rem'[r].since = Heard
                   PROVE  rem[r].status \in {"sent", "pending"} /\ rem[r].since = Heard
        BY <1>5 DEF Rungs
      <4>1. r # new
        BY <1>6, <2>2, ConversationAssumption
      <4>2. CASE r = s.rem
        BY <1>9, <1>12, <4>1, <4>2, ConversationAssumption
      <4>3. CASE r # s.rem
        <5>1. rem'[r] = kept[r]
          BY <1>9, <4>1, <4>3
        <5> QED BY <1>8, <5>1
      <4> QED BY <4>2, <4>3
    <3>2. Cardinality(Rungs') <= Cardinality(Rungs) /\ Cardinality(Rungs') \in Nat
      BY <2>1, <3>1, FS_Subset, FS_CardinalityType
    <3> QED BY <2>1, <3>2, ConversationAssumption DEF LadderInv
  <2>3. CASE s.plan # "none"
    <3> DEFINE used == {r \in Reminders : /\ rem[r].status = "sent" \/ r = s.rem
                                          /\ rem[r].since >= s.heard}
    <3>1. Rungs' \subseteq used \cup {new}
      <4> SUFFICES ASSUME NEW r \in Reminders, rem'[r].status \in {"sent", "pending"},
                          rem'[r].since = Heard, r # new
                   PROVE  r \in used
        BY <1>5 DEF Rungs
      <4>1. rem[r].since = Heard
        BY <1>9
      <4>2. rem[r].since >= s.heard
        BY <1>1, <4>1, LadderFacts DEF Counting, s
      <4>3. rem[r].status = "sent" \/ r = s.rem
        <5> SUFFICES ASSUME r # s.rem PROVE rem[r].status = "sent"
          OBVIOUS
        <5>1. rem'[r] = kept[r]
          BY <1>9
        <5>2. kept[r].status # "pending"
          BY <1>8, <1>10, <2>3 DEF Pending
        <5> QED BY <1>8, <5>1, <5>2
      <4> QED BY <4>2, <4>3
    <3>2. IsFiniteSet(used) /\ Cardinality(used) = Spent(s) /\ Cardinality(used) \in Nat
      BY FS_Subset, FS_CardinalityType, ConversationAssumption DEF Spent
    <3>3. new \notin used
      BY <1>7, <1>11, <2>3, ConversationAssumption
    <3> HIDE DEF used
    <3>4. /\ IsFiniteSet(used \cup {new})
          /\ Cardinality(used \cup {new}) = Cardinality(used) + 1
      BY <3>2, <3>3, FS_AddElement
    <3>5. Cardinality(Rungs') <= Cardinality(used \cup {new}) /\ Cardinality(Rungs') \in Nat
      BY <3>1, <3>4, FS_Subset, FS_CardinalityType
    <3> QED BY <1>10, <2>3, <3>2, <3>4, <3>5, ConversationAssumption
  <2> QED BY <2>2, <2>3
<1>16. Out \subseteq Out'
  <2> SUFFICES ASSUME NEW r \in Out PROVE r \in Out'
    OBVIOUS
  <2>1. r \in Reminders /\ rem[r].since = Heard
    BY DEF Out
  <2>2. CASE rem[r].status = "sent"
    <3>1. r # new /\ r # s.rem
      BY <1>11, <1>12, <2>1, <2>2, ConversationAssumption
    <3> QED BY <1>5, <1>8, <1>9, <2>1, <2>2, <3>1 DEF Out
  <2>3. CASE InFlight(s) /\ s.rem = r
    <3>1. r # new
      BY <1>11, <2>1, <2>3, ConversationAssumption
    <3> QED BY <1>5, <1>9, <2>1, <2>3, <3>1 DEF Out, InFlight
  <2>4. CASE \E b \in Actors \ {a} : InFlight(tx[b]) /\ tx[b].rem = r
    <3>1. PICK b \in Actors \ {a} : InFlight(tx[b]) /\ tx[b].rem = r
      BY <2>4
    <3>2. r \in tx[b].locks
      BY <3>1 DEF InFlight, ConversationInv, SessionsGood, Good, Owned
    <3>3. r # new
      BY <1>6, <1>7, <2>1, <3>2, ConversationAssumption DEF Unused
    <3>4. InFlight(tx'[b]) /\ tx'[b].rem = r
      BY <1>4, <3>1
    <3> QED BY <1>5, <1>9, <2>1, <3>3, <3>4 DEF Out, InFlight
  <2> QED BY <2>2, <2>3, <2>4 DEF Out, s
<1>17. None \notin unrecorded' => chases' <= Cardinality(Out')
  <2>1. IsFiniteSet(Out') /\ Cardinality(Out') \in Nat
    BY FS_Subset, FS_CardinalityType, ConversationAssumption DEF Out
  <2>2. Cardinality(Out) <= Cardinality(Out') /\ Cardinality(Out) \in Nat /\ chases \in Nat
    BY <1>16, <2>1, LadderFacts, FS_Subset
  <2> QED BY <1>2, <2>1, <2>2 DEF LadderInv
<1> QED BY <1>14, <1>15, <1>17 DEF LadderInv

(* Steps that leave tables, sessions and history alone.                      *)
LEMMA LadderStutters ==
  ASSUME LadderInv, UNCHANGED <<tables, tx, received>>
  PROVE  LadderInv'
BY DEF tables, received, LadderInv, Counting, Spent, Rungs, Out, InFlight, Heard

(* Every step keeps LadderInv.                                               *)
LEMMA LadderNext ==
  ASSUME ConversationInv, ConversationInv', LadderInv, [Next]_vars
  PROVE  LadderInv'
<1>1. ASSUME NEW a \in Runners \cup Chasers, Deliver(a) PROVE LadderInv'
  BY <1>1, LadderGoesOn, LadderSend, LadderCommit DEF Deliver
<1>2. ASSUME NEW a \in Runners, Run(a) PROVE LadderInv'
  <2>1. a \in Actors
    BY DEF Actors
  <2> QED BY <1>1, <1>2, <2>1, LadderBegins, LadderTurn, LadderIngest, LadderTurnsEnd DEF Run
<1>3. ASSUME NEW c \in Chasers, Chase(c) PROVE LadderInv'
  <2>1. c \in Actors
    BY DEF Actors
  <2> QED BY <1>1, <1>3, <2>1, LadderClaim, LadderLook, LadderCompose, LadderTurnsEnd DEF Chase
<1>4. ASSUME NEW a \in Actors, Crash(a) \/ Abort(a) PROVE LadderInv'
  BY <1>4, LadderTurnsEnd
<1>5. ASSUME LockExpires \/ UNCHANGED vars PROVE LadderInv'
  BY <1>5, LadderStutters DEF LockExpires, vars
<1> QED BY <1>2, <1>3, <1>4, <1>5, LadderBegins DEF Next

(* Following up ends (reminders.py 12-17): without having written, the       *)
(* customer receives no more follow-ups than the ladder has rungs, unless    *)
(* one that went out was rolled back.                                        *)
THEOREM FollowingUpEnds == Spec => []ReceivedWithinLadder
<1>1. Init => LadderInv
  <2> SUFFICES ASSUME Init PROVE LadderInv
    OBVIOUS
  <2>1. ConversationInv
    BY InitHolds
  <2>2. \A a \in Actors : tx[a] = Idle
    BY DEF Init
  <2>3. \A a \in Actors : Counting(tx[a])
    BY <2>1, <2>2, LadderIdle
  <2>4. Rungs = {} /\ chases = 0
    BY DEF Init, Rungs
  <2>5. Cardinality(Rungs) <= Ladder /\ Cardinality(Out) \in Nat
    BY <2>1, <2>4, LadderFacts, FS_EmptySet, ConversationAssumption
  <2> QED BY <2>3, <2>4, <2>5 DEF LadderInv
<1>2. ConversationInv /\ ConversationInv' /\ LadderInv /\ [Next]_vars => LadderInv'
  BY LadderNext
<1>3. ConversationInv /\ LadderInv => ReceivedWithinLadder
  <2> SUFFICES ASSUME ConversationInv, LadderInv, None \notin unrecorded PROVE chases <= Ladder
    BY DEF ReceivedWithinLadder
  <2>1. Out \subseteq Rungs
    <3>1. \A a \in Actors : InFlight(tx[a]) => rem[tx[a].rem].status = "pending"
      BY DEF InFlight, ConversationInv, SessionsGood, Good, Owned
    <3> QED BY <3>1 DEF Out, Rungs
  <2>2. Cardinality(Out) <= Cardinality(Rungs)
    BY <2>1, LadderFacts, FS_Subset
  <2> QED BY <2>2, LadderFacts, ConversationAssumption DEF LadderInv
<1> QED BY <1>1, <1>2, <1>3, ConversationHolds, PTL DEF Spec

-----------------------------------------------------------------------------
\* the callbacks promised and sent, and with those still to be sent
Honoured == {r \in Reminders : rem[r].status = "sent" /\ rem[r].promised}
PromisesMade == {r \in Reminders : rem[r].promised /\ rem[r].status \in {"sent", "pending"}}

\* a session that is about to queue a callback found fewer sent than the cap, and nothing
\* is sent beside it: it has the conversation's row (Following)
PromiseInv ==
  /\ \A a \in Actors : tx[a].pc = "closing" /\ tx[a].plan = "promise" => PromisesSent < MaxPromised
  /\ PromisesWithinCap

(* What is counted is finite.                                                *)
LEMMA PromiseFacts ==
  /\ IsFiniteSet(Honoured) /\ IsFiniteSet(PromisesMade)
  /\ PromisesSent = Cardinality(Honoured) /\ PromisesSent \in Nat
  /\ PromisesWithinCap <=> Cardinality(PromisesMade) <= MaxPromised + 1
<1>1. IsFiniteSet(Honoured) /\ IsFiniteSet(PromisesMade)
  BY FS_Subset, ConversationAssumption DEF Honoured, PromisesMade
<1>2. PromisesSent = Cardinality(Honoured)
  BY DEF PromisesSent, Honoured
<1>3. PromisesWithinCap <=> Cardinality(PromisesMade) <= MaxPromised + 1
  BY DEF PromisesWithinCap, PromisesMade
<1> QED BY <1>1, <1>2, <1>3, FS_CardinalityType

(* Where no callback is sent or queued the counts do not grow.               *)
LEMMA PromisesShrink ==
  ASSUME Honoured' \subseteq Honoured
  PROVE  PromisesSent' <= PromisesSent /\ PromisesSent' \in Nat
<1>1. Cardinality(Honoured') <= Cardinality(Honoured) /\ Cardinality(Honoured') \in Nat
  BY PromiseFacts, FS_Subset, FS_CardinalityType
<1> QED BY <1>1, PromiseFacts DEF PromisesSent, Honoured

LEMMA PromisesMadeShrink ==
  ASSUME PromiseInv, PromisesMade' \subseteq PromisesMade
  PROVE  PromisesWithinCap'
<1>1. /\ Cardinality(PromisesMade') <= Cardinality(PromisesMade)
      /\ Cardinality(PromisesMade') \in Nat /\ Cardinality(PromisesMade) \in Nat
  BY PromiseFacts, FS_Subset, FS_CardinalityType
<1>2. Cardinality(PromisesMade') <= MaxPromised + 1
  BY <1>1, PromiseFacts, ConversationAssumption DEF PromiseInv
<1> QED BY <1>2 DEF PromisesWithinCap, PromisesMade

(* A step that sends and queues nothing.                                     *)
LEMMA PromiseKept ==
  ASSUME PromiseInv,
         \A a \in Actors : tx'[a] = tx[a] \/ tx'[a].pc # "closing" \/
                           (tx'[a].plan = "promise" => PromisesSent < MaxPromised),
         \A r \in Reminders : rem'[r] = rem[r] \/ rem'[r].status = "ended"
  PROVE  PromiseInv'
<1>1. Honoured' \subseteq Honoured /\ PromisesMade' \subseteq PromisesMade
  BY DEF Honoured, PromisesMade
<1>2. PromisesSent' <= PromisesSent /\ PromisesSent' \in Nat /\ PromisesSent \in Nat
  BY <1>1, PromisesShrink, PromiseFacts
<1>3. PromisesWithinCap'
  BY <1>1, PromisesMadeShrink
<1>4. ASSUME NEW a \in Actors, tx'[a].pc = "closing", tx'[a].plan = "promise"
      PROVE  PromisesSent' < MaxPromised
  <2>1. PromisesSent < MaxPromised
    BY <1>4 DEF PromiseInv
  <2> QED BY <1>2, <2>1, ConversationAssumption
<1> QED BY <1>3, <1>4 DEF PromiseInv

(* What is cancelled is at its end.                                          *)
LEMMA CancelledEnds ==
  ASSUME TablesTyped, NEW S, NEW r \in Reminders
  PROVE  Cancelled(S)[r] = rem[r] \/ Cancelled(S)[r].status = "ended"
BY DEF Cancelled, TablesTyped, Reminder

(* Sessions that begin, end, or go on to anything but the commit.            *)
LEMMA PromiseElsewhere ==
  ASSUME ConversationInv, PromiseInv, NEW a \in Actors,
         \/ \E m \in Msgs : BeginTurn(a, m)
         \/ BeginTakeOver(a) \/ BeginRelease(a)
         \/ \E level \in {"downloaded", "activated"} : BeginReport(a, level)
         \/ \E r \in Reminders : Claim(a, r)
         \/ Retry(a) \/ Settle(a) \/ ComposeFails(a) \/ Crash(a) \/ Abort(a)
         \/ TakeOver(a) \/ Release(a) \/ Report(a)
         \/ StoreMessage(a) \/ CommitIngest(a) \/ LookAgain(a)
  PROVE  PromiseInv'
<1> DEFINE s == tx[a]
           l == Loaded(Idle)
<1>1. /\ tx \in [Actors -> Session] /\ s \in Session
      /\ \A S : \A r \in Reminders : Cancelled(S)[r] = rem[r] \/ Cancelled(S)[r].status = "ended"
  BY CancelledEnds DEF ConversationInv, SessionsGood
<1>2. Idle.pc = "idle" /\ l \in Session /\ Loaded(s) \in Session
  BY IdleFacts, LoadedFacts DEF ConversationInv, Idle, SessionsGood
<1>3. AfterIngest(s).pc # "closing"
  BY DEF AfterIngest, Idle
<1>4. \A r \in Reminders : rem'[r] = rem[r] \/ rem'[r].status = "ended"
  <2>1. UNCHANGED rem \/ CommitIngest(a) \/ LookAgain(a)
    BY DEF BeginTurn, BeginTakeOver, BeginRelease, BeginReport, Claim, Retry, Settle, ComposeFails,
           Crash, Abort, TakeOver, Release, Report, StoreMessage, tables
  <2>2. UNCHANGED rem \/ \E S : rem' = Cancelled(S)
    BY <2>1 DEF CommitIngest, LookAgain
  <2> QED BY <1>1, <2>2
<1>5. PICK t : tx' = [tx EXCEPT ![a] = t] /\ t.pc # "closing"
  <2> HIDE DEF l
  <2>1. ASSUME NEW m \in Msgs, BeginTurn(a, m)
        PROVE  \E t : tx' = [tx EXCEPT ![a] = t] /\ t.pc # "closing"
    <3>1. [l EXCEPT !.pc = "loaded", !.msg = m].pc = "loaded"
      BY <1>2 DEF Session
    <3> QED BY <2>1, <3>1 DEF BeginTurn, l
  <2>2. ASSUME BeginTakeOver(a) \/ BeginRelease(a)
        PROVE  \E t : tx' = [tx EXCEPT ![a] = t] /\ t.pc # "closing"
    <3>1. PICK p \in {"taking", "releasing"} : tx' = [tx EXCEPT ![a] = [l EXCEPT !.pc = p]]
      BY <2>2 DEF BeginTakeOver, BeginRelease, l
    <3>2. [l EXCEPT !.pc = p].pc = p
      BY <1>2 DEF Session
    <3> QED BY <3>1, <3>2
  <2>3. ASSUME NEW level, BeginReport(a, level)
        PROVE  \E t : tx' = [tx EXCEPT ![a] = t] /\ t.pc # "closing"
    <3>1. [l EXCEPT !.pc = "reporting", !.level = level, !.locks = {"cust"}].pc = "reporting"
      BY <1>2 DEF Session
    <3> QED BY <2>3, <3>1 DEF BeginReport, l
  <2>4. ASSUME NEW r \in Reminders, Claim(a, r)
        PROVE  \E t : tx' = [tx EXCEPT ![a] = t] /\ t.pc # "closing"
    <3>1. [Idle EXCEPT !.pc = "claimed", !.rem = r, !.locks = {r}].pc = "claimed"
      BY DEF Idle
    <3> QED BY <2>4, <3>1 DEF Claim
  <2>5. CASE \/ Retry(a) \/ Settle(a) \/ ComposeFails(a) \/ Crash(a) \/ Abort(a)
             \/ TakeOver(a) \/ Release(a) \/ Report(a)
    <3>1. tx' = [tx EXCEPT ![a] = Idle]
      BY <2>5 DEF Retry, Settle, ComposeFails, Crash, Abort, TakeOver, Release, Report
    <3> QED BY <1>2, <3>1
  <2>6. CASE StoreMessage(a)
    <3>1. [s EXCEPT !.pc = "cancelling", !.locks = {s.msg, "conv"}, !.snap = Pending,
                    !.stage = Revived(@), !.moved = (Revived(s.stage) # s.stage)].pc = "cancelling"
      BY <1>1 DEF Session
    <3> QED BY <1>3, <2>6, <3>1 DEF StoreMessage
  <2>7. CASE CommitIngest(a)
    BY <1>3, <2>7 DEF CommitIngest
  <2>8. CASE LookAgain(a)
    <3>1. [Loaded(s) EXCEPT !.pc = "composing", !.view = conv.stage, !.linkSeen = linkSent].pc
            = "composing"
      BY <1>2 DEF Session
    <3> QED BY <1>2, <2>8, <3>1 DEF LookAgain
  <2> QED BY <2>1, <2>2, <2>3, <2>4, <2>5, <2>6, <2>7, <2>8
<1>6. \A b \in Actors : tx'[b] = tx[b] \/ tx'[b].pc # "closing"
  BY <1>1, <1>5
<1> QED BY <1>4, <1>6, PromiseKept

(* From the queue to the record of what was sent.                            *)
LEMMA PromiseTurn ==
  ASSUME ConversationInv, PromiseInv, NEW a \in Runners \cup Chasers,
         \/ RateLimited(a) \/ TakeLock(a) \/ ProceedUnlocked(a) \/ LoadInputs(a)
         \/ \E d \in Answers : Reply(a, d)
         \/ \E d \in Answers \cup {Template} : Compose(a, d)
         \/ Flush(a) \/ Record(a)
         \/ \E outcome \in {"none", "sent", "failed"} : Send(a, outcome)
  PROVE  PromiseInv'
<1> DEFINE s == tx[a]
<1>1. tx \in [Actors -> Session] /\ s \in Session
  BY DeliveringFacts DEF ConversationInv, SessionsGood
<1>2. UNCHANGED rem
  BY DEF RateLimited, TakeLock, ProceedUnlocked, LoadInputs, Reply, Compose, Flush, Record,
         Send, tables
<1>3. PICK t : tx' = [tx EXCEPT ![a] = t] /\ t.pc # "closing"
  <2>1. CASE RateLimited(a) \/ TakeLock(a) \/ ProceedUnlocked(a)
    BY <1>1, <2>1 DEF RateLimited, TakeLock, ProceedUnlocked, Session
  <2>2. CASE LoadInputs(a)
    <3>1. /\ [s EXCEPT !.pc = "thinking", !.view = conv.stage, !.linkSeen = linkSent].pc = "thinking"
          /\ [s EXCEPT !.pc = "done"].pc = "done"
      BY <1>1 DEF Session
    <3> QED BY <2>2, <3>1 DEF LoadInputs
  <2>3. ASSUME NEW d \in Answers, Reply(a, d)
        PROVE  \E t : tx' = [tx EXCEPT ![a] = t] /\ t.pc # "closing"
    <3>1. Deciding(Loaded(s), d).pc \in {"flushing", "sending"}
      BY <1>1, LoadedFacts, DecidingFacts, ConversationAssumption DEF ConversationInv
    <3>2. [s EXCEPT !.pc = "done"].pc = "done"
      BY <1>1 DEF Session
    <3> QED BY <2>3, <3>1, <3>2 DEF Reply
  <2>4. ASSUME NEW d \in Answers \cup {Template}, Compose(a, d)
        PROVE  \E t : tx' = [tx EXCEPT ![a] = t] /\ t.pc # "closing"
    <3>1. d \in Answer
      BY IdleFacts, ConversationAssumption
    <3>2. Deciding(s, d).pc \in {"flushing", "sending"}
      BY <1>1, <3>1, DecidingFacts DEF ConversationInv
    <3> QED BY <2>4, <3>2 DEF Compose
  <2>5. CASE Flush(a)
    <3>1. [s EXCEPT !.pc = "sending", !.locks = s.locks \cup {"conv"}].pc = "sending"
      BY <1>1 DEF Session
    <3> QED BY <2>5, <3>1, FlushSession
  <2>6. CASE Record(a)
    <3> DEFINE t == [s EXCEPT !.pc = "acting",
                    !.locks = IF WritesConversation(s) THEN @ \cup {"conv"} ELSE @,
                    !.moved = @ \/ {AfterLink(s), StageAfter(s)} # {s.stage},
                    !.stage = StageAfter(s)]
    <3>1. tx' = [tx EXCEPT ![a] = t] /\ t.pc = "acting"
      BY <1>1, <2>6 DEF Record, Session
    <3> QED BY <3>1
  <2>7. ASSUME NEW outcome \in {"none", "sent", "failed"}, Send(a, outcome)
        PROVE  \E t : tx' = [tx EXCEPT ![a] = t] /\ t.pc # "closing"
    <3>1. [s EXCEPT !.pc = "recording", !.outcome = outcome,
                    !.linked = (outcome = "sent" /\ Links(s))].pc = "recording"
      BY <1>1 DEF Session
    <3> QED BY <2>7, <3>1 DEF Send
  <2> QED BY <2>1, <2>2, <2>3, <2>4, <2>5, <2>6, <2>7
<1>4. \A b \in Actors : tx'[b] = tx[b] \/ tx'[b].pc # "closing"
  BY <1>1, <1>3
<1> QED BY <1>2, <1>4, PromiseKept

(* A callback is planned below the cap.                                      *)
LEMMA PromiseAct ==
  ASSUME ConversationInv, PromiseInv, NEW a \in Actors, Act(a)
  PROVE  PromiseInv'
<1> DEFINE s == tx[a]
           o == [s EXCEPT !.optedOut = @ \/ OptsOut(s)]
           p == [o EXCEPT !.plan = Planned(o)]
           t == [p EXCEPT !.pc = "closing",
                  !.locks = IF OptsOut(s) THEN @ \cup {"cust"} ELSE @,
                  !.snap = IF Cancels(p) THEN Pending \ {s.rem} ELSE {}]
<1>1. tx \in [Actors -> Session] /\ s \in Session
  BY DEF ConversationInv, SessionsGood
<1>2. tx' = [tx EXCEPT ![a] = t] /\ UNCHANGED rem
  BY DEF Act, tables
<1>3. t.plan = Planned(o)
  <2>1. o \in Session
    BY <1>1 DEF Session
  <2> HIDE DEF o
  <2>2. p.plan = Planned(o) /\ t.plan = p.plan
    BY <2>1 DEF Session
  <2> QED BY <2>2
<1>4. Planned(o) = "promise" => PromisesSent < MaxPromised
  BY DEF Planned
<1> HIDE DEF t, p, o
<1>5. \A b \in Actors : tx'[b] = tx[b] \/ (tx'[b].plan = "promise" => PromisesSent < MaxPromised)
  BY <1>1, <1>2, <1>3, <1>4
<1> QED BY <1>2, <1>5, PromiseKept

(* At the commit at most one callback is sent and one queued, and no other   *)
(* session is about to queue one if one is sent.                             *)
LEMMA PromiseCommit ==
  ASSUME ConversationInv, PromiseInv, NEW a \in Runners \cup Chasers, Commit(a)
  PROVE  PromiseInv'
<1> DEFINE s == tx[a]
           new == IF s.plan = "none" THEN None ELSE CHOOSE r \in Unused : TRUE
           kept == Cancelled(s.snap)
<1>1. /\ a \in Actors /\ s \in Session /\ Good(s) /\ tx \in [Actors -> Session]
      /\ s.pc = "closing" /\ rem' = Rescheduled(s)
  BY DeliveringFacts DEF Commit, ConversationInv, SessionsGood
<1>2. s.plan = "none" => new = None
  OBVIOUS
<1>3. s.plan # "none" => new \in Unused
  BY DEF Unused, Commit
<1>4. \A r \in Reminders : rem[r] \in Reminder /\ kept[r] \in Reminder
                           /\ (kept[r] = rem[r] \/ kept[r].status = "ended")
  <2>1. s.snap \in SUBSET Reminders /\ TablesTyped
    BY <1>1 DEF Session, ConversationInv
  <2>2. \A r \in Reminders : rem[r] \in Reminder /\ kept[r] \in Reminder
    BY <2>1, CancelledFacts DEF TablesTyped
  <2>3. \A r \in Reminders : kept[r] = rem[r] \/ kept[r].status = "ended"
    BY <2>1, CancelledEnds
  <2> QED BY <2>2, <2>3
<1>5. \A r \in Reminders : kept[r].promised = rem[r].promised
  BY DEF Cancelled, ConversationInv, TablesTyped, Reminder
<1>6. s.rem # None => s.rem \in Reminders /\ rem[s.rem].status = "pending"
  BY <1>1 DEF Good, Owned, Session
<1>7. ASSUME NEW r \in Reminders
      PROVE  /\ r = new => rem'[r].status = "pending" /\ rem'[r].promised = (s.plan = "promise")
             /\ r # new /\ r = s.rem =>
                  /\ rem'[r].status = IF s.outcome = "sent" THEN "sent" ELSE "ended"
                  /\ rem'[r].promised = rem[r].promised
             /\ r # new /\ r # s.rem => rem'[r] = kept[r]
  BY <1>1, <1>4, <1>5 DEF Rescheduled, Reminder
<1> HIDE DEF new, kept
<1>8. ASSUME NEW r \in Honoured'
      PROVE  r \in Honoured \/ (r = s.rem /\ s.outcome = "sent")
  BY <1>4, <1>7, <1>8 DEF Honoured
<1>9. tx'[a].pc # "closing" /\ \A b \in Actors \ {a} : tx'[b] = tx[b]
  BY <1>1 DEF Commit, Idle
<1>10. ASSUME NEW b \in Actors, tx'[b].pc = "closing", tx'[b].plan = "promise"
       PROVE  PromisesSent' < MaxPromised
  <2>1. b # a /\ tx[b].pc = "closing" /\ tx[b].plan = "promise"
    BY <1>9, <1>10
  <2>2. "conv" \in tx[b].locks
    BY <2>1 DEF ConversationInv, SessionsGood, Good, Following
  <2>3. s.outcome # "sent"
    BY <1>1, <2>1, <2>2 DEF ConversationInv, SessionsGood, Good, Following
  <2>4. PromisesSent < MaxPromised
    BY <2>1 DEF PromiseInv
  <2>5. PromisesSent' <= PromisesSent /\ PromisesSent' \in Nat /\ PromisesSent \in Nat
    BY <1>8, <2>3, PromisesShrink, PromiseFacts
  <2> QED BY <2>4, <2>5, ConversationAssumption
<1>11. CASE s.plan # "promise"
  <2>1. ASSUME NEW r \in PromisesMade' PROVE r \in PromisesMade
    <3>1. r \in Reminders /\ rem'[r].promised /\ rem'[r].status \in {"sent", "pending"}
      BY <2>1 DEF PromisesMade
    <3>2. r # new
      BY <1>7, <1>11, <3>1
    <3>3. CASE r = s.rem
      BY <1>6, <1>7, <3>1, <3>2, <3>3, ConversationAssumption DEF PromisesMade
    <3>4. CASE r # s.rem
      BY <1>4, <1>7, <3>1, <3>2, <3>4 DEF PromisesMade
    <3> QED BY <3>3, <3>4
  <2>2. PromisesWithinCap'
    BY <2>1, PromisesMadeShrink
  <2> QED BY <1>10, <2>2 DEF PromiseInv
<1>12. CASE s.plan = "promise"
  <2> DEFINE one == Honoured \cup {s.rem}
             two == one \cup {new}
  <2>1. new \in Reminders
    BY <1>3, <1>12 DEF Unused
  <2>2. \A q \in Reminders : rem'[q].status = "pending" => q = new
    <3>1. \A p, q \in Reminders : (/\ Rescheduled(s)[p].status = "pending"
                                   /\ Rescheduled(s)[q].status = "pending") => p = q
      BY <1>1, <1>12, RescheduledFacts DEF Commit
    <3> QED BY <1>1, <1>7, <2>1, <3>1
  <2>3. PromisesMade' \subseteq two
    BY <1>8, <2>2 DEF PromisesMade, Honoured
  <2>4. IsFiniteSet(one) /\ Cardinality(one) <= PromisesSent + 1 /\ Cardinality(one) \in Nat
    <3>1. IsFiniteSet(one) /\ Cardinality(one) \in {PromisesSent, PromisesSent + 1}
      BY PromiseFacts, FS_AddElement
    <3> QED BY <3>1, PromiseFacts
  <2>5. IsFiniteSet(two) /\ Cardinality(two) <= PromisesSent + 2 /\ Cardinality(two) \in Nat
    <3> HIDE DEF one
    <3>1. IsFiniteSet(two) /\ Cardinality(two) \in {Cardinality(one), Cardinality(one) + 1}
      BY <2>4, FS_AddElement
    <3> QED BY <2>4, <3>1, PromiseFacts
  <2>6. PromisesSent < MaxPromised
    BY <1>1, <1>12 DEF PromiseInv
  <2> HIDE DEF two
  <2>7. Cardinality(PromisesMade') <= Cardinality(two) /\ Cardinality(PromisesMade') \in Nat
    BY <2>3, <2>5, FS_Subset, FS_CardinalityType
  <2>8. Cardinality(PromisesMade') <= MaxPromised + 1
    BY <2>5, <2>6, <2>7, PromiseFacts, ConversationAssumption
  <2>9. PromisesWithinCap'
    BY <2>8 DEF PromisesWithinCap, PromisesMade
  <2> QED BY <1>10, <2>9 DEF PromiseInv
<1> QED BY <1>11, <1>12

LEMMA PromiseNext ==
  ASSUME ConversationInv, PromiseInv, [Next]_vars
  PROVE  PromiseInv'
<1>1. ASSUME NEW a \in Runners \cup Chasers, Deliver(a) PROVE PromiseInv'
  BY <1>1, PromiseTurn, PromiseAct, PromiseCommit DEF Deliver, Actors
<1>2. ASSUME NEW a \in Runners, Run(a) PROVE PromiseInv'
  BY <1>1, <1>2, PromiseElsewhere, PromiseTurn DEF Run, Actors
<1>3. ASSUME NEW c \in Chasers, Chase(c) PROVE PromiseInv'
  BY <1>1, <1>3, PromiseElsewhere, PromiseTurn DEF Chase, Actors
<1>4. ASSUME NEW o \in Operators, BeginTakeOver(o) \/ TakeOver(o) \/ BeginRelease(o) \/ Release(o)
      PROVE  PromiseInv'
  BY <1>4, PromiseElsewhere DEF Actors
<1>5. ASSUME NEW b \in Backends,
             (\E level \in {"downloaded", "activated"} : BeginReport(b, level)) \/ Report(b)
      PROVE  PromiseInv'
  BY <1>5, PromiseElsewhere DEF Actors
<1>6. ASSUME NEW a \in Actors, Crash(a) \/ Abort(a) PROVE PromiseInv'
  BY <1>6, PromiseElsewhere
<1>7. CASE LockExpires \/ UNCHANGED vars
  BY <1>7, PromiseKept DEF LockExpires, tables, vars
<1> QED BY <1>2, <1>3, <1>4, <1>5, <1>6, <1>7 DEF Next

(* No more callbacks than one above the cap are promised and not cancelled   *)
(* (reminders.py 41-45, promised_follow_ups_sent), whatever replies and      *)
(* deliveries schedule beside one another.                                   *)
THEOREM PromisesEnd == Spec => []PromisesWithinCap
<1>1. Init => PromiseInv
  <2> SUFFICES ASSUME Init PROVE PromiseInv
    OBVIOUS
  <2>1. \A a \in Actors : tx[a].pc = "idle"
    BY DEF Init, Idle
  <2>2. PromisesMade = {}
    BY DEF Init, PromisesMade
  <2>3. PromisesWithinCap
    BY <2>2, FS_EmptySet, ConversationAssumption, PromiseFacts
  <2> QED BY <2>1, <2>3 DEF PromiseInv
<1>2. ConversationInv /\ PromiseInv /\ [Next]_vars => PromiseInv'
  BY PromiseNext
<1>3. PromiseInv => PromisesWithinCap
  BY DEF PromiseInv
<1> QED BY <1>1, <1>2, <1>3, ConversationHolds, PTL DEF Spec

-----------------------------------------------------------------------------
(* Who has the floor when one session goes on.                               *)
LEMMA FloorOf ==
  ASSUME ConversationInv, NEW a \in Actors, NEW t, tx' = [tx EXCEPT ![a] = t]
  PROVE  /\ HasFloor(t) => Floor' = Floor \cup {a}
         /\ ~HasFloor(t) => Floor' = Floor \ {a}
         /\ a \in Floor <=> HasFloor(tx[a])
<1>1. \A b \in Actors : tx'[b] = IF b = a THEN t ELSE tx[b]
  BY DEF ConversationInv, SessionsGood
<1>2. Floor' = {b \in Actors : HasFloor(tx'[b])}
  BY DEF Floor, HasFloor
<1> QED BY <1>1, <1>2 DEF Floor

\* what KeepsTheFloor allows a step to do
VoiceStep == Voice!VoiceNext \/ UNCHANGED <<conv.mode, Floor, replies, chases>>

(* A session that says nothing is given the floor by the AI only.            *)
LEMMA SilentStep ==
  ASSUME ConversationInv, NEW a \in Actors, NEW t, tx' = [tx EXCEPT ![a] = t],
         UNCHANGED <<conv, replies, chases>>,
         HasFloor(t) => HasFloor(tx[a]) \/ conv.mode = "ai"
  PROVE  VoiceStep
<1>1. CASE HasFloor(t) /\ HasFloor(tx[a])
  <2>1. Floor' = Floor
    BY <1>1, FloorOf
  <2> QED BY <2>1 DEF VoiceStep
<1>2. CASE HasFloor(t) /\ ~HasFloor(tx[a])
  <2>1. Floor' = Floor \cup {a} /\ a \in Actors \ Floor /\ conv.mode = "ai"
    BY <1>2, FloorOf
  <2>2. Voice!TakeFloor(a)
    BY <2>1 DEF Voice!TakeFloor
  <2> QED BY <2>1, <2>2 DEF VoiceStep, Voice!VoiceNext
<1>3. CASE ~HasFloor(t) /\ HasFloor(tx[a])
  <2>1. Floor' = Floor \ {a} /\ a \in Floor
    BY <1>3, FloorOf
  <2>2. Voice!LeaveFloor(a)
    BY <2>1 DEF Voice!LeaveFloor
  <2> QED BY <2>1, <2>2 DEF VoiceStep, Voice!VoiceNext
<1>4. CASE ~HasFloor(t) /\ ~HasFloor(tx[a])
  <2>1. Floor' = Floor
    BY <1>4, FloorOf
  <2> QED BY <2>1 DEF VoiceStep
<1> QED BY <1>1, <1>2, <1>3, <1>4

(* A session that has no floor may hand the conversation over.               *)
LEMMA HandingStep ==
  ASSUME ConversationInv, ConversationInv', NEW a \in Actors, NEW t, tx' = [tx EXCEPT ![a] = t],
         UNCHANGED <<replies, chases>>, ~HasFloor(t), ~HasFloor(tx[a])
  PROVE  VoiceStep
<1>1. Floor' = Floor
  BY FloorOf
<1>2. conv'.mode \in {"ai", "human"}
  BY DEF ConversationInv, TablesTyped
<1>3. Voice!HandOver
  BY <1>1, <1>2 DEF Voice!HandOver
<1> QED BY <1>3 DEF VoiceStep, Voice!VoiceNext

(* The steps that end a session.                                             *)
LEMMA VoiceEnds ==
  ASSUME ConversationInv, ConversationInv', NEW a \in Actors,
         \/ Retry(a) \/ Settle(a) \/ ComposeFails(a) \/ Crash(a) \/ Abort(a)
         \/ TakeOver(a) \/ Release(a) \/ Report(a)
  PROVE  VoiceStep
<1>1. tx' = [tx EXCEPT ![a] = Idle] /\ UNCHANGED <<replies, chases>> /\ ~HasFloor(Idle)
  BY DEF Retry, Settle, ComposeFails, Crash, Abort, TakeOver, Release, Report, received,
         HasFloor, Idle
<1>2. CASE TakeOver(a) \/ Release(a) \/ Report(a)
  <2>1. ~HasFloor(tx[a])
    BY <1>2 DEF TakeOver, Release, Report, HasFloor
  <2> QED BY <1>1, <2>1, HandingStep
<1>3. CASE Retry(a) \/ Settle(a) \/ ComposeFails(a) \/ Crash(a) \/ Abort(a)
  <2>1. UNCHANGED conv
    BY <1>3 DEF Retry, Settle, ComposeFails, Crash, Abort, tables
  <2> QED BY <1>1, <2>1, SilentStep
<1> QED BY <1>2, <1>3

(* The ingest has loaded the mode, and leaves the floor to whoever found a   *)
(* human.                                                                    *)
LEMMA IngestFloor ==
  ASSUME NEW s \in Session, s.pc \in {"loaded", "cancelling"}
  PROVE  HasFloor(AfterIngest(s)) <=> HasFloor(s)
BY DEF AfterIngest, HasFloor, Idle, Session

LEMMA VoiceBegins ==
  ASSUME ConversationInv, NEW a \in Actors,
         \/ \E m \in Msgs : BeginTurn(a, m)
         \/ BeginTakeOver(a) \/ BeginRelease(a)
         \/ \E level \in {"downloaded", "activated"} : BeginReport(a, level)
         \/ \E r \in Reminders : Claim(a, r)
  PROVE  VoiceStep
<1> DEFINE l == Loaded(Idle)
<1>1. l \in Session /\ l.mode = conv.mode
  BY IdleFacts, LoadedFacts DEF ConversationInv, Loaded, Idle
<1> HIDE DEF l
<1>2. ASSUME NEW m \in Msgs, BeginTurn(a, m) PROVE VoiceStep
  <2> DEFINE t == [l EXCEPT !.pc = "loaded", !.msg = m]
  <2>1. tx' = [tx EXCEPT ![a] = t] /\ UNCHANGED <<conv, replies, chases>>
    BY <1>2 DEF BeginTurn, tables, received, l
  <2>2. HasFloor(t) => conv.mode = "ai"
    BY <1>1 DEF HasFloor, Session
  <2> HIDE DEF t
  <2> QED BY <2>1, <2>2, SilentStep
<1>3. ASSUME BeginTakeOver(a) \/ BeginRelease(a) PROVE VoiceStep
  <2>1. PICK p \in {"taking", "releasing"} : tx' = [tx EXCEPT ![a] = [l EXCEPT !.pc = p]]
    BY <1>3 DEF BeginTakeOver, BeginRelease, l
  <2> DEFINE t == [l EXCEPT !.pc = p]
  <2>2. UNCHANGED <<conv, replies, chases>> /\ tx' = [tx EXCEPT ![a] = t]
    BY <1>3, <2>1 DEF BeginTakeOver, BeginRelease, tables, received
  <2>3. ~HasFloor(t)
    BY <1>1 DEF HasFloor, Session
  <2> HIDE DEF t
  <2> QED BY <2>2, <2>3, SilentStep
<1>4. ASSUME NEW level \in {"downloaded", "activated"}, BeginReport(a, level) PROVE VoiceStep
  <2> DEFINE t == [l EXCEPT !.pc = "reporting", !.level = level, !.locks = {"cust"}]
  <2>1. tx' = [tx EXCEPT ![a] = t] /\ UNCHANGED <<conv, replies, chases>>
    BY <1>4 DEF BeginReport, tables, received, l
  <2>2. ~HasFloor(t)
    BY <1>1 DEF HasFloor, Session
  <2> HIDE DEF t
  <2> QED BY <2>1, <2>2, SilentStep
<1>5. ASSUME NEW r \in Reminders, Claim(a, r) PROVE VoiceStep
  <2> DEFINE t == [Idle EXCEPT !.pc = "claimed", !.rem = r, !.locks = {r}]
  <2>1. tx' = [tx EXCEPT ![a] = t] /\ UNCHANGED <<conv, replies, chases>>
    BY <1>5 DEF Claim, tables, received
  <2>2. ~HasFloor(t)
    BY DEF HasFloor, Idle
  <2> HIDE DEF t
  <2> QED BY <2>1, <2>2, SilentStep
<1> QED BY <1>2, <1>3, <1>4, <1>5

(* From the ingest to the send.                                              *)
LEMMA VoiceTurn ==
  ASSUME ConversationInv, NEW a \in Actors,
         \/ StoreMessage(a) \/ RateLimited(a) \/ TakeLock(a) \/ ProceedUnlocked(a) \/ LoadInputs(a)
         \/ \E d \in Answers : Reply(a, d)
         \/ \E d \in Answers \cup {Template} : Compose(a, d)
         \/ Flush(a) \/ Record(a) \/ Act(a)
  PROVE  VoiceStep
<1> DEFINE s == tx[a]
<1>1. s \in Session
  BY DEF ConversationInv, SessionsGood
<1>2. UNCHANGED <<conv, replies, chases>>
  BY DEF StoreMessage, RateLimited, TakeLock, ProceedUnlocked, LoadInputs, Reply, Compose, Flush,
         Record, Act, tables, received
<1>3. CASE StoreMessage(a)
  <2>1. CASE s.msg \in stored
    <3>1. tx' = [tx EXCEPT ![a] = AfterIngest(s)] /\ s.pc = "loaded"
      BY <1>3, <2>1 DEF StoreMessage
    <3>2. HasFloor(AfterIngest(s)) <=> HasFloor(s)
      BY <1>1, <3>1, IngestFloor
    <3> QED BY <1>2, <3>1, <3>2, SilentStep
  <2>2. CASE s.msg \notin stored
    <3> DEFINE t == [s EXCEPT !.pc = "cancelling", !.locks = {s.msg, "conv"}, !.snap = Pending,
                              !.stage = Revived(@), !.moved = (Revived(s.stage) # s.stage)]
    <3>1. tx' = [tx EXCEPT ![a] = t] /\ s.pc = "loaded"
      BY <1>3, <2>2 DEF StoreMessage
    <3>2. HasFloor(t) <=> HasFloor(s)
      BY <1>1, <3>1 DEF HasFloor, Session
    <3> HIDE DEF t
    <3> QED BY <1>2, <3>1, <3>2, SilentStep
  <2> QED BY <2>1, <2>2
<1>4. CASE RateLimited(a) \/ TakeLock(a) \/ ProceedUnlocked(a)
  <2>1. PICK p : tx' = [tx EXCEPT ![a] = [tx[a] EXCEPT !.pc = p]] /\ HasFloor(s)
    BY <1>4 DEF RateLimited, TakeLock, ProceedUnlocked, HasFloor, ConversationInv, SessionsGood
  <2> QED BY <1>2, <2>1, SilentStep
<1>5. CASE LoadInputs(a)
  <2>1. HasFloor(s)
    BY <1>5 DEF LoadInputs, HasFloor
  <2>2. PICK t : tx' = [tx EXCEPT ![a] = t]
    BY <1>5 DEF LoadInputs
  <2> QED BY <1>2, <2>1, <2>2, SilentStep
<1>6. ASSUME NEW d, Reply(a, d) PROVE VoiceStep
  <2>1. HasFloor(s)
    BY <1>6 DEF Reply, HasFloor
  <2>2. PICK t : tx' = [tx EXCEPT ![a] = t]
    BY <1>6 DEF Reply
  <2> QED BY <1>2, <2>1, <2>2, SilentStep
<1>7. ASSUME NEW d, Compose(a, d) PROVE VoiceStep
  <2>1. HasFloor(s)
    BY <1>7 DEF Compose, HasFloor
  <2>2. PICK t : tx' = [tx EXCEPT ![a] = t]
    BY <1>7 DEF Compose
  <2> QED BY <1>2, <2>1, <2>2, SilentStep
<1>8. CASE Flush(a)
  <2>1. HasFloor(s)
    BY <1>8 DEF Flush, HasFloor
  <2>2. PICK t : tx' = [tx EXCEPT ![a] = t]
    BY <1>8, FlushSession DEF Flush
  <2> QED BY <1>2, <2>1, <2>2, SilentStep
<1>9. CASE Record(a)
  <2> DEFINE t == [s EXCEPT !.pc = "acting",
                  !.locks = IF WritesConversation(s) THEN @ \cup {"conv"} ELSE @,
                  !.moved = @ \/ {AfterLink(s), StageAfter(s)} # {s.stage},
                  !.stage = StageAfter(s)]
  <2>1. tx' = [tx EXCEPT ![a] = t]
    BY <1>9 DEF Record
  <2>2. ~HasFloor(t)
    BY <1>1 DEF HasFloor, Session
  <2> HIDE DEF t
  <2> QED BY <1>2, <2>1, <2>2, SilentStep
<1>10. CASE Act(a)
  <2> DEFINE o == [s EXCEPT !.optedOut = @ \/ OptsOut(s)]
             p == [o EXCEPT !.plan = Planned(o)]
             t == [p EXCEPT !.pc = "closing",
                  !.locks = IF OptsOut(s) THEN @ \cup {"cust"} ELSE @,
                  !.snap = IF Cancels(p) THEN Pending \ {s.rem} ELSE {}]
  <2>1. tx' = [tx EXCEPT ![a] = t]
    BY <1>10 DEF Act
  <2>2. ~HasFloor(t)
    BY <1>1 DEF HasFloor, Session
  <2> HIDE DEF t
  <2> QED BY <1>2, <2>1, <2>2, SilentStep
<1> QED BY <1>3, <1>4, <1>5, <1>6, <1>7, <1>8, <1>9, <1>10

(* A send is the last thing the floor is had for: at most one message.       *)
LEMMA VoiceSend ==
  ASSUME ConversationInv, NEW a \in Actors, NEW outcome \in {"none", "sent", "failed"},
         Send(a, outcome)
  PROVE  VoiceStep
<1> DEFINE s == tx[a]
           t == [s EXCEPT !.pc = "recording", !.outcome = outcome,
                          !.linked = (outcome = "sent" /\ Links(s))]
<1>1. s \in Session /\ Owned(s)
  BY DEF ConversationInv, SessionsGood, Good
<1>2. /\ s.pc = "sending" /\ tx' = [tx EXCEPT ![a] = t] /\ UNCHANGED conv
  BY DEF Send, tables
<1>3. HasFloor(s) /\ ~HasFloor(t)
  BY <1>1, <1>2 DEF HasFloor, Session
<1> HIDE DEF t
<1>4. Floor' = Floor \ {a} /\ a \in Floor
  BY <1>2, <1>3, FloorOf
<1>5. s.rem = None => s.msg \in Msgs
  BY <1>1, <1>2 DEF Owned, Delivering, ConversationInv, TablesTyped
<1>6. \/ UNCHANGED <<replies, chases>>
      \/ chases' = chases + 1 /\ UNCHANGED replies
      \/ \E m \in Msgs : replies' = [replies EXCEPT ![m] = @ + 1] /\ UNCHANGED chases
  BY <1>5 DEF Send
<1>7. Voice!LeaveFloor(a)
  BY <1>2, <1>4, <1>6 DEF Voice!LeaveFloor
<1> QED BY <1>4, <1>7 DEF VoiceStep, Voice!VoiceNext

(* The ingest's commit, a follow-up's look at the state, and the commit.     *)
LEMMA VoiceCommits ==
  ASSUME ConversationInv, ConversationInv', NEW a \in Actors,
         CommitIngest(a) \/ LookAgain(a) \/ Commit(a)
  PROVE  VoiceStep
<1> DEFINE s == tx[a]
<1>1. s \in Session
  BY DEF ConversationInv, SessionsGood
<1>2. CASE CommitIngest(a)
  <2>1. tx' = [tx EXCEPT ![a] = AfterIngest(s)] /\ s.pc = "cancelling"
    BY <1>2 DEF CommitIngest
  <2>2. HasFloor(AfterIngest(s)) <=> HasFloor(s)
    BY <1>1, <2>1, IngestFloor
  <2>3. Floor' = Floor
    BY <2>1, <2>2, FloorOf
  <2>4. conv'.mode = conv.mode /\ chases' = 0 /\ UNCHANGED replies
    BY <1>2 DEF CommitIngest, ConversationInv, TablesTyped
  <2>5. Voice!Listen
    BY <2>3, <2>4 DEF Voice!Listen
  <2> QED BY <2>5 DEF VoiceStep, Voice!VoiceNext
<1>3. CASE LookAgain(a)
  <2>1. UNCHANGED <<conv, replies, chases>>
    BY <1>3 DEF LookAgain, received
  <2>2. CASE Irrelevant(s.rem)
    <3>1. tx' = [tx EXCEPT ![a] = Idle] /\ ~HasFloor(Idle)
      BY <1>3, <2>2 DEF LookAgain, HasFloor, Idle
    <3> QED BY <2>1, <3>1, SilentStep
  <2>3. CASE ~Irrelevant(s.rem)
    <3>1. conv.mode = "ai"
      BY <2>3 DEF Irrelevant
    <3>2. PICK t : tx' = [tx EXCEPT ![a] = t]
      BY <1>3, <2>3 DEF LookAgain
    <3> QED BY <2>1, <3>1, <3>2, SilentStep
  <2> QED BY <2>2, <2>3
<1>4. CASE Commit(a)
  <2> DEFINE t == IF s.rem = None THEN [Idle EXCEPT !.pc = "done", !.msg = s.msg] ELSE Idle
  <2>1. tx' = [tx EXCEPT ![a] = t] /\ UNCHANGED <<replies, chases>> /\ ~HasFloor(s)
    BY <1>4 DEF Commit, HasFloor
  <2>2. ~HasFloor(t)
    BY DEF HasFloor, Idle
  <2> HIDE DEF t
  <2> QED BY <2>1, <2>2, HandingStep
<1> QED BY <1>2, <1>3, <1>4

(* Every step of the conversation is one of the contract's, or says nothing. *)
LEMMA VoiceNextStep ==
  ASSUME ConversationInv, ConversationInv', [Next]_vars
  PROVE  VoiceStep
<1>1. ASSUME NEW a \in Actors, Deliver(a) PROVE VoiceStep
  BY <1>1, VoiceTurn, VoiceSend, VoiceCommits DEF Deliver
<1>2. ASSUME NEW a \in Runners, Run(a) PROVE VoiceStep
  <2>1. a \in Actors
    BY DEF Actors
  <2> QED BY <1>1, <1>2, <2>1, VoiceBegins, VoiceTurn, VoiceCommits, VoiceEnds DEF Run
<1>3. ASSUME NEW c \in Chasers, Chase(c) PROVE VoiceStep
  <2>1. c \in Actors
    BY DEF Actors
  <2> QED BY <1>1, <1>3, <2>1, VoiceBegins, VoiceTurn, VoiceCommits, VoiceEnds DEF Chase
<1>4. ASSUME NEW o \in Operators, BeginTakeOver(o) \/ TakeOver(o) \/ BeginRelease(o) \/ Release(o)
      PROVE  VoiceStep
  <2>1. o \in Actors
    BY DEF Actors
  <2> QED BY <1>4, <2>1, VoiceBegins, VoiceEnds
<1>5. ASSUME NEW b \in Backends,
             (\E level \in {"downloaded", "activated"} : BeginReport(b, level)) \/ Report(b)
      PROVE  VoiceStep
  <2>1. b \in Actors
    BY DEF Actors
  <2> QED BY <1>5, <2>1, VoiceBegins, VoiceEnds
<1>6. ASSUME NEW a \in Actors, Crash(a) \/ Abort(a) PROVE VoiceStep
  BY <1>6, VoiceEnds
<1>7. CASE LockExpires
  BY <1>7 DEF LockExpires, tables, received, VoiceStep, Floor, HasFloor
<1>8. CASE UNCHANGED vars
  BY <1>8 DEF vars, tables, received, VoiceStep, Floor, HasFloor
<1> QED BY <1>2, <1>3, <1>4, <1>5, <1>6, <1>7, <1>8 DEF Next

(* The conversation implements VoiceContract.                                *)
THEOREM OneVoice == Spec => KeepsTheFloor
<1>1. Init => Voice!VoiceInit
  <2> SUFFICES ASSUME Init PROVE Voice!VoiceInit
    OBVIOUS
  <2>1. \A a \in Actors : ~HasFloor(tx[a])
    BY DEF Init, HasFloor, Idle
  <2>2. Floor = {}
    BY <2>1 DEF Floor
  <2> QED BY <2>2 DEF Init, Voice!VoiceInit
<1>2. ConversationInv /\ ConversationInv' /\ [Next]_vars => [Voice!VoiceNext]_(Voice!voice)
  BY VoiceNextStep DEF VoiceStep, Voice!voice
<1> QED BY <1>1, <1>2, ConversationHolds, PTL DEF Spec, KeepsTheFloor, Voice!VoiceSpec

=============================================================================
