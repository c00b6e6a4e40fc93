---------------------------- MODULE Conversation ----------------------------
(***************************************************************************)
(* One conversation with one customer, as its actors see it: job slots     *)
(* that store a customer's message and answer it                           *)
(* (app/services/conversation_flow.py handle_inbound_message), slots that  *)
(* send a due follow-up (send_follow_up, app/services/reminders.py),       *)
(* operators (app/api/admin.py take_over, release) and the desktop backend *)
(* that reports installs (app/api/internal.py, app/services/downloads.py). *)
(*                                                                         *)
(* Every actor works in transactions of PostgreSQL at READ COMMITTED.  A   *)
(* transaction loads rows into its session, locks a row when it writes it  *)
(* and keeps the lock to the commit, which is when the others see what it  *)
(* wrote.  tx[a] is the session of actor a; the other variables are what   *)
(* is committed, the Redis lock, and what the customer has received.       *)
(***************************************************************************)
EXTENDS SalesStages

CONSTANTS
  Msgs,          \* messages the customer writes, one webhook event each
  Reminders,     \* identities of reminder rows
  Runners, Chasers, Operators, Backends,  \* actors, by what they do
  Answers,       \* what the model may answer, with what is remarkable about it
  Ladder,        \* length of follow_up_ladder_hours
  MaxPromised,   \* MAX_PROMISED_FOLLOW_UPS
  MaxTries,      \* bound: worker_max_attempts of one event
  Duplicates,    \* TRUE: two slots may run one event (the sweep resets running events)
  LockHolds,     \* TRUE: Redis answers, and no turn outlives ai_reply_lock_seconds
  MaxCrashes,    \* bound: actors that die
  None

Actors == Runners \cup Chasers \cup Operators \cup Backends

(* An answer is a decision and: whether it changes the intent or the notes, *)
(* whether its intent is a passive one, and whether it repeats what was     *)
(* said last.                                                               *)
Answer == [stage : Stages \cup {NoStage}, actions : SUBSET Actions,
           delay : BOOLEAN, noBuild : BOOLEAN, usable : BOOLEAN,
           news : BOOLEAN, passive : BOOLEAN, repeats : BOOLEAN]

\* the template that stands for an answer outside the service window
Template == [stage |-> NoStage, actions |-> {}, delay |-> FALSE, noBuild |-> FALSE,
             usable |-> TRUE, news |-> FALSE, passive |-> FALSE, repeats |-> FALSE]

ASSUME ConversationAssumption ==
  /\ Answers \subseteq Answer
  /\ Ladder \in Nat /\ MaxPromised \in Nat /\ MaxTries \in Nat /\ MaxCrashes \in Nat
  /\ Duplicates \in BOOLEAN /\ LockHolds \in BOOLEAN
  /\ IsFiniteSet(Msgs) /\ IsFiniteSet(Reminders)
  /\ None \notin Msgs \cup Reminders \cup Actors
  /\ "dead" \notin Actors
  /\ Runners \cap Chasers = {}

VARIABLES
  conv,      \* the conversation row: stage and handling mode
  cust,      \* the customer row: opted out, installed
  linkSent,  \* the download link has been sent
  stored,    \* messages whose row is committed
  answered,  \* messages with a decision row that names an outbound message
  settled,   \* events processed
  tries,     \* tries[m]: attempts of m's event
  rem,       \* rem[r]: a reminder row
  holder,    \* who holds the conversation's lock in Redis
  tx,        \* tx[a]: the session of a
  replies,   \* history: replies to m the customer has received
  chases,    \* history: follow-ups received since the last stored message
  unrecorded, \* history: messages replied to (None: a follow-up sent) by a transaction
              \* that was rolled back
  unguarded, \* history: the customer's opting out looked for follow-ups to cancel while
             \* another transaction could still add one
  crashes

tables == <<conv, cust, linkSent, stored, answered, rem>>
received == <<replies, chases, unrecorded, unguarded>>
vars == <<tables, settled, tries, holder, tx, received, crashes>>

Rows == {"conv", "cust"} \cup Msgs \cup Reminders

\* "ended" stands for CANCELLED and FAILED, which no query tells apart
Reminder == [status : {"unused", "pending", "sent", "ended"},
             since : 0..Cardinality(Msgs),  \* messages stored when it was created
             promised : BOOLEAN]

Session ==
  [pc : {"idle", "loaded", "cancelling", "queued", "locked", "thinking", "flushing",
         "sending", "recording", "acting", "closing", "done", "claimed", "composing",
         "taking", "releasing", "reporting"},
   msg : Msgs \cup {None}, rem : Reminders \cup {None},
   view : Stages,                                   \* the stage the model was told
   linkSeen : BOOLEAN,
   stage : Stages, moved : BOOLEAN,                 \* as loaded and changed since
   mode : {"ai", "human"}, optedOut : BOOLEAN, heard : 0..Cardinality(Msgs),
   choice : Answer,
   outcome : {"none", "sent", "failed"}, linked : BOOLEAN,
   plan : {"none", "check-in", "promise"},
   level : {"no", "downloaded", "activated"},
   locks : SUBSET Rows, snap : SUBSET Reminders]

Idle == [pc |-> "idle", msg |-> None, rem |-> None, view |-> "new", linkSeen |-> FALSE,
         stage |-> "new", moved |-> FALSE, mode |-> "ai", optedOut |-> FALSE, heard |-> 0,
         choice |-> Template, outcome |-> "none", linked |-> FALSE, plan |-> "none",
         level |-> "no", locks |-> {}, snap |-> {}]

Init ==
  /\ conv = [stage |-> "new", mode |-> "ai"]
  /\ cust = [optedOut |-> FALSE, installed |-> "no"]
  /\ linkSent = FALSE
  /\ stored = {} /\ answered = {} /\ settled = {}
  /\ tries = [m \in Msgs |-> 0]
  /\ rem = [r \in Reminders |-> [status |-> "unused", since |-> 0, promised |-> FALSE]]
  /\ holder = None
  /\ tx = [a \in Actors |-> Idle]
  /\ replies = [m \in Msgs |-> 0]
  /\ chases = 0
  /\ unrecorded = {}
  /\ unguarded = FALSE
  /\ crashes = 0

-----------------------------------------------------------------------------
\* no other transaction holds the row
Free(row, a) == \A b \in Actors \ {a} : row \notin tx[b].locks

\* cancel_pending with SKIP LOCKED, sparing the rows being sent
PendingUnlocked == {r \in Reminders : /\ rem[r].status = "pending"
                                      /\ \A b \in Actors : r \notin tx[b].locks}

Pending == {r \in Reminders : rem[r].status = "pending"}

\* last_inbound_at, counted in messages
Heard == Cardinality(stored)

\* a session that has loaded the conversation and its customer
Loaded(s) == [s EXCEPT !.stage = conv.stage, !.mode = conv.mode, !.moved = FALSE,
                       !.optedOut = cust.optedOut, !.heard = Heard]

\* the cancelled rows of a snapshot: those found still pending when their locks were had
Cancelled(S) == [r \in Reminders |-> IF r \in S /\ rem[r].status = "pending"
                                     THEN [rem[r] EXCEPT !.status = "ended"] ELSE rem[r]]

\* sales_stage is written if it was assigned a new value since it was loaded
StageOf(s) == IF s.moved THEN s.stage ELSE conv.stage

-----------------------------------------------------------------------------
(* The customer's message: ingest_inbound, then the reply under the lock.   *)

BeginTurn(a, m) ==
  /\ tx[a].pc = "idle"
  /\ m \notin settled /\ tries[m] < MaxTries
  /\ Duplicates \/ \A b \in Runners : tx[b].msg # m
  /\ tries' = [tries EXCEPT ![m] = @ + 1]
  /\ tx' = [tx EXCEPT ![a] = [Loaded(Idle) EXCEPT !.pc = "loaded", !.msg = m]]
  /\ UNCHANGED <<tables, settled, holder, received, crashes>>

\* the mode is left to whoever answers
AlwaysQueued(s) == [Idle EXCEPT !.pc = "queued", !.msg = s.msg]

\* only a conversation the AI handles is answered
AfterIngest(s) ==
  IF s.mode = "ai" THEN [Idle EXCEPT !.pc = "queued", !.msg = s.msg]
                   ELSE [Idle EXCEPT !.pc = "done", !.msg = s.msg]

\* the insert waits for a concurrent insert of the same message; a message that is there
\* already changes nothing, a new one is stamped on the conversation row
StoreMessage(a) ==
  LET s == tx[a] IN
  /\ s.pc = "loaded"
  /\ Free(s.msg, a)
  /\ IF s.msg \in stored
     THEN tx' = [tx EXCEPT ![a] = AfterIngest(s)]
     ELSE /\ Free("conv", a)
          /\ tx' = [tx EXCEPT ![a] =
                [s EXCEPT !.pc = "cancelling", !.locks = {s.msg, "conv"}, !.snap = Pending,
                          !.stage = Revived(@), !.moved = (Revived(s.stage) # s.stage)]]
  /\ UNCHANGED <<tables, settled, tries, holder, received, crashes>>

\* cancel_pending waits for each row it found; clearing an opt-out locks the customer row
CommitIngest(a) ==
  LET s == tx[a] IN
  /\ s.pc = "cancelling"
  /\ \A r \in s.snap : Free(r, a)
  /\ s.optedOut => Free("cust", a)
  /\ stored' = stored \cup {s.msg}
  /\ conv' = [conv EXCEPT !.stage = StageOf(s)]
  /\ cust' = [cust EXCEPT !.optedOut = @ /\ ~s.optedOut]
  /\ rem' = Cancelled(s.snap)
  /\ chases' = 0
  /\ unguarded' = (unguarded /\ ~s.optedOut)
  /\ tx' = [tx EXCEPT ![a] = AfterIngest(s)]
  /\ UNCHANGED <<linkSent, answered, settled, tries, holder, replies, unrecorded, crashes>>

\* over inbound_rate_limit_per_minute: stored, and never answered
RateLimited(a) ==
  /\ tx[a].pc = "queued"
  /\ tx' = [tx EXCEPT ![a].pc = "done"]
  /\ UNCHANGED <<tables, settled, tries, holder, received, crashes>>

TakeLock(a) ==
  /\ tx[a].pc = "queued"
  /\ holder = None
  /\ holder' = a
  /\ tx' = [tx EXCEPT ![a].pc = "locked"]
  /\ UNCHANGED <<tables, settled, tries, received, crashes>>

\* "lock unavailable, proceeding without"
ProceedUnlocked(a) ==
  /\ tx[a].pc = "queued"
  /\ ~LockHolds
  /\ tx' = [tx EXCEPT ![a].pc = "locked"]
  /\ UNCHANGED <<tables, settled, tries, holder, received, crashes>>

\* leaving the lock's context, normally or by an exception
Unlocked(a) == IF holder = a THEN None ELSE holder

\* RetryableError: the lock was not had in time, or the model gave nothing usable
Retry(a) ==
  /\ \/ tx[a].pc = "queued" /\ holder # None
     \/ tx[a].pc = "thinking"
  /\ holder' = Unlocked(a)
  /\ tx' = [tx EXCEPT ![a] = Idle]
  /\ UNCHANGED <<tables, settled, tries, received, crashes>>

\* the retry path unguarded
NeverAnswered(m) == FALSE

AlreadyAnswered(m) == m \in answered

\* transaction 2a
LoadInputs(a) ==
  LET s == tx[a] IN
  /\ s.pc = "locked"
  /\ tx' = [tx EXCEPT ![a] =
        IF AlreadyAnswered(s.msg) THEN [s EXCEPT !.pc = "done"]
        ELSE [s EXCEPT !.pc = "thinking", !.view = conv.stage, !.linkSeen = linkSent]]
  /\ UNCHANGED <<tables, settled, tries, holder, received, crashes>>

\* acting on answer d in session s, up to the first write of the conversation row
Deciding(s, d) ==
  LET g == Guarded(d, s.view)
      t == Suggested(s.stage, g)
  IN  [s EXCEPT !.pc = IF d.news \/ t # s.stage THEN "flushing" ELSE "sending",
                !.stage = t, !.moved = (t # s.stage), !.choice = g]

\* transaction 2b begins: the rows are read again, the handling mode is not looked at
Reply(a, d) ==
  LET s == tx[a] IN
  /\ s.pc = "thinking"
  /\ tx' = [tx EXCEPT ![a] = IF AlreadyAnswered(s.msg) THEN [s EXCEPT !.pc = "done"]
                             ELSE Deciding(Loaded(s), d)]
  /\ UNCHANGED <<tables, settled, tries, holder, received, crashes>>

-----------------------------------------------------------------------------
(* _apply_decision, for a reply and for a follow-up.                        *)

\* record_intent, merge_context_notes and _apply_stage write the conversation row
Flush(a) ==
  /\ tx[a].pc = "flushing"
  /\ Free("conv", a)
  /\ tx' = [tx EXCEPT ![a].pc = "sending", ![a].locks = @ \cup {"conv"}]
  /\ UNCHANGED <<tables, settled, tries, holder, received, crashes>>

\* a text to send, and a customer who has not opted out as far as the session knows
MaySend(s) == s.choice.usable /\ ~(s.choice.repeats /\ s.rem # None) /\ ~s.optedOut

\* _attach_download_link
Links(s) == "send_download_link" \in s.choice.actions /\ ~(s.linkSeen /\ s.choice.passive)

\* the call to Meta, before any of it is recorded
Send(a, outcome) ==
  LET s == tx[a] IN
  /\ s.pc = "sending"
  /\ IF MaySend(s) THEN outcome \in {"sent", "failed"} ELSE outcome = "none"
  /\ tx' = [tx EXCEPT ![a] = [s EXCEPT !.pc = "recording", !.outcome = outcome,
                                       !.linked = (outcome = "sent" /\ Links(s))]]
  /\ replies' = IF outcome = "sent" /\ s.rem = None
                THEN [replies EXCEPT ![s.msg] = @ + 1] ELSE replies
  \* bound: beyond the ladder one more is as good as many
  /\ chases' = IF outcome = "sent" /\ s.rem # None /\ chases <= Ladder
               THEN chases + 1 ELSE chases
  /\ UNCHANGED <<tables, settled, tries, holder, unrecorded, unguarded, crashes>>

Handover(s) == "request_human_handoff" \in s.choice.actions
OptsOut(s) == "opt_out" \in s.choice.actions

\* the stage after the link and the actions
AfterLink(s) == IF s.linked THEN Moved(s.stage, "link_sent", FALSE) ELSE s.stage
StageAfter(s) == Acted(AfterLink(s), s.mode, s.choice.actions)

\* record_outbound_message, the link's stage and the first two actions write the conversation
\* row; the stage of an opting out comes after the customer's row and the reminders
WritesConversation(s) ==
  \/ s.outcome = "sent"
  \/ Handover(s)
  \/ Acted(AfterLink(s), s.mode, s.choice.actions \ {"opt_out"}) # s.stage

Record(a) ==
  LET s == tx[a] IN
  /\ s.pc = "recording"
  /\ WritesConversation(s) => Free("conv", a)
  /\ tx' = [tx EXCEPT ![a] =
        [s EXCEPT !.pc = "acting",
                  !.locks = IF WritesConversation(s) THEN @ \cup {"conv"} ELSE @,
                  !.moved = @ \/ {AfterLink(s), StageAfter(s)} # {s.stage},
                  !.stage = StageAfter(s)]]
  /\ UNCHANGED <<tables, settled, tries, holder, received, crashes>>

\* the reminder being delivered left out of the count
SpentBefore(s) == Cardinality({r \in Reminders : /\ rem[r].status = "sent"
                                                 /\ rem[r].since >= s.heard})

\* follow_ups_since_reply: the reminder being sent counts as spent
Spent(s) == Cardinality({r \in Reminders : /\ rem[r].status = "sent" \/ r = s.rem
                                           /\ rem[r].since >= s.heard})

\* callbacks counted as the ladder's rungs are
PromisesSince == Cardinality({r \in Reminders : /\ rem[r].status = "sent" /\ rem[r].promised
                                                /\ rem[r].since = Heard})

\* promised_follow_ups_sent: the reminder being sent does not count
PromisesSent == Cardinality({r \in Reminders : rem[r].status = "sent" /\ rem[r].promised})

\* schedule refuses
Refused(s) == s.optedOut \/ s.stage \in StopsFollowUp \/ Spent(s) >= Ladder

Planned(s) ==
  IF s.outcome # "sent" \/ Refused(s) THEN "none"
  ELSE IF "schedule_follow_up" \in s.choice.actions /\ PromisesSent < MaxPromised
       THEN "promise" ELSE "check-in"

\* scheduling that leaves the pending follow-up in place
CancelsOnStop(s) == Handover(s) \/ OptsOut(s)

\* handing off, opting out and scheduling each cancel what is pending
Cancels(s) == Handover(s) \/ OptsOut(s) \/ s.plan # "none"

\* opting out locks the customer row; then cancel_pending looks for its rows
Act(a) ==
  LET s == tx[a]
      o == [s EXCEPT !.optedOut = @ \/ OptsOut(s)]
      p == [o EXCEPT !.plan = Planned(o)]
  IN
  /\ s.pc = "acting"
  /\ OptsOut(s) => Free("cust", a)
  /\ tx' = [tx EXCEPT ![a] =
        [p EXCEPT !.pc = "closing",
                  !.locks = IF OptsOut(s) THEN @ \cup {"cust"} ELSE @,
                  !.snap = IF Cancels(p) THEN Pending \ {s.rem} ELSE {}]]
  /\ UNCHANGED <<tables, settled, tries, holder, received, crashes>>

\* identities no row and no transaction uses; an ended row's may stand for a new row
Unused == {r \in Reminders : /\ rem[r].status \in {"unused", "ended"}
                             /\ \A b \in Actors : r \notin tx[b].locks \cup tx[b].snap}

\* the rows after the cancelling, the resolution of the follow-up and the new reminder
Rescheduled(s) ==
  LET new == IF s.plan = "none" THEN None ELSE CHOOSE r \in Unused : TRUE
      kept == Cancelled(s.snap)
  IN  [r \in Reminders |->
         IF r = new THEN [status |-> "pending", since |-> Heard,
                          promised |-> s.plan = "promise"]
         ELSE IF r = s.rem THEN [kept[r] EXCEPT !.status =
                                   IF s.outcome = "sent" THEN "sent" ELSE "ended"]
         ELSE kept[r]]

\* a message that failed to go out is an outbound message too
Logged(s) == IF s.rem = None /\ s.outcome # "none" THEN {s.msg} ELSE {}

Commit(a) ==
  LET s == tx[a] IN
  /\ s.pc = "closing"
  /\ \A r \in s.snap : Free(r, a)
  /\ s.moved => Free("conv", a)
  /\ s.plan # "none" => Unused # {}
  /\ conv' = [stage |-> StageOf(s),
               mode |-> IF Handover(s) /\ s.mode = "ai" THEN "human" ELSE conv.mode]
  /\ cust' = [cust EXCEPT !.optedOut = @ \/ OptsOut(s)]
  /\ linkSent' = (linkSent \/ s.linked)
  /\ answered' = answered \cup Logged(s)
  /\ rem' = Rescheduled(s)
  /\ tx' = [tx EXCEPT ![a] = IF s.rem = None THEN [Idle EXCEPT !.pc = "done", !.msg = s.msg]
                                             ELSE Idle]
  /\ unguarded' = (unguarded \/ (OptsOut(s) /\ "conv" \notin s.locks))
  /\ UNCHANGED <<stored, settled, tries, holder, replies, chases, unrecorded, crashes>>

\* the lock is released and the event marked processed, in transactions of their own
Settle(a) ==
  /\ tx[a].pc = "done"
  /\ settled' = settled \cup {tx[a].msg}
  /\ holder' = Unlocked(a)
  /\ tx' = [tx EXCEPT ![a] = Idle]
  /\ UNCHANGED <<tables, tries, received, crashes>>

-----------------------------------------------------------------------------
(* A due follow-up: one transaction, the model's call included.             *)

\* the conditional UPDATE of claim waits for the row's lock and looks again
Claim(c, r) ==
  /\ tx[c].pc = "idle"
  /\ rem[r].status = "pending" /\ Free(r, c)
  /\ tx' = [tx EXCEPT ![c] = [Idle EXCEPT !.pc = "claimed", !.rem = r, !.locks = {r}]]
  /\ UNCHANGED <<tables, settled, tries, holder, received, crashes>>

\* relevance_block
Irrelevant(r) ==
  \/ cust.optedOut
  \/ cust.installed # "no"
  \/ conv.mode # "ai"
  \/ conv.stage \in StopsFollowUp
  \/ Heard > rem[r].since

LookAgain(c) ==
  LET s == tx[c] IN
  /\ s.pc = "claimed"
  /\ IF Irrelevant(s.rem)
     THEN /\ rem' = Cancelled({s.rem})
          /\ tx' = [tx EXCEPT ![c] = Idle]
     ELSE /\ tx' = [tx EXCEPT ![c] = [Loaded(s) EXCEPT !.pc = "composing", !.view = conv.stage,
                                                       !.linkSeen = linkSent]]
          /\ UNCHANGED rem
  /\ UNCHANGED <<conv, cust, linkSent, stored, answered, settled, tries, holder, received, crashes>>

\* inside the service window the model writes it, outside it is the template
Compose(c, d) ==
  /\ tx[c].pc = "composing"
  /\ d.usable
  /\ tx' = [tx EXCEPT ![c] = Deciding(tx[c], d)]
  /\ UNCHANGED <<tables, settled, tries, holder, received, crashes>>

\* the model gave nothing usable: rolled back, and due again at once
ComposeFails(c) ==
  /\ tx[c].pc = "composing"
  /\ tx' = [tx EXCEPT ![c] = Idle]
  /\ UNCHANGED <<tables, settled, tries, holder, received, crashes>>

-----------------------------------------------------------------------------
(* Operators and the desktop backend.                                       *)

BeginTakeOver(o) ==
  /\ tx[o].pc = "idle"
  /\ tx' = [tx EXCEPT ![o] = [Loaded(Idle) EXCEPT !.pc = "taking"]]
  /\ UNCHANGED <<tables, settled, tries, holder, received, crashes>>

\* hand_off_to_human; pending follow-ups stay
TakeOver(o) ==
  LET s == tx[o]
      t == HandedOff(s.stage, s.mode) IN
  /\ s.pc = "taking"
  /\ Free("conv", o)
  /\ conv' = [stage |-> IF t # s.stage THEN t ELSE conv.stage,
               mode |-> IF s.mode = "ai" THEN "human" ELSE conv.mode]
  /\ tx' = [tx EXCEPT ![o] = Idle]
  /\ UNCHANGED <<cust, linkSent, stored, answered, rem, settled, tries, holder, received, crashes>>

BeginRelease(o) ==
  /\ tx[o].pc = "idle"
  /\ tx' = [tx EXCEPT ![o] = [Loaded(Idle) EXCEPT !.pc = "releasing"]]
  /\ UNCHANGED <<tables, settled, tries, holder, received, crashes>>

\* return_to_ai, without a stage of the operator's choice
Release(o) ==
  LET s == tx[o]
      t == Returned(s.stage, NoStage) IN
  /\ s.pc = "releasing"
  /\ Free("conv", o)
  /\ conv' = [stage |-> IF t # s.stage THEN t ELSE conv.stage,
               mode |-> IF s.mode = "human" THEN "ai" ELSE conv.mode]
  /\ tx' = [tx EXCEPT ![o] = Idle]
  /\ UNCHANGED <<cust, linkSent, stored, answered, rem, settled, tries, holder, received, crashes>>

\* register_download and register_activation: a repeat changes nothing, a new fact is
\* written to the customer and then to the conversation, whose stage must allow it
BeginReport(b, level) ==
  /\ tx[b].pc = "idle"
  /\ cust.installed \in (IF level = "activated" THEN {"no", "downloaded"} ELSE {"no"})
  /\ Free("cust", b)
  /\ CanTransition(conv.stage, level)
  /\ tx' = [tx EXCEPT ![b] = [Loaded(Idle) EXCEPT !.pc = "reporting", !.level = level,
                                                   !.locks = {"cust"}]]
  /\ UNCHANGED <<tables, settled, tries, holder, received, crashes>>

Report(b) ==
  LET s == tx[b] IN
  /\ s.pc = "reporting"
  /\ Free("conv", b)
  /\ cust' = [cust EXCEPT !.installed = s.level]
  /\ conv' = [conv EXCEPT !.stage = IF s.stage = s.level THEN @ ELSE s.level]
  /\ tx' = [tx EXCEPT ![b] = Idle]
  /\ UNCHANGED <<linkSent, stored, answered, rem, settled, tries, holder, received, crashes>>

-----------------------------------------------------------------------------
(* What goes wrong.                                                         *)

\* what a transaction that had sent leaves behind when it is rolled back
Lost(s) == IF s.outcome = "sent" THEN {s.msg} ELSE {}

\* the process of actor a dies: rolled back; its Redis lock waits for its expiry
Crash(a) ==
  /\ crashes < MaxCrashes
  /\ tx[a].pc # "idle"
  /\ crashes' = crashes + 1
  /\ holder' = IF holder = a THEN "dead" ELSE holder
  /\ tx' = [tx EXCEPT ![a] = Idle]
  /\ unrecorded' = unrecorded \cup Lost(tx[a])
  /\ UNCHANGED <<tables, settled, tries, replies, chases, unguarded>>

LockExpires ==
  /\ holder # None
  /\ LockHolds => holder = "dead"
  /\ holder' = None
  /\ UNCHANGED <<tables, settled, tries, tx, received, crashes>>

\* the rows the transaction of a wants next
Wanted(a) ==
  LET s == tx[a] IN
  CASE s.pc = "loaded" -> IF s.msg \in stored THEN {s.msg} ELSE {s.msg, "conv"}
    [] s.pc = "cancelling" -> s.snap \cup (IF s.optedOut THEN {"cust"} ELSE {})
    [] s.pc \in {"flushing", "taking", "releasing", "reporting"} -> {"conv"}
    [] s.pc = "recording" -> IF WritesConversation(s) THEN {"conv"} ELSE {}
    [] s.pc = "acting" -> IF OptsOut(s) THEN {"cust"} ELSE {}
    [] s.pc = "closing" -> s.snap \cup (IF s.moved THEN {"conv"} ELSE {})
    [] OTHER -> {}

WaitsFor(a) == {b \in Actors \ {a} : tx[b].locks \cap Wanted(a) # {}}

\* a waits in a circle: exact for up to four actors
Deadlocked(a) ==
  \E S \in SUBSET Actors :
     /\ a \in S
     /\ \A b \in S : /\ WaitsFor(b) \cap S # {}
                     /\ \E c \in S : b \in WaitsFor(c)

\* PostgreSQL ends a circle by failing one of its transactions
Abort(a) ==
  /\ Deadlocked(a)
  /\ holder' = Unlocked(a)
  /\ tx' = [tx EXCEPT ![a] = Idle]
  /\ unrecorded' = unrecorded \cup Lost(tx[a])
  /\ UNCHANGED <<tables, settled, tries, replies, chases, unguarded, crashes>>

-----------------------------------------------------------------------------
Deliver(a) ==
  \/ Flush(a) \/ Record(a) \/ Act(a) \/ Commit(a)
  \/ \E outcome \in {"none", "sent", "failed"} : Send(a, outcome)

Run(a) ==
  \/ \E m \in Msgs : BeginTurn(a, m)
  \/ StoreMessage(a) \/ CommitIngest(a) \/ RateLimited(a)
  \/ TakeLock(a) \/ ProceedUnlocked(a) \/ Retry(a) \/ LoadInputs(a)
  \/ \E d \in Answers : Reply(a, d)
  \/ Deliver(a)
  \/ Settle(a)

Chase(c) ==
  \/ \E r \in Reminders : Claim(c, r)
  \/ LookAgain(c) \/ ComposeFails(c)
  \/ \E d \in Answers \cup {Template} : Compose(c, d)
  \/ Deliver(c)

Next ==
  \/ \E a \in Runners : Run(a)
  \/ \E c \in Chasers : Chase(c)
  \/ \E o \in Operators : BeginTakeOver(o) \/ TakeOver(o) \/ BeginRelease(o) \/ Release(o)
  \/ \E b \in Backends : \/ \E level \in {"downloaded", "activated"} : BeginReport(b, level)
                         \/ Report(b)
  \/ \E a \in Actors : Crash(a) \/ Abort(a)
  \/ LockExpires

Spec == Init /\ [][Next]_vars

-----------------------------------------------------------------------------
TypeOK ==
  /\ conv \in [stage : Stages, mode : {"ai", "human"}]
  /\ cust \in [optedOut : BOOLEAN, installed : {"no", "downloaded", "activated"}]
  /\ linkSent \in BOOLEAN
  /\ stored \subseteq Msgs /\ answered \subseteq stored /\ settled \subseteq stored
  /\ tries \in [Msgs -> 0..MaxTries]
  /\ rem \in [Reminders -> Reminder]
  /\ holder \in Runners \cup {None, "dead"}
  /\ tx \in [Actors -> Session]
  /\ replies \in [Msgs -> Nat]
  /\ chases \in 0..(Ladder + 1)
  /\ unrecorded \subseteq Msgs \cup {None}
  /\ unguarded \in BOOLEAN
  /\ crashes \in 0..MaxCrashes
  \* a row is locked by one transaction
  /\ \A a, b \in Actors : a # b => tx[a].locks \cap tx[b].locks = {}

(* "A retry must not produce a second reply to the same customer message"   *)
(* (conversation_flow.py 181-182): however often the event is run, by two   *)
(* slots at once or after failures of the model, the customer gets at most  *)
(* one reply to a message - unless a transaction that had sent one was      *)
(* rolled back, by the death of its process or as PostgreSQL's way out of a *)
(* deadlock: the send precedes the commit that records it.                  *)
RepliedOnce == \A m \in Msgs \ unrecorded : replies[m] <= 1

(* A follow-up that is on its way goes to a customer who has not written    *)
(* since it was queued and has not opted out: relevance_block reads the     *)
(* state once, before the model's call, and what keeps it true to the send  *)
(* is that the customer's message and the opting out both cancel pending    *)
(* follow-ups and wait for the claimed row's lock (reminders.py 7-10).  An  *)
(* opting out whose answer did not go out has no lock on the conversation   *)
(* when it looks for what is pending, and misses what is queued after that. *)
FollowUpIsWelcome ==
  \A c \in Chasers :
     tx[c].pc \in {"flushing", "sending"} =>
        Heard = rem[tx[c].rem].since /\ (cust.optedOut => unguarded)

(* "This cannot stack up" (conversation_flow.py 762): at most one follow-up *)
(* is pending, though replies and follow-ups both cancel and schedule, in   *)
(* transactions that do not see one another.                                *)
OneFollowUpPending == Cardinality(Pending) <= 1

(* Following up ends (reminders.py 12-17): the customer receives no more    *)
(* follow-ups without having written than the ladder has rungs - again      *)
(* unless one that was sent was rolled back, and so is not counted.         *)
ReceivedWithinLadder == None \notin unrecorded => chases <= Ladder

(* A customer who keeps deferring is not chased for ever (reminders.py      *)
(* 41-45).  The count leaves out the callback being delivered, so that one  *)
(* more than the cap may go out; and no more than that, though replies and  *)
(* deliveries each look at the count before they schedule.                  *)
PromisesWithinCap ==
  Cardinality({r \in Reminders : rem[r].promised /\ rem[r].status \in {"sent", "pending"}})
    <= MaxPromised + 1

\* may still say something: found the AI in charge, and has not come to its send
HasFloor(s) ==
  \/ s.pc \in {"loaded", "cancelling"} /\ s.mode = "ai"
  \/ s.pc \in {"queued", "locked", "thinking", "composing", "flushing", "sending"}

Floor == {a \in Actors : HasFloor(tx[a])}

Voice == INSTANCE VoiceContract
           WITH Speakers <- Actors, Topics <- Msgs, mode <- conv.mode, floor <- Floor

(* "Stop the AI and assign the conversation to a person" (admin.py 149):    *)
(* handling_mode is looked at before the lock and the model's call and not  *)
(* again, so those who then have the floor may say one thing each; nobody   *)
(* else does, however operators, hand-offs, retries and crashes interleave. *)
KeepsTheFloor == Voice!VoiceSpec

(* The conversation never falls back along the path (domain.py 85-89).      *)
NeverBackwards ==
  [][(conv.stage \in Path /\ conv'.stage \in Path) => Rank[conv.stage] <= Rank[conv'.stage] ]_vars

=============================================================================
