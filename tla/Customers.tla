----------------------------- MODULE Customers ------------------------------
(***************************************************************************)
(* What we know of a person rather than of one thread: their row, their    *)
(* threads on our several numbers, the download links they were sent, and  *)
(* the installs that the desktop backend reports                           *)
(* (app/services/customers.py, downloads.py, app/api/internal.py, and      *)
(* reset of app/api/admin.py).                                             *)
(*                                                                         *)
(* A session reads, and writes at its commit what it decided from what it  *)
(* read; the per-conversation lock does not keep two threads of one person *)
(* apart.  Tokens are numbered in the order their links are made.          *)
(***************************************************************************)
EXTENDS SalesStages, Phones

CONSTANTS
  People,       \* those who may write to us
  Numbers,      \* our WhatsApp numbers that they write to
  Configured,   \* those this deployment answers on
  Slots,        \* sessions open at one time
  None,
  PhoneOf,      \* PhoneOf[p]: the number of p as WhatsApp has it
  Typed,        \* Typed[p]: the forms in which p types it
  Starts,       \* bound: stages at which earlier threads may be ("absent": none)
  MaxStarted,   \* bound: earlier threads
  Suggests,     \* bound: stages that the model suggests
  MaxLinks,     \* bound: tokens
  MaxSessions   \* bound: sessions begun

ASSUME CustomersAssumption ==
  /\ Configured \subseteq Numbers
  /\ None \notin People \cup Numbers \cup Slots \cup Nat
  /\ Starts \subseteq Stages \cup {"absent"} /\ Suggests \subseteq Stages
  /\ MaxStarted \in Nat /\ MaxLinks \in Nat /\ MaxSessions \in Nat

VARIABLES
  customer,  \* customer[p]: the durable facts on p's row
  thread,    \* thread[p][n]: p's open conversation on our number n
  links,     \* links[t]: the download link with token t, as committed
  issued,    \* tokens made so far
  held,      \* tokens that reached a customer
  slot,      \* slot[s]: the open session of s
  begun,     \* sessions begun
  late,      \* history: threads written by a session that had read before an install was recorded
  handed,    \* history: threads that the model moved on by way of human_handoff
  together,  \* history: people two of whose threads were served at once
  unheard    \* history: tokens that reached a customer by a send that we did not hear or did not record

tables == <<customer, thread, links>>
history == <<late, handed, together, unheard>>
vars == <<tables, issued, held, slot, begun, history>>

Tokens == 1..MaxLinks

Customer == [known : BOOLEAN, downloaded : BOOLEAN, activated : BOOLEAN]
Nobody == [known |-> FALSE, downloaded |-> FALSE, activated |-> FALSE]

\* log: the thread's AI turns, in order; chased: a follow-up went out in the quiet period
Thread == [stage : Stages \cup {"absent"},
           log : UNION {[1..k -> {"reply", "link"}] : k \in 0..MaxSessions}, chased : BOOLEAN]
NoThread == [stage |-> "absent", log |-> <<>>, chased |-> FALSE]

Link == [of : People \cup {None}, on : Numbers \cup {None}, sent : BOOLEAN,
         clicked : BOOLEAN, downloaded : BOOLEAN, activated : BOOLEAN]
NoLink == [of |-> None, on |-> None, sent |-> FALSE, clicked |-> FALSE,
           downloaded |-> FALSE, activated |-> FALSE]

Session ==
  [pc : {"idle", "writing", "linking", "sent", "failed", "reporting", "chasing", "doomed"},
   who : People \cup {None}, on : Numbers \cup {None},
   facts : Customer, stage : Stages \cup {"absent"}, next : Stages \cup {"absent"},
   token : Tokens \cup {None}, makes : BOOLEAN,
   level : {"downloaded", "activated", None}]

Idle == [pc |-> "idle", who |-> None, on |-> None, facts |-> Nobody, stage |-> "absent", next |-> "absent",
         token |-> None, makes |-> FALSE, level |-> None]

Init ==
  /\ \E known \in [People -> BOOLEAN] :
       customer = [p \in People |-> [Nobody EXCEPT !.known = known[p]]]
  /\ thread \in [People -> [Numbers -> {[NoThread EXCEPT !.stage = s] : s \in Starts}]]
  /\ \A p \in People, n \in Numbers : thread[p][n] # NoThread => customer[p].known
  /\ Cardinality({pn \in People \X Numbers : thread[pn[1]][pn[2]] # NoThread}) <= MaxStarted
  /\ links = [t \in Tokens |-> NoLink]
  /\ issued = 0 /\ held = {}
  /\ slot = [s \in Slots |-> Idle]
  /\ begun = 0
  /\ late = {} /\ handed = {} /\ together = {} /\ unheard = {}

-----------------------------------------------------------------------------
Threads(p) == {n \in Numbers : thread[p][n] # NoThread}
LinksOf(p) == {t \in Tokens : links[t].of = p}

\* get_active_link: the newest
ActiveLink(p) == IF LinksOf(p) = {} THEN None ELSE Max(LinksOf(p))

\* has_link_been_sent
HasLinkBeenSent(p) == ActiveLink(p) # None /\ links[ActiveLink(p)].sent

Serving(p, kinds) == {s \in Slots : slot[s].who = p /\ slot[s].pc \in kinds}

\* no bound on the sessions
FreeAtLeast(s) == slot[s] = Idle

Free(s) == slot[s] = Idle /\ begun < MaxSessions

Begins(s, session) ==
  /\ Free(s)
  /\ begun' = begun + 1
  /\ slot' = [slot EXCEPT ![s] = session]

Ends(s) == slot' = [slot EXCEPT ![s] = Idle] /\ UNCHANGED begun

\* the session's connection or process dies, or its commit fails
Abort(s) ==
  /\ slot[s] # Idle
  /\ unheard' = IF slot[s].pc = "sent" THEN unheard \cup ({slot[s].token} \ {None}) ELSE unheard
  /\ Ends(s)
  /\ UNCHANGED <<tables, issued, held, late, handed, together>>

-----------------------------------------------------------------------------
(* The customer writes to one of our numbers.                               *)

LoadCustomer(s, p, n) ==
  /\ Begins(s, [Idle EXCEPT !.pc = "writing", !.who = p, !.on = n, !.facts = customer[p]])
  /\ UNCHANGED <<tables, issued, held, history>>

\* a new thread begins at the beginning
OpensNew(facts) == "new"

\* _open_at_install_state: where the customer was when their row was read
Opens(facts) ==
  IF facts.activated THEN "activated" ELSE IF facts.downloaded THEN "downloaded" ELSE "new"

StoreMessage(s) ==
  LET c == slot[s] IN
  /\ c.pc = "writing"
  /\ customer' = [customer EXCEPT ![c.who].known = TRUE]
  /\ thread' = [thread EXCEPT ![c.who][c.on].stage =
                                Revived(IF @ = "absent" THEN Opens(c.facts) ELSE @)]
  /\ late' = IF c.on \notin Threads(c.who) /\ customer[c.who] # c.facts
             THEN late \cup {<<c.who, c.on>>} ELSE late
  /\ Ends(s)
  /\ UNCHANGED <<links, issued, held, handed, together, unheard>>

-----------------------------------------------------------------------------
(* A turn of the AI; the conversation's lock keeps two of one thread apart. *)

InTurn == {"linking", "sent", "failed"}

Turn(p, n) == [Idle EXCEPT !.who = p, !.on = n, !.facts = customer[p],
                           !.stage = thread[p][n].stage, !.next = thread[p][n].stage]

Unlocked(p, n) == n \in Threads(p) \cap Configured /\ ~\E r \in Serving(p, InTurn) : slot[r].on = n

\* a reply without a link; the stage that the model suggests, if the rules allow it
LoadTurn(s, p, n, suggested) ==
  /\ Unlocked(p, n)
  /\ Begins(s, [Turn(p, n) EXCEPT !.pc = "sent", !.next = Moved(@, suggested, FALSE)])
  /\ UNCHANGED <<tables, issued, held, history>>

\* create_link makes a token for every message
NeverReused(p) == None

\* create_link: the customer's link, made on first use
Reused(p) == ActiveLink(p)

LoadLink(s, p, n) ==
  LET makes == Reused(p) = None IN
  /\ Unlocked(p, n)
  /\ makes => issued < MaxLinks
  /\ issued' = IF makes THEN issued + 1 ELSE issued
  /\ Begins(s, [Turn(p, n) EXCEPT !.pc = "linking", !.makes = makes,
                                  !.token = IF makes THEN issued + 1 ELSE Reused(p)])
  /\ together' = IF \E r \in Serving(p, InTurn) : slot[r].makes THEN together \cup {p} ELSE together
  /\ UNCHANGED <<tables, held, late, handed, unheard>>

\* Meta delivers the message or does not, and says so or is not heard
SendLink(s, delivered, heard) ==
  LET c == slot[s] IN
  /\ c.pc = "linking"
  /\ heard => delivered
  /\ held' = IF delivered THEN held \cup {c.token} ELSE held
  /\ unheard' = IF delivered /\ ~heard THEN unheard \cup {c.token} ELSE unheard
  /\ slot' = [slot EXCEPT ![s].pc = IF heard THEN "sent" ELSE "failed",
                          ![s].next = IF heard THEN Moved(@, "link_sent", FALSE) ELSE @]
  /\ UNCHANGED <<tables, issued, begun, late, handed, together>>

\* a link sent again is taken for one that was stamped
StampedWhenMade(row, turn) == [row EXCEPT !.sent = @ \/ (turn.makes /\ turn.pc = "sent")]

\* mark_link_sent
Stamped(row, turn) == [row EXCEPT !.sent = @ \/ turn.pc = "sent"]

\* the end of _apply_decision and its commit: the row, sent or not, the log and the stage
StoreTurn(s) ==
  LET c == slot[s]
      row == IF c.makes THEN [NoLink EXCEPT !.of = c.who, !.on = c.on] ELSE links[c.token]
      moved == c.next # c.stage IN
  /\ c.pc \in {"sent", "failed"}
  /\ links' = IF c.token = None THEN links
              ELSE [links EXCEPT ![c.token] = Stamped(row, c)]
  /\ thread' = [thread EXCEPT
       ![c.who][c.on].log = Append(@, IF c.token = None THEN "reply" ELSE "link"),
       ![c.who][c.on].stage = IF moved THEN c.next ELSE @]
  /\ late' = IF moved /\ thread[c.who][c.on].stage # c.stage
             THEN late \cup {<<c.who, c.on>>} ELSE late
  /\ handed' = IF moved /\ c.next = "human_handoff" THEN handed \cup {<<c.who, c.on>>} ELSE handed
  /\ Ends(s)
  /\ UNCHANGED <<customer, issued, held, together, unheard>>

-----------------------------------------------------------------------------
(* The desktop backend.                                                     *)

Book == [p \in {q \in People : customer[q].known} |-> PhoneOf[p]]

\* _resolve_customer: the token's owner, or whom the phone number means
Resolved(t, typed) ==
  IF t # None /\ links[t].of # None THEN {links[t].of}
  ELSE IF typed = None THEN {} ELSE ResolveByPhone(Book, typed)

\* a report that means nobody answers 404 and has no session; with a token that we know,
\* the number is not looked at
LoadReport(s, level, t, typed) ==
  /\ Free(s)
  /\ IF t # None /\ links[t].of # None THEN typed = None ELSE typed # None
  /\ \E p \in Resolved(t, typed) :
       Begins(s, [Idle EXCEPT !.pc = "reporting", !.who = p, !.level = level, !.facts = customer[p],
                              !.token = IF t = None THEN ActiveLink(p)
                                        ELSE IF links[t].of = None THEN None ELSE t])
  /\ UNCHANGED <<tables, issued, held, history>>

\* an activation without the install it implies
ActivatedOnly(row, level) ==
  [row EXCEPT !.downloaded = @ \/ level = "downloaded", !.activated = @ \/ level = "activated"]

\* register_download, register_activation: what the link and the customer then say
Confirmed(row, level) ==
  [row EXCEPT !.downloaded = TRUE, !.activated = @ \/ level = "activated"]

\* mark_downloaded, mark_activated: is there anything to record?
Changes(facts, level) == IF level = "activated" THEN ~facts.activated \/ ~facts.downloaded
                                                ELSE ~facts.downloaded

\* _advance_stage on every open thread; one that may not move fails the whole report
AdvanceAllowed(p, level) == \A n \in Threads(p) : CanTransition(thread[p][n].stage, level)

Advanced(p, level) ==
  [n \in Numbers |-> IF n \in Threads(p) THEN [thread[p][n] EXCEPT !.stage = level]
                                         ELSE thread[p][n]]

StoreReport(s) ==
  LET c == slot[s]
      p == c.who
      changed == Changes(c.facts, c.level) IN
  /\ c.pc = "reporting"
  /\ changed => AdvanceAllowed(p, c.level)
  /\ links' = IF c.token = None THEN links
              ELSE [links EXCEPT ![c.token] = Confirmed(@, c.level)]
  /\ customer' = [customer EXCEPT ![p] = Confirmed(@, c.level)]
  /\ thread' = IF changed THEN [thread EXCEPT ![p] = Advanced(p, c.level)] ELSE thread
  /\ Ends(s)
  /\ UNCHANGED <<issued, held, history>>

\* register_click: a token we do not know, or do not know yet, answers 404
Click(t) ==
  /\ t \in held /\ links[t].of # None
  /\ links' = [links EXCEPT ![t].clicked = TRUE]
  /\ UNCHANGED <<customer, thread, issued, held, slot, begun, history>>

-----------------------------------------------------------------------------
(* A due follow-up on one of a person's threads.                            *)

\* the quiet period taken for the thread's own
ChasedHere(p, n) == thread[p][n].chased

\* recently_chased_elsewhere
ChasedElsewhere(p, n) == \E m \in Numbers \ {n} : thread[p][m].chased

LoadReminder(s, p, n) ==
  /\ n \in Threads(p)
  /\ ~customer[p].downloaded
  /\ thread[p][n].stage \notin StopsFollowUp
  /\ ~ChasedElsewhere(p, n)
  /\ Begins(s, [Idle EXCEPT !.pc = "chasing", !.who = p, !.on = n, !.facts = customer[p]])
  /\ together' = IF Serving(p, {"chasing"}) # {} THEN together \cup {p} ELSE together
  /\ UNCHANGED <<tables, issued, held, late, handed, unheard>>

SendReminder(s) ==
  LET c == slot[s] IN
  /\ c.pc = "chasing"
  /\ thread' = [thread EXCEPT ![c.who][c.on].chased = TRUE]
  /\ Ends(s)
  /\ UNCHANGED <<customer, links, issued, held, history>>

\* QUIET_PERIOD_AFTER_A_FOLLOW_UP passes
QuietPeriodEnds(p, n) ==
  /\ thread[p][n].chased
  /\ thread' = [thread EXCEPT ![p][n].chased = FALSE]
  /\ UNCHANGED <<customer, links, issued, held, slot, begun, history>>

-----------------------------------------------------------------------------
\* reset_data: the customer's row and all that hangs from it; a session that has read
\* that row can no longer commit
Reset(p) ==
  /\ customer[p].known
  /\ customer' = [customer EXCEPT ![p] = Nobody]
  /\ thread' = [thread EXCEPT ![p] = [n \in Numbers |-> NoThread]]
  /\ links' = [t \in Tokens |-> IF links[t].of = p THEN NoLink ELSE links[t]]
  /\ slot' = [s \in Slots |-> IF slot[s].who = p /\ slot[s].facts.known
                             THEN [Idle EXCEPT !.pc = "doomed"] ELSE slot[s]]
  /\ late' = {pn \in late : pn[1] # p}
  /\ handed' = {pn \in handed : pn[1] # p}
  /\ together' = together \ {p}
  /\ UNCHANGED <<issued, held, begun, unheard>>

Reports ==
  \E s \in Slots, level \in {"downloaded", "activated"}, t \in held \cup {None},
     typed \in {None} \cup UNION {Typed[p] : p \in People} : LoadReport(s, level, t, typed)

Next ==
  \/ \E s \in Slots, p \in People, n \in Numbers :
       \/ LoadCustomer(s, p, n) \/ LoadLink(s, p, n) \/ LoadReminder(s, p, n)
       \/ \E suggested \in Suggests : LoadTurn(s, p, n, suggested)
  \/ \E s \in Slots : StoreMessage(s) \/ StoreTurn(s) \/ StoreReport(s) \/ SendReminder(s)
                        \/ Abort(s)
  \/ \E s \in Slots, delivered, heard \in BOOLEAN : SendLink(s, delivered, heard)
  \/ Reports
  \/ \E t \in Tokens : Click(t)
  \/ \E p \in People, n \in Numbers : QuietPeriodEnds(p, n)
  \/ \E p \in People : Reset(p)

Spec == Init /\ [][Next]_vars

-----------------------------------------------------------------------------
CustomersTypeOK ==
  /\ customer \in [People -> Customer]
  /\ thread \in [People -> [Numbers -> Thread]]
  /\ links \in [Tokens -> Link]
  /\ issued \in 0..MaxLinks /\ held \subseteq Tokens
  /\ slot \in [Slots -> Session]
  /\ begun \in 0..MaxSessions
  /\ late \subseteq People \X Numbers /\ handed \subseteq People \X Numbers
  /\ together \subseteq People /\ unheard \subseteq Tokens

(* "Installing is a fact about the person, not about one thread ... both    *)
(* should stop selling" (downloads.py 170-172): whoever installed has no    *)
(* thread that still sells, but those that a session wrote from what it had *)
(* read before the report, and those that the model took off the installed  *)
(* stages by suggesting human_handoff.                                      *)
InstallReachesThreads ==
  \A p \in People, n \in Numbers :
     customer[p].downloaded /\ n \in Threads(p) /\ <<p, n>> \notin late \cup handed =>
        thread[p][n].stage \in {"downloaded", "activated"}

(* A link that tells of an install is its customer's, who has one too, and  *)
(* an activation "implies the install": a report changes the link, the      *)
(* person and the threads together or not at all, in whatever order and     *)
(* however often the two reports come.                                      *)
LinkTellsTheTruth ==
  /\ \A p \in People : customer[p].activated => customer[p].downloaded
  /\ \A t \in Tokens :
       /\ links[t].activated => links[t].downloaded
       /\ links[t].downloaded => customer[links[t].of].downloaded
       /\ links[t].activated => customer[links[t].of].activated

(* "If the customer is sent the link twice and installs from the second     *)
(* copy, both are the same attributed link" (downloads.py 60-61): one link  *)
(* per person, and a link once sent is known to be - unless two threads     *)
(* made it at once, which no lock and no constraint prevents.               *)
OneLink ==
  \A p \in People \ together :
     /\ Cardinality(LinksOf(p)) <= 1
     /\ (\E t \in LinksOf(p) : links[t].sent) => HasLinkBeenSent(p)

(* "One person, one nudge" (reminders.py 266): within the quiet period no   *)
(* two threads of one person are chased, unless both came due together and  *)
(* each looked before the other had committed.                              *)
OneNudge ==
  \A p \in People \ together, m, n \in Numbers :
     thread[p][m].chased /\ thread[p][n].chased => m = n

(* A number typed by a customer means that customer or nobody - never       *)
(* somebody else, however many numbers end alike - and in full it means     *)
(* that customer for certain; except where what they typed is, digit for    *)
(* digit, the full number of another.                                       *)
PhoneFindsOwner ==
  \A p \in DOMAIN Book : \A typed \in Typed[p] :
     /\ ResolveByPhone(Book, typed) \subseteq {p} \cup ByPhone(Book, typed)
     /\ ResolveByPhone(Book, PhoneOf[p]) = {p}

=============================================================================
