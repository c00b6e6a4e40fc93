--------------------------- MODULE Customers_proofs ---------------------------
(***************************************************************************)
(* Customers for any people, numbers, sessions and bounds: what one session *)
(* commits from what it read earlier, while the others do the same.  What   *)
(* the operators read of an install is in Reports.                          *)
(***************************************************************************)
EXTENDS Reports, FiniteSetTheorems, WellFoundedInduction, TLAPS

-----------------------------------------------------------------------------
(* The rows.  A thread's log is a sequence; how long it may grow is below.  *)

OpenThread ==
  [stage : Stages \cup {"absent"}, log : Seq({"reply", "link"}), chased : BOOLEAN]

RowsTyped ==
  /\ customer \in [People -> Customer]
  /\ thread \in [People -> [Numbers -> OpenThread]]
  /\ links \in [Tokens -> Link]
  /\ issued \in 0..MaxLinks /\ held \subseteq Tokens
  /\ slot \in [Slots -> Session]
  /\ begun \in 0..MaxSessions
  /\ late \subseteq People \X Numbers /\ handed \subseteq People \X Numbers
  /\ together \subseteq People /\ unheard \subseteq Tokens

\* what hangs from a person hangs from a row that is there
RowsOwned ==
  /\ \A p \in People : customer[p].known \/ customer[p] = Nobody
  /\ \A p \in People, n \in Numbers :
       thread[p][n] # NoThread => customer[p].known /\ thread[p][n].stage # "absent"
  /\ \A p \in People : \A t \in Tokens : links[t].of = p => customer[p].known
  /\ \A t \in Tokens : links[t].of = None => links[t] = NoLink
  /\ \A t \in Tokens : t > issued => links[t] = NoLink

-----------------------------------------------------------------------------
(* The open sessions.  Reset(p) ends those that had read p's row, so that   *)
(* what the others read only grows until they commit.                       *)

OnThread(s) ==
  /\ slot[s].who \in People /\ slot[s].on \in Numbers
  /\ slot[s].facts.known
  /\ thread[slot[s].who][slot[s].on] # NoThread

\* a turn, and what it may make of the stage it has read
TurnOK(s) == slot[s].pc \in InTurn =>
  /\ OnThread(s)
  /\ slot[s].stage \in Stages /\ slot[s].next \in Stages
  /\ slot[s].next = "closed" => slot[s].stage = "closed"
  /\ slot[s].stage \in {"downloaded", "activated"} => slot[s].next \in {slot[s].stage, "human_handoff"}
  /\ slot[s].pc = "linking" => slot[s].next = slot[s].stage
  /\ slot[s].pc # "sent" => slot[s].token # None

\* a turn's token is that of a link of its customer, or of a link to be
TokenOK(s) ==
  /\ slot[s].makes =>
       /\ slot[s].pc \in InTurn
       /\ slot[s].token \in Tokens /\ slot[s].token <= issued
       /\ links[slot[s].token] = NoLink
       /\ slot[s].who \in together \/ \A t \in Tokens : links[t].of # slot[s].who
  /\ slot[s].pc \in InTurn \cup {"reporting"} /\ ~slot[s].makes /\ slot[s].token # None =>
       links[slot[s].token].of = slot[s].who

WriteOK(s) == slot[s].pc = "writing" => slot[s].who \in People /\ slot[s].on \in Numbers

ReportOK(s) == slot[s].pc = "reporting" =>
  LET p == slot[s].who IN
  /\ p \in People
  /\ slot[s].level \in {"downloaded", "activated"}
  /\ slot[s].facts.known /\ customer[p].known
  /\ slot[s].facts.downloaded => customer[p].downloaded
  /\ slot[s].facts.activated => customer[p].activated

ChaseOK(s) == slot[s].pc = "chasing" =>
  /\ OnThread(s)
  /\ \/ slot[s].who \in together
     \/ \A n \in Numbers \ {slot[s].on} : ~thread[slot[s].who][n].chased

SessionsOK == \A s \in Slots : TurnOK(s) /\ TokenOK(s) /\ WriteOK(s) /\ ReportOK(s) /\ ChaseOK(s)

\* two turns are never of one thread; two of one person that make a link, or chase, are recorded
Apart(r, s) ==
  /\ slot[r].pc \in InTurn /\ slot[s].pc \in InTurn =>
       slot[r].who # slot[s].who \/ slot[r].on # slot[s].on
  /\ slot[r].makes /\ slot[s].makes =>
       /\ slot[r].token # slot[s].token
       /\ slot[r].who = slot[s].who => slot[s].who \in together
  /\ slot[r].pc = "chasing" /\ slot[s].pc = "chasing" /\ slot[r].who = slot[s].who =>
       slot[s].who \in together

SessionsApart == \A r, s \in Slots : r # s => Apart(r, s)

\* a thread's log is no longer than the sessions begun, one that is being written shorter
LogsShort ==
  /\ \A p \in People, n \in Numbers : Len(thread[p][n].log) <= begun
  /\ \A s \in Slots : slot[s].pc \in InTurn =>
       Len(thread[slot[s].who][slot[s].on].log) < begun

-----------------------------------------------------------------------------
\* nobody closes the thread of a person who installed
NoneClosed ==
  \A p \in People, n \in Numbers : customer[p].downloaded => thread[p][n].stage # "closed"

OneRow ==
  \A p \in People \ together : \A t, u \in Tokens : links[t].of = p /\ links[u].of = p => t = u

CustomersInv ==
  /\ RowsTyped
  /\ RowsOwned
  /\ SessionsOK
  /\ SessionsApart
  /\ LogsShort
  /\ LinkTellsTheTruth
  /\ InstallReachesThreads
  /\ NoneClosed
  /\ OneRow
  /\ OneNudge
-----------------------------------------------------------------------------
(* The rules of the stages, as far as installs go.                          *)

\* a session's move: the model neither closes a thread nor takes an install back, except by a hand-off
LEMMA MovedFacts ==
  ASSUME NEW s \in Stages, NEW t \in Stages
  PROVE  /\ Moved(s, t, FALSE) \in Stages
         /\ Moved(s, t, FALSE) = "closed" => s = "closed"
         /\ s \in {"downloaded", "activated"} => Moved(s, t, FALSE) \in {s, "human_handoff"}
         /\ s \in {"downloaded", "activated"} => Moved(s, "link_sent", FALSE) = s
BY DEF Moved, MaySet, CanTransition, Allowed, OffPath, Path, Rank, Stages, SystemOnly,
       Exits, ObjectionReturns

LEMMA RevivedFacts ==
  ASSUME NEW s \in Stages
  PROVE  /\ Revived(s) \in Stages
         /\ Revived(s) = "closed" => s = "closed"
         /\ s \in {"downloaded", "activated"} => Revived(s) = s
BY DEF Revived, Stages

LEMMA OpensFacts ==
  ASSUME NEW facts \in Customer
  PROVE  /\ Opens(facts) \in {"new", "downloaded", "activated"}
         /\ facts.downloaded => Opens(facts) \in {"downloaded", "activated"}
BY DEF Opens, Customer

LEMMA IdleFacts ==
  /\ Idle \in Session /\ Idle.pc = "idle" /\ ~Idle.makes
  /\ [Idle EXCEPT !.pc = "doomed"] \in Session
BY DEF Idle, Session, Nobody, Customer

-----------------------------------------------------------------------------
(* A finite set of tokens has a newest one: their distances from MaxLinks   *)
(* are naturals, which are well founded.                                    *)
LEMMA NewestToken ==
  ASSUME NEW S \in SUBSET Tokens, S # {}
  PROVE  Max(S) \in S
<1> DEFINE T == {MaxLinks - t : t \in S}
           R == OpToRel(<, Nat)
<1>1. MaxLinks \in Nat
  BY CustomersAssumption
<1> HIDE DEF R
<1>2. T \subseteq Nat /\ T # {}
  <2>1. \A t \in S : MaxLinks - t \in Nat
    BY <1>1 DEF Tokens
  <2>2. PICK t \in S : TRUE
    OBVIOUS
  <2>3. MaxLinks - t \in T
    BY <2>2
  <2> QED BY <2>1, <2>3
<1>3. PICK x \in T : \A y \in T : <<y, x>> \notin R
  <2>1. IsWellFoundedOn(R, Nat)
    BY NatLessThanWellFounded DEF R
  <2> HIDE DEF T
  <2> QED BY <1>2, <2>1, WFMin
<1>4. \A y \in T : ~(y < x)
  BY <1>2, <1>3 DEF R, OpToRel
<1>5. PICK m \in S : x = MaxLinks - m
  BY <1>3
<1>6. \A y \in S : m >= y
  <2> TAKE y \in S
  <2>1. ~(MaxLinks - y < MaxLinks - m)
    BY <1>4, <1>5
  <2> QED BY <1>1, <2>1 DEF Tokens
<1> QED BY <1>5, <1>6 DEF Max

LEMMA ActiveLinkFacts ==
  ASSUME NEW p \in People
  PROVE  /\ LinksOf(p) # {} => ActiveLink(p) \in LinksOf(p)
         /\ LinksOf(p) = {} => ActiveLink(p) = None
         /\ LinksOf(p) \subseteq Tokens
BY NewestToken DEF ActiveLink, LinksOf

-----------------------------------------------------------------------------
(* A session that begins disturbs nothing, if it is right itself.           *)
LEMMA Beginning ==
  ASSUME CustomersInv, NEW s \in Slots, NEW X \in Session, Begins(s, X),
         UNCHANGED <<tables, held, late, handed, unheard>>,
         issued' \in issued..MaxLinks,
         together \subseteq together', together' \subseteq People,
         TurnOK(s)', TokenOK(s)', WriteOK(s)', ReportOK(s)', ChaseOK(s)',
         \A r \in Slots \ {s} : Apart(r, s)' /\ Apart(s, r)'
  PROVE  CustomersInv'
<1>1. /\ \A r \in Slots \ {s} : slot'[r] = slot[r]
      /\ slot'[s] = X
      /\ begun' = begun + 1 /\ begun' \in 0..MaxSessions /\ begun \in Nat
      /\ issued \in Nat /\ issued' \in Nat /\ issued <= issued'
  BY CustomersAssumption DEF CustomersInv, RowsTyped, Begins, Free
<1>2. RowsTyped'
  BY <1>1, CustomersAssumption DEF CustomersInv, RowsTyped, Begins, tables
<1>3. RowsOwned'
  BY <1>1 DEF CustomersInv, RowsOwned, RowsTyped, tables, Tokens
<1>4. SessionsOK'
  <2> SUFFICES ASSUME NEW r \in Slots \ {s}
               PROVE  TurnOK(r)' /\ TokenOK(r)' /\ WriteOK(r)' /\ ReportOK(r)' /\ ChaseOK(r)'
    BY DEF SessionsOK
  <2>1. TurnOK(r)' /\ WriteOK(r)' /\ ReportOK(r)' /\ ChaseOK(r)'
    BY <1>1 DEF CustomersInv, SessionsOK, TurnOK, WriteOK, ReportOK, ChaseOK, OnThread, tables
  <2>2. TokenOK(r)'
    BY <1>1 DEF CustomersInv, SessionsOK, TokenOK, tables, Tokens
  <2> QED BY <2>1, <2>2
<1>5. SessionsApart'
  <2> SUFFICES ASSUME NEW q \in Slots \ {s}, NEW r \in Slots \ {s}, q # r
               PROVE  Apart(q, r)'
    BY DEF SessionsApart
  <2> QED BY <1>1 DEF CustomersInv, SessionsApart, Apart
<1>6. LogsShort'
  <2>1. \A p \in People, n \in Numbers : Len(thread[p][n].log) \in Nat /\ Len(thread[p][n].log) <= begun
    BY DEF CustomersInv, RowsTyped, LogsShort, OpenThread
  <2>2. \A r \in Slots : slot'[r].pc \in InTurn => slot'[r].who \in People /\ slot'[r].on \in Numbers
    BY <1>4 DEF SessionsOK, TurnOK, OnThread
  <2> QED BY <1>1, <2>1, <2>2 DEF LogsShort, tables
<1>7. LinkTellsTheTruth' /\ InstallReachesThreads' /\ NoneClosed'
  BY DEF CustomersInv, LinkTellsTheTruth, InstallReachesThreads, NoneClosed, Threads, tables
<1>8. OneRow' /\ OneNudge'
  BY DEF CustomersInv, OneRow, OneNudge, tables
<1> QED BY <1>2, <1>3, <1>4, <1>5, <1>6, <1>7, <1>8 DEF CustomersInv

(* A commit leaves the other sessions right, if it only adds to what they   *)
(* have read.                                                               *)
LEMMA Committing ==
  ASSUME CustomersInv, RowsTyped',
         \A r \in Slots : slot'[r] \in {slot[r], Idle},
         UNCHANGED <<issued, together>>,
         \A p \in People :
           /\ customer[p].known => customer'[p].known
           /\ customer[p].downloaded => customer'[p].downloaded
           /\ customer[p].activated => customer'[p].activated,
         \A p \in People, n \in Numbers : thread[p][n] # NoThread => thread'[p][n] # NoThread,
         \A t \in Tokens : links[t].of # None => links'[t].of = links[t].of,
         \A r \in Slots : slot'[r].makes =>
           /\ links'[slot'[r].token] = NoLink
           /\ slot'[r].who \in together \/ \A t \in Tokens : links'[t].of # slot'[r].who,
         \A r \in Slots : slot'[r].pc = "chasing" =>
           \/ slot'[r].who \in together
           \/ \A n \in Numbers \ {slot'[r].on} : ~thread'[slot'[r].who][n].chased
  PROVE  SessionsOK' /\ SessionsApart'
<1>1. SessionsOK'
  <2> SUFFICES ASSUME NEW r \in Slots
               PROVE  TurnOK(r)' /\ TokenOK(r)' /\ WriteOK(r)' /\ ReportOK(r)' /\ ChaseOK(r)'
    BY DEF SessionsOK
  <2>1. CASE slot'[r] = Idle
    BY <2>1, IdleFacts DEF TurnOK, TokenOK, WriteOK, ReportOK, ChaseOK, InTurn
  <2>2. CASE slot'[r] = slot[r]
    <3>1. TurnOK(r)' /\ WriteOK(r)'
      BY <2>2 DEF CustomersInv, SessionsOK, TurnOK, WriteOK, OnThread
    <3>2. TokenOK(r)'
      <4>1. slot[r].makes =>
              /\ slot[r].pc \in InTurn
              /\ slot[r].token \in Tokens /\ slot[r].token <= issued
        BY DEF CustomersInv, SessionsOK, TokenOK
      <4>2. slot[r].pc \in InTurn \cup {"reporting"} /\ ~slot[r].makes /\ slot[r].token # None =>
              /\ slot[r].token \in Tokens
              /\ slot[r].who \in People
              /\ links[slot[r].token].of = slot[r].who
        BY DEF CustomersInv, SessionsOK, TokenOK, TurnOK, ReportOK, OnThread, RowsTyped, Session
      <4>3. None \notin People
        BY CustomersAssumption
      <4> QED BY <2>2, <4>1, <4>2, <4>3 DEF TokenOK
    <3>3. ReportOK(r)'
      BY <2>2 DEF CustomersInv, SessionsOK, ReportOK
    <3>4. ChaseOK(r)'
      BY <2>2 DEF CustomersInv, SessionsOK, ChaseOK, OnThread
    <3> QED BY <3>1, <3>2, <3>3, <3>4
  <2> QED BY <2>1, <2>2
<1>2. SessionsApart'
  <2> SUFFICES ASSUME NEW q \in Slots, NEW r \in Slots, q # r
               PROVE  Apart(q, r)'
    BY DEF SessionsApart
  <2>1. CASE slot'[q] = Idle \/ slot'[r] = Idle
    BY <2>1, IdleFacts DEF Apart, InTurn
  <2>2. CASE slot'[q] = slot[q] /\ slot'[r] = slot[r]
    BY <2>2 DEF CustomersInv, SessionsApart, Apart
  <2> QED BY <2>1, <2>2
<1> QED BY <1>1, <1>2

LEMMA Ending ==
  ASSUME CustomersInv, NEW s \in Slots, Ends(s)
  PROVE  /\ slot' \in [Slots -> Session] /\ begun' = begun
         /\ slot'[s] = Idle
         /\ \A r \in Slots \ {s} : slot'[r] = slot[r]
         /\ \A r \in Slots : slot'[r] \in {slot[r], Idle}
BY IdleFacts DEF CustomersInv, RowsTyped, Ends

-----------------------------------------------------------------------------
(* The sessions' beginnings.                                                *)

LEMMA Begun ==
  ASSUME CustomersInv, NEW s \in Slots, NEW X, Begins(s, X)
  PROVE  slot'[s] = X /\ \A r \in Slots \ {s} : slot'[r] = slot[r]
BY DEF CustomersInv, RowsTyped, Begins

LEMMA LoadCustomerStep ==
  ASSUME CustomersInv, NEW s \in Slots, NEW p \in People, NEW n \in Numbers, LoadCustomer(s, p, n)
  PROVE  CustomersInv'
<1> DEFINE X == [Idle EXCEPT !.pc = "writing", !.who = p, !.on = n, !.facts = customer[p]]
<1>1. X \in Session /\ X.pc = "writing" /\ X.who = p /\ X.on = n /\ ~X.makes
  BY DEF Idle, Session, Customer, CustomersInv, RowsTyped
<1>2. Begins(s, X) /\ UNCHANGED <<tables, issued, held, history>>
  BY DEF LoadCustomer
<1>3. slot'[s] = X /\ \A r \in Slots \ {s} : slot'[r] = slot[r]
  BY <1>2, Begun
<1> HIDE DEF X
<1>4. TurnOK(s)' /\ TokenOK(s)' /\ WriteOK(s)' /\ ReportOK(s)' /\ ChaseOK(s)'
  BY <1>1, <1>3 DEF TurnOK, TokenOK, WriteOK, ReportOK, ChaseOK, InTurn
<1>5. \A r \in Slots \ {s} : Apart(r, s)' /\ Apart(s, r)'
  BY <1>1, <1>3 DEF Apart, InTurn
<1>6. issued' \in issued..MaxLinks /\ together' = together /\ together \subseteq People
  BY <1>2, CustomersAssumption DEF CustomersInv, RowsTyped, history
<1> QED BY <1>1, <1>2, <1>4, <1>5, <1>6, Beginning DEF history

\* a turn that has its thread's lock, before anything of it is decided
LEMMA TurnFacts ==
  ASSUME CustomersInv, NEW p \in People, NEW n \in Numbers, Unlocked(p, n)
  PROVE  /\ Turn(p, n) \in Session
         /\ Turn(p, n).who = p /\ Turn(p, n).on = n /\ Turn(p, n).facts.known
         /\ Turn(p, n).stage = thread[p][n].stage /\ Turn(p, n).next = thread[p][n].stage
         /\ Turn(p, n).token = None /\ ~Turn(p, n).makes
         /\ thread[p][n] # NoThread /\ thread[p][n].stage \in Stages
         /\ \A r \in Slots : slot[r].pc \in InTurn => slot[r].who # p \/ slot[r].on # n
<1>1. thread[p][n] # NoThread /\ customer[p].known
  BY DEF Unlocked, Threads, CustomersInv, RowsOwned
<1>2. thread[p][n] \in OpenThread /\ customer[p] \in Customer
  BY DEF CustomersInv, RowsTyped
<1>3. thread[p][n].stage \in Stages
  BY <1>1, <1>2 DEF CustomersInv, RowsOwned, OpenThread
<1>4. \A r \in Slots : slot[r].pc \in InTurn => slot[r].who # p \/ slot[r].on # n
  BY DEF Unlocked, Serving
<1> QED BY <1>1, <1>2, <1>3, <1>4 DEF Turn, Idle, Session

LEMMA LoadTurnStep ==
  ASSUME CustomersInv, NEW s \in Slots, NEW p \in People, NEW n \in Numbers,
         NEW suggested \in Suggests, LoadTurn(s, p, n, suggested)
  PROVE  CustomersInv'
<1> DEFINE T == Turn(p, n)
           next == Moved(T.next, suggested, FALSE)
           X == [T EXCEPT !.pc = "sent", !.next = next]
<1>1. Unlocked(p, n) /\ Begins(s, X) /\ UNCHANGED <<tables, issued, held, history>>
  BY DEF LoadTurn, Unlocked, Turn, Idle
<1>2. T \in Session /\ T.stage \in Stages /\ T.next = T.stage /\ T.token = None /\ ~T.makes
  BY <1>1, TurnFacts
<1>3. /\ next \in Stages /\ (next = "closed" => T.stage = "closed")
      /\ T.stage \in {"downloaded", "activated"} => next \in {T.stage, "human_handoff"}
  BY <1>2, MovedFacts, CustomersAssumption
<1>4. /\ X \in Session /\ X.pc = "sent" /\ X.next = next /\ X.stage = T.stage /\ X.token = None
      /\ X.who = T.who /\ X.on = T.on /\ X.facts = T.facts /\ ~X.makes
  BY <1>2, <1>3 DEF Session
<1>5. slot'[s] = X /\ \A r \in Slots \ {s} : slot'[r] = slot[r]
  BY <1>1, Begun
<1>6. /\ X.who = p /\ X.on = n /\ X.facts.known /\ thread[p][n] # NoThread
      /\ \A r \in Slots : slot[r].pc \in InTurn => slot[r].who # p \/ slot[r].on # n
  BY <1>1, <1>4, TurnFacts
<1> HIDE DEF X, T, next
<1>7. TurnOK(s)'
  BY <1>1, <1>2, <1>3, <1>4, <1>5, <1>6 DEF TurnOK, OnThread, tables
<1>8. TokenOK(s)' /\ WriteOK(s)' /\ ReportOK(s)' /\ ChaseOK(s)'
  BY <1>4, <1>5 DEF TokenOK, WriteOK, ReportOK, ChaseOK
<1>9. \A r \in Slots \ {s} : Apart(r, s)' /\ Apart(s, r)'
  BY <1>4, <1>5, <1>6 DEF Apart
<1>10. issued' \in issued..MaxLinks /\ together' = together /\ together \subseteq People
  BY <1>1, CustomersAssumption DEF CustomersInv, RowsTyped, history
<1> QED BY <1>1, <1>4, <1>7, <1>8, <1>9, <1>10, Beginning DEF history

LEMMA LoadLinkStep ==
  ASSUME CustomersInv, NEW s \in Slots, NEW p \in People, NEW n \in Numbers, LoadLink(s, p, n)
  PROVE  CustomersInv'
<1> DEFINE T == Turn(p, n)
           makes == Reused(p) = None
           token == IF makes THEN issued + 1 ELSE Reused(p)
           X == [T EXCEPT !.pc = "linking", !.makes = makes, !.token = token]
<1>1. /\ Unlocked(p, n) /\ Begins(s, X) /\ UNCHANGED <<tables, held, late, handed, unheard>>
      /\ makes => issued < MaxLinks
      /\ issued' = IF makes THEN issued + 1 ELSE issued
      /\ together' = IF \E r \in Serving(p, InTurn) : slot[r].makes THEN together \cup {p} ELSE together
  BY DEF LoadLink, Unlocked
<1>2. T \in Session /\ T.stage \in Stages /\ T.next = T.stage
  BY <1>1, TurnFacts
<1>3. issued \in 0..MaxLinks /\ MaxLinks \in Nat /\ None \notin Tokens
  BY CustomersAssumption DEF CustomersInv, RowsTyped, Tokens
<1>4. /\ token \in Tokens /\ token # None
      /\ ~makes => token \in Tokens /\ links[token].of = p
      /\ makes => LinksOf(p) = {} /\ token = issued + 1 /\ token = issued'
  BY <1>1, <1>3, ActiveLinkFacts DEF Reused, LinksOf, Tokens
<1>5. /\ X \in Session /\ X.pc = "linking" /\ X.next = X.stage /\ X.stage = T.stage /\ X.token = token
      /\ X.who = T.who /\ X.on = T.on /\ X.facts = T.facts /\ X.makes = makes
  BY <1>2, <1>4 DEF Session
<1>6. slot'[s] = X /\ \A r \in Slots \ {s} : slot'[r] = slot[r]
  BY <1>1, Begun
<1>7. /\ X.who = p /\ X.on = n /\ X.facts.known /\ thread[p][n] # NoThread
      /\ \A r \in Slots : slot[r].pc \in InTurn => slot[r].who # p \/ slot[r].on # n
  BY <1>1, <1>5, TurnFacts
<1>8. /\ issued' \in issued..MaxLinks /\ together \subseteq together' /\ together' \subseteq People
      /\ \A r \in Slots : slot[r].makes /\ slot[r].who = p => p \in together'
  <2>1. \A r \in Slots : slot[r].makes => slot[r].pc \in InTurn
    BY DEF CustomersInv, SessionsOK, TokenOK
  <2>2. issued' \in issued..MaxLinks
    BY <1>1, <1>3
  <2>3. together \subseteq together' /\ together' \subseteq People
    BY <1>1 DEF CustomersInv, RowsTyped
  <2> QED BY <1>1, <2>1, <2>2, <2>3 DEF Serving
<1>9. makes => links[token] = NoLink /\ \A r \in Slots : slot[r].makes => slot[r].token # token
  BY <1>3, <1>4 DEF CustomersInv, RowsOwned, SessionsOK, TokenOK, Tokens
<1> HIDE DEF X, T, token, makes
<1>10. TurnOK(s)'
  BY <1>1, <1>2, <1>4, <1>5, <1>6, <1>7 DEF TurnOK, OnThread, tables, Stages
<1>11. TokenOK(s)'
  BY <1>1, <1>3, <1>4, <1>5, <1>6, <1>7, <1>9 DEF TokenOK, tables, InTurn, LinksOf, Tokens
<1>12. WriteOK(s)' /\ ReportOK(s)' /\ ChaseOK(s)'
  BY <1>5, <1>6 DEF WriteOK, ReportOK, ChaseOK
<1>13. \A r \in Slots \ {s} : Apart(r, s)' /\ Apart(s, r)'
  BY <1>5, <1>6, <1>7, <1>8, <1>9 DEF Apart
<1> QED BY <1>1, <1>5, <1>8, <1>10, <1>11, <1>12, <1>13, Beginning

LEMMA LoadReportStep ==
  ASSUME CustomersInv, NEW s \in Slots, NEW level \in {"downloaded", "activated"},
         NEW t \in held \cup {None}, NEW typed, LoadReport(s, level, t, typed)
  PROVE  CustomersInv'
<1>1. PICK p \in Resolved(t, typed) :
        Begins(s, [Idle EXCEPT !.pc = "reporting", !.who = p, !.level = level, !.facts = customer[p],
                               !.token = IF t = None THEN ActiveLink(p)
                                         ELSE IF links[t].of = None THEN None ELSE t])
  BY DEF LoadReport
<1> DEFINE token == IF t = None THEN ActiveLink(p) ELSE IF links[t].of = None THEN None ELSE t
           X == [Idle EXCEPT !.pc = "reporting", !.who = p, !.level = level, !.facts = customer[p],
                             !.token = token]
<1>2. UNCHANGED <<tables, issued, held, history>>
  BY DEF LoadReport
<1>3. t # None => t \in Tokens /\ links[t].of \in People \cup {None}
  BY DEF CustomersInv, RowsTyped, Link
<1>4. p \in People /\ customer[p].known
  <2>1. CASE t # None /\ links[t].of # None
    BY <1>1, <1>3, <2>1 DEF Resolved, CustomersInv, RowsOwned
  <2>2. CASE ~(t # None /\ links[t].of # None)
    <3>1. p \in ResolveByPhone(Book, typed)
      BY <1>1, <2>2 DEF Resolved
    <3>2. p \in DOMAIN Book
      BY <3>1 DEF ResolveByPhone, ByPhone, BySuffix
    <3> QED BY <3>2 DEF Book
  <2> QED BY <2>1, <2>2
<1>5. token # None => token \in Tokens /\ links[token].of = p
  BY <1>1, <1>3, <1>4, ActiveLinkFacts DEF Resolved, LinksOf
<1>6. /\ X \in Session /\ X.pc = "reporting" /\ X.who = p /\ X.level = level /\ X.token = token
      /\ X.facts = customer[p] /\ ~X.makes
  <2>1. token \in Tokens \cup {None}
    BY <1>5
  <2> HIDE DEF token
  <2> QED BY <1>4, <2>1 DEF Idle, Session, CustomersInv, RowsTyped
<1>7. slot'[s] = X /\ \A r \in Slots \ {s} : slot'[r] = slot[r]
  BY <1>1, Begun
<1>8. Begins(s, X)
  BY <1>1
<1> HIDE DEF X, token
<1>9. TurnOK(s)' /\ WriteOK(s)' /\ ChaseOK(s)'
  BY <1>6, <1>7 DEF TurnOK, WriteOK, ChaseOK, InTurn
<1>10. TokenOK(s)'
  BY <1>2, <1>5, <1>6, <1>7 DEF TokenOK, tables
<1>11. ReportOK(s)'
  BY <1>2, <1>4, <1>6, <1>7 DEF ReportOK, tables
<1>12. \A r \in Slots \ {s} : Apart(r, s)' /\ Apart(s, r)'
  BY <1>6, <1>7 DEF Apart, InTurn
<1>13. issued' \in issued..MaxLinks /\ together' = together /\ together \subseteq People
  BY <1>2, CustomersAssumption DEF CustomersInv, RowsTyped, history
<1> QED BY <1>2, <1>6, <1>8, <1>9, <1>10, <1>11, <1>12, <1>13, Beginning DEF history

LEMMA LoadReminderStep ==
  ASSUME CustomersInv, NEW s \in Slots, NEW p \in People, NEW n \in Numbers, LoadReminder(s, p, n)
  PROVE  CustomersInv'
<1> DEFINE X == [Idle EXCEPT !.pc = "chasing", !.who = p, !.on = n, !.facts = customer[p]]
<1>1. /\ n \in Threads(p) /\ ~ChasedElsewhere(p, n) /\ Begins(s, X)
      /\ UNCHANGED <<tables, issued, held, late, handed, unheard>>
      /\ together' = IF Serving(p, {"chasing"}) # {} THEN together \cup {p} ELSE together
  BY DEF LoadReminder
<1>2. X \in Session /\ X.pc = "chasing" /\ X.who = p /\ X.on = n /\ X.facts = customer[p] /\ ~X.makes
  BY DEF Idle, Session, Customer, CustomersInv, RowsTyped
<1>3. slot'[s] = X /\ \A r \in Slots \ {s} : slot'[r] = slot[r]
  BY <1>1, Begun
<1>4. thread[p][n] # NoThread /\ customer[p].known
  BY <1>1 DEF Threads, CustomersInv, RowsOwned
<1>5. \A m \in Numbers \ {n} : ~thread[p][m].chased
  BY <1>1 DEF ChasedElsewhere
<1> HIDE DEF X
<1>6. ChaseOK(s)'
  BY <1>1, <1>2, <1>3, <1>4, <1>5 DEF ChaseOK, OnThread, tables
<1>7. TurnOK(s)' /\ TokenOK(s)' /\ WriteOK(s)' /\ ReportOK(s)'
  BY <1>2, <1>3 DEF TurnOK, TokenOK, WriteOK, ReportOK, InTurn
<1>8. \A r \in Slots : slot[r].pc = "chasing" /\ slot[r].who = p => p \in together'
  BY <1>1 DEF Serving
<1>9. \A r \in Slots \ {s} : Apart(r, s)' /\ Apart(s, r)'
  BY <1>2, <1>3, <1>8 DEF Apart, InTurn
<1>10. issued' \in issued..MaxLinks /\ together \subseteq together' /\ together' \subseteq People
  BY <1>1, CustomersAssumption DEF CustomersInv, RowsTyped
<1> QED BY <1>1, <1>2, <1>6, <1>7, <1>9, <1>10, Beginning

-----------------------------------------------------------------------------
(* The sessions' sends and ends.                                            *)

LEMMA SendLinkStep ==
  ASSUME CustomersInv, NEW s \in Slots, NEW delivered \in BOOLEAN, NEW heard \in BOOLEAN,
         SendLink(s, delivered, heard)
  PROVE  CustomersInv'
<1> DEFINE c == slot[s]
           next == IF heard THEN Moved(c.next, "link_sent", FALSE) ELSE c.next
           X == [c EXCEPT !.pc = IF heard THEN "sent" ELSE "failed",
                          !.next = IF heard THEN Moved(@, "link_sent", FALSE) ELSE @]
<1>1. /\ c.pc = "linking" /\ slot' = [slot EXCEPT ![s] = X]
      /\ held' \in {held, held \cup {c.token}} /\ unheard' \in {unheard, unheard \cup {c.token}}
      /\ UNCHANGED <<tables, issued, begun, late, handed, together>>
  <2>1. c.pc = "linking" /\ slot' = [slot EXCEPT ![s] = X]
    <3>1. slot \in [Slots -> Session]
      BY DEF CustomersInv, RowsTyped
    <3> QED BY <3>1 DEF SendLink, Session
  <2>2. held' \in {held, held \cup {c.token}} /\ unheard' \in {unheard, unheard \cup {c.token}}
    BY DEF SendLink
  <2>3. UNCHANGED <<tables, issued, begun, late, handed, together>>
    BY DEF SendLink
  <2> QED BY <2>1, <2>2, <2>3
<1>2. /\ c \in Session /\ OnThread(s) /\ c.next = c.stage /\ c.stage \in Stages
      /\ c.token \in Tokens /\ c.token # None
  BY <1>1 DEF CustomersInv, RowsTyped, SessionsOK, TurnOK, InTurn, Session
<1>3. /\ next \in Stages /\ (next = "closed" => c.stage = "closed")
      /\ c.stage \in {"downloaded", "activated"} => next \in {c.stage, "human_handoff"}
  <2>1. CASE heard
    <3>1. next = Moved(c.stage, "link_sent", FALSE) /\ "link_sent" \in Stages
      BY <1>2, <2>1 DEF Stages
    <3> QED BY <1>2, <3>1, MovedFacts
  <2>2. CASE ~heard
    BY <1>2, <2>2
  <2> QED BY <2>1, <2>2
<1>4. /\ X \in Session /\ X.pc \in {"sent", "failed"} /\ X.next = next /\ X.stage = c.stage
      /\ X.token = c.token /\ X.who = c.who /\ X.on = c.on /\ X.facts = c.facts /\ X.makes = c.makes
  BY <1>2, <1>3 DEF Session
<1>5. slot'[s] = X /\ \A r \in Slots \ {s} : slot'[r] = slot[r]
  BY <1>1 DEF CustomersInv, RowsTyped
<1>6. RowsTyped'
  BY <1>1, <1>2, <1>4 DEF CustomersInv, RowsTyped, tables
<1> HIDE DEF X, next
<1>7. SessionsOK'
  <2>1. TurnOK(s)'
    BY <1>1, <1>2, <1>3, <1>4, <1>5 DEF TurnOK, OnThread, tables
  <2>2. TokenOK(s)'
    BY <1>1, <1>4, <1>5 DEF TokenOK, CustomersInv, SessionsOK, tables, InTurn
  <2>3. WriteOK(s)' /\ ReportOK(s)' /\ ChaseOK(s)'
    BY <1>4, <1>5 DEF WriteOK, ReportOK, ChaseOK
  <2>4. ASSUME NEW r \in Slots \ {s}
        PROVE  TurnOK(r)' /\ TokenOK(r)' /\ WriteOK(r)' /\ ReportOK(r)' /\ ChaseOK(r)'
    BY <1>1, <1>5 DEF CustomersInv, SessionsOK, TurnOK, TokenOK, WriteOK, ReportOK, ChaseOK, OnThread, tables
  <2> QED BY <2>1, <2>2, <2>3, <2>4 DEF SessionsOK
<1>8. SessionsApart'
  <2> SUFFICES ASSUME NEW q \in Slots, NEW r \in Slots, q # r
               PROVE  Apart(q, r)'
    BY DEF SessionsApart
  <2> QED BY <1>1, <1>4, <1>5 DEF CustomersInv, SessionsApart, Apart, InTurn
<1>9. RowsOwned' /\ LinkTellsTheTruth' /\ InstallReachesThreads' /\ NoneClosed' /\ OneRow' /\ OneNudge'
  BY <1>1 DEF CustomersInv, RowsOwned, LinkTellsTheTruth, InstallReachesThreads, NoneClosed, Threads,
              OneRow, OneNudge, tables
<1>10. LogsShort'
  BY <1>1, <1>4, <1>5 DEF CustomersInv, LogsShort, InTurn, tables
<1> QED BY <1>6, <1>7, <1>8, <1>9, <1>10 DEF CustomersInv

LEMMA AbortStep ==
  ASSUME CustomersInv, NEW s \in Slots, Abort(s)
  PROVE  CustomersInv'
<1>1. Ends(s) /\ UNCHANGED <<tables, issued, held, late, handed, together>>
  BY DEF Abort
<1>2. unheard' \subseteq Tokens
  BY DEF Abort, CustomersInv, RowsTyped, Session
<1>3. /\ slot' \in [Slots -> Session] /\ begun' = begun
      /\ \A r \in Slots : slot'[r] \in {slot[r], Idle}
  BY <1>1, Ending
<1>4. RowsTyped'
  BY <1>1, <1>2, <1>3 DEF CustomersInv, RowsTyped, tables
<1>5. RowsOwned' /\ LinkTellsTheTruth' /\ InstallReachesThreads' /\ NoneClosed' /\ OneRow' /\ OneNudge'
  BY <1>1 DEF CustomersInv, RowsOwned, LinkTellsTheTruth, InstallReachesThreads, NoneClosed, Threads,
              OneRow, OneNudge, tables
<1>6. \A r \in Slots : slot'[r].makes =>
        /\ links'[slot'[r].token] = NoLink
        /\ slot'[r].who \in together \/ \A t \in Tokens : links'[t].of # slot'[r].who
  BY <1>1, <1>3, IdleFacts DEF CustomersInv, SessionsOK, TokenOK, tables
<1>7. \A r \in Slots : slot'[r].pc = "chasing" =>
        \/ slot'[r].who \in together
        \/ \A n \in Numbers \ {slot'[r].on} : ~thread'[slot'[r].who][n].chased
  BY <1>1, <1>3, IdleFacts DEF CustomersInv, SessionsOK, ChaseOK, tables
<1>8. SessionsOK' /\ SessionsApart'
  BY <1>1, <1>3, <1>4, <1>6, <1>7, Committing DEF tables
<1>9. LogsShort'
  BY <1>1, <1>3, IdleFacts DEF CustomersInv, LogsShort, InTurn, tables
<1> QED BY <1>4, <1>5, <1>8, <1>9 DEF CustomersInv

LEMMA StoreMessageStep ==
  ASSUME CustomersInv, NEW s \in Slots, StoreMessage(s)
  PROVE  CustomersInv'
<1> DEFINE p == slot[s].who
           m == slot[s].on
           facts == slot[s].facts
           old == thread[p][m].stage
           new == Revived(IF old = "absent" THEN Opens(facts) ELSE old)
<1>1. /\ slot[s].pc = "writing" /\ Ends(s)
      /\ customer' = [customer EXCEPT ![p].known = TRUE]
      /\ thread' = [thread EXCEPT ![p][m].stage = new]
      /\ late' = IF m \notin Threads(p) /\ customer[p] # facts THEN late \cup {<<p, m>>} ELSE late
      /\ UNCHANGED <<links, issued, held, handed, together, unheard>>
  BY DEF StoreMessage
<1>2. /\ p \in People /\ m \in Numbers /\ facts \in Customer
      /\ customer[p] \in Customer /\ thread[p][m] \in OpenThread
  <2>1. p \in People /\ m \in Numbers
    BY <1>1 DEF CustomersInv, SessionsOK, WriteOK
  <2>2. facts \in Customer
    BY DEF CustomersInv, RowsTyped, Session
  <2>3. customer[p] \in Customer /\ thread[p][m] \in OpenThread
    BY <2>1 DEF CustomersInv, RowsTyped
  <2> QED BY <2>1, <2>2, <2>3
<1>3. /\ new \in Stages /\ (new = "closed" => old = "closed")
      /\ old \in {"downloaded", "activated"} => new = old
      /\ old = "absent" /\ facts.downloaded => new \in {"downloaded", "activated"}
  <2>1. old \in Stages \/ old = "absent"
    BY <1>2 DEF OpenThread
  <2>2. CASE old = "absent"
    BY <1>2, <2>2, RevivedFacts, OpensFacts DEF Stages
  <2>3. CASE old \in Stages
    <3>1. old # "absent"
      BY <2>3 DEF Stages
    <3> QED BY <2>3, <3>1, RevivedFacts
  <2> QED BY <2>1, <2>2, <2>3
<1>4. /\ thread'[p][m] = [thread[p][m] EXCEPT !.stage = new]
      /\ thread'[p][m] \in OpenThread
      /\ \A q \in People, n \in Numbers : ~(q = p /\ n = m) => thread'[q][n] = thread[q][n]
      /\ \A q \in People, n \in Numbers :
           thread'[q][n].log = thread[q][n].log /\ thread'[q][n].chased = thread[q][n].chased
  BY <1>1, <1>2, <1>3 DEF CustomersInv, RowsTyped, OpenThread
<1>5. /\ customer'[p] = [customer[p] EXCEPT !.known = TRUE] /\ customer'[p] \in Customer
      /\ \A q \in People \ {p} : customer'[q] = customer[q]
  BY <1>1, <1>2 DEF CustomersInv, RowsTyped, Customer
<1>6. /\ slot' \in [Slots -> Session] /\ begun' = begun
      /\ \A r \in Slots : slot'[r] \in {slot[r], Idle}
  BY <1>1, Ending
<1>7. RowsTyped'
  <2>1. customer' \in [People -> Customer]
    BY <1>1, <1>5 DEF CustomersInv, RowsTyped
  <2>2. thread' \in [People -> [Numbers -> OpenThread]]
    <3>1. thread \in [People -> [Numbers -> OpenThread]]
      BY DEF CustomersInv, RowsTyped
    <3>2. thread' = [thread EXCEPT ![p][m].stage = new]
      BY <1>1
    <3> HIDE DEF new, old, facts, p, m
    <3>3. /\ thread' = [thread EXCEPT ![p] = thread'[p]]
          /\ thread'[p] = [thread[p] EXCEPT ![m] = thread'[p][m]]
      BY <1>2, <3>1, <3>2
    <3>4. p \in People /\ m \in Numbers /\ thread'[p][m] \in OpenThread
      BY <1>2, <1>4
    <3>5. thread'[p] \in [Numbers -> OpenThread]
      BY <3>1, <3>3, <3>4
    <3> QED BY <3>1, <3>3, <3>4, <3>5
  <2> QED BY <1>1, <1>2, <1>6, <2>1, <2>2 DEF CustomersInv, RowsTyped
<1>8. thread'[p][m].stage = new /\ new # "absent" /\ thread'[p][m] # NoThread
  <2>1. thread'[p][m].stage = new
    BY <1>2, <1>4 DEF OpenThread
  <2>2. new # "absent"
    BY <1>3 DEF Stages
  <2>3. NoThread.stage = "absent"
    BY DEF NoThread
  <2> QED BY <2>1, <2>2, <2>3
<1>9. \A q \in People :
        /\ customer[q].known => customer'[q].known
        /\ customer'[q].downloaded = customer[q].downloaded
        /\ customer'[q].activated = customer[q].activated
  BY <1>2, <1>5 DEF CustomersInv, RowsTyped, Customer
<1> HIDE DEF new, old, facts, p, m
<1>10. RowsOwned'
  <2>1. customer'[p].known
    BY <1>2, <1>5 DEF Customer
  <2>2. \A q \in People : customer'[q].known \/ customer'[q] = Nobody
    BY <1>5, <2>1 DEF CustomersInv, RowsOwned
  <2>3. \A q \in People, n \in Numbers :
          thread'[q][n] # NoThread => customer'[q].known /\ thread'[q][n].stage # "absent"
    <3> SUFFICES ASSUME NEW q \in People, NEW n \in Numbers, thread'[q][n] # NoThread
                 PROVE  customer'[q].known /\ thread'[q][n].stage # "absent"
      OBVIOUS
    <3>1. CASE q = p /\ n = m
      BY <1>8, <2>1, <3>1
    <3>2. CASE ~(q = p /\ n = m)
      BY <1>4, <1>9, <3>2 DEF CustomersInv, RowsOwned
    <3> QED BY <3>1, <3>2
  <2> QED BY <1>1, <1>9, <2>2, <2>3 DEF CustomersInv, RowsOwned
<1>11. \A r \in Slots : slot'[r].makes =>
        /\ links'[slot'[r].token] = NoLink
        /\ slot'[r].who \in together \/ \A t \in Tokens : links'[t].of # slot'[r].who
  BY <1>1, <1>6, IdleFacts DEF CustomersInv, SessionsOK, TokenOK
<1>12. \A r \in Slots : slot'[r].pc = "chasing" =>
        \/ slot'[r].who \in together
        \/ \A n \in Numbers \ {slot'[r].on} : ~thread'[slot'[r].who][n].chased
  BY <1>4, <1>6, IdleFacts DEF CustomersInv, SessionsOK, ChaseOK, OnThread
<1>13. SessionsOK' /\ SessionsApart'
  BY <1>1, <1>4, <1>6, <1>7, <1>8, <1>9, <1>11, <1>12, Committing
<1>14. LogsShort'
  BY <1>4, <1>6, IdleFacts DEF CustomersInv, LogsShort, InTurn, SessionsOK, TurnOK, OnThread
<1>15. LinkTellsTheTruth'
  BY <1>1, <1>9 DEF CustomersInv, LinkTellsTheTruth, RowsTyped, RowsOwned, Link, NoLink
<1>16. InstallReachesThreads'
  <2> SUFFICES ASSUME NEW q \in People, NEW n \in Numbers,
                      customer[q].downloaded, thread'[q][n] # NoThread,
                      <<q, n>> \notin late', <<q, n>> \notin handed
               PROVE  thread'[q][n].stage \in {"downloaded", "activated"}
    BY <1>1, <1>9 DEF InstallReachesThreads, Threads
  <2>1. CASE ~(q = p /\ n = m)
    BY <1>1, <1>4, <2>1 DEF CustomersInv, InstallReachesThreads, Threads
  <2>2. CASE q = p /\ n = m /\ thread[p][m] # NoThread
    <3>1. old \in {"downloaded", "activated"}
      BY <1>1, <2>2 DEF CustomersInv, InstallReachesThreads, Threads, old
    <3> QED BY <1>3, <1>8, <2>2, <3>1
  <2>3. CASE q = p /\ n = m /\ thread[p][m] = NoThread
    <3>1. customer[p] = facts /\ old = "absent"
      BY <1>1, <1>2, <2>3 DEF Threads, NoThread, old
    <3> QED BY <1>3, <1>8, <2>3, <3>1
  <2> QED BY <2>1, <2>2, <2>3
<1>17. NoneClosed'
  <2> SUFFICES ASSUME NEW q \in People, NEW n \in Numbers, customer[q].downloaded
               PROVE  thread'[q][n].stage # "closed"
    BY <1>9 DEF NoneClosed
  <2>1. thread[q][n].stage # "closed"
    BY DEF CustomersInv, NoneClosed
  <2>2. CASE q = p /\ n = m
    BY <1>3, <1>8, <2>1, <2>2 DEF old
  <2>3. CASE ~(q = p /\ n = m)
    BY <1>4, <2>1, <2>3
  <2> QED BY <2>2, <2>3
<1>18. OneRow' /\ OneNudge'
  <2>1. together' = together /\ links' = links
    BY <1>1
  <2>2. OneRow'
    BY <2>1 DEF CustomersInv, OneRow
  <2>3. OneNudge'
    BY <1>4, <2>1 DEF CustomersInv, OneNudge
  <2> QED BY <2>2, <2>3
<1> QED BY <1>7, <1>10, <1>13, <1>14, <1>15, <1>16, <1>17, <1>18 DEF CustomersInv

\* the end of a turn: its link is its customer's, and its move one that the rules allow
LEMMA StoreTurnStep ==
  ASSUME CustomersInv, NEW s \in Slots, StoreTurn(s)
  PROVE  CustomersInv'
<1> DEFINE c == slot[s]
           p == slot[s].who
           m == slot[s].on
           row == IF c.makes THEN [NoLink EXCEPT !.of = p, !.on = m] ELSE links[c.token]
           entry == IF c.token = None THEN "reply" ELSE "link"
           moved == c.next # c.stage
           old == thread[p][m]
           stage == IF moved THEN c.next ELSE old.stage
<1>1. /\ c.pc \in {"sent", "failed"} /\ Ends(s)
      /\ links' = IF c.token = None THEN links ELSE [links EXCEPT ![c.token] = Stamped(row, c)]
      /\ thread' = [thread EXCEPT ![p][m].log = Append(@, entry),
                                  ![p][m].stage = IF moved THEN c.next ELSE @]
      /\ late' = IF moved /\ thread[p][m].stage # c.stage THEN late \cup {<<p, m>>} ELSE late
      /\ handed' = IF moved /\ c.next = "human_handoff" THEN handed \cup {<<p, m>>} ELSE handed
      /\ UNCHANGED <<customer, issued, held, together, unheard>>
  BY DEF StoreTurn
<1>2. /\ p \in People /\ m \in Numbers /\ c \in Session /\ old \in OpenThread /\ old # NoThread
      /\ c.facts.known /\ customer[p].known /\ old.stage # "absent"
      /\ c.stage \in Stages /\ c.next \in Stages
      /\ c.next = "closed" => c.stage = "closed"
      /\ c.stage \in {"downloaded", "activated"} => c.next \in {c.stage, "human_handoff"}
      /\ Len(old.log) < begun /\ p # None
  <2>1. c.pc \in InTurn /\ TurnOK(s) /\ OnThread(s)
    BY <1>1 DEF CustomersInv, SessionsOK, TurnOK, InTurn
  <2>2. p \in People /\ m \in Numbers /\ c.facts.known /\ old # NoThread
    BY <2>1 DEF OnThread
  <2>3. c \in Session /\ old \in OpenThread
    BY <2>2 DEF CustomersInv, RowsTyped
  <2>4. customer[p].known /\ old.stage # "absent"
    BY <2>2 DEF CustomersInv, RowsOwned
  <2>5. /\ c.stage \in Stages /\ c.next \in Stages
        /\ c.next = "closed" => c.stage = "closed"
        /\ c.stage \in {"downloaded", "activated"} => c.next \in {c.stage, "human_handoff"}
    BY <2>1 DEF TurnOK
  <2>6. Len(old.log) < begun
    BY <2>1 DEF CustomersInv, LogsShort
  <2> QED BY <2>2, <2>3, <2>4, <2>5, <2>6, CustomersAssumption
<1>3. /\ slot' \in [Slots -> Session] /\ begun' = begun
      /\ slot'[s] = Idle
      /\ \A r \in Slots \ {s} : slot'[r] = slot[r]
      /\ \A r \in Slots : slot'[r] \in {slot[r], Idle}
  BY <1>1, Ending
<1>4. stage \in Stages /\ stage # "absent"
  BY <1>2 DEF OpenThread, Stages
<1>5. /\ thread'[p][m] = [stage |-> stage, log |-> Append(old.log, entry), chased |-> old.chased]
      /\ \A q \in People, n \in Numbers : ~(q = p /\ n = m) => thread'[q][n] = thread[q][n]
      /\ Append(old.log, entry) \in Seq({"reply", "link"})
      /\ Len(Append(old.log, entry)) = Len(old.log) + 1
  <2>1. old.log \in Seq({"reply", "link"}) /\ entry \in {"reply", "link"}
    BY <1>2 DEF OpenThread
  <2>2. Append(old.log, entry) \in Seq({"reply", "link"}) /\ Len(Append(old.log, entry)) = Len(old.log) + 1
    BY <2>1
  <2>3. /\ thread'[p][m] = [stage |-> stage, log |-> Append(old.log, entry), chased |-> old.chased]
        /\ \A q \in People, n \in Numbers : ~(q = p /\ n = m) => thread'[q][n] = thread[q][n]
    BY <1>1, <1>2 DEF CustomersInv, RowsTyped, OpenThread
  <2> QED BY <2>2, <2>3
<1>6. thread'[p][m] # NoThread /\ thread'[p][m] \in OpenThread /\ thread'[p][m].chased = old.chased
      /\ thread'[p][m].stage = stage
  <2> HIDE DEF stage, old, entry
  <2>1. thread'[p][m].stage = stage /\ thread'[p][m].chased = old.chased
    BY <1>5
  <2>2. NoThread.stage = "absent"
    BY DEF NoThread
  <2>3. old.chased \in BOOLEAN
    BY <1>2 DEF OpenThread
  <2>4. thread'[p][m] \in OpenThread
    BY <1>4, <1>5, <2>3 DEF OpenThread
  <2> QED BY <1>4, <2>1, <2>2, <2>4
<1>0. /\ links \in [Tokens -> Link]
      /\ links' = IF c.token = None THEN links ELSE [links EXCEPT ![c.token] = Stamped(row, c)]
  <2>1. links \in [Tokens -> Link]
    BY DEF CustomersInv, RowsTyped
  <2> QED BY <1>1, <2>1
\* the row that the turn makes or sends
<1>7. /\ c.token # None => c.token \in Tokens
      /\ c.makes => /\ c.token # None /\ c.token <= issued /\ links[c.token] = NoLink
                    /\ p \in together \/ \A t \in Tokens : links[t].of # p
      /\ ~c.makes /\ c.token # None => links[c.token].of = p
      /\ \A r \in Slots \ {s} : slot[r].makes /\ c.makes =>
           slot[r].token # c.token /\ (slot[r].who = p => p \in together)
  <2>1. TokenOK(s) /\ c.pc \in InTurn
    BY <1>1 DEF CustomersInv, SessionsOK, InTurn
  <2>2. c.token \in Tokens \cup {None} /\ None \notin Tokens
    BY <1>2, CustomersAssumption DEF Session, Tokens
  <2>3. c.makes => /\ c.token \in Tokens /\ c.token <= issued /\ links[c.token] = NoLink
                   /\ p \in together \/ \A t \in Tokens : links[t].of # p
    BY <2>1 DEF TokenOK
  <2>4. ~c.makes /\ c.token # None => links[c.token].of = p
    BY <2>1 DEF TokenOK
  <2>5. \A r \in Slots \ {s} : slot[r].makes /\ c.makes =>
           slot[r].token # c.token /\ (slot[r].who = p => p \in together)
    BY DEF CustomersInv, SessionsApart, Apart
  <2> QED BY <2>2, <2>3, <2>4, <2>5
<1>8. c.token # None =>
        /\ Stamped(row, c) \in Link /\ Stamped(row, c).of = p /\ links'[c.token] = Stamped(row, c)
        /\ Stamped(row, c).downloaded = links[c.token].downloaded
        /\ Stamped(row, c).activated = links[c.token].activated
  <2>1. CASE c.makes
    <3>1. c.token \in Tokens /\ row = [NoLink EXCEPT !.of = p, !.on = m] /\ links[c.token] = NoLink
      BY <1>7, <2>1
    <3>2. row \in Link /\ row.of = p /\ row.downloaded = FALSE /\ row.activated = FALSE
      BY <1>2, <3>1 DEF NoLink, Link
    <3>3. NoLink.downloaded = FALSE /\ NoLink.activated = FALSE
      BY DEF NoLink
    <3> HIDE DEF row, c
    <3>4. /\ Stamped(row, c) \in Link /\ Stamped(row, c).of = row.of
          /\ Stamped(row, c).downloaded = row.downloaded /\ Stamped(row, c).activated = row.activated
      BY <3>2 DEF Stamped, Link
    <3>5. links'[c.token] = Stamped(row, c)
      BY <1>0, <1>7, <2>1, <3>1
    <3> QED BY <3>1, <3>2, <3>3, <3>4, <3>5
  <2>2. CASE ~c.makes /\ c.token # None
    <3>1. c.token \in Tokens /\ row = links[c.token] /\ links[c.token].of = p
      BY <1>7, <2>2
    <3>2. row \in Link
      BY <3>1 DEF CustomersInv, RowsTyped
    <3> HIDE DEF row, c
    <3>4. /\ Stamped(row, c) \in Link /\ Stamped(row, c).of = row.of
          /\ Stamped(row, c).downloaded = row.downloaded /\ Stamped(row, c).activated = row.activated
      BY <3>2 DEF Stamped, Link
    <3>5. links'[c.token] = Stamped(row, c)
      BY <1>0, <2>2, <3>1
    <3> QED BY <3>1, <3>4, <3>5
  <2> QED BY <2>1, <2>2
<1>9. /\ links' \in [Tokens -> Link]
      /\ \A t \in Tokens : t # c.token \/ c.token = None => links'[t] = links[t]
  <2>1. c.token # None => Stamped(row, c) \in Link /\ c.token \in Tokens
    BY <1>7, <1>8
  <2> HIDE DEF row, c
  <2> QED BY <1>0, <2>1
<1>10. /\ \A t \in Tokens : links'[t].of = links[t].of \/ (t = c.token /\ c.token # None /\ links'[t].of = p)
       /\ \A t \in Tokens : /\ links'[t].downloaded = links[t].downloaded
                            /\ links'[t].activated = links[t].activated
  BY <1>8, <1>9
<1>11. c.token # None /\ ~c.makes => links'[c.token].of = links[c.token].of
  BY <1>7, <1>8
<1> HIDE DEF row, entry, stage, old, c, p, m, moved
<1>12. RowsTyped'
  <2>1. thread' \in [People -> [Numbers -> OpenThread]]
    <3>1. thread \in [People -> [Numbers -> OpenThread]]
      BY DEF CustomersInv, RowsTyped
    <3>2. /\ thread' = [thread EXCEPT ![p] = thread'[p]]
          /\ thread'[p] = [thread[p] EXCEPT ![m] = thread'[p][m]]
      BY <1>1, <1>2, <3>1
    <3> QED BY <1>2, <1>6, <3>1, <3>2
  <2>2. late' \subseteq People \X Numbers /\ handed' \subseteq People \X Numbers
    BY <1>1, <1>2 DEF CustomersInv, RowsTyped
  <2> QED BY <1>1, <1>3, <1>9, <2>1, <2>2 DEF CustomersInv, RowsTyped
<1>13. RowsOwned'
  <2>1. \A q \in People, n \in Numbers :
          thread'[q][n] # NoThread => customer'[q].known /\ thread'[q][n].stage # "absent"
    <3> SUFFICES ASSUME NEW q \in People, NEW n \in Numbers, thread'[q][n] # NoThread
                 PROVE  customer'[q].known /\ thread'[q][n].stage # "absent"
      OBVIOUS
    <3>1. CASE q = p /\ n = m
      BY <1>1, <1>2, <1>4, <1>6, <3>1
    <3>2. CASE ~(q = p /\ n = m)
      BY <1>1, <1>5, <3>2, ZenonT(60) DEF CustomersInv, RowsOwned
    <3> QED BY <3>1, <3>2
  <2>2. \A q \in People : \A t \in Tokens : links'[t].of = q => customer'[q].known
    BY <1>1, <1>2, <1>10 DEF CustomersInv, RowsOwned
  <2>3. \A t \in Tokens : links'[t].of = None => links'[t] = NoLink
    BY <1>2, <1>8, <1>9 DEF CustomersInv, RowsOwned
  <2>4. \A t \in Tokens : t > issued' => links'[t] = NoLink
    <3>1. c.token # None => c.token <= issued
      <4>1. links[c.token] # NoLink /\ c.token \in Tokens => c.token <= issued
        BY DEF CustomersInv, RowsOwned, RowsTyped, Tokens
      <4>2. NoLink.of = None
        BY DEF NoLink
      <4> QED BY <1>2, <1>7, <4>1, <4>2
    <3>2. issued \in Nat /\ issued' = issued
      BY <1>1, CustomersAssumption DEF CustomersInv, RowsTyped
    <3> SUFFICES ASSUME NEW t \in Tokens, t > issued
                 PROVE  links'[t] = NoLink
      BY <3>2
    <3>3. links[t] = NoLink
      BY DEF CustomersInv, RowsOwned
    <3>4. t # c.token \/ c.token = None
      BY <3>1, <3>2 DEF Tokens
    <3> QED BY <1>9, <3>3, <3>4
  <2> QED BY <1>1, <2>1, <2>2, <2>3, <2>4 DEF CustomersInv, RowsOwned
\* a session that also makes a link does so for somebody else, or both are recorded
<1>14. \A r \in Slots : slot'[r].makes =>
        /\ links'[slot'[r].token] = NoLink
        /\ slot'[r].who \in together \/ \A t \in Tokens : links'[t].of # slot'[r].who
  <2> SUFFICES ASSUME NEW r \in Slots \ {s}, slot[r].makes
               PROVE  /\ links'[slot[r].token] = NoLink
                      /\ slot[r].who \in together \/ \A t \in Tokens : links'[t].of # slot[r].who
    BY <1>3, IdleFacts
  <2>1. /\ slot[r].token \in Tokens /\ links[slot[r].token] = NoLink
        /\ slot[r].who \in together \/ \A t \in Tokens : links[t].of # slot[r].who
    BY DEF CustomersInv, SessionsOK, TokenOK
  <2>2. slot[r].token # c.token \/ c.token = None
    <3>1. NoLink.of = None
      BY DEF NoLink
    <3> QED BY <1>2, <1>7, <2>1, <3>1
  <2>3. slot[r].who = p /\ c.token # None => p \in together
    BY <1>7, <2>1
  <2> QED BY <1>9, <1>10, <2>1, <2>2, <2>3
<1>15. \A r \in Slots : slot'[r].pc = "chasing" =>
        \/ slot'[r].who \in together
        \/ \A n \in Numbers \ {slot'[r].on} : ~thread'[slot'[r].who][n].chased
  <2> SUFFICES ASSUME NEW r \in Slots, slot[r].pc = "chasing", slot[r].who \notin together,
                      NEW n \in Numbers \ {slot[r].on}
               PROVE  ~thread'[slot[r].who][n].chased
    BY <1>3, IdleFacts
  <2>1. slot[r].who \in People /\ ~thread[slot[r].who][n].chased
    BY DEF CustomersInv, SessionsOK, ChaseOK, OnThread
  <2> QED BY <1>5, <1>6, <2>1 DEF old
<1>16. \A t \in Tokens : links[t].of # None => links'[t].of = links[t].of
  <2>1. NoLink.of = None
    BY DEF NoLink
  <2> QED BY <1>7, <1>9, <1>11, <2>1
<1>17. \A q \in People, n \in Numbers : thread[q][n] # NoThread => thread'[q][n] # NoThread
  BY <1>5, <1>6
<1>18. SessionsOK' /\ SessionsApart'
  BY <1>1, <1>3, <1>12, <1>14, <1>15, <1>16, <1>17, Committing
<1>19. LogsShort'
  <2>1. \A q \in People, n \in Numbers : Len(thread'[q][n].log) <= begun'
    <3> SUFFICES ASSUME NEW q \in People, NEW n \in Numbers
                 PROVE  Len(thread'[q][n].log) <= begun'
      OBVIOUS
    <3>1. CASE q = p /\ n = m
      <4>1. Len(old.log) \in Nat /\ begun \in Nat
        BY <1>2, CustomersAssumption DEF OpenThread, CustomersInv, RowsTyped
      <4> QED BY <1>2, <1>3, <1>5, <3>1, <4>1
    <3>2. CASE ~(q = p /\ n = m)
      BY <1>3, <1>5, <3>2 DEF CustomersInv, LogsShort
    <3> QED BY <3>1, <3>2
  <2>2. ASSUME NEW r \in Slots, slot'[r].pc \in InTurn
        PROVE  Len(thread'[slot'[r].who][slot'[r].on].log) < begun'
    <3>1. r # s /\ slot'[r] = slot[r]
      BY <1>3, <2>2, IdleFacts DEF InTurn
    <3>2. slot[r].who # p \/ slot[r].on # m
      BY <1>1, <2>2, <3>1 DEF CustomersInv, SessionsApart, Apart, InTurn, c, p, m
    <3>3. slot[r].who \in People /\ slot[r].on \in Numbers
      BY <2>2, <3>1 DEF CustomersInv, SessionsOK, TurnOK, OnThread
    <3> QED BY <1>3, <1>5, <2>2, <3>1, <3>2, <3>3 DEF CustomersInv, LogsShort
  <2> QED BY <2>1, <2>2 DEF LogsShort
<1>20. LinkTellsTheTruth'
  <2>1. \A t \in Tokens : links[t].downloaded => links[t].of # None
    BY DEF CustomersInv, RowsOwned, NoLink
  <2>2. \A t \in Tokens : links'[t].downloaded => links'[t].of = links[t].of
    BY <1>10, <1>16, <2>1
  <2> QED BY <1>1, <1>10, <2>2 DEF CustomersInv, LinkTellsTheTruth
<1>21. InstallReachesThreads'
  <2> SUFFICES ASSUME NEW q \in People, NEW n \in Numbers,
                      customer[q].downloaded, thread'[q][n] # NoThread,
                      <<q, n>> \notin late', <<q, n>> \notin handed'
               PROVE  thread'[q][n].stage \in {"downloaded", "activated"}
    BY <1>1 DEF InstallReachesThreads, Threads
  <2>1. <<q, n>> \notin late /\ <<q, n>> \notin handed
    BY <1>1
  <2>2. CASE ~(q = p /\ n = m)
    BY <1>5, <2>1, <2>2 DEF CustomersInv, InstallReachesThreads, Threads
  <2>3. CASE q = p /\ n = m
    <3>1. old.stage \in {"downloaded", "activated"}
      BY <1>2, <2>1, <2>3 DEF CustomersInv, InstallReachesThreads, Threads, old
    <3>2. moved => c.stage = old.stage /\ c.next # "human_handoff"
      BY <1>1, <2>3 DEF old
    <3>3. ~moved
      BY <1>2, <3>1, <3>2 DEF moved
    <3> QED BY <1>6, <2>3, <3>1, <3>3 DEF stage
  <2> QED BY <2>2, <2>3
<1>22. NoneClosed'
  <2> SUFFICES ASSUME NEW q \in People, NEW n \in Numbers, customer[q].downloaded
               PROVE  thread'[q][n].stage # "closed"
    BY <1>1 DEF NoneClosed
  <2>1. thread[q][n].stage # "closed"
    BY DEF CustomersInv, NoneClosed
  <2>2. CASE q = p /\ n = m
    <3>1. moved => c.next # "closed"
      BY <1>2 DEF moved
    <3> QED BY <1>6, <2>1, <2>2, <3>1 DEF stage, old
  <2>3. CASE ~(q = p /\ n = m)
    BY <1>5, <2>1, <2>3
  <2> QED BY <2>2, <2>3
<1>23. OneRow'
  <2> SUFFICES ASSUME NEW q \in People \ together, NEW t \in Tokens, NEW u \in Tokens,
                      links'[t].of = q, links'[u].of = q
               PROVE  t = u
    BY <1>1 DEF OneRow
  <2>1. CASE c.token # None /\ c.makes /\ q = p
    BY <1>7, <1>10, <2>1
  <2>2. CASE ~(c.token # None /\ c.makes /\ q = p)
    BY <1>10, <1>11, <2>2 DEF CustomersInv, OneRow
  <2> QED BY <2>1, <2>2
<1>24. OneNudge'
  <2>1. \A q \in People, n \in Numbers : thread'[q][n].chased = thread[q][n].chased
    BY <1>5, <1>6 DEF old
  <2>2. together' = together
    BY <1>1
  <2> QED BY <2>1, <2>2 DEF CustomersInv, OneNudge
<1> QED BY <1>12, <1>13, <1>18, <1>19, <1>20, <1>21, <1>22, <1>23, <1>24 DEF CustomersInv

\* a report: the link, the person and the threads together
LEMMA StoreReportStep ==
  ASSUME CustomersInv, NEW s \in Slots, StoreReport(s)
  PROVE  CustomersInv'
<1> DEFINE c == slot[s]
           p == slot[s].who
           level == slot[s].level
           changed == Changes(c.facts, level)
<1>1. /\ c.pc = "reporting" /\ Ends(s)
      /\ changed => AdvanceAllowed(p, level)
      /\ links' = IF c.token = None THEN links ELSE [links EXCEPT ![c.token] = Confirmed(@, level)]
      /\ customer' = [customer EXCEPT ![p] = Confirmed(@, level)]
      /\ thread' = IF changed THEN [thread EXCEPT ![p] = Advanced(p, level)] ELSE thread
      /\ UNCHANGED <<issued, held, history>>
  BY DEF StoreReport
<1>2. UNCHANGED <<issued, late, handed, together, unheard>> /\ held' = held
  BY <1>1 DEF history
<1>3. /\ p \in People /\ level \in {"downloaded", "activated"} /\ c \in Session
      /\ customer[p].known /\ customer[p] \in Customer /\ c.facts \in Customer
      /\ c.facts.downloaded => customer[p].downloaded
      /\ c.facts.activated => customer[p].activated
  BY <1>1 DEF CustomersInv, RowsTyped, SessionsOK, ReportOK, Session
<1>4. c.token # None => c.token \in Tokens /\ links[c.token].of = p /\ links[c.token] \in Link
  <2>1. TokenOK(s)
    BY DEF CustomersInv, SessionsOK
  <2>2. ~c.makes
    BY <1>1, <2>1 DEF TokenOK, InTurn
  <2> QED BY <1>1, <1>3, <2>1, <2>2 DEF TokenOK, CustomersInv, RowsTyped, Session
<1>5. /\ slot' \in [Slots -> Session] /\ begun' = begun
      /\ \A r \in Slots : slot'[r] \in {slot[r], Idle}
  BY <1>1, Ending
<1>6. /\ customer'[p] \in Customer /\ customer'[p].known
      /\ customer'[p].downloaded = TRUE
      /\ customer'[p].activated <=> customer[p].activated \/ level = "activated"
      /\ \A q \in People \ {p} : customer'[q] = customer[q]
      /\ customer' \in [People -> Customer]
  BY <1>1, <1>3 DEF CustomersInv, RowsTyped, Confirmed, Customer
<1>7. c.token # None =>
        /\ links'[c.token] \in Link /\ links'[c.token].of = p
        /\ links'[c.token].activated => links[c.token].activated \/ level = "activated"
        /\ links'[c.token].downloaded = TRUE
  BY <1>1, <1>4 DEF CustomersInv, RowsTyped, Confirmed, Link
<1>8. /\ links' \in [Tokens -> Link]
      /\ \A t \in Tokens : t # c.token \/ c.token = None => links'[t] = links[t]
      /\ \A t \in Tokens : links'[t].of = links[t].of
  <2>1. links \in [Tokens -> Link]
    BY DEF CustomersInv, RowsTyped
  <2>2. links' \in [Tokens -> Link]
    BY <1>1, <1>4, <1>7, <2>1 DEF Confirmed, Link
  <2>3. \A t \in Tokens : t # c.token \/ c.token = None => links'[t] = links[t]
    BY <1>1, <2>1
  <2> QED BY <1>4, <1>7, <2>2, <2>3
\* the threads: all that p has, at the level reported, if this is news
<1>9. /\ \A n \in Numbers : changed /\ thread[p][n] # NoThread =>
           thread'[p][n] = [thread[p][n] EXCEPT !.stage = level]
      /\ \A n \in Numbers : ~changed \/ thread[p][n] = NoThread => thread'[p][n] = thread[p][n]
      /\ \A q \in People \ {p}, n \in Numbers : thread'[q][n] = thread[q][n]
  <2>1. thread \in [People -> [Numbers -> OpenThread]]
    BY DEF CustomersInv, RowsTyped
  <2>2. CASE changed
    <3>1. thread' = [thread EXCEPT ![p] = Advanced(p, level)]
      BY <1>1, <2>2
    <3>2. thread'[p] = Advanced(p, level) /\ \A q \in People \ {p} : thread'[q] = thread[q]
      BY <1>3, <2>1, <3>1
    <3> QED BY <2>2, <3>2 DEF Advanced, Threads
  <2>3. CASE ~changed
    BY <1>1, <2>3
  <2> QED BY <2>2, <2>3
<1>10. \A q \in People, n \in Numbers :
         /\ thread'[q][n] \in OpenThread
         /\ thread'[q][n].log = thread[q][n].log /\ thread'[q][n].chased = thread[q][n].chased
         /\ thread'[q][n].stage \in {thread[q][n].stage, level}
         /\ thread[q][n] # NoThread => thread'[q][n] # NoThread
         /\ thread'[q][n] # NoThread => thread[q][n] # NoThread /\ thread'[q][n].stage # "absent"
  <2> TAKE q \in People, n \in Numbers
  <2>1. thread[q][n] \in OpenThread /\ (thread[q][n] # NoThread => thread[q][n].stage # "absent")
    BY DEF CustomersInv, RowsTyped, RowsOwned
  <2>2. level \in Stages /\ level # "absent" /\ NoThread.stage = "absent"
    BY <1>3 DEF Stages, NoThread
  <2>3. CASE thread'[q][n] = thread[q][n]
    BY <2>1, <2>3
  <2>4. CASE thread'[q][n] = [thread[q][n] EXCEPT !.stage = level] /\ thread[q][n] # NoThread
    <3>1. /\ thread'[q][n] \in OpenThread /\ thread'[q][n].stage = level
          /\ thread'[q][n].log = thread[q][n].log /\ thread'[q][n].chased = thread[q][n].chased
      BY <2>1, <2>2, <2>4 DEF OpenThread
    <3> QED BY <2>2, <2>4, <3>1
  <2> QED BY <1>9, <2>3, <2>4
<1>11. ~changed => customer[p].downloaded /\ (level = "activated" => customer[p].activated)
  BY <1>3 DEF Changes, Customer
<1> HIDE DEF changed, level
<1>12. RowsTyped'
  <2>1. thread' \in [People -> [Numbers -> OpenThread]]
    <3>1. thread \in [People -> [Numbers -> OpenThread]]
      BY DEF CustomersInv, RowsTyped
    <3>2. /\ thread' = [thread EXCEPT ![p] = thread'[p]]
          /\ thread'[p] = [n \in Numbers |-> thread'[p][n]]
      <4>1. CASE changed
        BY <1>1, <1>3, <3>1, <4>1 DEF Advanced
      <4>2. CASE ~changed
        BY <1>1, <1>3, <3>1, <4>2
      <4> QED BY <4>1, <4>2
    <3> QED BY <1>3, <1>10, <3>1, <3>2
  <2> QED BY <1>2, <1>5, <1>6, <1>8, <2>1 DEF CustomersInv, RowsTyped
<1>13. \A q \in People :
         /\ customer[q].known => customer'[q].known
         /\ customer[q].downloaded => customer'[q].downloaded
         /\ customer[q].activated => customer'[q].activated
  BY <1>3, <1>6
<1>14. RowsOwned'
  <2>1. \A q \in People : customer'[q].known \/ customer'[q] = Nobody
    BY <1>6 DEF CustomersInv, RowsOwned
  <2>2. \A q \in People, n \in Numbers :
          thread'[q][n] # NoThread => customer'[q].known /\ thread'[q][n].stage # "absent"
    BY <1>10, <1>13 DEF CustomersInv, RowsOwned
  <2>3. \A q \in People : \A t \in Tokens : links'[t].of = q => customer'[q].known
    BY <1>8, <1>13 DEF CustomersInv, RowsOwned
  <2>4. \A t \in Tokens : t = c.token /\ c.token # None => links[t] # NoLink /\ links[t].of # None
    <3>1. NoLink.of = None /\ None \notin People
      BY CustomersAssumption DEF NoLink
    <3> QED BY <1>3, <1>4, <3>1
  <2>5. \A t \in Tokens : links[t] = NoLink => links'[t] = NoLink
    BY <1>8, <2>4
  <2>6. \A t \in Tokens : links'[t].of = None => links'[t] = NoLink
    BY <1>8, <2>5 DEF CustomersInv, RowsOwned
  <2>7. \A t \in Tokens : t > issued' => links'[t] = NoLink
    BY <1>2, <2>5 DEF CustomersInv, RowsOwned
  <2> QED BY <2>1, <2>2, <2>3, <2>6, <2>7 DEF RowsOwned
<1>15. \A r \in Slots : slot'[r].makes =>
         /\ links'[slot'[r].token] = NoLink
         /\ slot'[r].who \in together \/ \A t \in Tokens : links'[t].of # slot'[r].who
  <2> SUFFICES ASSUME NEW r \in Slots, slot[r].makes
               PROVE  /\ links'[slot[r].token] = NoLink
                      /\ slot[r].who \in together \/ \A t \in Tokens : links'[t].of # slot[r].who
    BY <1>5, IdleFacts
  <2>1. /\ slot[r].token \in Tokens /\ links[slot[r].token] = NoLink
        /\ slot[r].who \in together \/ \A t \in Tokens : links[t].of # slot[r].who
    BY DEF CustomersInv, SessionsOK, TokenOK
  <2>2. NoLink.of = None /\ None \notin People
    BY CustomersAssumption DEF NoLink
  <2>3. slot[r].token # c.token \/ c.token = None
    BY <1>3, <1>4, <2>1, <2>2
  <2> QED BY <1>8, <2>1, <2>3
<1>16. \A r \in Slots : slot'[r].pc = "chasing" =>
         \/ slot'[r].who \in together
         \/ \A n \in Numbers \ {slot'[r].on} : ~thread'[slot'[r].who][n].chased
  <2> SUFFICES ASSUME NEW r \in Slots, slot[r].pc = "chasing", slot[r].who \notin together,
                      NEW n \in Numbers \ {slot[r].on}
               PROVE  ~thread'[slot[r].who][n].chased
    BY <1>5, IdleFacts
  <2>1. slot[r].who \in People /\ ~thread[slot[r].who][n].chased
    BY DEF CustomersInv, SessionsOK, ChaseOK, OnThread
  <2> QED BY <1>10, <2>1
<1>17. SessionsOK' /\ SessionsApart'
  BY <1>2, <1>5, <1>8, <1>10, <1>12, <1>13, <1>15, <1>16, Committing
<1>18. LogsShort'
  <2>1. \A q \in People, n \in Numbers : thread'[q][n].log = thread[q][n].log
    BY <1>10
  <2>2. \A r \in Slots : slot'[r].pc \in InTurn =>
          slot'[r] = slot[r] /\ slot[r].who \in People /\ slot[r].on \in Numbers
    BY <1>5, IdleFacts DEF InTurn, CustomersInv, SessionsOK, TurnOK, OnThread
  <2> QED BY <1>5, <2>1, <2>2 DEF CustomersInv, LogsShort
<1>19. LinkTellsTheTruth'
  <2>1. \A q \in People : customer'[q].activated => customer'[q].downloaded
    BY <1>6 DEF CustomersInv, LinkTellsTheTruth
  <2>2. ASSUME NEW t \in Tokens
        PROVE  /\ links'[t].activated => links'[t].downloaded
               /\ links'[t].downloaded => customer'[links'[t].of].downloaded
               /\ links'[t].activated => customer'[links'[t].of].activated
    <3>1. CASE t = c.token /\ c.token # None
      <4>1. links[t].activated => customer[p].activated
        BY <1>4, <3>1 DEF CustomersInv, LinkTellsTheTruth
      <4> QED BY <1>6, <1>7, <3>1, <4>1
    <3>2. CASE t # c.token \/ c.token = None
      <4>1. links[t].downloaded \/ links[t].activated => links[t].of \in People
        BY DEF CustomersInv, RowsOwned, RowsTyped, Link, NoLink
      <4>2. links'[t] = links[t]
        BY <1>8, <3>2
      <4> QED BY <1>13, <4>1, <4>2 DEF CustomersInv, LinkTellsTheTruth
    <3> QED BY <3>1, <3>2
  <2> QED BY <2>1, <2>2 DEF LinkTellsTheTruth
<1>20. InstallReachesThreads'
  <2> SUFFICES ASSUME NEW q \in People, NEW n \in Numbers,
                      customer'[q].downloaded, thread'[q][n] # NoThread,
                      <<q, n>> \notin late, <<q, n>> \notin handed
               PROVE  thread'[q][n].stage \in {"downloaded", "activated"}
    BY <1>2 DEF InstallReachesThreads, Threads
  <2>1. thread[q][n] # NoThread /\ thread[q][n] \in OpenThread
    BY <1>10 DEF CustomersInv, RowsTyped
  <2>2. CASE q = p /\ changed
    <3>1. thread'[q][n] = [thread[q][n] EXCEPT !.stage = level]
      BY <1>9, <2>1, <2>2
    <3> QED BY <1>3, <2>1, <3>1 DEF OpenThread
  <2>3. CASE q # p \/ ~changed
    <3>1. customer[q].downloaded /\ thread'[q][n] = thread[q][n]
      BY <1>6, <1>9, <1>11, <2>3
    <3> QED BY <2>1, <3>1 DEF CustomersInv, InstallReachesThreads, Threads
  <2> QED BY <2>2, <2>3
<1>21. NoneClosed'
  <2> SUFFICES ASSUME NEW q \in People, NEW n \in Numbers, customer'[q].downloaded
               PROVE  thread'[q][n].stage # "closed"
    BY DEF NoneClosed
  <2>1. thread[q][n] \in OpenThread
    BY DEF CustomersInv, RowsTyped
  <2>2. CASE q = p /\ changed
    <3>1. CASE thread[q][n] = NoThread
      BY <1>9, <2>2, <3>1 DEF NoThread
    <3>2. CASE thread[q][n] # NoThread
      BY <1>3, <1>9, <2>1, <2>2, <3>2 DEF OpenThread
    <3> QED BY <3>1, <3>2
  <2>3. CASE q # p \/ ~changed
    <3>1. customer[q].downloaded /\ thread'[q][n] = thread[q][n]
      BY <1>6, <1>9, <1>11, <2>3
    <3> QED BY <3>1 DEF CustomersInv, NoneClosed
  <2> QED BY <2>2, <2>3
<1>22. OneRow' /\ OneNudge'
  <2>1. OneRow'
    BY <1>2, <1>8 DEF CustomersInv, OneRow
  <2>2. OneNudge'
    BY <1>2, <1>10 DEF CustomersInv, OneNudge
  <2> QED BY <2>1, <2>2
<1> QED BY <1>12, <1>14, <1>17, <1>18, <1>19, <1>20, <1>21, <1>22 DEF CustomersInv

LEMMA ClickStep ==
  ASSUME CustomersInv, NEW t \in Tokens, Click(t)
  PROVE  CustomersInv'
<1>1. /\ links[t].of # None /\ links' = [links EXCEPT ![t].clicked = TRUE]
      /\ UNCHANGED <<customer, thread, issued, held, slot, begun, late, handed, together, unheard>>
  BY DEF Click, history
<1>2. links \in [Tokens -> Link] /\ links[t] # NoLink
  BY <1>1 DEF CustomersInv, RowsTyped, NoLink
<1>3. /\ links' \in [Tokens -> Link]
      /\ \A u \in Tokens : u # t => links'[u] = links[u]
      /\ \A u \in Tokens : links'[u].of = links[u].of /\ links'[u].downloaded = links[u].downloaded
                           /\ links'[u].activated = links[u].activated
  BY <1>1, <1>2 DEF Link
<1>4. \A u \in Tokens : links[u] = NoLink => links'[u] = NoLink
  BY <1>2, <1>3
<1>5. RowsTyped'
  BY <1>1, <1>3 DEF CustomersInv, RowsTyped
<1>6. RowsOwned'
  BY <1>1, <1>3, <1>4 DEF CustomersInv, RowsOwned
<1>7. \A r \in Slots : slot'[r].makes =>
        /\ links'[slot'[r].token] = NoLink
        /\ slot'[r].who \in together \/ \A u \in Tokens : links'[u].of # slot'[r].who
  BY <1>1, <1>3, <1>4 DEF CustomersInv, SessionsOK, TokenOK
<1>8. \A r \in Slots : slot'[r].pc = "chasing" =>
        \/ slot'[r].who \in together
        \/ \A n \in Numbers \ {slot'[r].on} : ~thread'[slot'[r].who][n].chased
  BY <1>1 DEF CustomersInv, SessionsOK, ChaseOK
<1>9. SessionsOK' /\ SessionsApart'
  BY <1>1, <1>3, <1>5, <1>7, <1>8, Committing
<1>10. LogsShort' /\ InstallReachesThreads' /\ NoneClosed' /\ OneNudge'
  BY <1>1 DEF CustomersInv, LogsShort, InstallReachesThreads, NoneClosed, OneNudge, Threads
<1>11. LinkTellsTheTruth' /\ OneRow'
  BY <1>1, <1>3 DEF CustomersInv, LinkTellsTheTruth, OneRow
<1> QED BY <1>5, <1>6, <1>9, <1>10, <1>11 DEF CustomersInv

-----------------------------------------------------------------------------
(* What is done to a thread's quiet period leaves the rest of it alone.     *)
LEMMA ChasedOnly ==
  ASSUME CustomersInv, NEW p \in People, NEW n \in Numbers, NEW chased \in BOOLEAN,
         thread[p][n] # NoThread, thread' = [thread EXCEPT ![p][n].chased = chased],
         \A r \in Slots : slot'[r] \in {slot[r], Idle}, slot' \in [Slots -> Session],
         UNCHANGED <<customer, links, issued, held, begun, history>>,
         \A r \in Slots : slot'[r].pc = "chasing" =>
           \/ slot'[r].who \in together
           \/ \A m \in Numbers \ {slot'[r].on} : ~thread'[slot'[r].who][m].chased,
         OneNudge'
  PROVE  CustomersInv'
<1>1. UNCHANGED <<late, handed, together, unheard>>
  BY DEF history
<1>2. thread[p][n] \in OpenThread /\ thread[p][n].stage # "absent"
  BY DEF CustomersInv, RowsTyped, RowsOwned
<1>3. thread \in [People -> [Numbers -> OpenThread]]
  BY DEF CustomersInv, RowsTyped
<1>4. /\ thread' \in [People -> [Numbers -> OpenThread]]
      /\ \A q \in People, m \in Numbers :
           thread'[q][m].stage = thread[q][m].stage /\ thread'[q][m].log = thread[q][m].log
      /\ \A q \in People, m \in Numbers : ~(q = p /\ m = n) => thread'[q][m] = thread[q][m]
  <2>1. /\ thread' = [thread EXCEPT ![p] = thread'[p]]
        /\ thread'[p] = [thread[p] EXCEPT ![n] = thread'[p][n]]
        /\ thread'[p][n] = [thread[p][n] EXCEPT !.chased = chased]
    BY <1>3
  <2>2. /\ thread'[p][n] \in OpenThread
        /\ thread'[p][n].stage = thread[p][n].stage /\ thread'[p][n].log = thread[p][n].log
    BY <1>2, <2>1 DEF OpenThread
  <2>3. \A q \in People, m \in Numbers : ~(q = p /\ m = n) => thread'[q][m] = thread[q][m]
    BY <1>3, <2>1
  <2>4. thread' \in [People -> [Numbers -> OpenThread]]
    BY <1>3, <2>1, <2>2
  <2> QED BY <2>2, <2>3, <2>4
<1>5. \A q \in People, m \in Numbers : thread'[q][m] # NoThread <=> thread[q][m] # NoThread
  <2>1. NoThread.stage = "absent"
    BY DEF NoThread
  <2> QED BY <1>2, <1>4, <2>1, ZenonT(60)
<1>6. RowsTyped'
  BY <1>1, <1>4 DEF CustomersInv, RowsTyped
<1>7. RowsOwned'
  BY <1>4, <1>5 DEF CustomersInv, RowsOwned
<1>8. \A r \in Slots : slot'[r].makes =>
        /\ links'[slot'[r].token] = NoLink
        /\ slot'[r].who \in together \/ \A t \in Tokens : links'[t].of # slot'[r].who
  BY IdleFacts DEF CustomersInv, SessionsOK, TokenOK
<1>9. SessionsOK' /\ SessionsApart'
  BY <1>1, <1>5, <1>6, <1>8, Committing
<1>10. LogsShort'
  <2>1. \A r \in Slots : slot'[r].pc \in InTurn =>
          slot'[r] = slot[r] /\ slot[r].who \in People /\ slot[r].on \in Numbers
    BY IdleFacts DEF InTurn, CustomersInv, SessionsOK, TurnOK, OnThread
  <2> QED BY <1>4, <2>1 DEF CustomersInv, LogsShort
<1>11. InstallReachesThreads' /\ NoneClosed'
  BY <1>1, <1>4, <1>5 DEF CustomersInv, InstallReachesThreads, NoneClosed, Threads
<1>12. LinkTellsTheTruth' /\ OneRow'
  BY <1>1 DEF CustomersInv, LinkTellsTheTruth, OneRow
<1> QED BY <1>6, <1>7, <1>9, <1>10, <1>11, <1>12 DEF CustomersInv

LEMMA SendReminderStep ==
  ASSUME CustomersInv, NEW s \in Slots, SendReminder(s)
  PROVE  CustomersInv'
<1> DEFINE p == slot[s].who
           n == slot[s].on
<1>1. /\ slot[s].pc = "chasing" /\ Ends(s)
      /\ thread' = [thread EXCEPT ![p][n].chased = TRUE]
      /\ UNCHANGED <<customer, links, issued, held, history>>
  BY DEF SendReminder
<1>2. /\ p \in People /\ n \in Numbers /\ thread[p][n] # NoThread
      /\ p \in together \/ \A m \in Numbers \ {n} : ~thread[p][m].chased
  BY <1>1 DEF CustomersInv, SessionsOK, ChaseOK, OnThread
<1>3. /\ slot' \in [Slots -> Session] /\ begun' = begun
      /\ slot'[s] = Idle
      /\ \A r \in Slots \ {s} : slot'[r] = slot[r]
      /\ \A r \in Slots : slot'[r] \in {slot[r], Idle}
  BY <1>1, Ending
<1>4. together' = together
  BY <1>1 DEF history
<1>5. \A q \in People, m \in Numbers : ~(q = p /\ m = n) => thread'[q][m] = thread[q][m]
  BY <1>1, <1>2 DEF CustomersInv, RowsTyped
<1>6. \A r \in Slots : slot'[r].pc = "chasing" =>
        \/ slot'[r].who \in together
        \/ \A m \in Numbers \ {slot'[r].on} : ~thread'[slot'[r].who][m].chased
  <2> SUFFICES ASSUME NEW r \in Slots \ {s}, slot[r].pc = "chasing", slot[r].who \notin together
               PROVE  \A m \in Numbers \ {slot[r].on} : ~thread'[slot[r].who][m].chased
    BY <1>3, IdleFacts
  <2>1. /\ slot[r].who \in People
        /\ \A m \in Numbers \ {slot[r].on} : ~thread[slot[r].who][m].chased
    BY DEF CustomersInv, SessionsOK, ChaseOK, OnThread
  <2>2. slot[r].who # p
    BY <1>1 DEF CustomersInv, SessionsApart, Apart
  <2> QED BY <1>5, <2>1, <2>2
<1>7. OneNudge'
  <2> SUFFICES ASSUME NEW q \in People \ together, NEW m \in Numbers, NEW k \in Numbers,
                      thread'[q][m].chased, thread'[q][k].chased
               PROVE  m = k
    BY <1>4 DEF OneNudge
  <2>1. CASE q = p
    BY <1>2, <1>5, <2>1
  <2>2. CASE q # p
    BY <1>5, <2>2 DEF CustomersInv, OneNudge
  <2> QED BY <2>1, <2>2
<1> QED BY <1>1, <1>2, <1>3, <1>6, <1>7, ChasedOnly

LEMMA QuietPeriodStep ==
  ASSUME CustomersInv, NEW p \in People, NEW n \in Numbers, QuietPeriodEnds(p, n)
  PROVE  CustomersInv'
<1>1. /\ thread[p][n].chased /\ thread' = [thread EXCEPT ![p][n].chased = FALSE]
      /\ UNCHANGED <<customer, links, issued, held, slot, begun, history>>
  BY DEF QuietPeriodEnds
<1>2. thread[p][n] # NoThread /\ together' = together
  BY <1>1 DEF NoThread, history
<1>3. /\ \A q \in People, m \in Numbers : ~(q = p /\ m = n) => thread'[q][m] = thread[q][m]
      /\ ~thread'[p][n].chased
  BY <1>1 DEF CustomersInv, RowsTyped, OpenThread
<1>4. OneNudge'
  BY <1>2, <1>3 DEF CustomersInv, OneNudge
<1>5. \A r \in Slots : slot'[r].pc = "chasing" =>
        \/ slot'[r].who \in together
        \/ \A m \in Numbers \ {slot'[r].on} : ~thread'[slot'[r].who][m].chased
  BY <1>1, <1>3 DEF CustomersInv, SessionsOK, ChaseOK, OnThread
<1>6. slot' \in [Slots -> Session]
  BY <1>1 DEF CustomersInv, RowsTyped
<1> QED BY <1>1, <1>2, <1>4, <1>5, <1>6, ChasedOnly

-----------------------------------------------------------------------------
LEMMA ResetStep ==
  ASSUME CustomersInv, NEW p \in People, Reset(p)
  PROVE  CustomersInv'
<1> DEFINE doomed == [Idle EXCEPT !.pc = "doomed"]
<1>1. /\ customer' = [customer EXCEPT ![p] = Nobody]
      /\ thread' = [thread EXCEPT ![p] = [n \in Numbers |-> NoThread]]
      /\ links' = [t \in Tokens |-> IF links[t].of = p THEN NoLink ELSE links[t]]
      /\ slot' = [s \in Slots |-> IF slot[s].who = p /\ slot[s].facts.known THEN doomed ELSE slot[s]]
      /\ late' = {pn \in late : pn[1] # p} /\ handed' = {pn \in handed : pn[1] # p}
      /\ together' = together \ {p}
      /\ UNCHANGED <<issued, held, begun, unheard>>
  BY DEF Reset
<1>2. /\ doomed \in Session /\ doomed.pc = "doomed" /\ ~doomed.makes
      /\ NoLink \in Link /\ NoLink.of = None /\ None \notin People
      /\ ~NoLink.downloaded /\ ~NoLink.activated
  BY CustomersAssumption DEF Idle, Session, Nobody, Customer, NoLink, Link
<1>3. /\ Nobody \in Customer /\ ~Nobody.downloaded /\ ~Nobody.activated
      /\ NoThread \in OpenThread /\ NoThread.stage = "absent" /\ ~NoThread.chased
      /\ Len(NoThread.log) = 0
  BY DEF Nobody, Customer, NoThread, OpenThread
\* nothing of anybody else is touched, and no session that has read p's row goes on
<1>4. /\ customer'[p] = Nobody /\ \A q \in People \ {p} : customer'[q] = customer[q]
      /\ \A n \in Numbers : thread'[p][n] = NoThread
      /\ \A q \in People \ {p} : thread'[q] = thread[q]
      /\ \A t \in Tokens : links[t].of = p => links'[t] = NoLink
      /\ \A t \in Tokens : links[t].of # p => links'[t] = links[t]
  BY <1>1 DEF CustomersInv, RowsTyped
<1>5. \A s \in Slots : \/ slot'[s] = doomed
                       \/ slot'[s] = slot[s] /\ ~(slot[s].who = p /\ slot[s].facts.known)
  BY <1>1
<1> HIDE DEF doomed
<1>6. RowsTyped'
  <2>1. customer' \in [People -> Customer] /\ thread' \in [People -> [Numbers -> OpenThread]]
    BY <1>1, <1>3 DEF CustomersInv, RowsTyped
  <2>2. links' \in [Tokens -> Link] /\ slot' \in [Slots -> Session]
    BY <1>1, <1>2 DEF CustomersInv, RowsTyped
  <2>3. late' \subseteq People \X Numbers /\ handed' \subseteq People \X Numbers /\ together' \subseteq People
    BY <1>1 DEF CustomersInv, RowsTyped
  <2> QED BY <1>1, <2>1, <2>2, <2>3 DEF CustomersInv, RowsTyped
<1>7. RowsOwned'
  <2>1. \A q \in People : customer'[q].known \/ customer'[q] = Nobody
    BY <1>4 DEF CustomersInv, RowsOwned
  <2>2. \A q \in People, n \in Numbers :
          thread'[q][n] # NoThread => customer'[q].known /\ thread'[q][n].stage # "absent"
    BY <1>4 DEF CustomersInv, RowsOwned
  <2>3. \A q \in People : \A t \in Tokens : links'[t].of = q => customer'[q].known
    BY <1>2, <1>4 DEF CustomersInv, RowsOwned
  <2>4. \A t \in Tokens : links'[t].of = None \/ t > issued' => links'[t] = NoLink
    BY <1>1, <1>4 DEF CustomersInv, RowsOwned
  <2> QED BY <2>1, <2>2, <2>3, <2>4 DEF RowsOwned
<1>8. SessionsOK'
  <2> SUFFICES ASSUME NEW s \in Slots
               PROVE  TurnOK(s)' /\ TokenOK(s)' /\ WriteOK(s)' /\ ReportOK(s)' /\ ChaseOK(s)'
    BY DEF SessionsOK
  <2>1. CASE slot'[s] = doomed
    BY <1>2, <2>1 DEF TurnOK, TokenOK, WriteOK, ReportOK, ChaseOK, InTurn
  <2>2. CASE slot'[s] = slot[s] /\ ~(slot[s].who = p /\ slot[s].facts.known)
    <3>1. TurnOK(s)' /\ WriteOK(s)'
      BY <1>4, <2>2 DEF CustomersInv, SessionsOK, TurnOK, WriteOK, OnThread
    <3>2. ReportOK(s)' /\ ChaseOK(s)'
      BY <1>1, <1>4, <2>2 DEF CustomersInv, SessionsOK, ReportOK, ChaseOK, OnThread
    <3>3. slot[s].pc \in InTurn \cup {"reporting"} => slot[s].who \in People \ {p}
      BY <2>2 DEF CustomersInv, SessionsOK, TurnOK, ReportOK, OnThread
    <3>4. ASSUME slot[s].makes
          PROVE  /\ slot[s].pc \in InTurn
                 /\ slot[s].token \in Tokens /\ slot[s].token <= issued'
                 /\ links'[slot[s].token] = NoLink
                 /\ slot[s].who \in together' \/ \A t \in Tokens : links'[t].of # slot[s].who
      <4>1. /\ slot[s].pc \in InTurn
            /\ slot[s].token \in Tokens /\ slot[s].token <= issued
            /\ links[slot[s].token] = NoLink
            /\ slot[s].who \in together \/ \A t \in Tokens : links[t].of # slot[s].who
        BY <3>4 DEF CustomersInv, SessionsOK, TokenOK
      <4> QED BY <1>1, <1>2, <1>4, <3>3, <4>1
    <3>5. ASSUME slot[s].pc \in InTurn \cup {"reporting"}, ~slot[s].makes, slot[s].token # None
          PROVE  links'[slot[s].token].of = slot[s].who
      <4>1. links[slot[s].token].of = slot[s].who /\ slot[s].token \in Tokens
        BY <3>5 DEF CustomersInv, SessionsOK, TokenOK, RowsTyped, Session
      <4> QED BY <1>4, <3>3, <3>5, <4>1
    <3> QED BY <2>2, <3>1, <3>2, <3>4, <3>5 DEF TokenOK
  <2> QED BY <1>5, <2>1, <2>2
<1>9. SessionsApart'
  <2> SUFFICES ASSUME NEW q \in Slots, NEW r \in Slots, q # r
               PROVE  Apart(q, r)'
    BY DEF SessionsApart
  <2>1. CASE slot'[q] = doomed \/ slot'[r] = doomed
    BY <1>2, <2>1 DEF Apart, InTurn
  <2>2. CASE /\ slot'[q] = slot[q] /\ slot'[r] = slot[r]
             /\ ~(slot[r].who = p /\ slot[r].facts.known)
    <3>1. slot[r].makes \/ slot[r].pc = "chasing" => slot[r].who # p
      BY <2>2 DEF CustomersInv, SessionsOK, TokenOK, TurnOK, ChaseOK, OnThread
    <3> QED BY <1>1, <2>2, <3>1 DEF CustomersInv, SessionsApart, Apart
  <2> QED BY <1>5, <2>1, <2>2
<1>10. LogsShort'
  <2>1. begun' = begun /\ begun \in Nat
    BY <1>1, CustomersAssumption DEF CustomersInv, RowsTyped
  <2>2. \A q \in People, n \in Numbers : Len(thread'[q][n].log) <= begun'
    BY <1>3, <1>4, <2>1 DEF CustomersInv, LogsShort
  <2>3. ASSUME NEW s \in Slots, slot'[s].pc \in InTurn
        PROVE  Len(thread'[slot'[s].who][slot'[s].on].log) < begun'
    <3>1. slot'[s] = slot[s] /\ slot[s].who \in People \ {p}
      BY <1>2, <1>5, <2>3 DEF CustomersInv, SessionsOK, TurnOK, OnThread, InTurn
    <3> QED BY <1>4, <2>1, <2>3, <3>1 DEF CustomersInv, LogsShort
  <2> QED BY <2>2, <2>3 DEF LogsShort
<1>11. LinkTellsTheTruth'
  <2>1. \A q \in People : customer'[q].activated => customer'[q].downloaded
    BY <1>3, <1>4 DEF CustomersInv, LinkTellsTheTruth
  <2>2. ASSUME NEW t \in Tokens
        PROVE  /\ links'[t].activated => links'[t].downloaded
               /\ links'[t].downloaded => customer'[links'[t].of].downloaded
               /\ links'[t].activated => customer'[links'[t].of].activated
    <3>1. links[t].of # None => links[t].of \in People
      BY DEF CustomersInv, RowsTyped, Link
    <3>2. links[t].of = None => links[t] = NoLink
      BY DEF CustomersInv, RowsOwned
    <3> QED BY <1>2, <1>4, <3>1, <3>2 DEF CustomersInv, LinkTellsTheTruth
  <2> QED BY <2>1, <2>2 DEF LinkTellsTheTruth
<1>12. InstallReachesThreads'
  <2> SUFFICES ASSUME NEW q \in People, NEW n \in Numbers,
                      customer'[q].downloaded, thread'[q][n] # NoThread,
                      <<q, n>> \notin late', <<q, n>> \notin handed'
               PROVE  thread'[q][n].stage \in {"downloaded", "activated"}
    BY DEF InstallReachesThreads, Threads
  <2>1. q # p
    BY <1>3, <1>4
  <2>2. <<q, n>> \notin late /\ <<q, n>> \notin handed
    BY <1>1, <2>1
  <2> QED BY <1>4, <2>1, <2>2 DEF CustomersInv, InstallReachesThreads, Threads
<1>13. NoneClosed' /\ OneRow' /\ OneNudge'
  <2>1. NoneClosed'
    BY <1>3, <1>4 DEF CustomersInv, NoneClosed
  <2>2. OneRow'
    BY <1>1, <1>2, <1>4 DEF CustomersInv, OneRow
  <2>3. OneNudge'
    BY <1>1, <1>3, <1>4 DEF CustomersInv, OneNudge
  <2> QED BY <2>1, <2>2, <2>3
<1> QED BY <1>6, <1>7, <1>8, <1>9, <1>10, <1>11, <1>12, <1>13 DEF CustomersInv

-----------------------------------------------------------------------------
(* Every step keeps the invariant, and it holds at the start.               *)
LEMMA CustomersStep ==
  ASSUME CustomersInv, [Next]_vars
  PROVE  CustomersInv'
<1>1. CASE \E s \in Slots, p \in People, n \in Numbers :
             \/ LoadCustomer(s, p, n) \/ LoadLink(s, p, n) \/ LoadReminder(s, p, n)
             \/ \E suggested \in Suggests : LoadTurn(s, p, n, suggested)
  BY <1>1, LoadCustomerStep, LoadLinkStep, LoadReminderStep, LoadTurnStep
<1>2. CASE \E s \in Slots : \/ StoreMessage(s) \/ StoreTurn(s) \/ StoreReport(s) \/ SendReminder(s)
                            \/ Abort(s)
  BY <1>2, StoreMessageStep, StoreTurnStep, StoreReportStep, SendReminderStep, AbortStep
<1>3. CASE \E s \in Slots, delivered, heard \in BOOLEAN : SendLink(s, delivered, heard)
  BY <1>3, SendLinkStep
<1>4. CASE Reports
  <2>1. PICK s \in Slots, level \in {"downloaded", "activated"}, t \in held \cup {None},
             typed \in {None} \cup UNION {Typed[p] : p \in People} : LoadReport(s, level, t, typed)
    BY <1>4 DEF Reports
  <2> QED BY <2>1, LoadReportStep
<1>5. CASE \E t \in Tokens : Click(t)
  BY <1>5, ClickStep
<1>6. CASE \E p \in People, n \in Numbers : QuietPeriodEnds(p, n)
  BY <1>6, QuietPeriodStep
<1>7. CASE \E p \in People : Reset(p)
  BY <1>7, ResetStep
<1>8. CASE UNCHANGED vars
  <2>1. UNCHANGED <<customer, thread, links, issued, held, slot, begun, late, handed, together, unheard>>
    BY <1>8 DEF vars, tables, history
  <2>2. RowsTyped' /\ RowsOwned' /\ LogsShort' /\ LinkTellsTheTruth' /\ InstallReachesThreads'
    BY <2>1 DEF CustomersInv, RowsTyped, RowsOwned, LogsShort, LinkTellsTheTruth, InstallReachesThreads, Threads
  <2>3. SessionsOK'
    BY <2>1 DEF CustomersInv, SessionsOK, TurnOK, TokenOK, WriteOK, ReportOK, ChaseOK, OnThread
  <2>4. SessionsApart' /\ NoneClosed' /\ OneRow' /\ OneNudge'
    BY <2>1 DEF CustomersInv, SessionsApart, Apart, NoneClosed, OneRow, OneNudge
  <2> QED BY <2>2, <2>3, <2>4 DEF CustomersInv
<1> QED BY <1>1, <1>2, <1>3, <1>4, <1>5, <1>6, <1>7, <1>8 DEF Next

LEMMA CustomersStart == Init => CustomersInv
<1> SUFFICES ASSUME Init PROVE CustomersInv
  OBVIOUS
<1>1. /\ Nobody \in Customer /\ ~Nobody.downloaded /\ ~Nobody.activated
      /\ NoLink \in Link /\ NoLink.of = None /\ ~NoLink.downloaded /\ ~NoLink.activated
      /\ Idle \in Session /\ Idle.pc = "idle" /\ ~Idle.makes /\ None \notin People
  BY CustomersAssumption, IdleFacts DEF Nobody, Customer, NoLink, Link
<1>2. PICK known \in [People -> BOOLEAN] :
        customer = [p \in People |-> [Nobody EXCEPT !.known = known[p]]]
  BY DEF Init
<1>3. /\ customer \in [People -> Customer]
      /\ \A p \in People : /\ ~customer[p].downloaded /\ ~customer[p].activated
                           /\ customer[p].known \/ customer[p] = Nobody
  <2>1. \A p \in People : customer[p] = [known |-> known[p], downloaded |-> FALSE, activated |-> FALSE]
    BY <1>2 DEF Nobody
  <2>2. ASSUME NEW p \in People
        PROVE  /\ customer[p] \in Customer
               /\ customer[p].known \/ customer[p] = Nobody
    <3>1. known[p] = TRUE \/ known[p] = FALSE
      BY <1>2
    <3>2. CASE known[p] = TRUE
      <4>1. customer[p] = [known |-> TRUE, downloaded |-> FALSE, activated |-> FALSE]
        BY <2>1, <3>2
      <4> QED BY <4>1 DEF Customer
    <3>3. CASE known[p] = FALSE
      <4>1. customer[p] = [known |-> FALSE, downloaded |-> FALSE, activated |-> FALSE]
        BY <2>1, <3>3
      <4> QED BY <4>1 DEF Customer, Nobody
    <3> QED BY <3>1, <3>2, <3>3
  <2> QED BY <1>2, <2>1, <2>2
<1>4. \A p \in People, n \in Numbers :
        /\ thread[p][n] \in OpenThread /\ ~thread[p][n].chased /\ Len(thread[p][n].log) = 0
        /\ thread[p][n].stage = "absent" => thread[p][n] = NoThread
        /\ thread[p][n] # NoThread => customer[p].known
  <2> SUFFICES ASSUME NEW p \in People, NEW n \in Numbers
               PROVE  /\ thread[p][n] \in OpenThread /\ ~thread[p][n].chased /\ Len(thread[p][n].log) = 0
                      /\ thread[p][n].stage = "absent" => thread[p][n] = NoThread
                      /\ thread[p][n] # NoThread => customer[p].known
    OBVIOUS
  <2>1. PICK s \in Starts : thread[p][n] = [NoThread EXCEPT !.stage = s]
    <3> DEFINE Opened == {[NoThread EXCEPT !.stage = s] : s \in Starts}
    <3>1. thread \in [People -> [Numbers -> Opened]]
      BY DEF Init
    <3> HIDE DEF Opened
    <3>2. thread[p][n] \in Opened
      BY <3>1
    <3> QED BY <3>2 DEF Opened
  <2>2. s \in Stages \cup {"absent"}
    BY CustomersAssumption
  <2>3. thread[p][n] = [stage |-> s, log |-> <<>>, chased |-> FALSE]
    BY <2>1 DEF NoThread
  <2>4. thread[p][n] # NoThread => customer[p].known
    BY DEF Init
  <2>5. thread[p][n] \in OpenThread
    BY <2>2, <2>3 DEF OpenThread
  <2>6. ~thread[p][n].chased /\ Len(thread[p][n].log) = 0
    BY <2>3
  <2>7. thread[p][n].stage = "absent" => thread[p][n] = NoThread
    BY <2>3 DEF NoThread
  <2> QED BY <2>4, <2>5, <2>6, <2>7
<1>5. thread \in [People -> [Numbers -> OpenThread]]
  BY <1>4 DEF Init
<1>6. /\ links \in [Tokens -> Link] /\ \A t \in Tokens : links[t] = NoLink
      /\ slot \in [Slots -> Session] /\ \A s \in Slots : slot[s] = Idle
      /\ issued = 0 /\ held = {} /\ begun = 0
      /\ late = {} /\ handed = {} /\ together = {} /\ unheard = {}
  BY <1>1 DEF Init
<1>7. RowsTyped
  BY <1>3, <1>5, <1>6, CustomersAssumption DEF RowsTyped
<1>8. RowsOwned
  BY <1>1, <1>3, <1>4, <1>6 DEF RowsOwned
<1>9. SessionsOK /\ SessionsApart
  BY <1>1, <1>6 DEF SessionsOK, SessionsApart, Apart, TurnOK, TokenOK, WriteOK, ReportOK, ChaseOK, InTurn
<1>10. LogsShort
  BY <1>1, <1>4, <1>6 DEF LogsShort, InTurn
<1>11. LinkTellsTheTruth /\ InstallReachesThreads /\ NoneClosed
  BY <1>1, <1>3, <1>6 DEF LinkTellsTheTruth, InstallReachesThreads, NoneClosed
<1>12. OneRow /\ OneNudge
  BY <1>1, <1>4, <1>6 DEF OneRow, OneNudge
<1> QED BY <1>7, <1>8, <1>9, <1>10, <1>11, <1>12 DEF CustomersInv

(* What one session commits never breaks what another has read: for any     *)
(* people, numbers, sessions and bounds.                                    *)
LEMMA CustomersInvHolds == Spec => []CustomersInv
BY CustomersStart, CustomersStep, PTL DEF Spec

-----------------------------------------------------------------------------
(* The tables stay well typed, and a thread's log has no more entries than  *)
(* sessions were begun.                                                     *)
THEOREM CustomersTypeCorrect == Spec => []CustomersTypeOK
<1>1. CustomersInv => CustomersTypeOK
  <2> SUFFICES ASSUME CustomersInv PROVE CustomersTypeOK
    OBVIOUS
  <2>1. \A p \in People, n \in Numbers : thread[p][n] \in Thread
    <3> SUFFICES ASSUME NEW p \in People, NEW n \in Numbers
                 PROVE  thread[p][n] \in Thread
      OBVIOUS
    <3>1. thread[p][n] \in OpenThread /\ Len(thread[p][n].log) <= begun
      BY DEF CustomersInv, RowsTyped, LogsShort
    <3> DEFINE log == thread[p][n].log
               k == Len(log)
    <3>2. log \in Seq({"reply", "link"}) /\ k \in 0..MaxSessions
      BY <3>1, CustomersAssumption DEF OpenThread, CustomersInv, RowsTyped
    <3>3. log \in [1..k -> {"reply", "link"}]
      BY <3>2
    <3>4. log \in UNION {[1..j -> {"reply", "link"}] : j \in 0..MaxSessions}
      <4> HIDE DEF k, log
      <4> QED BY <3>2, <3>3
    <3> QED BY <3>1, <3>4 DEF OpenThread, Thread
  <2>2. thread \in [People -> [Numbers -> Thread]]
    BY <2>1 DEF CustomersInv, RowsTyped
  <2> QED BY <2>2 DEF CustomersInv, RowsTyped, CustomersTypeOK
<1> QED BY <1>1, CustomersInvHolds, PTL

(* The row shows a customer who installed by a thread that says so: none of *)
(* theirs is closed, and only a closed one would stand before it.           *)
LEMMA BestIsTheSale ==
  ASSUME CustomersInv, NEW p \in People, NEW n \in Threads(p), customer[p].downloaded,
         thread[p][n].stage \in {"downloaded", "activated"}
  PROVE  BestStage(p) \in {"downloaded", "activated"}
<1> DEFINE stages == {thread[p][m].stage : m \in Threads(p)}
           best == IF "activated" \in stages THEN "activated" ELSE "downloaded"
<1>1. stages \subseteq Stages \ {"closed"}
  <2> SUFFICES ASSUME NEW m \in Threads(p)
               PROVE  thread[p][m].stage \in Stages \ {"closed"}
    OBVIOUS
  <2>1. m \in Numbers /\ thread[p][m] # NoThread
    BY DEF Threads
  <2>2. thread[p][m] \in OpenThread /\ thread[p][m].stage \notin {"absent", "closed"}
    BY <2>1 DEF CustomersInv, RowsTyped, RowsOwned, NoneClosed
  <2> QED BY <2>2 DEF OpenThread
<1>2. best \in stages
  BY DEF Threads
<1> HIDE DEF stages
<1>3. \A t \in stages : StageOrder[t] <= StageOrder[best]
  BY <1>1, <1>2 DEF StageOrder, Stages
<1>4. \A s \in stages : (\A t \in stages : StageOrder[t] <= StageOrder[s]) => s \in {"downloaded", "activated"}
  BY <1>1, <1>2 DEF StageOrder, Stages
<1>5. BestStage(p) = CHOOSE s \in stages : \A t \in stages : StageOrder[t] <= StageOrder[s]
  BY DEF BestStage, stages
<1> QED BY <1>2, <1>3, <1>4, <1>5

(* An install is one fact: the link, the person, the threads and the row    *)
(* that the operators read agree on it, whatever sessions were open when it *)
(* was reported, but for the threads that late and handed name.             *)
THEOREM OneInstall == Spec => []InstallIsOneFact
<1>1. CustomersInv => InstallIsOneFact
  <2> SUFFICES ASSUME CustomersInv PROVE InstallIsOneFact
    OBVIOUS
  <2>1. RowShowsTheSale
    <3> SUFFICES ASSUME NEW p \in Known, customer[p].downloaded,
                        NEW n \in Threads(p), <<p, n>> \notin late \cup handed
                 PROVE  CustomerRow(p).stage \in {"downloaded", "activated"}
      BY DEF RowShowsTheSale
    <3>1. p \in People /\ n \in Numbers
      BY DEF Known, Threads
    <3>2. thread[p][n].stage \in {"downloaded", "activated"}
      BY <3>1 DEF CustomersInv, InstallReachesThreads
    <3>3. BestStage(p) \in {"downloaded", "activated"}
      BY <3>1, <3>2, BestIsTheSale
    <3>4. CustomerRow(p).stage = BestStage(p)
      BY DEF CustomerRow
    <3> QED BY <3>3, <3>4
  <2> QED BY <2>1 DEF CustomersInv, InstallIsOneFact
<1> QED BY <1>1, CustomersInvHolds, PTL

(* A person has one link, and one that was sent is known to have been sent, *)
(* unless two of their threads made one at once.                            *)
THEOREM OneLinkEach == Spec => []OneLink
<1>1. CustomersInv => OneLink
  <2> SUFFICES ASSUME CustomersInv, NEW p \in People \ together
               PROVE  /\ Cardinality(LinksOf(p)) <= 1
                      /\ (\E t \in LinksOf(p) : links[t].sent) => HasLinkBeenSent(p)
    BY DEF OneLink
  <2>1. \A t, u \in LinksOf(p) : t = u
    BY DEF CustomersInv, OneRow, LinksOf
  <2>2. CASE LinksOf(p) = {}
    BY <2>2, FS_EmptySet
  <2>3. CASE LinksOf(p) # {}
    <3>1. PICK t \in LinksOf(p) : LinksOf(p) = {t}
      BY <2>1, <2>3
    <3>2. Cardinality(LinksOf(p)) = 1
      BY <3>1, FS_Singleton
    <3>3. ActiveLink(p) = t /\ t # None
      BY <2>3, <3>1, ActiveLinkFacts, CustomersAssumption DEF Tokens
    <3> QED BY <3>1, <3>2, <3>3 DEF HasLinkBeenSent
  <2> QED BY <2>2, <2>3
<1> QED BY <1>1, CustomersInvHolds, PTL

(* Within the quiet period no two threads of a person are chased, unless    *)
(* both came due together.                                                  *)
THEOREM OneNudgeEach == Spec => []OneNudge
<1>1. CustomersInv => OneNudge
  BY DEF CustomersInv
<1> QED BY <1>1, CustomersInvHolds, PTL

(* Whoever's full number is nobody else's is found by it, and what they     *)
(* type of it, with zeros in front or the country code left out, never      *)
(* finds anybody else by its ending.                                        *)
THEOREM NumbersFindTheirOwner ==
  ASSUME IsFiniteSet(People),
         \A p, q \in People : PhoneOf[p] = PhoneOf[q] => p = q,
         \A p \in People : PhoneOf[p] # <<>> /\ Normalised(PhoneOf[p]) = PhoneOf[p],
         \A p \in People : \A typed \in Typed[p] :
           LET suffix == WithoutZeros(Normalised(typed))
           IN  /\ Len(suffix) >= MinSuffixDigits /\ IsSuffix(suffix, PhoneOf[p])
               /\ Len(PhoneOf[p]) <= Len(suffix) + MaxCountryCodeDigits
  PROVE  Spec => []PhoneFindsOwner
<1>1. PhoneFindsOwner
  <2> SUFFICES ASSUME NEW p \in DOMAIN Book
               PROVE  \A typed \in Typed[p] :
                        /\ ResolveByPhone(Book, typed) \subseteq {p} \cup ByPhone(Book, typed)
                        /\ ResolveByPhone(Book, PhoneOf[p]) = {p}
    BY DEF PhoneFindsOwner
  <2>1. p \in People /\ \A q \in DOMAIN Book : q \in People /\ Book[q] = PhoneOf[q]
    BY DEF Book
  <2>2. ASSUME NEW typed \in Typed[p]
        PROVE  ResolveByPhone(Book, typed) \subseteq {p} \cup ByPhone(Book, typed)
    <3>1. p \in BySuffix(Book, typed)
      BY <2>1 DEF BySuffix
    <3>2. Cardinality(BySuffix(Book, typed)) = 1 => BySuffix(Book, typed) = {p}
      <4>1. ASSUME Cardinality(BySuffix(Book, typed)) = 1
            PROVE  BySuffix(Book, typed) = {p}
        <5>1. IsFiniteSet(BySuffix(Book, typed))
          BY <2>1, FS_Subset DEF BySuffix
        <5> QED BY <3>1, <4>1, <5>1, FS_Singleton
      <4> QED BY <4>1
    <3> QED BY <3>2 DEF ResolveByPhone
  <2>3. ByPhone(Book, PhoneOf[p]) = {p}
    BY <2>1 DEF ByPhone
  <2>4. ResolveByPhone(Book, PhoneOf[p]) = {p}
    BY <2>3 DEF ResolveByPhone
  <2> QED BY <2>2, <2>4
<1> QED BY <1>1, PTL

=============================================================================
