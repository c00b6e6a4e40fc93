------------------------ MODULE WebhookIntake_proofs ------------------------
(***************************************************************************)
(* WebhookIntake for any items, handlers and bounds: the handlers and the  *)
(* worker together are an inbox, and without the Redis guard nothing that  *)
(* was acknowledged is missing from the table.                             *)
(*                                                                         *)
(* The argument is about keys.  A key that a request has inserted is in no *)
(* other request: before the commit the unique constraint keeps others     *)
(* waiting, and after it the row is there for them to find.                *)
(***************************************************************************)
EXTENDS WebhookIntake, WebhookInbox_proofs

Good == Parsed(Items)

RequestsTyped ==
  /\ req \in [Handlers -> Request]
  /\ \A h \in Handlers : /\ req[h].left \subseteq Good /\ req[h].fresh \subseteq Good
                         /\ req[h].pc = "idle" => req[h].fresh = {}

(* What a request holds is, before its commit, not in the table, and after  *)
(* it, there.                                                               *)
HeldByPhase ==
  \A h \in Handlers : \A i \in req[h].fresh :
     /\ req[h].pc = "reading" => ~Stored(EventKey(i))
     /\ req[h].pc = "pushing" => Stored(EventKey(i))

OneOfEach ==
  \A h \in Handlers : \A i, j \in req[h].fresh : EventKey(i) = EventKey(j) => i = j

Apart ==
  \A g, h \in Handlers : g # h =>
     \A i \in req[g].fresh, j \in req[h].fresh : EventKey(i) # EventKey(j)

OwedIsHeld ==
  \A k \in Keys : k \in owed <=> \E h \in Handlers : /\ req[h].pc = "pushing"
                                                     /\ k \in KeysOf(req[h].fresh)

IntakeInv ==
  /\ TypeOK /\ FreshInv /\ RequestsTyped
  /\ payload \in [Keys -> Items \cup {NoItem}]
  /\ acked \subseteq Items /\ guard \subseteq Keys /\ failures \in 0..MaxFailures
  /\ HeldByPhase /\ OneOfEach /\ Apart /\ OwedIsHeld

-----------------------------------------------------------------------------
LEMMA GoodKeys == \A i \in Good : i \in Items /\ Understood(i) /\ EventKey(i) \in Keys
BY ItemsAssumption DEF Good, Parsed

LEMMA KeysOfFact == \A S, k : k \in KeysOf(S) <=> \E i \in S : EventKey(i) = k
BY DEF KeysOf

(* A row that is there stays, and only the API adds one.                     *)
LEMMA StoredStays ==
  ASSUME TypeOK, FreshInv, WorkerNext \/ RedisFlush, NEW k \in Keys
  PROVE  Stored(k)' = Stored(k)
<1>1. CASE Tick \/ RedisFlush
  BY <1>1 DEF Tick, RedisFlush, Stored
<1>2. ASSUME NEW w \in Workers, SlotStep(w) PROVE Stored(k)' = Stored(k)
  <2>1. CASE Claim(w)
    BY <2>1 DEF Claim, Claimable, Stored, TypeOK, Row
  <2>2. CASE FlushRow(w)
    <3> DEFINE j == slot[w].job
               new == Flushed(rows[j], slot[w].seen, Marked(slot[w].seen, slot[w].outcome))
    <3>1. rows' = [rows EXCEPT ![j] = new] /\ slot[w].seen \in Row /\ slot[w].outcome \in Outcomes
      BY <2>2 DEF FlushRow, TypeOK, Slot
    <3>2. j \in Keys /\ Stored(j)
      BY <2>2 DEF FlushRow, TypeOK, FreshInv, Holds
    <3>3. new.status \in {"processed", "failed", rows[j].status}
      BY <3>1, <3>2, FlushedRow DEF TypeOK
    <3> HIDE DEF new, j
    <3> QED BY <3>1, <3>2, <3>3 DEF Stored, TypeOK
  <2> QED BY <1>2, <2>1, <2>2 DEF SlotStep, Dequeue, TurnEnds, LoadRow, Crash, Stored
<1>3. ASSUME NEW s \in Schedulers, SweepStep(s) PROVE Stored(k)' = Stored(k)
  <2>1. CASE SweepReset(s)
    BY <2>1 DEF SweepReset, Resettable, Stored, TypeOK, Row
  <2> QED BY <1>3, <2>1
          DEF SweepStep, SweepSelect, SchedulerCrash, SweepEnqueue, SweepEnqueueLost, Stored
<1> QED BY <1>1, <1>2, <1>3 DEF WorkerNext

(* The inbox goes on as WebhookInbox has it, whatever the requests do.       *)
LEMMA InboxGoesOn ==
  ASSUME TypeOK, FreshInv, [Next]_vars
  PROVE  TypeOK' /\ FreshInv'
BY TypeStep, FreshStep

(* A request that only reads, or ends: nothing it holds is new.              *)
LEMMA RequestStep ==
  ASSUME IntakeInv, NEW h \in Handlers, NEW r \in Request, req' = [req EXCEPT ![h] = r],
         UNCHANGED <<vars, payload, guard>>, acked' \subseteq Items, failures' \in 0..MaxFailures,
         r.left \subseteq Good, r.fresh \subseteq req[h].fresh,
         r.pc = "idle" => r.fresh = {},
         r.fresh # {} => r.pc = req[h].pc,
         req[h].pc = "pushing" => r.fresh = req[h].fresh
  PROVE  IntakeInv'
<1>1. req'[h] = r /\ \A g \in Handlers \ {h} : req'[g] = req[g]
  BY DEF IntakeInv, RequestsTyped
<1>2. TypeOK' /\ FreshInv'
  BY InboxGoesOn DEF IntakeInv
<1>3. RequestsTyped'
  BY <1>1 DEF IntakeInv, RequestsTyped, Good
<1>4. HeldByPhase'
  BY <1>1 DEF IntakeInv, HeldByPhase, Stored, vars
<1>5. OneOfEach' /\ Apart'
  BY <1>1 DEF IntakeInv, OneOfEach, Apart
<1>6. OwedIsHeld'
  <2> SUFFICES ASSUME NEW k \in Keys
               PROVE  k \in owed <=> \E g \in Handlers : /\ req'[g].pc = "pushing"
                                                         /\ k \in KeysOf(req'[g].fresh)
    BY DEF OwedIsHeld, vars, KeysOf
  <2>1. \A g \in Handlers : /\ req'[g].pc = "pushing" /\ k \in KeysOf(req'[g].fresh)
                            <=> req[g].pc = "pushing" /\ k \in KeysOf(req[g].fresh)
    BY <1>1, KeysOfFact
  <2> QED BY <2>1 DEF IntakeInv, OwedIsHeld
<1> QED BY <1>2, <1>3, <1>4, <1>5, <1>6 DEF IntakeInv

LEMMA DeliverStep ==
  ASSUME IntakeInv, NEW h \in Handlers, NEW B \in SUBSET Items, Deliver(h, B)
  PROVE  IntakeInv'
<1> DEFINE r == [NoRequest EXCEPT !.pc = "reading", !.batch = B, !.left = Parsed(B)]
<1>1. /\ r \in Request /\ r.left \subseteq Good /\ r.fresh = {} /\ r.pc = "reading"
  BY DEF NoRequest, Request, Parsed, Good
<1>2. req' = [req EXCEPT ![h] = r] /\ req[h].pc = "idle"
      /\ UNCHANGED <<vars, payload, acked, guard, failures>>
  BY DEF Deliver
<1> HIDE DEF r
<1> QED BY <1>1, <1>2, RequestStep DEF IntakeInv

LEMMA SkipStep ==
  ASSUME IntakeInv, NEW h \in Handlers, NEW i \in Items, Skip(h, i)
  PROVE  IntakeInv'
<1> DEFINE r == [req[h] EXCEPT !.left = @ \ {i}]
<1>1. /\ req[h] \in Request /\ req[h].pc = "reading" /\ req[h].left \subseteq Good
      /\ req' = [req EXCEPT ![h] = r]
      /\ UNCHANGED <<vars, payload, acked, guard, failures>>
  BY DEF Skip, IntakeInv, RequestsTyped
<1>2. r \in Request /\ r.left \subseteq Good /\ r.fresh = req[h].fresh /\ r.pc = "reading"
  BY <1>1 DEF Request
<1> HIDE DEF r
<1> QED BY <1>1, <1>2, RequestStep DEF IntakeInv

(* A request that is rolled back or answered.                                *)
LEMMA EndStep ==
  ASSUME IntakeInv, NEW h \in Handlers, Fail(h) \/ DeadlockAbort(h) \/ Respond(h)
  PROVE  IntakeInv'
<1>1. /\ NoRequest \in Request /\ NoRequest.pc = "idle"
      /\ NoRequest.left = {} /\ NoRequest.fresh = {}
  BY DEF NoRequest, Request
<1>2. /\ req' = [req EXCEPT ![h] = NoRequest]
      /\ UNCHANGED <<vars, payload, guard>>
      /\ req[h].pc = "pushing" => req[h].fresh = {}
  BY DEF Fail, DeadlockAbort, WaitsFor, Respond, MayAnswer
<1>3. req[h].batch \subseteq Items
  BY DEF IntakeInv, RequestsTyped, Request
<1>4. acked' \subseteq Items /\ failures' \in 0..MaxFailures
  BY <1>3, IntakeAssumption DEF Fail, DeadlockAbort, Respond, IntakeInv
<1> QED BY <1>1, <1>2, <1>4, RequestStep

(* An insert: what the request adds is in no other request and not in the    *)
(* table.                                                                    *)
LEMMA RecordStep ==
  ASSUME IntakeInv, NEW h \in Handlers, NEW i \in Items, Record(h, i)
  PROVE  IntakeInv'
<1> DEFINE r == [req[h] EXCEPT !.left = @ \ {i}, !.fresh = @ \cup Inserted(h, i)]
<1>1. /\ req[h] \in Request /\ req[h].pc = "reading" /\ i \in req[h].left /\ i \in Good
      /\ req[h].left \subseteq Good /\ req[h].fresh \subseteq Good
      /\ req' = [req EXCEPT ![h] = r]
      /\ Inserting(h, EventKey(i)) = {}
      /\ guard' \in {guard, guard \cup {EventKey(i)}}
      /\ UNCHANGED <<vars, payload, acked, failures>>
  BY DEF Record, IntakeInv, RequestsTyped
<1>2. Inserted(h, i) \subseteq {i}
      /\ (Inserted(h, i) # {} => ~Stored(EventKey(i)) /\ EventKey(i) \notin KeysOf(req[h].fresh))
  BY DEF Inserted
<1>3. /\ r \in Request /\ r.pc = "reading" /\ r.left \subseteq Good
      /\ r.fresh = req[h].fresh \cup Inserted(h, i)
  BY <1>1, <1>2 DEF Request
<1> HIDE DEF r
<1>4. req'[h] = r /\ \A g \in Handlers \ {h} : req'[g] = req[g]
  BY <1>1 DEF IntakeInv, RequestsTyped
<1>5. TypeOK' /\ FreshInv'
  BY <1>1, InboxGoesOn DEF IntakeInv
<1>6. RequestsTyped' /\ guard' \subseteq Keys
  BY <1>1, <1>2, <1>3, <1>4, GoodKeys DEF IntakeInv, RequestsTyped, Good
<1>7. HeldByPhase'
  BY <1>1, <1>2, <1>3, <1>4 DEF IntakeInv, HeldByPhase, Stored, vars
<1>8. OneOfEach'
  BY <1>2, <1>3, <1>4, KeysOfFact DEF IntakeInv, OneOfEach
<1>9. \A g \in Handlers \ {h} : \A j \in req[g].fresh :
         Inserted(h, i) # {} => EventKey(j) # EventKey(i)
  <2> SUFFICES ASSUME NEW g \in Handlers \ {h}, NEW j \in req[g].fresh, Inserted(h, i) # {},
                      EventKey(j) = EventKey(i)
               PROVE  FALSE
    OBVIOUS
  <2>1. req[g].pc # "reading"
    BY <1>1, KeysOfFact DEF Inserting
  <2>2. req[g].pc = "pushing"
    BY <2>1 DEF IntakeInv, RequestsTyped, Request
  <2> QED BY <1>2, <2>2 DEF IntakeInv, HeldByPhase
<1>10. Apart'
  BY <1>2, <1>3, <1>4, <1>9 DEF IntakeInv, Apart
<1>11. OwedIsHeld'
  <2> SUFFICES ASSUME NEW k \in Keys
               PROVE  k \in owed <=> \E g \in Handlers : /\ req'[g].pc = "pushing"
                                                         /\ k \in KeysOf(req'[g].fresh)
    BY <1>1 DEF OwedIsHeld, vars, KeysOf
  <2>1. \A g \in Handlers : /\ req'[g].pc = "pushing" /\ k \in KeysOf(req'[g].fresh)
                            <=> req[g].pc = "pushing" /\ k \in KeysOf(req[g].fresh)
    BY <1>1, <1>3, <1>4
  <2> QED BY <2>1 DEF IntakeInv, OwedIsHeld
<1> QED BY <1>1, <1>5, <1>6, <1>7, <1>8, <1>10, <1>11 DEF IntakeInv

(* The commit makes rows of what one request holds and nobody else does.     *)
LEMMA CommitFacts ==
  ASSUME IntakeInv, NEW h \in Handlers, Commit(h)
  PROVE  /\ req' = [req EXCEPT ![h].pc = "pushing"]
         /\ req[h].pc = "reading" /\ req[h].left = {}
         /\ KeysOf(req[h].fresh) \subseteq Keys
         /\ \A k \in Keys : Stored(k)' <=> Stored(k) \/ k \in KeysOf(req[h].fresh)
         /\ owed' = owed \cup KeysOf(req[h].fresh)
         /\ payload' \in [Keys -> Items \cup {NoItem}]
         /\ UNCHANGED <<acked, guard, failures>>
         /\ [Next]_vars
<1> DEFINE new == KeysOf(req[h].fresh)
<1>1. /\ req[h].pc = "reading" /\ req[h].left = {}
      /\ req' = [req EXCEPT ![h].pc = "pushing"]
      /\ rows' = [k \in Keys |-> IF k \in new THEN Fresh(clock + 1) ELSE rows[k]]
      /\ payload' = [k \in Keys |-> IF k \in new THEN CHOOSE i \in req[h].fresh : EventKey(i) = k
                                    ELSE payload[k]]
      /\ clock' = IF req[h].fresh = {} THEN clock ELSE clock + 1
      /\ owed' = owed \cup new
      /\ UNCHANGED <<cutoff, queue, slot, selected, requeue, crashes, losses>>
      /\ UNCHANGED <<acked, guard, failures>>
  BY DEF Commit
<1>2. new \subseteq Keys /\ req[h].fresh \subseteq Items
  BY GoodKeys, KeysOfFact DEF IntakeInv, RequestsTyped
<1>3. \A k \in new : ~Stored(k)
  BY <1>1, KeysOfFact DEF IntakeInv, HeldByPhase
<1>4. \A k \in new : (CHOOSE i \in req[h].fresh : EventKey(i) = k) \in Items
  <2> SUFFICES ASSUME NEW k \in new
               PROVE  (CHOOSE i \in req[h].fresh : EventKey(i) = k) \in Items
    OBVIOUS
  <2>1. PICK i \in req[h].fresh : EventKey(i) = k
    BY KeysOfFact
  <2> QED BY <1>2, <2>1
<1>5. payload' \in [Keys -> Items \cup {NoItem}]
  BY <1>1, <1>4 DEF IntakeInv
<1>6. \A k \in Keys : Stored(k)' <=> Stored(k) \/ k \in new
  BY <1>1 DEF Stored, Fresh
<1>7. new = {} <=> req[h].fresh = {}
  BY KeysOfFact
<1>8. CASE new = {}
  <2>1. rows' = rows
    BY <1>1, <1>8 DEF IntakeInv, TypeOK
  <2> QED BY <1>1, <1>2, <1>5, <1>6, <1>7, <1>8, <2>1 DEF vars
<1>9. CASE new # {}
  <2>1. StoreEvents(new)
    BY <1>1, <1>3, <1>7, <1>9 DEF StoreEvents
  <2>2. Next
    BY <1>2, <2>1 DEF Next, ApiStep
  <2> QED BY <1>1, <1>2, <1>5, <1>6, <2>2
<1> QED BY <1>8, <1>9

LEMMA CommitStep ==
  ASSUME IntakeInv, NEW h \in Handlers, Commit(h)
  PROVE  IntakeInv'
<1>1. /\ req' = [req EXCEPT ![h].pc = "pushing"]
      /\ req[h].pc = "reading" /\ req[h].left = {}
      /\ KeysOf(req[h].fresh) \subseteq Keys
      /\ \A k \in Keys : Stored(k)' <=> Stored(k) \/ k \in KeysOf(req[h].fresh)
      /\ owed' = owed \cup KeysOf(req[h].fresh)
      /\ payload' \in [Keys -> Items \cup {NoItem}]
      /\ UNCHANGED <<acked, guard, failures>>
      /\ [Next]_vars
  BY CommitFacts
<1>2. /\ req'[h] = [req[h] EXCEPT !.pc = "pushing"]
      /\ \A g \in Handlers \ {h} : req'[g] = req[g]
      /\ req[h] \in Request
  BY <1>1 DEF IntakeInv, RequestsTyped
<1>3. /\ req'[h] \in Request /\ req'[h].pc = "pushing" /\ req'[h].left = req[h].left
      /\ req'[h].fresh = req[h].fresh /\ req'[h].batch = req[h].batch
  BY <1>2 DEF Request
<1>4. \A g \in Handlers : req'[g].fresh = req[g].fresh /\ req'[g].left = req[g].left
  BY <1>2, <1>3
<1>5. TypeOK' /\ FreshInv'
  BY <1>1, InboxGoesOn DEF IntakeInv
<1>6. RequestsTyped'
  BY <1>1, <1>2, <1>3, <1>4 DEF IntakeInv, RequestsTyped, Good
<1>7. HeldByPhase'
  <2> SUFFICES ASSUME NEW g \in Handlers, NEW i \in req[g].fresh
               PROVE  /\ req'[g].pc = "reading" => ~Stored(EventKey(i))'
                      /\ req'[g].pc = "pushing" => Stored(EventKey(i))'
    BY <1>4 DEF HeldByPhase, Stored
  <2>1. EventKey(i) \in Keys
    BY GoodKeys DEF IntakeInv, RequestsTyped
  <2>2. CASE g = h
    BY <1>1, <1>3, <2>1, <2>2, KeysOfFact
  <2>3. CASE g # h
    <3>1. EventKey(i) \notin KeysOf(req[h].fresh)
      BY <2>3, KeysOfFact DEF IntakeInv, Apart
    <3> QED BY <1>1, <1>2, <2>1, <2>3, <3>1 DEF IntakeInv, HeldByPhase
  <2> QED BY <2>2, <2>3
<1>8. OneOfEach' /\ Apart'
  BY <1>4 DEF IntakeInv, OneOfEach, Apart
<1>9. OwedIsHeld'
  <2> SUFFICES ASSUME NEW k \in Keys
               PROVE  k \in owed' <=> \E g \in Handlers : /\ req'[g].pc = "pushing"
                                                          /\ k \in KeysOf(req'[g].fresh)
    BY DEF OwedIsHeld, KeysOf
  <2>1. (\E g \in Handlers : req'[g].pc = "pushing" /\ k \in KeysOf(req'[g].fresh))
          <=> \/ k \in KeysOf(req[h].fresh)
              \/ \E g \in Handlers : req[g].pc = "pushing" /\ k \in KeysOf(req[g].fresh)
    BY <1>1, <1>2, <1>3
  <2> QED BY <1>1, <2>1 DEF IntakeInv, OwedIsHeld
<1> QED BY <1>1, <1>5, <1>6, <1>7, <1>8, <1>9 DEF IntakeInv

(* A job is pushed or given up: its key is in no other request that owes one. *)
LEMMA PushFacts ==
  ASSUME IntakeInv, NEW h \in Handlers, NEW K \in SUBSET Keys, NEW r \in Request,
         req' = [req EXCEPT ![h] = r], req[h].pc = "pushing",
         \/ \E k \in Keys : K = {k} /\ ApiEnqueue(k)
         \/ ApiForget(K),
         K \subseteq KeysOf(req[h].fresh),
         r.left \subseteq Good, r.fresh \subseteq req[h].fresh,
         \A i \in req[h].fresh : i \in r.fresh <=> EventKey(i) \notin K,
         r.pc = "pushing" \/ (r.pc = "idle" /\ r.fresh = {}),
         UNCHANGED <<payload, acked, guard, failures>>
  PROVE  IntakeInv' /\ [Next]_vars
<1>1. /\ owed' = owed \ K /\ rows' = rows
      /\ [Next]_vars
  BY DEF ApiEnqueue, ApiForget, Next, ApiStep
<1>2. req'[h] = r /\ \A g \in Handlers \ {h} : req'[g] = req[g]
  BY DEF IntakeInv, RequestsTyped
<1>3. TypeOK' /\ FreshInv'
  BY <1>1, InboxGoesOn DEF IntakeInv
<1>4. RequestsTyped'
  BY <1>2 DEF IntakeInv, RequestsTyped, Good
<1>5. HeldByPhase'
  BY <1>1, <1>2 DEF IntakeInv, HeldByPhase, Stored
<1>6. OneOfEach' /\ Apart'
  BY <1>2 DEF IntakeInv, OneOfEach, Apart
<1>7. OwedIsHeld'
  <2> SUFFICES ASSUME NEW k \in Keys
               PROVE  k \in owed' <=> \E g \in Handlers : /\ req'[g].pc = "pushing"
                                                          /\ k \in KeysOf(req'[g].fresh)
    BY DEF OwedIsHeld, KeysOf
  <2>1. k \in owed <=> \E g \in Handlers : req[g].pc = "pushing" /\ k \in KeysOf(req[g].fresh)
    BY DEF IntakeInv, OwedIsHeld
  <2>2. req'[h].pc = "pushing" /\ k \in KeysOf(req'[h].fresh)
          <=> k \in KeysOf(req[h].fresh) /\ k \notin K
    BY <1>2, KeysOfFact
  <2>3. k \in K => \A g \in Handlers \ {h} : k \notin KeysOf(req[g].fresh)
    BY KeysOfFact DEF IntakeInv, Apart
  <2> QED BY <1>1, <1>2, <2>1, <2>2, <2>3
<1> QED BY <1>1, <1>3, <1>4, <1>5, <1>6, <1>7 DEF IntakeInv

LEMMA PushStep ==
  ASSUME IntakeInv, NEW h \in Handlers, NEW i \in Items, PushJob(h, i)
  PROVE  IntakeInv' /\ [Next]_vars
<1> DEFINE r == [req[h] EXCEPT !.fresh = @ \ {i}]
<1>1. /\ req[h] \in Request /\ req[h].pc = "pushing" /\ i \in req[h].fresh /\ EventKey(i) \in Keys
      /\ req[h].left \subseteq Good
      /\ ApiEnqueue(EventKey(i)) \/ ApiForget({EventKey(i)})
      /\ req' = [req EXCEPT ![h] = r]
      /\ UNCHANGED <<payload, acked, guard, failures>>
  BY GoodKeys DEF PushJob, IntakeInv, RequestsTyped
<1>2. r \in Request /\ r.pc = "pushing" /\ r.left \subseteq Good /\ r.fresh = req[h].fresh \ {i}
  BY <1>1 DEF Request
<1> HIDE DEF r
<1>3. \A j \in req[h].fresh : j \in r.fresh <=> EventKey(j) \notin {EventKey(i)}
  BY <1>1, <1>2 DEF IntakeInv, OneOfEach
<1>4. {EventKey(i)} \subseteq KeysOf(req[h].fresh)
  BY <1>1, KeysOfFact
<1> QED BY <1>1, <1>2, <1>3, <1>4, PushFacts

LEMMA DieStep ==
  ASSUME IntakeInv, NEW h \in Handlers, DieAfterCommit(h)
  PROVE  IntakeInv' /\ [Next]_vars
<1>1. NoRequest \in Request /\ NoRequest.pc = "idle" /\ NoRequest.left = {} /\ NoRequest.fresh = {}
  BY DEF NoRequest, Request
<1>2. KeysOf(req[h].fresh) \subseteq Keys
  BY GoodKeys, KeysOfFact DEF IntakeInv, RequestsTyped
<1>3. \A i \in req[h].fresh : EventKey(i) \in KeysOf(req[h].fresh)
  BY KeysOfFact
<1> QED BY <1>1, <1>2, <1>3, PushFacts DEF DieAfterCommit

(* The worker touches no request and no payload.                             *)
LEMMA WorkerStep ==
  ASSUME IntakeInv, InboxStep
  PROVE  IntakeInv' /\ [Next]_vars
<1>1. /\ WorkerNext \/ RedisFlush
      /\ guard' \in {guard, {}}
      /\ UNCHANGED <<payload, acked, req, failures>>
  BY DEF InboxStep
<1>2. [Next]_vars /\ TypeOK' /\ FreshInv'
  BY <1>1, InboxGoesOn DEF IntakeInv, Next
<1>3. \A k \in Keys : Stored(k)' = Stored(k)
  BY <1>1, StoredStays DEF IntakeInv
<1>4. HeldByPhase'
  <2>1. \A h \in Handlers : \A i \in req[h].fresh : EventKey(i) \in Keys
    BY GoodKeys DEF IntakeInv, RequestsTyped
  <2> QED BY <1>1, <1>3, <2>1 DEF IntakeInv, HeldByPhase
<1>5. owed' = owed
  BY <1>1 DEF WorkerNext, Tick, RedisFlush, SlotStep, Dequeue, Claim, TurnEnds, LoadRow, FlushRow,
              Crash, SweepStep, SweepSelect, SweepReset, SchedulerCrash, SweepEnqueue,
              SweepEnqueueLost
<1>6. RequestsTyped' /\ OneOfEach' /\ Apart' /\ OwedIsHeld'
  BY <1>1, <1>5 DEF IntakeInv, RequestsTyped, OneOfEach, Apart, OwedIsHeld, KeysOf, Good
<1> QED BY <1>1, <1>2, <1>4, <1>6 DEF IntakeInv

(* Every step keeps the invariant and is one of the inbox, or none of it.    *)
LEMMA IntakeStep ==
  ASSUME IntakeInv, [IntakeNext]_allVars
  PROVE  IntakeInv' /\ [Next]_vars
<1>1. ASSUME NEW h \in Handlers, HandlerStep(h) PROVE IntakeInv' /\ [Next]_vars
  <2>1. CASE \E B \in SUBSET Items : Deliver(h, B)
    BY <2>1, DeliverStep DEF Deliver
  <2>2. CASE \E i \in Items : Skip(h, i) \/ Record(h, i)
    BY <2>2, SkipStep, RecordStep DEF Skip, Record
  <2>3. CASE Fail(h) \/ DeadlockAbort(h) \/ Respond(h)
    BY <2>3, EndStep DEF Fail, DeadlockAbort, Respond
  <2>4. CASE Commit(h)
    BY <2>4, CommitStep, CommitFacts
  <2>5. CASE DieAfterCommit(h) \/ \E i \in Items : PushJob(h, i)
    BY <2>5, DieStep, PushStep
  <2> QED BY <1>1, <2>1, <2>2, <2>3, <2>4, <2>5 DEF HandlerStep
<1>2. CASE \E k \in Keys : GuardExpires(k)
  BY <1>2 DEF GuardExpires, IntakeInv, vars, TypeOK, FreshInv, RequestsTyped, HeldByPhase, OneOfEach, Apart,
              OwedIsHeld, KeysOf, Good, Stored, Old, Holds, OneRunnerWhileFresh
<1>3. CASE UNCHANGED allVars
  BY <1>3 DEF allVars, apiVars, IntakeInv, vars, TypeOK, FreshInv, RequestsTyped, HeldByPhase, OneOfEach, Apart,
              OwedIsHeld, KeysOf, Good, Stored, Old, Holds, OneRunnerWhileFresh
<1> QED BY <1>1, <1>2, <1>3, WorkerStep DEF IntakeNext

LEMMA IntakeStarts == IntakeInit => IntakeInv
<1> SUFFICES ASSUME IntakeInit PROVE IntakeInv
  OBVIOUS
<1>1. TypeOK
  BY MaxAttemptsAssumption
     DEF IntakeInit, Init, TypeOK, NoRow, Idle, Row, Slot, Statuses, Outcomes
<1>2. FreshInv
  BY DEF IntakeInit, Init, FreshInv, OneRunnerWhileFresh, Holds, Idle, NoRow
<1>3. /\ NoRequest \in Request /\ NoRequest.pc = "idle"
      /\ NoRequest.left = {} /\ NoRequest.fresh = {}
  BY DEF NoRequest, Request
<1>4. RequestsTyped /\ HeldByPhase /\ OneOfEach /\ Apart
  BY <1>3 DEF IntakeInit, RequestsTyped, HeldByPhase, OneOfEach, Apart
<1>5. OwedIsHeld
  BY <1>3, KeysOfFact DEF IntakeInit, Init, OwedIsHeld
<1> QED BY <1>1, <1>2, <1>4, <1>5, IntakeAssumption DEF IntakeInit, IntakeInv

LEMMA IntakeInvHolds == IntakeSpec => []IntakeInv
BY IntakeStarts, IntakeStep, PTL DEF IntakeSpec

(* The requests are well typed, and each first job still to push is in the   *)
(* hands of one of them.                                                     *)
THEOREM IntakeTypeCorrect == IntakeSpec => []IntakeTypeOK
<1>1. IntakeInv => IntakeTypeOK
  <2> SUFFICES ASSUME IntakeInv PROVE IntakeTypeOK
    OBVIOUS
  <2>1. owed = UNION {KeysOf(req[h].fresh) : h \in {g \in Handlers : req[g].pc = "pushing"}}
    <3>1. \A h \in Handlers : KeysOf(req[h].fresh) \subseteq Keys
      BY GoodKeys, KeysOfFact DEF IntakeInv, RequestsTyped
    <3>2. owed \subseteq Keys
      BY DEF IntakeInv, TypeOK
    <3> QED BY <3>1, <3>2 DEF IntakeInv, OwedIsHeld
  <2>2. \A g, h \in Handlers :
          g # h /\ req[g].pc = "pushing" /\ req[h].pc = "pushing"
            => req[g].fresh \cap req[h].fresh = {}
    BY DEF IntakeInv, Apart
  <2> QED BY <2>1, <2>2 DEF IntakeInv, IntakeTypeOK, RequestsTyped
<1> QED BY <1>1, IntakeInvHolds, PTL

(* The handlers' inserts, commits and pushes, however they overlap, fail and *)
(* die, are the API that WebhookInbox assumes: its theorems hold of the      *)
(* whole pipeline.                                                           *)
THEOREM IntakeIsInbox == IntakeSpec => ImplementsInbox
<1>1. IntakeInit => Init
  BY DEF IntakeInit
<1>2. IntakeInv /\ [IntakeNext]_allVars => [Next]_vars
  BY IntakeStep
<1> QED BY <1>1, <1>2, IntakeInvHolds, PTL DEF IntakeSpec, Spec, ImplementsInbox

-----------------------------------------------------------------------------
(* Without the Redis guard the table alone decides what is a repeat.  What   *)
(* is understood of a body is on its way or kept, and once the transaction   *)
(* is committed kept.  Two items of one key would be one event.              *)
OnItsWay ==
  \A h \in Handlers : \A i \in Parsed(req[h].batch) :
     /\ req[h].pc = "reading" => i \in req[h].left \/ i \in req[h].fresh \/ Kept(i)
     /\ req[h].pc = "pushing" => Kept(i)

RowsMatch == \A k \in Keys : Stored(k) => payload[k] \in Good /\ EventKey(payload[k]) = k

KeysDistinct == \A i, j \in Good : EventKey(i) = EventKey(j) => i = j

KeptInv == OnItsWay /\ RowsMatch /\ AckedIsStored

LEMMA StoredIsKept ==
  ASSUME KeysDistinct, RowsMatch, NEW i \in Good, Stored(EventKey(i))
  PROVE  Kept(i)
BY GoodKeys DEF KeysDistinct, RowsMatch, Kept

(* What is kept stays kept, and the commit keeps what it stores.             *)
LEMMA KeptStays ==
  ASSUME IntakeInv, [IntakeNext]_allVars, NEW i \in Good, Kept(i)
  PROVE  Kept(i)'
<1>1. EventKey(i) \in Keys
  BY GoodKeys
<1>2. ASSUME NEW h \in Handlers, Commit(h) PROVE Kept(i)'
  <2>1. EventKey(i) \notin KeysOf(req[h].fresh)
    BY <1>2, KeysOfFact DEF IntakeInv, HeldByPhase, Kept, Commit
  <2> QED BY <1>1, <1>2, <2>1 DEF Commit, Kept, Stored
<1>3. CASE InboxStep
  BY <1>1, <1>3, StoredStays DEF InboxStep, IntakeInv, Kept
<1>4. CASE UNCHANGED <<rows, payload>>
  BY <1>4 DEF Kept, Stored
<1>5. ASSUME NEW h \in Handlers, HandlerStep(h), ~Commit(h) PROVE UNCHANGED <<rows, payload>>
  BY <1>5 DEF HandlerStep, Deliver, Skip, Record, PushJob, ApiEnqueue, ApiForget, Fail, DeadlockAbort,
              DieAfterCommit, Respond, vars
<1> QED BY <1>2, <1>3, <1>4, <1>5 DEF IntakeNext, GuardExpires, allVars, apiVars, vars

LEMMA CommitKeeps ==
  ASSUME IntakeInv, KeysDistinct, NEW h \in Handlers, Commit(h), NEW i \in req[h].fresh
  PROVE  Kept(i)'
<1>1. EventKey(i) \in Keys /\ EventKey(i) \in KeysOf(req[h].fresh) /\ req[h].fresh \subseteq Good
  BY GoodKeys, KeysOfFact DEF IntakeInv, RequestsTyped
<1>2. (CHOOSE j \in req[h].fresh : EventKey(j) = EventKey(i)) = i
  BY <1>1 DEF KeysDistinct
<1>3. payload'[EventKey(i)] = i
  BY <1>1, <1>2 DEF Commit
<1>4. Stored(EventKey(i))'
  BY <1>1, CommitFacts
<1> QED BY <1>3, <1>4 DEF Kept

LEMMA KeptStep ==
  ASSUME GuardUp = FALSE, KeysDistinct, IntakeInv, KeptInv, [IntakeNext]_allVars
  PROVE  KeptInv'
<1>1. /\ \A h \in Handlers : req[h] \in Request /\ Parsed(req[h].batch) \subseteq Good
      /\ \A i \in acked : Understood(i) => i \in Good
  BY DEF IntakeInv, RequestsTyped, Request, Parsed, Good
<1>2. RowsMatch'
  <2>1. ASSUME NEW h \in Handlers, Commit(h), NEW k \in Keys, Stored(k)'
        PROVE  payload'[k] \in Good /\ EventKey(payload'[k]) = k
    <3>1. CASE k \in KeysOf(req[h].fresh)
      <4>1. PICK i \in req[h].fresh : EventKey(i) = k
        BY <3>1, KeysOfFact
      <4>2. payload'[k] = i
        BY <2>1, <4>1, CommitKeeps DEF Kept
      <4> QED BY <4>1, <4>2 DEF IntakeInv, RequestsTyped
    <3>2. CASE k \notin KeysOf(req[h].fresh)
      <4>1. payload'[k] = payload[k] /\ Stored(k)
        BY <2>1, <3>2, CommitFacts DEF Commit
      <4> QED BY <4>1 DEF KeptInv, RowsMatch
    <3> QED BY <3>1, <3>2
  <2>2. CASE InboxStep
    BY <2>2, StoredStays DEF InboxStep, IntakeInv, KeptInv, RowsMatch
  <2>3. CASE UNCHANGED <<rows, payload>>
    BY <2>3 DEF KeptInv, RowsMatch, Stored
  <2>4. ASSUME NEW h \in Handlers, HandlerStep(h), ~Commit(h) PROVE UNCHANGED <<rows, payload>>
    BY <2>4 DEF HandlerStep, Deliver, Skip, Record, PushJob, ApiEnqueue, ApiForget, Fail,
                DeadlockAbort, DieAfterCommit, Respond, vars
  <2> QED BY <2>1, <2>2, <2>3, <2>4 DEF RowsMatch, IntakeNext, GuardExpires, allVars, apiVars, vars
<1>3. AckedIsStored'
  <2>1. \A i \in acked : Understood(i) => Kept(i)'
    BY <1>1, KeptStays DEF KeptInv, AckedIsStored
  <2>2. ASSUME NEW h \in Handlers, Respond(h), NEW i \in req[h].batch, Understood(i)
        PROVE  Kept(i)'
    <3>1. i \in Parsed(req[h].batch) /\ i \in Good /\ req[h].pc = "pushing"
      BY <1>1, <2>2 DEF Parsed, Respond, MayAnswer
    <3> QED BY <3>1, KeptStays DEF KeptInv, OnItsWay
  <2>3. acked' = acked \/ \E h \in Handlers : Respond(h) /\ acked' = acked \cup req[h].batch
    BY DEF IntakeNext, HandlerStep, Deliver, Skip, Record, PushJob, Commit, Fail, DeadlockAbort,
           DieAfterCommit, Respond, GuardExpires, InboxStep, allVars, apiVars
  <2> QED BY <2>1, <2>2, <2>3 DEF AckedIsStored
<1>4. OnItsWay'
  <2> SUFFICES ASSUME NEW h \in Handlers, NEW i \in Parsed(req'[h].batch)
               PROVE  /\ req'[h].pc = "reading"
                           => i \in req'[h].left \/ i \in req'[h].fresh \/ Kept(i)'
                      /\ req'[h].pc = "pushing" => Kept(i)'
    BY DEF OnItsWay, Parsed
  <2>1. CASE req'[h] = req[h]
    BY <1>1, <2>1, KeptStays DEF KeptInv, OnItsWay
  <2>2. ASSUME NEW B \in SUBSET Items, Deliver(h, B)
        PROVE  req'[h].pc = "reading" /\ i \in req'[h].left
    BY <2>2 DEF Deliver, NoRequest, IntakeInv, RequestsTyped
  <2>3. ASSUME NEW j \in Items, Record(h, j)
        PROVE  req'[h].pc = "reading" /\ (i \in req'[h].left \/ i \in req'[h].fresh \/ Kept(i)')
    <3> DEFINE r == [req[h] EXCEPT !.left = @ \ {j}, !.fresh = @ \cup Inserted(h, j)]
    <3>1. /\ req'[h] = r /\ req[h] \in Request /\ req[h].pc = "reading"
          /\ j \in req[h].left /\ j \in Good
      BY <1>1, <2>3 DEF Record, IntakeInv, RequestsTyped
    <3>2. /\ r.pc = "reading" /\ r.batch = req[h].batch /\ r.left = req[h].left \ {j}
          /\ r.fresh = req[h].fresh \cup Inserted(h, j)
      BY <3>1 DEF Request
    <3> HIDE DEF r
    <3>3. i \in Parsed(req[h].batch) /\ i \in Good
      BY <1>1, <3>1, <3>2
    <3>4. CASE i = j
      <4>1. CASE Inserted(h, j) = {j}
        BY <3>1, <3>2, <3>4, <4>1
      <4>2. CASE Stored(EventKey(j))
        BY <3>1, <3>2, <3>3, <3>4, <4>2, StoredIsKept, KeptStays DEF KeptInv
      <4>3. CASE EventKey(j) \in KeysOf(req[h].fresh)
        <5>1. PICK l \in req[h].fresh : EventKey(l) = EventKey(j)
          BY <4>3, KeysOfFact
        <5>2. l = j
          BY <3>1, <5>1 DEF KeysDistinct, IntakeInv, RequestsTyped
        <5> QED BY <3>1, <3>2, <3>4, <5>1, <5>2
      <4> QED BY <4>1, <4>2, <4>3 DEF Inserted
    <3>5. CASE i # j
      BY <3>1, <3>2, <3>3, <3>5, KeptStays DEF KeptInv, OnItsWay
    <3> QED BY <3>4, <3>5
  <2>4. CASE Commit(h)
    <3>1. /\ req'[h] = [req[h] EXCEPT !.pc = "pushing"] /\ req[h] \in Request
          /\ req[h].pc = "reading" /\ req[h].left = {}
      BY <1>1, <2>4 DEF Commit, IntakeInv, RequestsTyped
    <3>2. req'[h].pc = "pushing" /\ req'[h].batch = req[h].batch
      BY <3>1 DEF Request
    <3>3. i \in req[h].fresh \/ (i \in Good /\ Kept(i))
      BY <1>1, <3>1, <3>2 DEF KeptInv, OnItsWay
    <3> QED BY <2>4, <3>2, <3>3, CommitKeeps, KeptStays
  <2>5. ASSUME NEW j \in Items, PushJob(h, j) PROVE req'[h].pc = "pushing" /\ Kept(i)'
    <3>1. /\ req'[h] = [req[h] EXCEPT !.fresh = @ \ {j}] /\ req[h] \in Request
          /\ req[h].pc = "pushing"
      BY <1>1, <2>5 DEF PushJob, IntakeInv, RequestsTyped
    <3>2. req'[h].pc = "pushing" /\ req'[h].batch = req[h].batch
      BY <3>1 DEF Request
    <3> QED BY <1>1, <3>1, <3>2, KeptStays DEF KeptInv, OnItsWay
  <2>6. CASE Fail(h) \/ DeadlockAbort(h) \/ DieAfterCommit(h) \/ Respond(h)
    <3>1. req'[h] = NoRequest
      BY <2>6 DEF Fail, DeadlockAbort, DieAfterCommit, Respond, IntakeInv, RequestsTyped
    <3> QED BY <3>1 DEF NoRequest, Parsed
  <2>7. ASSUME NEW j \in Items, Skip(h, j) PROVE FALSE
    BY <2>7 DEF Skip, GuardLets
  <2>8. ASSUME NEW g \in Handlers, HandlerStep(g), g # h PROVE req'[h] = req[h]
    BY <2>8 DEF HandlerStep, Deliver, Skip, Record, PushJob, Commit, Fail, DeadlockAbort,
                DieAfterCommit, Respond, IntakeInv, RequestsTyped
  <2>9. HandlerStep(h) => Kept(i)' \/ req'[h].pc \notin {"reading", "pushing"}
                          \/ (req'[h].pc = "reading" /\ (i \in req'[h].left \/ i \in req'[h].fresh))
    <3>1. CASE Commit(h)
      BY <2>4, <3>1
    <3>2. CASE Fail(h) \/ DeadlockAbort(h) \/ DieAfterCommit(h) \/ Respond(h)
      <4>1. req'[h] = NoRequest
        BY <3>2 DEF Fail, DeadlockAbort, DieAfterCommit, Respond, IntakeInv, RequestsTyped
      <4> QED BY <4>1 DEF NoRequest
    <3> QED BY <2>2, <2>3, <2>5, <2>7, <3>1, <3>2 DEF HandlerStep
  <2>10. (\E g \in Handlers : HandlerStep(g)) \/ req' = req
    BY DEF IntakeNext, GuardExpires, InboxStep, allVars, apiVars
  <2> QED BY <2>1, <2>8, <2>9, <2>10
<1> QED BY <1>2, <1>3, <1>4 DEF KeptInv

(* With Redis down, and no two items under one key, whatever Meta has seen a *)
(* 200 for is in the table: the unique constraint alone keeps the rule,      *)
(* whatever fails, waits or dies on the way.                                 *)
THEOREM AckedIsSafe ==
  ASSUME GuardUp = FALSE, KeysDistinct
  PROVE  IntakeSpec => []AckedIsStored
<1>1. IntakeInit => KeptInv
  <2> SUFFICES ASSUME IntakeInit PROVE KeptInv
    OBVIOUS
  <2>1. \A k \in Keys : ~Stored(k)
    BY DEF IntakeInit, Init, Stored, NoRow
  <2>2. acked = {} /\ \A h \in Handlers : req[h] = NoRequest
    BY DEF IntakeInit
  <2> QED BY <2>1, <2>2 DEF KeptInv, OnItsWay, RowsMatch, AckedIsStored, NoRequest
<1>2. IntakeInv /\ KeptInv /\ [IntakeNext]_allVars => KeptInv'
  BY KeptStep
<1>3. KeptInv => AckedIsStored
  BY DEF KeptInv
<1> QED BY <1>1, <1>2, <1>3, IntakeInvHolds, PTL DEF IntakeSpec

=============================================================================
