------------------------ MODULE WebhookInbox_proofs -------------------------
(***************************************************************************)
(* What holds of WebhookInbox for every set of events, slots and           *)
(* schedulers and every value of the bounds.                               *)
(***************************************************************************)
EXTENDS WebhookInbox, TLAPS

\* Writing back what one session changed keeps the row a row, never touches attempts or
\* received_at, and never clears processed_at.
LEMMA FlushedRow ==
  ASSUME NEW row \in Row, NEW seen \in Row, NEW o \in Outcomes
  PROVE  LET new == Flushed(row, seen, Marked(seen, o)) IN
         /\ new \in Row
         /\ new.attempts = row.attempts
         /\ new.received = row.received
         /\ row.done => new.done
         /\ new.status \in {"processed", "failed", row.status}
         /\ ~seen.done /\ ~WillRetry(seen, o) => new.done
<1>1. Marked(seen, o) \in Row
  BY DEF Marked, Row, Statuses
<1>2. /\ Marked(seen, o).status \in {"processed", "failed"}
      /\ Marked(seen, o).done \in BOOLEAN
      /\ seen.done => Marked(seen, o).done
      /\ ~WillRetry(seen, o) => Marked(seen, o).done
  BY DEF Marked, Row
<1> HIDE DEF Marked
<1>3. QED
  BY <1>1, <1>2 DEF Flushed, Row, Statuses

\* A claim and a sweep's reset make a row of a row.
LEMMA ClaimedRow ==
  ASSUME NEW r \in Row, Claimable(r)
  PROVE  [r EXCEPT !.status = "processing", !.attempts = @ + 1] \in Row
<1>1. r.attempts + 1 \in 0..MaxAttempts
  BY MaxAttemptsAssumption DEF Claimable, Row
<1>2. QED
  BY <1>1 DEF Row, Statuses

LEMMA ResetRow ==
  ASSUME NEW r \in Row
  PROVE  [r EXCEPT !.status = "pending"] \in Row
BY DEF Row, Statuses

LEMMA IdleSlot == Idle \in Slot /\ NoRow \in Row
BY MaxAttemptsAssumption DEF Idle, Slot, NoRow, Row, Statuses, Outcomes

\* Replacing what one slot does by something well typed keeps the slots well typed.
LEMMA SlotUpdate ==
  ASSUME TypeOK, NEW w \in Workers, NEW new \in Slot,
         new.pc # "idle" => new.job \in Keys,
         slot' = [slot EXCEPT ![w] = new]
  PROVE  /\ slot' \in [Workers -> Slot]
         /\ \A v \in Workers : slot'[v].pc # "idle" => slot'[v].job \in Keys
BY DEF TypeOK

-----------------------------------------------------------------------------
(* Type correctness *)

LEMMA TypeStep == TypeOK /\ [Next]_vars => TypeOK'
<1> SUFFICES ASSUME TypeOK, [Next]_vars PROVE TypeOK'
  OBVIOUS
<1> USE DEF TypeOK
<1>1. CASE Tick
  BY <1>1 DEF Tick
<1>2. ASSUME NEW K \in SUBSET Keys, StoreEvents(K) PROVE TypeOK'
  BY <1>2, MaxAttemptsAssumption DEF StoreEvents, Fresh, Row, Statuses
<1>3. ASSUME NEW k \in Keys, ApiEnqueue(k) PROVE TypeOK'
  BY <1>3 DEF ApiEnqueue, Push
<1>4. ASSUME NEW K \in SUBSET Keys, ApiForget(K) PROVE TypeOK'
  BY <1>4 DEF ApiForget, LoseOne
<1>5. CASE RedisFlush
  BY <1>5 DEF RedisFlush, LoseOne
<1>6. ASSUME NEW w \in Workers, Dequeue(w) PROVE TypeOK'
  <2> DEFINE new == [Idle EXCEPT !.pc = "dequeued", !.job = Head(queue)]
  <2>1. Head(queue) \in Keys /\ Tail(queue) \in Seq(Keys)
    BY <1>6 DEF Dequeue
  <2>2. new \in Slot /\ new.job \in Keys
    BY <2>1, IdleSlot DEF Idle, Slot
  <2>3. slot' = [slot EXCEPT ![w] = new]
    BY <1>6 DEF Dequeue
  <2> HIDE DEF new
  <2>4. QED
    BY <1>6, <2>1, <2>2, <2>3, SlotUpdate DEF Dequeue
<1>7. ASSUME NEW w \in Workers, Claim(w) PROVE TypeOK'
  <2> DEFINE k == slot[w].job
             new == [slot[w] EXCEPT !.pc = "running"]
  <2>1. k \in Keys
    BY <1>7 DEF Claim
  <2>2. CASE ~Claimable(rows[k])
    BY <1>7, <2>2, IdleSlot, SlotUpdate DEF Claim, Idle
  <2>3. CASE Claimable(rows[k])
    <3>1. new \in Slot /\ new.job \in Keys
      BY <2>1 DEF Slot
    <3>2. slot' = [slot EXCEPT ![w] = new]
      BY <1>7, <2>3 DEF Claim
    <3>4. [rows[k] EXCEPT !.status = "processing", !.attempts = @ + 1] \in Row
      BY <2>1, <2>3, ClaimedRow
    <3>5. rows' = [rows EXCEPT ![k] = [rows[k] EXCEPT !.status = "processing",
                                                      !.attempts = @ + 1]]
      BY <1>7, <2>3 DEF Claim
    <3>6. rows' \in [Keys -> Row]
      BY <3>4, <3>5
    <3> HIDE DEF new
    <3>7. QED
      BY <1>7, <3>1, <3>2, <3>6, SlotUpdate DEF Claim
  <2>4. QED
    BY <2>2, <2>3
<1>8. ASSUME NEW w \in Workers, TurnEnds(w) PROVE TypeOK'
  <2>1. PICK o \in Outcomes : slot' = [slot EXCEPT ![w] = [slot[w] EXCEPT !.pc = "ended",
                                                                         !.outcome = o]]
    BY <1>8 DEF TurnEnds
  <2>2. [slot[w] EXCEPT !.pc = "ended", !.outcome = o] \in Slot
    BY DEF Slot
  <2>3. slot[w].job \in Keys
    BY <1>8 DEF TurnEnds
  <2>4. QED
    BY <1>8, <2>1, <2>2, <2>3, SlotUpdate DEF TurnEnds, Slot
<1>9. ASSUME NEW w \in Workers, LoadRow(w) PROVE TypeOK'
  <2> DEFINE new == [slot[w] EXCEPT !.pc = "loaded", !.seen = rows[slot[w].job]]
  <2>1. slot[w].job \in Keys
    BY <1>9 DEF LoadRow
  <2>2. new \in Slot /\ new.job \in Keys
    BY <2>1 DEF Slot
  <2>3. slot' = [slot EXCEPT ![w] = new]
    BY <1>9 DEF LoadRow
  <2> HIDE DEF new
  <2>4. QED
    BY <1>9, <2>2, <2>3, SlotUpdate DEF LoadRow
<1>10. ASSUME NEW w \in Workers, FlushRow(w) PROVE TypeOK'
  <2> DEFINE k == slot[w].job
             new == Flushed(rows[k], slot[w].seen, Marked(slot[w].seen, slot[w].outcome))
  <2>1. k \in Keys
    BY <1>10 DEF FlushRow
  <2>2. new \in Row
    BY <2>1, FlushedRow DEF Slot
  <2>3. rows' = [rows EXCEPT ![k] = new] /\ slot' = [slot EXCEPT ![w] = Idle]
    BY <1>10 DEF FlushRow
  <2> HIDE DEF new
  <2>4. QED
    BY <1>10, <2>2, <2>3, IdleSlot, SlotUpdate DEF FlushRow, Idle
<1>11. ASSUME NEW w \in Workers, Crash(w) PROVE TypeOK'
  BY <1>11, IdleSlot, SlotUpdate DEF Crash, Idle
<1>12. ASSUME NEW s \in Schedulers, SweepSelect(s) PROVE TypeOK'
  BY <1>12 DEF SweepSelect
<1>13. ASSUME NEW s \in Schedulers, SweepReset(s) PROVE TypeOK'
  <2>1. \A k \in Keys : [rows[k] EXCEPT !.status = "pending"] \in Row
    BY ResetRow
  <2>2. \A k \in Keys : rows'[k] \in {rows[k], [rows[k] EXCEPT !.status = "pending"]}
    BY <1>13 DEF SweepReset
  <2>3. rows' \in [Keys -> Row]
    BY <1>13, <2>1, <2>2 DEF SweepReset
  <2>4. QED
    BY <1>13, <2>3 DEF SweepReset
<1>14. ASSUME NEW s \in Schedulers, NEW k \in Keys, SweepEnqueue(s, k) PROVE TypeOK'
  BY <1>14 DEF SweepEnqueue, Push
<1>15. ASSUME NEW s \in Schedulers, NEW k \in Keys, SweepEnqueueLost(s, k) PROVE TypeOK'
  BY <1>15 DEF SweepEnqueueLost, LoseOne
<1>16. ASSUME NEW s \in Schedulers, SchedulerCrash(s) PROVE TypeOK'
  BY <1>16 DEF SchedulerCrash
<1>17. CASE UNCHANGED vars
  BY <1>17 DEF vars
<1>18. QED
  BY <1>1, <1>2, <1>3, <1>4, <1>5, <1>6, <1>7, <1>8, <1>9, <1>10, <1>11, <1>12, <1>13,
     <1>14, <1>15, <1>16, <1>17
     DEF Next, ApiStep, WorkerNext, SlotStep, SweepStep

\* Every step of the API, the slots and the sweeps keeps the state well typed; in
\* particular no row is ever attempted more than worker_max_attempts times.
THEOREM TypeCorrect == Spec => []TypeOK
<1>1. Init => TypeOK
  BY MaxAttemptsAssumption DEF Init, TypeOK, NoRow, Idle, Row, Slot, Statuses, Outcomes
<1>2. TypeOK /\ [Next]_vars => TypeOK'
  BY TypeStep
<1>3. QED
  BY <1>1, <1>2, PTL DEF Spec

-----------------------------------------------------------------------------
(* At most one slot works on an event that is younger than the sweep age *)

\* The inductive form: only a stored event is finished with; who holds an event has a
\* row that counts its attempt; sweeps select only events past the age; below it, the
\* one holder's row reads processing, which is what keeps claim from letting a second
\* slot in.
FreshInv ==
  /\ \A k \in Keys : ~Stored(k) => ~rows[k].done
  /\ \A k \in Keys, w \in Workers : Holds(w, k) => Stored(k) /\ rows[k].attempts > 0
  /\ \A k \in Keys, s \in Schedulers : k \in selected[s] => Stored(k) /\ Old(k)
  /\ \A k \in Keys, w \in Workers : ~Old(k) /\ Holds(w, k) => rows[k].status = "processing"
  /\ OneRunnerWhileFresh

\* A step that changes neither rows nor slots, and selects nothing, keeps FreshInv.
LEMMA FreshInvFrame ==
  ASSUME TypeOK, FreshInv, rows' = rows, slot' = slot, cutoff' \in Nat, cutoff' >= cutoff,
         \A s \in Schedulers : selected'[s] \subseteq selected[s]
  PROVE  FreshInv'
<1>1. \A k \in Keys : Old(k) => Old(k)'
  BY DEF Old, TypeOK, Row
<1>2. QED
  BY <1>1 DEF FreshInv, OneRunnerWhileFresh, Holds, Stored, TypeOK

\* A slot that lets go of its event, or takes a job it has not claimed, keeps FreshInv.
LEMMA FreshInvRelease ==
  ASSUME TypeOK, FreshInv, NEW w \in Workers,
         rows' = rows, cutoff' = cutoff, selected' = selected,
         \A v \in Workers, k \in Keys : Holds(v, k)' => Holds(v, k)
  PROVE  FreshInv'
BY DEF FreshInv, OneRunnerWhileFresh, Stored, Old, TypeOK

\* FreshInv is inductive.
LEMMA FreshStep == TypeOK /\ TypeOK' /\ FreshInv /\ [Next]_vars => FreshInv'
<1> SUFFICES ASSUME TypeOK, TypeOK', FreshInv, [Next]_vars PROVE FreshInv'
  OBVIOUS
<1>1. CASE Tick
  BY <1>1, FreshInvFrame DEF Tick, TypeOK
<1>2. ASSUME NEW K \in SUBSET Keys, StoreEvents(K) PROVE FreshInv'
  <2>1. \A k \in Keys, w \in Workers : Holds(w, k)' <=> Holds(w, k)
    BY <1>2 DEF StoreEvents, Holds
  <2>2. \A k \in Keys : /\ Stored(k)' <=> k \in K \/ Stored(k)
                        /\ k \notin K => rows'[k] = rows[k]
                        /\ k \in K => ~Stored(k)
    BY <1>2 DEF StoreEvents, Stored, Fresh, TypeOK
  <2>3. cutoff' = cutoff /\ selected' = selected
    BY <1>2 DEF StoreEvents
  <2>4. QED
    BY <2>1, <2>2, <2>3 DEF FreshInv, OneRunnerWhileFresh, Old
<1>3. ASSUME NEW k \in Keys, ApiEnqueue(k) PROVE FreshInv'
  BY <1>3, FreshInvFrame DEF ApiEnqueue, TypeOK
<1>4. ASSUME NEW K \in SUBSET Keys, ApiForget(K) PROVE FreshInv'
  BY <1>4, FreshInvFrame DEF ApiForget, TypeOK
<1>5. CASE RedisFlush
  BY <1>5, FreshInvFrame DEF RedisFlush, TypeOK
<1>6. ASSUME NEW w \in Workers, Dequeue(w) PROVE FreshInv'
  <2>1. \A v \in Workers, k \in Keys : Holds(v, k)' => Holds(v, k)
    BY <1>6 DEF Dequeue, Holds, Idle, TypeOK
  <2>2. QED
    BY <1>6, <2>1, FreshInvRelease DEF Dequeue
<1>7. ASSUME NEW w \in Workers, Claim(w) PROVE FreshInv'
  <2>0. PICK j \in Keys : j = slot[w].job
    BY <1>7 DEF Claim, TypeOK
  <2>1. CASE ~Claimable(rows[j])
    <3>1. \A v \in Workers, k \in Keys : Holds(v, k)' => Holds(v, k)
      BY <1>7, <2>0, <2>1 DEF Claim, Holds, Idle, TypeOK
    <3>2. QED
      BY <1>7, <2>0, <2>1, <3>1, FreshInvRelease DEF Claim
  <2>2. CASE Claimable(rows[j])
    <3>1. rows' = [rows EXCEPT ![j].status = "processing", ![j].attempts = @ + 1]
      BY <1>7, <2>0, <2>2 DEF Claim
    <3>2. /\ \A k \in Keys \ {j} : rows'[k] = rows[k]
          /\ rows'[j].status = "processing"
          /\ rows'[j].received = rows[j].received
          /\ rows'[j].attempts > 0
      BY <3>1 DEF TypeOK, Row
    <3>3. \A v \in Workers, k \in Keys : Holds(v, k)' <=> Holds(v, k) \/ (v = w /\ k = j)
      BY <1>7, <2>0, <2>2 DEF Claim, Holds, TypeOK, Slot
    <3>4. Stored(j) /\ Stored(j)'
      BY <2>2, <3>2 DEF Claimable, Stored
    <3>5. ~Old(j) => \A v \in Workers : ~Holds(v, j)
      BY <2>2 DEF FreshInv, Claimable
    <3>6. cutoff' = cutoff /\ selected' = selected
      BY <1>7 DEF Claim
    <3>7. \A k \in Keys : (Old(k)' <=> Old(k)) /\ (Stored(k)' <=> Stored(k))
      BY <3>2, <3>4, <3>6 DEF Old, Stored
    <3>8. QED
      BY <3>2, <3>3, <3>4, <3>5, <3>6, <3>7 DEF FreshInv, OneRunnerWhileFresh
  <2>3. QED
    BY <2>1, <2>2
<1>8. ASSUME NEW w \in Workers, TurnEnds(w) PROVE FreshInv'
  <2>1. \A v \in Workers, k \in Keys : Holds(v, k)' => Holds(v, k)
    BY <1>8 DEF TurnEnds, Holds, TypeOK, Slot
  <2>2. QED
    BY <1>8, <2>1, FreshInvRelease DEF TurnEnds
<1>9. ASSUME NEW w \in Workers, LoadRow(w) PROVE FreshInv'
  <2>1. \A v \in Workers, k \in Keys : Holds(v, k)' => Holds(v, k)
    BY <1>9 DEF LoadRow, Holds, TypeOK, Slot
  <2>2. QED
    BY <1>9, <2>1, FreshInvRelease DEF LoadRow
<1>10. ASSUME NEW w \in Workers, FlushRow(w) PROVE FreshInv'
  <2>0. PICK j \in Keys : j = slot[w].job
    BY <1>10 DEF FlushRow, TypeOK
  <2>1. Holds(w, j)
    BY <1>10, <2>0 DEF FlushRow, Holds
  <2> DEFINE new == Flushed(rows[j], slot[w].seen, Marked(slot[w].seen, slot[w].outcome))
  <2>2. rows' = [rows EXCEPT ![j] = new]
    BY <1>10, <2>0 DEF FlushRow
  <2>a. rows[j] \in Row /\ slot[w].seen \in Row /\ slot[w].outcome \in Outcomes
    BY DEF TypeOK, Slot
  <2>3. /\ new.received = rows[j].received /\ new.attempts = rows[j].attempts
        /\ new.status \in {"processed", "failed", rows[j].status}
    BY <2>a, FlushedRow, ZenonT(60)
  <2>4. /\ \A k \in Keys \ {j} : rows'[k] = rows[k]
        /\ rows'[j] = new
    BY <2>2 DEF TypeOK
  <2>5. \A v \in Workers, k \in Keys : Holds(v, k)' <=> Holds(v, k) /\ v # w
    BY <1>10 DEF FlushRow, Holds, Idle, TypeOK, Slot
  <2>6. cutoff' = cutoff /\ selected' = selected
    BY <1>10 DEF FlushRow
  <2> HIDE DEF new
  <2>7. Stored(j)
    BY <2>1 DEF FreshInv
  <2>8. \A k \in Keys : (Old(k)' <=> Old(k)) /\ (Stored(k)' <=> Stored(k))
    BY <2>3, <2>4, <2>6, <2>7 DEF Old, Stored
  <2>9. ~Old(j) => \A v \in Workers : ~Holds(v, j)'
    BY <2>1, <2>5 DEF FreshInv, OneRunnerWhileFresh
  <2>10. QED
    BY <2>1, <2>3, <2>4, <2>5, <2>6, <2>7, <2>8, <2>9 DEF FreshInv, OneRunnerWhileFresh
<1>11. ASSUME NEW w \in Workers, Crash(w) PROVE FreshInv'
  <2>1. \A v \in Workers, k \in Keys : Holds(v, k)' => Holds(v, k)
    BY <1>11 DEF Crash, Holds, Idle, TypeOK
  <2>2. QED
    BY <1>11, <2>1, FreshInvRelease DEF Crash
<1>12. ASSUME NEW s \in Schedulers, SweepSelect(s) PROVE FreshInv'
  <2>1. PICK B \in SUBSET Keys : IsSweepBatch(B) /\ selected' = [selected EXCEPT ![s] = B]
    BY <1>12 DEF SweepSelect
  <2>2. \A k \in B : Old(k) /\ Stored(k)
    BY <2>1 DEF IsSweepBatch, Stale, Stored
  <2>3. \A t \in Schedulers : selected'[t] \subseteq selected[t] \cup B
    BY <2>1 DEF TypeOK
  <2>4. rows' = rows /\ slot' = slot /\ cutoff' = cutoff
    BY <1>12 DEF SweepSelect
  <2>5. QED
    BY <2>2, <2>3, <2>4 DEF FreshInv, OneRunnerWhileFresh, Holds, Stored, Old
<1>13. ASSUME NEW s \in Schedulers, SweepReset(s) PROVE FreshInv'
  <2>1. \A k \in Keys : /\ rows'[k].received = rows[k].received
                        /\ rows'[k].done = rows[k].done
                        /\ rows'[k].attempts = rows[k].attempts
                        /\ Stored(k)' <=> Stored(k)
                        /\ ~Old(k) => rows'[k] = rows[k]
    BY <1>13 DEF SweepReset, Stored, TypeOK, Row, Resettable, FreshInv
  <2>2. slot' = slot /\ cutoff' = cutoff
    BY <1>13 DEF SweepReset
  <2>3. \A t \in Schedulers : selected'[t] \subseteq selected[t]
    BY <1>13 DEF SweepReset, TypeOK
  <2>4. \A k \in Keys : (Old(k)' <=> Old(k)) /\ \A w \in Workers : Holds(w, k)' <=> Holds(w, k)
    BY <2>1, <2>2 DEF Old, Holds
  <2>5. QED
    BY <2>1, <2>3, <2>4 DEF FreshInv, OneRunnerWhileFresh
<1>14. ASSUME NEW s \in Schedulers, NEW k \in Keys, SweepEnqueue(s, k) PROVE FreshInv'
  BY <1>14, FreshInvFrame DEF SweepEnqueue, TypeOK
<1>15. ASSUME NEW s \in Schedulers, NEW k \in Keys, SweepEnqueueLost(s, k) PROVE FreshInv'
  BY <1>15, FreshInvFrame DEF SweepEnqueueLost, TypeOK
<1>16. ASSUME NEW s \in Schedulers, SchedulerCrash(s) PROVE FreshInv'
  BY <1>16, FreshInvFrame DEF SchedulerCrash, TypeOK
<1>17. CASE UNCHANGED vars
  BY <1>17, FreshInvFrame DEF vars, TypeOK
<1>18. QED
  BY <1>1, <1>2, <1>3, <1>4, <1>5, <1>6, <1>7, <1>8, <1>9, <1>10, <1>11, <1>12, <1>13,
     <1>14, <1>15, <1>16, <1>17
     DEF Next, ApiStep, WorkerNext, SlotStep, SweepStep

LEMMA FreshInvariant == Spec => []FreshInv
<1>1. Init => FreshInv
  BY DEF Init, FreshInv, OneRunnerWhileFresh, Holds, Idle, NoRow
<1>2. TypeOK /\ TypeOK' /\ FreshInv /\ [Next]_vars => FreshInv'
  BY FreshStep
<1>3. QED
  BY <1>1, <1>2, TypeCorrect, PTL DEF Spec

\* Whatever the queue duplicates and the slots crash on, two slots never work on one
\* event before the sweep's age is reached.
THEOREM FreshExclusion == Spec => []OneRunnerWhileFresh
<1>1. FreshInv => OneRunnerWhileFresh
  BY DEF FreshInv
<1>2. QED
  BY <1>1, FreshInvariant, PTL

-----------------------------------------------------------------------------
(* What one step may do to a row *)

\* The facts about rows that every step keeps: an event that is finished with stays so
\* and is not attempted again, attempts grow one at a time and only below the cap, and
\* an event is finished with only by the slot that holds it.
RowStep(k) ==
  /\ rows[k].done => rows'[k].done /\ rows'[k].attempts = rows[k].attempts
  /\ Stored(k) => Stored(k)'
  /\ Stored(k) => \/ rows'[k].attempts = rows[k].attempts
                  \/ /\ rows'[k].attempts = rows[k].attempts + 1
                     /\ Claimable(rows[k])
                     /\ ~rows'[k].done
  /\ ~Stored(k) => rows'[k] = rows[k] \/ rows'[k] = Fresh(clock + 1)
  /\ ~rows[k].done /\ rows'[k].done
       => rows'[k].attempts = rows[k].attempts /\ \E w \in Workers : Holds(w, k)

LEMMA RowSteps ==
  ASSUME TypeOK, FreshInv, [Next]_vars
  PROVE  \A k \in Keys : RowStep(k)
<1> SUFFICES ASSUME NEW k \in Keys PROVE RowStep(k)
  OBVIOUS
<1>1. CASE rows' = rows
  BY <1>1 DEF RowStep, Stored
<1>2. ASSUME NEW K \in SUBSET Keys, StoreEvents(K) PROVE RowStep(k)
  <2>1. rows'[k] = IF k \in K THEN Fresh(clock + 1) ELSE rows[k]
    BY <1>2 DEF StoreEvents
  <2>2. k \in K => ~Stored(k)
    BY <1>2 DEF StoreEvents
  <2>3. CASE k \notin K
    BY <2>1, <2>3 DEF RowStep, Stored
  <2>4. CASE k \in K
    BY <2>1, <2>2, <2>4 DEF RowStep, Stored, Fresh, FreshInv
  <2>5. QED
    BY <2>3, <2>4
<1>3. ASSUME NEW w \in Workers, Claim(w) PROVE RowStep(k)
  <2>1. PICK j \in Keys : j = slot[w].job
    BY <1>3 DEF Claim, TypeOK
  <2>2. CASE k # j \/ ~Claimable(rows[j])
    <3>1. rows'[k] = rows[k]
      BY <1>3, <2>1, <2>2 DEF Claim, TypeOK
    <3>2. QED
      BY <3>1 DEF RowStep, Stored
  <2>3. CASE k = j /\ Claimable(rows[j])
    <3>1. rows' = [rows EXCEPT ![k].status = "processing", ![k].attempts = @ + 1]
      BY <1>3, <2>1, <2>3 DEF Claim
    <3>a. rows[k] \in Row
      BY DEF TypeOK
    <3>b. rows'[k] = [rows[k] EXCEPT !.status = "processing", !.attempts = @ + 1]
      BY <3>1 DEF TypeOK
    <3>2. /\ rows'[k].status = "processing"
          /\ rows'[k].attempts = rows[k].attempts + 1
          /\ rows'[k].done = rows[k].done
      BY <3>a, <3>b DEF Row
    <3>3. ~rows[k].done /\ Stored(k)
      BY <2>3 DEF Claimable, Stored
    <3>4. QED
      BY <2>3, <3>2, <3>3 DEF RowStep, Stored
  <2>4. QED
    BY <2>2, <2>3
<1>4. ASSUME NEW w \in Workers, FlushRow(w) PROVE RowStep(k)
  <2>1. PICK j \in Keys : j = slot[w].job
    BY <1>4 DEF FlushRow, TypeOK
  <2> DEFINE new == Flushed(rows[j], slot[w].seen, Marked(slot[w].seen, slot[w].outcome))
  <2>2. rows[j] \in Row /\ slot[w].seen \in Row /\ slot[w].outcome \in Outcomes
    BY DEF TypeOK, Slot
  <2>3. /\ new.attempts = rows[j].attempts
        /\ rows[j].done => new.done
        /\ new.status \in {"processed", "failed", rows[j].status}
    BY <2>2, FlushedRow
  <2>4. rows' = [rows EXCEPT ![j] = new]
    BY <1>4, <2>1 DEF FlushRow
  <2> HIDE DEF new
  <2>5. CASE k # j
    <3>1. rows'[k] = rows[k]
      BY <2>4, <2>5 DEF TypeOK
    <3>2. QED
      BY <3>1 DEF RowStep, Stored
  <2>6. CASE k = j
    <3>1. rows'[k] = new
      BY <2>4, <2>6 DEF TypeOK
    <3>2. Holds(w, k) /\ Stored(k)
      BY <1>4, <2>1, <2>6 DEF FlushRow, Holds, FreshInv
    <3>3. QED
      BY <2>3, <2>6, <3>1, <3>2 DEF RowStep, Stored
  <2>7. QED
    BY <2>5, <2>6
<1>5. ASSUME NEW s \in Schedulers, SweepReset(s) PROVE RowStep(k)
  <2>1. /\ rows'[k].attempts = rows[k].attempts
        /\ rows'[k].done = rows[k].done
        /\ rows'[k] = rows[k] \/ (rows[k].status = "processing" /\ rows'[k].status = "pending")
    BY <1>5 DEF SweepReset, TypeOK, Row, Resettable
  <2>2. QED
    BY <2>1 DEF RowStep, Stored
<1>6. QED
  BY <1>1, <1>2, <1>3, <1>4, <1>5
     DEF Next, ApiStep, WorkerNext, SlotStep, SweepStep, vars, Tick, ApiEnqueue, ApiForget,
         RedisFlush, Dequeue, TurnEnds, LoadRow, Crash, SweepSelect, SweepEnqueue,
         SweepEnqueueLost, SchedulerCrash

\* An event that is finished with stays so and is never attempted again.
THEOREM FinishedForGood == Spec => NeverReopened
<1> DEFINE Kept == \A k \in Keys :
                     rows[k].done => rows'[k].done /\ rows'[k].attempts = rows[k].attempts
<1>1. TypeOK /\ FreshInv /\ [Next]_vars => [Kept]_vars
  BY RowSteps DEF RowStep
<1>2. QED
  BY <1>1, TypeCorrect, FreshInvariant, PTL DEF Spec, NeverReopened

-----------------------------------------------------------------------------
(* The attempt cap alone strands nothing *)

\* The inductive form of ExhaustedIsHeld: the slot that made the last attempt, once it has
\* read the row, has read that no attempts are left, so what it writes finishes the event.
LastHolder(w, k) ==
  /\ Holds(w, k)
  /\ slot[w].pc = "loaded" => slot[w].seen.attempts = MaxAttempts /\ ~slot[w].seen.done

CapInv ==
  crashes = 0 =>
    \A k \in Keys : rows[k].attempts = MaxAttempts /\ ~rows[k].done
                      => \E w \in Workers : LastHolder(w, k)

\* A step that neither spends an attempt nor takes its event from a slot keeps CapInv.
LEMMA CapInvFrame ==
  ASSUME CapInv, crashes' = 0 => crashes = 0,
         \A k \in Keys : /\ rows'[k].attempts = rows[k].attempts
                         /\ rows'[k].done <=> rows[k].done
                         /\ \A w \in Workers : LastHolder(w, k) => LastHolder(w, k)'
  PROVE  CapInv'
BY DEF CapInv

LEMMA CapInvariant == Spec => []CapInv
<1>1. Init => CapInv
  BY MaxAttemptsAssumption DEF Init, CapInv, NoRow
<1>2. TypeOK /\ CapInv /\ [Next]_vars => CapInv'
  <2> SUFFICES ASSUME TypeOK, CapInv, [Next]_vars PROVE CapInv'
    OBVIOUS
  <2>1. CASE UNCHANGED <<rows, slot, crashes>>
    BY <2>1, CapInvFrame DEF LastHolder, Holds
  <2>2. ASSUME NEW K \in SUBSET Keys, StoreEvents(K) PROVE CapInv'
    <3>1. \A k \in Keys : \/ rows'[k] = rows[k]
                           \/ rows'[k].attempts = 0
      BY <2>2 DEF StoreEvents, Fresh
    <3>2. slot' = slot /\ crashes' = crashes
      BY <2>2 DEF StoreEvents
    <3>3. QED
      BY <3>1, <3>2, MaxAttemptsAssumption DEF CapInv, LastHolder, Holds
  <2>3. ASSUME NEW w \in Workers, Dequeue(w) PROVE CapInv'
    <3>1. \A k \in Keys, v \in Workers : LastHolder(v, k) => LastHolder(v, k)'
      BY <2>3 DEF Dequeue, LastHolder, Holds, TypeOK
    <3>2. QED
      BY <2>3, <3>1, CapInvFrame DEF Dequeue
  <2>4. ASSUME NEW w \in Workers, Claim(w) PROVE CapInv'
    <3>0. PICK j \in Keys : j = slot[w].job
      BY <2>4 DEF Claim, TypeOK
    <3>1. \A k \in Keys, v \in Workers : LastHolder(v, k) => LastHolder(v, k)'
      BY <2>4 DEF Claim, LastHolder, Holds, TypeOK, Slot
    <3>2. CASE ~Claimable(rows[j])
      BY <2>4, <3>0, <3>1, <3>2, CapInvFrame DEF Claim
    <3>3. CASE Claimable(rows[j])
      <4>1. LastHolder(w, j)'
        BY <2>4, <3>0, <3>3 DEF Claim, LastHolder, Holds, TypeOK, Slot
      <4>2. rows' = [rows EXCEPT ![j].status = "processing", ![j].attempts = @ + 1]
        BY <2>4, <3>0, <3>3 DEF Claim
      <4>3. \A k \in Keys \ {j} : rows'[k] = rows[k]
        BY <4>2 DEF TypeOK
      <4>4. crashes' = crashes
        BY <2>4 DEF Claim
      <4>5. QED
        BY <3>1, <4>1, <4>3, <4>4 DEF CapInv
    <3>4. QED
      BY <3>2, <3>3
  <2>5. ASSUME NEW w \in Workers, TurnEnds(w) PROVE CapInv'
    <3>1. \A k \in Keys, v \in Workers : LastHolder(v, k) => LastHolder(v, k)'
      BY <2>5 DEF TurnEnds, LastHolder, Holds, TypeOK, Slot
    <3>2. QED
      BY <2>5, <3>1, CapInvFrame DEF TurnEnds
  <2>6. ASSUME NEW w \in Workers, LoadRow(w) PROVE CapInv'
    <3>0. PICK j \in Keys : j = slot[w].job
      BY <2>6 DEF LoadRow, TypeOK
    <3>1. \A k \in Keys, v \in Workers : v # w \/ k # j =>
             (LastHolder(v, k) => LastHolder(v, k)')
      BY <2>6, <3>0 DEF LoadRow, LastHolder, Holds, TypeOK, Slot
    <3>2. rows[j].attempts = MaxAttempts /\ ~rows[j].done => LastHolder(w, j)'
      BY <2>6, <3>0 DEF LoadRow, LastHolder, Holds, TypeOK, Slot
    <3>3. rows' = rows /\ crashes' = crashes
      BY <2>6 DEF LoadRow
    <3>4. QED
      BY <3>1, <3>2, <3>3 DEF CapInv
  <2>7. ASSUME NEW w \in Workers, FlushRow(w) PROVE CapInv'
    <3>0. PICK j \in Keys : j = slot[w].job
      BY <2>7 DEF FlushRow, TypeOK
    <3> DEFINE new == Flushed(rows[j], slot[w].seen, Marked(slot[w].seen, slot[w].outcome))
    <3>1. rows[j] \in Row /\ slot[w].seen \in Row /\ slot[w].outcome \in Outcomes
      BY DEF TypeOK, Slot
    <3>2. /\ new.attempts = rows[j].attempts
          /\ rows[j].done => new.done
          /\ ~slot[w].seen.done /\ ~WillRetry(slot[w].seen, slot[w].outcome) => new.done
      BY <3>1, FlushedRow
    <3>3. rows' = [rows EXCEPT ![j] = new]
      BY <2>7, <3>0 DEF FlushRow
    <3> HIDE DEF new
    <3>4. rows'[j] = new /\ \A k \in Keys \ {j} : rows'[k] = rows[k]
      BY <3>3 DEF TypeOK
    <3>5. LastHolder(w, j) => new.done
      <4>1. slot[w].seen.attempts = MaxAttempts => ~WillRetry(slot[w].seen, slot[w].outcome)
        BY MaxAttemptsAssumption DEF WillRetry
      <4>2. QED
        BY <2>7, <3>2, <4>1 DEF LastHolder, FlushRow
    <3>6. \A k \in Keys, v \in Workers : v # w => (LastHolder(v, k) => LastHolder(v, k)')
      BY <2>7 DEF FlushRow, LastHolder, Holds, TypeOK
    <3>7. \A k \in Keys : LastHolder(w, k) => k = j
      BY <3>0 DEF LastHolder, Holds
    <3>8. crashes' = crashes
      BY <2>7 DEF FlushRow
    <3>9. QED
      BY <3>2, <3>4, <3>5, <3>6, <3>7, <3>8 DEF CapInv
  <2>8. ASSUME NEW w \in Workers, Crash(w) PROVE CapInv'
    BY <2>8 DEF Crash, CapInv, TypeOK
  <2>9. ASSUME NEW s \in Schedulers, SweepReset(s) PROVE CapInv'
    <3>1. \A k \in Keys : /\ rows'[k].attempts = rows[k].attempts
                          /\ rows'[k].done = rows[k].done
      BY <2>9 DEF SweepReset, TypeOK, Row
    <3>2. QED
      BY <2>9, <3>1, CapInvFrame DEF SweepReset, LastHolder, Holds
  <2>10. ASSUME NEW s \in Schedulers, SchedulerCrash(s) PROVE CapInv'
    BY <2>10 DEF SchedulerCrash, CapInv, TypeOK
  <2>11. QED
    BY <2>1, <2>2, <2>3, <2>4, <2>5, <2>6, <2>7, <2>8, <2>9, <2>10
       DEF Next, ApiStep, WorkerNext, SlotStep, SweepStep, vars, Tick, ApiEnqueue, ApiForget,
           RedisFlush, SweepSelect, SweepEnqueue, SweepEnqueueLost
<1>3. QED
  BY <1>1, <1>2, TypeCorrect, PTL DEF Spec

\* Without a crash, an event out of attempts is finished with or in the hands of a slot.
THEOREM CapStrandsNothing == Spec => []ExhaustedIsHeld
<1>1. CapInv => ExhaustedIsHeld
  BY DEF CapInv, ExhaustedIsHeld, LastHolder
<1>2. QED
  BY <1>1, CapInvariant, PTL

-----------------------------------------------------------------------------
(* The table with its queue, slots and sweeps implements the inbox contract *)

\* When one row changes and the others stay, so do the entries.
LEMMA LedgerUpdate ==
  ASSUME NEW j \in Keys, \A k \in Keys \ {j} : rows'[k] = rows[k]
  PROVE  Ledger' = [Ledger EXCEPT ![j] = Promise(j)']
BY DEF Ledger, Promise, Stored

\* The inbox keeps its promise: bounded attempts, settled only after one and for good.
THEOREM InboxKeepsContract == Spec => KeepsContract
<1>1. Init => Contract!ContractInit
  BY DEF Contract!ContractInit, Init, Ledger, Promise, Stored, NoRow
<1>2. TypeOK /\ FreshInv /\ [Next]_vars => Contract!ContractNext \/ Ledger' = Ledger
  <2> SUFFICES ASSUME TypeOK, FreshInv, [Next]_vars PROVE Contract!ContractNext \/ Ledger' = Ledger
    OBVIOUS
  <2>1. CASE rows' = rows
    BY <2>1 DEF Ledger, Promise, Stored
  <2>2. ASSUME NEW K \in SUBSET Keys, StoreEvents(K) PROVE Contract!Accept(K)
    <3>1. \A k \in Keys : rows'[k] = IF k \in K THEN Fresh(clock + 1) ELSE rows[k]
      BY <2>2 DEF StoreEvents
    <3>2. \A k \in Keys : Promise(k)' = IF k \in K THEN [phase |-> "open", tries |-> 0] ELSE Promise(k)
      BY <3>1 DEF Promise, Stored, Fresh
    <3>3. K # {} /\ \A k \in K : Ledger[k].phase = "unknown"
      BY <2>2 DEF StoreEvents, Ledger, Promise
    <3>4. QED
      BY <3>2, <3>3 DEF Ledger, Contract!Accept
  <2>3. ASSUME NEW w \in Workers, Claim(w), rows' # rows PROVE Contract!ContractNext
    <3>0. PICK j \in Keys : j = slot[w].job
      BY <2>3 DEF Claim, TypeOK
    <3>1. Claimable(rows[j])
      BY <2>3, <3>0 DEF Claim
    <3>2. rows' = [rows EXCEPT ![j].status = "processing", ![j].attempts = @ + 1]
      BY <2>3, <3>0, <3>1 DEF Claim
    <3>3. /\ \A k \in Keys \ {j} : rows'[k] = rows[k]
          /\ rows'[j] = [rows[j] EXCEPT !.status = "processing", !.attempts = @ + 1]
          /\ rows[j] \in Row
      BY <3>2 DEF TypeOK
    <3>4. /\ rows'[j].status = "processing"
          /\ rows'[j].attempts = rows[j].attempts + 1
          /\ rows'[j].done = rows[j].done
      BY <3>3 DEF Row
    <3>5. /\ Promise(j) = [phase |-> "open", tries |-> rows[j].attempts]
          /\ Promise(j)' = [phase |-> "open", tries |-> rows[j].attempts + 1]
          /\ rows[j].attempts < MaxAttempts
      BY <3>1, <3>4 DEF Promise, Stored, Claimable
    <3>6. Ledger' = [Ledger EXCEPT ![j] = Promise(j)']
      BY <3>3, LedgerUpdate
    <3>7. Ledger[j] = Promise(j)
      BY DEF Ledger
    <3>8. Contract!Attempt(j)
      <4>1. Promise(j)' = [Promise(j) EXCEPT !.tries = @ + 1]
        BY <3>5
      <4>2. Ledger' = [Ledger EXCEPT ![j].tries = @ + 1]
        BY <3>6, <3>7, <4>1
      <4>3. Ledger[j].phase = "open" /\ Ledger[j].tries < MaxAttempts
        BY <3>5, <3>7
      <4>4. QED
        BY <4>2, <4>3 DEF Contract!Attempt
    <3>9. QED
      BY <3>8 DEF Contract!ContractNext
  <2>4. ASSUME NEW w \in Workers, FlushRow(w) PROVE Contract!ContractNext \/ Ledger' = Ledger
    <3>0. PICK j \in Keys : j = slot[w].job
      BY <2>4 DEF FlushRow, TypeOK
    <3> DEFINE new == Flushed(rows[j], slot[w].seen, Marked(slot[w].seen, slot[w].outcome))
    <3>1. rows[j] \in Row /\ slot[w].seen \in Row /\ slot[w].outcome \in Outcomes
      BY DEF TypeOK, Slot
    <3>2. /\ new \in Row
          /\ new.attempts = rows[j].attempts
          /\ rows[j].done => new.done
          /\ new.status \in {"processed", "failed", rows[j].status}
      BY <3>1, FlushedRow
    <3>3. rows' = [rows EXCEPT ![j] = new]
      BY <2>4, <3>0 DEF FlushRow
    <3> HIDE DEF new
    <3>4. rows'[j] = new /\ \A k \in Keys \ {j} : rows'[k] = rows[k]
      BY <3>3 DEF TypeOK
    <3>5. Stored(j) /\ rows[j].attempts > 0
      BY <2>4, <3>0 DEF FlushRow, Holds, FreshInv
    <3>6. Stored(j)'
      BY <3>2, <3>4, <3>5 DEF Stored
    <3>7. Ledger' = [Ledger EXCEPT ![j] = Promise(j)'] /\ Ledger[j] = Promise(j)
      BY <3>4, LedgerUpdate DEF Ledger
    <3>8. CASE new.done = rows[j].done
      <4>1. Promise(j)' = Promise(j)
        BY <3>2, <3>4, <3>5, <3>6, <3>8 DEF Promise
      <4>2. QED
        BY <3>7, <4>1 DEF Ledger
    <3>9. CASE ~rows[j].done /\ new.done
      <4>1. /\ Promise(j) = [phase |-> "open", tries |-> rows[j].attempts]
            /\ Promise(j)' = [phase |-> "settled", tries |-> rows[j].attempts]
        BY <3>2, <3>4, <3>5, <3>6, <3>9 DEF Promise
      <4>2. Contract!Settle(j)
        <5>1. Promise(j)' = [Promise(j) EXCEPT !.phase = "settled"]
          BY <4>1
        <5>2. Ledger' = [Ledger EXCEPT ![j].phase = "settled"]
          BY <3>7, <5>1
        <5>3. Ledger[j].phase = "open" /\ Ledger[j].tries > 0
          BY <3>5, <3>7, <4>1
        <5>4. QED
          BY <5>2, <5>3 DEF Contract!Settle
      <4>3. QED
        BY <4>2 DEF Contract!ContractNext
    <3>10. QED
      BY <3>1, <3>2, <3>8, <3>9 DEF Row
  <2>5. ASSUME NEW s \in Schedulers, SweepReset(s) PROVE Ledger' = Ledger
    <3>1. \A k \in Keys : /\ rows'[k].attempts = rows[k].attempts
                          /\ rows'[k].done = rows[k].done
                          /\ Stored(k)' <=> Stored(k)
      BY <2>5 DEF SweepReset, TypeOK, Row, Resettable, Stored
    <3>2. QED
      BY <3>1 DEF Ledger, Promise
  <2>6. QED
    BY <2>1, <2>2, <2>3, <2>4, <2>5
       DEF Contract!ContractNext, Next, ApiStep, WorkerNext, SlotStep, SweepStep, vars, Tick, ApiEnqueue, ApiForget,
           RedisFlush, Dequeue, TurnEnds, LoadRow, Crash, SweepSelect, SweepEnqueue,
           SweepEnqueueLost, SchedulerCrash
<1>3. TypeOK /\ FreshInv /\ [Next]_vars => [Contract!ContractNext]_Ledger
  BY <1>2
<1>4. QED
  BY <1>1, <1>3, TypeCorrect, FreshInvariant, PTL
     DEF Spec, KeepsContract, Contract!ContractSpec

=============================================================================
