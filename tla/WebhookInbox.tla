---------------------------- MODULE WebhookInbox ----------------------------
(***************************************************************************)
(* The durable inbox: the webhook_events table, the Redis job list, the    *)
(* consumers that drain it and the schedulers that sweep what it dropped   *)
(* (app/services/webhook_events.py, app/worker/{queue,jobs,runner}.py).    *)
(*                                                                         *)
(* An event is a model value.  Every transaction of the code is one step;  *)
(* a transaction that reads a row, decides and then writes it back without *)
(* a row lock is two steps (LoadRow, FlushRow), because PostgreSQL runs at *)
(* READ COMMITTED and anything may commit in between.                      *)
(*                                                                         *)
(* Who stores an event and pushes its first job is the API (module         *)
(* WebhookIntake); here StoreEvents and the two Api... actions stand for   *)
(* it.  What a dispatched event does is left to the modules of the flows:  *)
(* here a turn only ends in one of the three ways the jobs module tells    *)
(* apart.                                                                  *)
(***************************************************************************)
EXTENDS Naturals, Sequences, FiniteSets

CONSTANTS
  Keys,          \* event keys Meta may deliver
  Workers,       \* job slots: worker_concurrency slots in every process that consumes
  Schedulers,    \* processes that run the sweep: the worker and every API instance
  NoKey,         \* no event
  MaxAttempts,   \* worker_max_attempts
  BatchSize,     \* worker_batch_size
  QueueCap,      \* bound: jobs in the Redis list
  MaxCrashes,    \* bound: processes that die
  MaxLosses      \* bound: Redis calls that fail, Redis flushes

ASSUME KeysAssumption == NoKey \notin Keys
ASSUME MaxAttemptsAssumption == MaxAttempts \in Nat \ {0}
ASSUME BoundsAssumption ==
  /\ BatchSize \in Nat \ {0} /\ QueueCap \in Nat \ {0}
  /\ MaxCrashes \in Nat /\ MaxLosses \in Nat

VARIABLES
  rows,      \* rows[k]: the webhook_events row of k
  clock,     \* how many commits have stored rows: the scale of received_at
  cutoff,    \* rows received at or before it are past webhook_sweep_after_seconds
  owed,      \* stored events whose first job the API has not pushed yet
  queue,     \* the Redis list, next job first
  slot,      \* slot[w]: what job slot w is doing
  selected,  \* selected[s]: ids the sweep of s read and will reset
  requeue,   \* requeue[s]: ids the sweep of s has reset and will push
  crashes, losses

vars == <<rows, clock, cutoff, owed, queue, slot, selected, requeue, crashes, losses>>

-----------------------------------------------------------------------------
(* Rows.  done is "processed_at IS NOT NULL".  The status IGNORED is left  *)
(* out: parse_webhook produces no event without a model, so _finish is     *)
(* never called with a reason.                                             *)

Statuses == {"absent", "pending", "processing", "processed", "failed"}
Row == [status : Statuses, attempts : 0..MaxAttempts, done : BOOLEAN, received : Nat]
NoRow == [status |-> "absent", attempts |-> 0, done |-> FALSE, received |-> 0]
Fresh(at) == [status |-> "pending", attempts |-> 0, done |-> FALSE, received |-> at]

Stored(k) == rows[k].status # "absent"
Old(k) == rows[k].received <= cutoff

(* Slots *)
Outcomes == {"none", "ok", "retryable", "permanent"}
Slot == [pc : {"idle", "dequeued", "running", "ended", "loaded"},
         job : Keys \cup {NoKey}, outcome : Outcomes, seen : Row]
Idle == [pc |-> "idle", job |-> NoKey, outcome |-> "none", seen |-> NoRow]

\* slot w has claimed k and has not written its outcome yet
Holds(w, k) == slot[w].job = k /\ slot[w].pc \in {"running", "ended", "loaded"}

TypeOK ==
  /\ rows \in [Keys -> Row]
  /\ clock \in Nat
  /\ cutoff \in Nat
  /\ owed \subseteq Keys
  /\ queue \in Seq(Keys)
  /\ slot \in [Workers -> Slot]
  /\ \A w \in Workers : slot[w].pc # "idle" => slot[w].job \in Keys
  /\ selected \in [Schedulers -> SUBSET Keys]
  /\ requeue \in [Schedulers -> SUBSET Keys]
  /\ crashes \in Nat
  /\ losses \in Nat

Init ==
  /\ rows = [k \in Keys |-> NoRow]
  /\ clock = 0
  /\ cutoff = 0
  /\ owed = {}
  /\ queue = <<>>
  /\ slot = [w \in Workers |-> Idle]
  /\ selected = [s \in Schedulers |-> {}]
  /\ requeue = [s \in Schedulers |-> {}]
  /\ crashes = 0
  /\ losses = 0

-----------------------------------------------------------------------------
(* The environment: time, and the API as module WebhookIntake details it   *)

Tick ==
  /\ cutoff < clock
  /\ cutoff' = cutoff + 1
  /\ UNCHANGED <<rows, clock, owed, queue, slot, selected, requeue, crashes, losses>>

StoreEvents(K) ==
  /\ K # {}
  /\ \A k \in K : ~Stored(k)
  /\ clock' = clock + 1
  /\ rows' = [k \in Keys |-> IF k \in K THEN Fresh(clock + 1) ELSE rows[k]]
  /\ owed' = owed \cup K
  /\ UNCHANGED <<cutoff, queue, slot, selected, requeue, crashes, losses>>

\* LPUSH puts the job behind the ones BRPOP will take first
Push(k) ==
  /\ Len(queue) < QueueCap
  /\ queue' = Append(queue, k)

LoseOne ==
  /\ losses < MaxLosses
  /\ losses' = losses + 1

ApiEnqueue(k) ==
  /\ k \in owed
  /\ Push(k)
  /\ owed' = owed \ {k}
  /\ UNCHANGED <<rows, clock, cutoff, slot, selected, requeue, crashes, losses>>

\* Redis was unreachable (enqueue returned False), or the API instance died with
\* these still to push
ApiForget(K) ==
  /\ K # {} /\ K \subseteq owed
  /\ LoseOne
  /\ owed' = owed \ K
  /\ UNCHANGED <<rows, clock, cutoff, queue, slot, selected, requeue, crashes>>

RedisFlush ==
  /\ queue # <<>>
  /\ LoseOne
  /\ queue' = <<>>
  /\ UNCHANGED <<rows, clock, cutoff, owed, slot, selected, requeue, crashes>>

-----------------------------------------------------------------------------
(* A job slot.  run_job, process_webhook_event, _finish, _record_failure.  *)

Dequeue(w) ==
  /\ slot[w].pc = "idle"
  /\ queue # <<>>
  /\ slot' = [slot EXCEPT ![w] = [Idle EXCEPT !.pc = "dequeued", !.job = Head(queue)]]
  /\ queue' = Tail(queue)
  /\ UNCHANGED <<rows, clock, cutoff, owed, selected, requeue, crashes, losses>>

\* plausible slips in the WHERE of claim
ClaimablePastCap(r) ==
  /\ r.status \in {"pending", "failed"}
  /\ ~r.done
  /\ r.attempts <= MaxAttempts

ClaimableThoughDone(r) ==
  /\ r.status \in {"pending", "failed"}
  /\ r.attempts < MaxAttempts

Claimable(r) ==
  /\ r.status \in {"pending", "failed"}
  /\ ~r.done
  /\ r.attempts < MaxAttempts

Claim(w) ==
  LET k == slot[w].job IN
  /\ slot[w].pc = "dequeued"
  /\ \/ /\ Claimable(rows[k])
        /\ rows' = [rows EXCEPT ![k].status = "processing", ![k].attempts = @ + 1]
        /\ slot' = [slot EXCEPT ![w].pc = "running"]
     \/ /\ ~Claimable(rows[k])
        /\ slot' = [slot EXCEPT ![w] = Idle]
        /\ UNCHANGED rows
  /\ UNCHANGED <<clock, cutoff, owed, queue, selected, requeue, crashes, losses>>

\* the dispatched flow returns, raises RetryableError or an unknown error, or
\* raises PermanentError
TurnEnds(w) ==
  /\ slot[w].pc = "running"
  /\ \E o \in Outcomes \ {"none"} :
        slot' = [slot EXCEPT ![w].pc = "ended", ![w].outcome = o]
  /\ UNCHANGED <<rows, clock, cutoff, owed, queue, selected, requeue, crashes, losses>>

\* a new session reads the row: session.get
LoadRow(w) ==
  /\ slot[w].pc = "ended"
  /\ slot' = [slot EXCEPT ![w].pc = "loaded", ![w].seen = rows[slot[w].job]]
  /\ UNCHANGED <<rows, clock, cutoff, owed, queue, selected, requeue, crashes, losses>>

WillRetryAtCap(seen, outcome) == outcome = "retryable" /\ seen.attempts <= MaxAttempts

WillRetry(seen, outcome) == outcome = "retryable" /\ seen.attempts < MaxAttempts

\* what mark_processed and mark_failed make of the row they were given
Marked(seen, outcome) ==
  IF outcome = "ok"
  THEN [seen EXCEPT !.status = "processed", !.done = TRUE]
  ELSE [seen EXCEPT !.status = "failed",
                    !.done = seen.done \/ ~WillRetry(seen, outcome)]

\* a session that rewrites every column it loaded, changed or not
FlushedWhole(row, seen, new) == new

\* the UPDATE a session emits names only the columns that differ from what it loaded
Flushed(row, seen, new) ==
  [row EXCEPT !.status = IF new.status # seen.status THEN new.status ELSE row.status,
              !.done = IF new.done # seen.done THEN new.done ELSE row.done]

FlushRow(w) ==
  LET k == slot[w].job
      seen == slot[w].seen IN
  /\ slot[w].pc = "loaded"
  /\ rows' = [rows EXCEPT ![k] = Flushed(rows[k], seen, Marked(seen, slot[w].outcome))]
  /\ slot' = [slot EXCEPT ![w] = Idle]
  /\ UNCHANGED <<clock, cutoff, owed, queue, selected, requeue, crashes, losses>>

\* the process dies or is cancelled (CancelledError is not an Exception), or the
\* transaction that records the outcome fails: nothing more is written
Crash(w) ==
  /\ slot[w].pc # "idle"
  /\ crashes < MaxCrashes
  /\ crashes' = crashes + 1
  /\ slot' = [slot EXCEPT ![w] = Idle]
  /\ UNCHANGED <<rows, clock, cutoff, owed, queue, selected, requeue, losses>>

-----------------------------------------------------------------------------
(* The sweep.  sweep_stuck_webhooks, stale_event_ids, reset_for_retry.     *)

\* the query as it was before processed_at was added to it
StaleThoughDone(k) ==
  /\ rows[k].status \in {"pending", "processing", "failed"}
  /\ Old(k)
  /\ rows[k].attempts < MaxAttempts

StaleAtAnyAge(k) ==
  /\ rows[k].status \in {"pending", "processing", "failed"}
  /\ ~rows[k].done
  /\ rows[k].attempts < MaxAttempts

Stale(k) ==
  /\ rows[k].status \in {"pending", "processing", "failed"}
  /\ ~rows[k].done
  /\ Old(k)
  /\ rows[k].attempts < MaxAttempts

\* ORDER BY received_at LIMIT: the oldest, ties in any order
IsSweepBatch(B) ==
  LET stale == {k \in Keys : Stale(k)} IN
  /\ B \subseteq stale
  /\ B # {}
  /\ Cardinality(B) <= BatchSize
  /\ Cardinality(B) = BatchSize \/ B = stale
  /\ \A b \in B, k \in stale \ B : rows[b].received <= rows[k].received

SweepSelect(s) ==
  /\ selected[s] = {} /\ requeue[s] = {}
  /\ \E B \in SUBSET Keys : IsSweepBatch(B) /\ selected' = [selected EXCEPT ![s] = B]
  /\ UNCHANGED <<rows, clock, cutoff, owed, queue, slot, requeue, crashes, losses>>

Resettable(r) == r.status = "processing"

\* one conditional UPDATE per id, committed together
SweepReset(s) ==
  /\ selected[s] # {}
  /\ rows' = [k \in Keys |-> IF k \in selected[s] /\ Resettable(rows[k])
                             THEN [rows[k] EXCEPT !.status = "pending"]
                             ELSE rows[k]]
  /\ selected' = [selected EXCEPT ![s] = {}]
  /\ requeue' = [requeue EXCEPT ![s] = selected[s]]
  /\ UNCHANGED <<clock, cutoff, owed, queue, slot, crashes, losses>>

SweepEnqueue(s, k) ==
  /\ k \in requeue[s]
  /\ Push(k)
  /\ requeue' = [requeue EXCEPT ![s] = @ \ {k}]
  /\ UNCHANGED <<rows, clock, cutoff, owed, slot, selected, crashes, losses>>

SweepEnqueueLost(s, k) ==
  /\ k \in requeue[s]
  /\ LoseOne
  /\ requeue' = [requeue EXCEPT ![s] = @ \ {k}]
  /\ UNCHANGED <<rows, clock, cutoff, owed, queue, slot, selected, crashes>>

\* the process dies mid-sweep: an uncommitted reset is rolled back
SchedulerCrash(s) ==
  /\ selected[s] # {} \/ requeue[s] # {}
  /\ crashes < MaxCrashes
  /\ crashes' = crashes + 1
  /\ selected' = [selected EXCEPT ![s] = {}]
  /\ requeue' = [requeue EXCEPT ![s] = {}]
  /\ UNCHANGED <<rows, clock, cutoff, owed, queue, slot, losses>>

-----------------------------------------------------------------------------
ApiStep ==
  \/ \E K \in SUBSET Keys : StoreEvents(K) \/ ApiForget(K)
  \/ \E k \in Keys : ApiEnqueue(k)

SlotStep(w) ==
  Dequeue(w) \/ Claim(w) \/ TurnEnds(w) \/ LoadRow(w) \/ FlushRow(w) \/ Crash(w)

SweepStep(s) ==
  \/ SweepSelect(s) \/ SweepReset(s) \/ SchedulerCrash(s)
  \/ \E k \in Keys : SweepEnqueue(s, k) \/ SweepEnqueueLost(s, k)

WorkerNext ==
  \/ Tick
  \/ \E w \in Workers : SlotStep(w)
  \/ \E s \in Schedulers : SweepStep(s)

Next == ApiStep \/ RedisFlush \/ WorkerNext

Spec == Init /\ [][Next]_vars

\* The event loop runs every task that is ready; a turn ends because each call it
\* makes has a timeout; time passes; the scheduler loop comes round every interval.
Fairness ==
  /\ WF_vars(Tick)
  /\ \A k \in Keys : WF_vars(ApiEnqueue(k))
  /\ \A w \in Workers : /\ WF_vars(Dequeue(w)) /\ WF_vars(Claim(w))
                        /\ WF_vars(TurnEnds(w))
                        /\ WF_vars(LoadRow(w)) /\ WF_vars(FlushRow(w))
  /\ \A s \in Schedulers : /\ WF_vars(SweepSelect(s)) /\ WF_vars(SweepReset(s))
                           /\ \A k \in Keys : WF_vars(SweepEnqueue(s, k))

FairSpec == Spec /\ Fairness

-----------------------------------------------------------------------------
(* Properties *)

\* While an event is younger than the sweep age, at most one slot works on it,
\* however many jobs name it: claim's conditional UPDATE is the only door.
OneRunnerWhileFresh ==
  \A k \in Keys : ~Old(k) => \A v, w \in Workers : Holds(v, k) /\ Holds(w, k) => v = w

\* If no process has died, an event that used its last attempt is either finished
\* with or still in the hands of a slot that will finish it: the attempt cap that
\* claim and the sweep enforce never strands an event by itself.
ExhaustedIsHeld ==
  crashes = 0 =>
    \A k \in Keys : rows[k].attempts = MaxAttempts /\ ~rows[k].done
                      => \E w \in Workers : Holds(w, k)

\* An event that is finished with stays so and is never claimed again, whatever
\* duplicated jobs, late workers and sweeps still refer to it.
NeverReopened ==
  [][\A k \in Keys : rows[k].done => rows'[k].done /\ rows'[k].attempts = rows[k].attempts]_vars

\* The ledger the rows amount to: processed_at settles, attempts counts the tries.
Promise(k) == [phase |-> IF ~Stored(k) THEN "unknown"
                         ELSE IF rows[k].done THEN "settled" ELSE "open",
               tries |-> rows[k].attempts]
Ledger == [k \in Keys |-> Promise(k)]

Contract == INSTANCE InboxContract WITH ledger <- Ledger

\* The table, with its queue, its slots and its sweeps, keeps the inbox's promise:
\* bounded attempts, settled only after one, and settled for good.
KeepsContract == Contract!ContractSpec

\* Whatever the queue loses, every stored event is finished with (processed or parked):
\* the sweep brings it back.  The exception is an event whose last attempt a dying
\* process took along: neither claim nor the sweep looks at it again.
EventuallySettled ==
  \A k \in Keys : Stored(k) ~> \/ rows[k].done
                               \/ crashes > 0 /\ rows[k].attempts = MaxAttempts

=============================================================================
