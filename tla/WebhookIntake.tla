--------------------------- MODULE WebhookIntake ----------------------------
(***************************************************************************)
(* The API side of the inbox, composed with the inbox itself: Meta, which  *)
(* delivers an event until it has seen a 200, and the handlers of          *)
(* POST /webhooks/meta (app/api/webhooks.py receive, over                  *)
(* app/core/redis.py idempotency_guard, app/services/webhook_events.py     *)
(* record and app/services/base.py insert_or_get).  A request that is not  *)
(* signed is refused before it changes anything, and is left out.          *)
(*                                                                         *)
(* A handler runs: for every event of the body, ask the Redis guard and    *)
(* then insert the row in the request's transaction; commit; push one job  *)
(* per inserted row; answer 200.  The rows, the queue, the slots and the   *)
(* sweeps are those of WebhookInbox, whose API steps are refined here.     *)
(***************************************************************************)
EXTENDS WebhookInbox, MetaEvents

CONSTANTS
  Items,         \* what Meta has to deliver: messages, receipts, lead forms
  Handlers,      \* concurrent requests
  GuardUp,       \* FALSE: every guard call raises, so the guard returns True
  MaxFailures    \* bound: requests that fail before their commit

ASSUME IntakeAssumption == GuardUp \in BOOLEAN /\ MaxFailures \in Nat
ASSUME ItemsAssumption == Keys = {EventKey(i) : i \in {j \in Items : Understood(j)}}

VARIABLES
  payload,   \* payload[k]: the item in the webhook_events row of k, once stored
  acked,     \* items of deliveries Meta has seen a 200 for
  guard,     \* idempotency keys present in Redis
  req,       \* req[h]: the request handler h is serving
  failures

apiVars == <<payload, acked, guard, req, failures>>
allVars == <<vars, apiVars>>

Request == [pc : {"idle", "reading", "pushing"},
            batch : SUBSET Items,  \* the items of the body
            left : SUBSET Items,   \* the events the loop has not come to
            fresh : SUBSET Items]  \* inserted, and after the commit: still to push
NoRequest == [pc |-> "idle", batch |-> {}, left |-> {}, fresh |-> {}]

KeysOf(I) == {EventKey(i) : i \in I}
NoItem == Unsubscribed(Missing)

IntakeTypeOK ==
  /\ TypeOK
  /\ payload \in [Keys -> Items \cup {NoItem}]
  /\ acked \subseteq Items
  /\ guard \subseteq Keys
  /\ req \in [Handlers -> Request]
  /\ failures \in 0..MaxFailures
  \* each first job still to push is in the hands of one request, after its commit
  /\ owed = UNION {KeysOf(req[h].fresh) : h \in {g \in Handlers : req[g].pc = "pushing"}}
  /\ \A g, h \in Handlers :
        g # h /\ req[g].pc = "pushing" /\ req[h].pc = "pushing"
          => req[g].fresh \cap req[h].fresh = {}

IntakeInit ==
  /\ Init
  /\ payload = [k \in Keys |-> NoItem]
  /\ acked = {}
  /\ guard = {}
  /\ req = [h \in Handlers |-> NoRequest]
  /\ failures = 0

-----------------------------------------------------------------------------
\* Meta may repeat a delivery at any time, and group events as it likes
Deliver(h, B) ==
  /\ req[h].pc = "idle"
  /\ B # {}
  /\ req' = [req EXCEPT ![h] =
               [NoRequest EXCEPT !.pc = "reading", !.batch = B, !.left = Parsed(B)]]
  /\ UNCHANGED <<vars, payload, acked, guard, failures>>

\* the guard says the key is new, or cannot say
GuardLets(k) == k \notin guard \/ ~GuardUp

\* the guard says this key was seen before: the event is skipped unseen
Skip(h, i) ==
  /\ req[h].pc = "reading" /\ i \in req[h].left
  /\ ~GuardLets(EventKey(i))
  /\ req' = [req EXCEPT ![h].left = @ \ {i}]
  /\ UNCHANGED <<vars, payload, acked, guard, failures>>

\* the unique constraint forgotten: whatever arrives is inserted
InsertedAlways(h, i) == {i}

\* what insert_or_get adds to the transaction: nothing if there is a row of that key
Inserted(h, i) ==
  IF Stored(EventKey(i)) \/ EventKey(i) \in KeysOf(req[h].fresh) THEN {} ELSE {i}

\* the other transactions with an uncommitted row of this key: an insert of it waits for them
Inserting(h, k) ==
  {g \in Handlers \ {h} : req[g].pc = "reading" /\ k \in KeysOf(req[g].fresh)}

\* the guard lets the event through, and the insert is not kept waiting
Record(h, i) ==
  LET k == EventKey(i) IN
  /\ req[h].pc = "reading" /\ i \in req[h].left
  /\ GuardLets(k)
  /\ Inserting(h, k) = {}
  /\ guard' = IF GuardUp THEN guard \cup {k} ELSE guard
  /\ req' = [req EXCEPT ![h].left = @ \ {i}, ![h].fresh = @ \cup Inserted(h, i)]
  /\ UNCHANGED <<vars, payload, acked, failures>>

Commit(h) ==
  LET fresh == req[h].fresh  new == KeysOf(fresh) IN
  /\ req[h].pc = "reading" /\ req[h].left = {}
  /\ req' = [req EXCEPT ![h].pc = "pushing"]
  /\ rows' = [k \in Keys |-> IF k \in new THEN Fresh(clock + 1) ELSE rows[k]]
  /\ payload' = [k \in Keys |-> IF k \in new THEN CHOOSE i \in fresh : EventKey(i) = k
                                ELSE payload[k]]
  /\ clock' = IF fresh = {} THEN clock ELSE clock + 1
  /\ owed' = owed \cup new
  /\ UNCHANGED <<cutoff, queue, slot, selected, requeue, crashes, losses>>
  /\ UNCHANGED <<acked, guard, failures>>

\* a database error, or the instance dies: rollback, a 500 or no answer.
\* The guard keys set on the way stay.
Fail(h) ==
  /\ req[h].pc = "reading"
  /\ failures < MaxFailures
  /\ failures' = failures + 1
  /\ req' = [req EXCEPT ![h] = NoRequest]
  /\ UNCHANGED <<vars, payload, acked, guard>>

\* two bodies with the same events in different orders: each insert waits for the other
\* transaction, and PostgreSQL aborts one
WaitsFor(h) ==
  IF req[h].pc = "reading"
  THEN UNION {Inserting(h, k) : k \in {l \in KeysOf(req[h].left) : GuardLets(l)}} ELSE {}

DeadlockAbort(h) ==
  /\ \E g \in WaitsFor(h) : h \in WaitsFor(g)
  /\ req' = [req EXCEPT ![h] = NoRequest]
  /\ UNCHANGED <<vars, payload, acked, guard, failures>>

\* the job is pushed as soon as the row is inserted, without waiting for the commit
PushJobUncommitted(h, i) ==
  /\ req[h].pc # "idle" /\ i \in req[h].fresh
  /\ Push(EventKey(i))
  /\ owed' = owed \ {EventKey(i)}
  /\ UNCHANGED <<rows, clock, cutoff, slot, selected, requeue, crashes, losses>>
  /\ UNCHANGED apiVars

PushJob(h, i) ==
  /\ req[h].pc = "pushing" /\ i \in req[h].fresh
  /\ ApiEnqueue(EventKey(i)) \/ ApiForget({EventKey(i)})
  /\ req' = [req EXCEPT ![h].fresh = @ \ {i}]
  /\ UNCHANGED <<payload, acked, guard, failures>>

\* the instance dies after the commit: no more jobs, no answer
DieAfterCommit(h) ==
  /\ req[h].pc = "pushing" /\ req[h].fresh # {}
  /\ ApiForget(KeysOf(req[h].fresh))
  /\ req' = [req EXCEPT ![h] = NoRequest]
  /\ UNCHANGED <<payload, acked, guard, failures>>

MayAnswer(r) == r.pc = "pushing" /\ r.fresh = {}

\* the 200 reaches Meta, or is lost on the way
Respond(h) ==
  /\ MayAnswer(req[h])
  /\ req' = [req EXCEPT ![h] = NoRequest]
  /\ acked' \in {acked, acked \cup req[h].batch}
  /\ UNCHANGED <<vars, payload, guard, failures>>

GuardExpires(k) ==
  /\ k \in guard
  /\ guard' = guard \ {k}
  /\ UNCHANGED <<vars, payload, acked, req, failures>>

HandlerStep(h) ==
  \/ \E B \in SUBSET Items : Deliver(h, B)
  \/ \E i \in Items : Skip(h, i) \/ Record(h, i) \/ PushJob(h, i)
  \/ Commit(h) \/ Fail(h) \/ DeadlockAbort(h) \/ DieAfterCommit(h) \/ Respond(h)

\* a flush takes the guard keys with the jobs
InboxStep ==
  /\ \/ WorkerNext /\ UNCHANGED guard
     \/ RedisFlush /\ guard' = {}
  /\ UNCHANGED <<payload, acked, req, failures>>

IntakeNext ==
  \/ \E h \in Handlers : HandlerStep(h)
  \/ \E k \in Keys : GuardExpires(k)
  \/ InboxStep

IntakeSpec == IntakeInit /\ [][IntakeNext]_allVars

\* Meta repeats what it has seen no 200 for; a request runs to its end.
MetaRetries(i) == \E h \in Handlers : i \notin acked /\ Deliver(h, {i})

IntakeFairness ==
  /\ \A i \in Items : SF_allVars(MetaRetries(i))
  /\ \A h \in Handlers :
       /\ WF_allVars(Commit(h)) /\ WF_allVars(Respond(h)) /\ WF_allVars(DeadlockAbort(h))
       /\ \A i \in Items : WF_allVars(Skip(h, i) \/ Record(h, i)) /\ WF_allVars(PushJob(h, i))

FairIntakeSpec == IntakeSpec /\ IntakeFairness

-----------------------------------------------------------------------------
(* Properties *)

\* the event of an item is in its row: not only some event of the same key
Kept(i) == Stored(EventKey(i)) /\ payload[EventKey(i)] = i

\* Whatever the parser understands of a delivery Meta has seen a 200 for, and so will not
\* send again, is in the table: each receipt of a message, and the good half of a bad body.
AckedIsStored == \A i \in acked : Understood(i) => Kept(i)

\* What was acknowledged is in the table, or inserted by a request that is still
\* running: what the Redis guard suppresses is a repeat of something on its way.
AckedIsKept ==
  \A i \in Parsed(acked) : Kept(i) \/ \E h \in Handlers : i \in req[h].fresh

\* The handlers and the worker together are an inbox as WebhookInbox has it: no job names
\* a row before its commit, and every inserted row has one request that owes its first job.
ImplementsInbox == Spec

\* Every event Meta delivers ends in the table.
EverythingStored == \A i \in Items : Understood(i) => <>Kept(i)

=============================================================================
