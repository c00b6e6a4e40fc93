-------------------------- MODULE DeliveryReceipts --------------------------
(***************************************************************************)
(* What Meta tells us about the messages we sent: apply_delivery_status    *)
(* (app/services/conversations.py), run for one webhook event per message  *)
(* and state.  A session loads the row by its provider id, decides, and    *)
(* writes the columns it changed; nothing locks the row in between, and    *)
(* nothing orders the events of one message.  The row itself is committed  *)
(* some time after Meta has taken the message, or never.                   *)
(*                                                                         *)
(* A timestamp is abstracted to the receipt that stamped it.               *)
(***************************************************************************)
EXTENDS Naturals, FiniteSets

CONSTANTS
  Ids,      \* ids Meta gives to messages it takes
  Readers,  \* job slots that handle receipts
  None

\* _RECEIPT_STATUS; Meta adds others from time to time
Known == {"sent", "delivered", "read", "failed"}
Receipts == Known \cup {"other"}

ASSUME ReceiptsAssumption == None \notin Ids \cup Receipts

VARIABLES
  sending,  \* messages Meta has taken whose session is still open
  rows,     \* rows[id]: the outbound message with this provider id, as committed
  told,     \* told[id]: receipts Meta has sent for it
  heeded,   \* heeded[id]: receipts whose session has committed (history)
  reading,  \* reading[a]: the session of reader a
  dropped,  \* history: receipts that found no row
  crossed   \* history: messages whose row changed between a session's load and its write

receiptVars == <<sending, rows, told, heeded, reading, dropped, crossed>>

\* _DELIVERY_PROGRESS
Progress == [received |-> 0, queued |-> 1, sent |-> 2, delivered |-> 3, read |-> 4, failed |-> 5]

Row == [status : {"unsent", "absent", "sent", "delivered", "read", "failed"},
        deliveredAt : {None, "delivered", "read"}, readAt : {None, "read"}]

NoRow == [status |-> "unsent", deliveredAt |-> None, readAt |-> None]
LostRow == [NoRow EXCEPT !.status = "absent"]

\* record_outbound_message of an accepted message
SentRow == [NoRow EXCEPT !.status = "sent"]

HasRow(id) == rows[id].status \in Known

Reading == [id : Ids \cup {None}, receipt : Receipts \cup {None}, row : Row]

NotReading == [id |-> None, receipt |-> None, row |-> NoRow]

ReceiptsInit ==
  /\ sending = {}
  /\ rows = [id \in Ids |-> NoRow]
  /\ told = [id \in Ids |-> {}]
  /\ heeded = [id \in Ids |-> {}]
  /\ reading = [a \in Readers |-> NotReading]
  /\ dropped = {}
  /\ crossed = {}

-----------------------------------------------------------------------------
\* the row after the receipt; `or now` keeps the first timestamp
Stamp(at, r) == IF at = None THEN r ELSE at

\* a receipt taken as it comes
Overwritten(row, r) ==
  [status |-> r,
   deliveredAt |-> IF r \in {"delivered", "read"} THEN Stamp(row.deliveredAt, r)
                                                  ELSE row.deliveredAt,
   readAt |-> IF r = "read" THEN Stamp(row.readAt, r) ELSE row.readAt]

\* a message taken for delivered only when that receipt comes
ReadAlone(row, r) ==
  [status |-> IF r \in Known /\ Progress[r] > Progress[row.status] THEN r ELSE row.status,
   deliveredAt |-> IF r = "delivered" THEN Stamp(row.deliveredAt, r) ELSE row.deliveredAt,
   readAt |-> IF r = "read" THEN Stamp(row.readAt, r) ELSE row.readAt]

Applied(row, r) ==
  [status |-> IF r \in Known /\ Progress[r] > Progress[row.status] THEN r ELSE row.status,
   deliveredAt |-> IF r \in {"delivered", "read"} THEN Stamp(row.deliveredAt, r)
                                                  ELSE row.deliveredAt,
   readAt |-> IF r = "read" THEN Stamp(row.readAt, r) ELSE row.readAt]

\* every column as the session has it
Stored(loaded, assigned, row) == assigned

\* the columns that differ between what was loaded and what was assigned
Flushed(loaded, assigned, row) ==
  [c \in DOMAIN row |-> IF assigned[c] # loaded[c] THEN assigned[c] ELSE row[c]]

-----------------------------------------------------------------------------
\* Meta takes the message and tells us its id
Send(id) ==
  /\ rows[id].status = "unsent" /\ id \notin sending
  /\ sending' = sending \cup {id}
  /\ UNCHANGED <<rows, told, heeded, reading, dropped, crossed>>

\* the sender's transaction commits, or never will
RecordOutbound(id) ==
  /\ id \in sending
  /\ sending' = sending \ {id}
  /\ \E row \in {SentRow, LostRow} : rows' = [rows EXCEPT ![id] = row]
  /\ UNCHANGED <<told, heeded, reading, dropped, crossed>>

\* the states Meta reports: `failed` instead of delivery, `read` also without `delivered`
Tell(id, r) ==
  /\ id \in sending \/ rows[id].status # "unsent"
  /\ r \notin told[id]
  /\ r \in {"delivered", "read"} => "failed" \notin told[id]
  /\ r = "failed" => told[id] \cap {"delivered", "read"} = {}
  /\ told' = [told EXCEPT ![id] = @ \cup {r}]
  /\ UNCHANGED <<sending, rows, heeded, reading, dropped, crossed>>

\* an event may be run again while its first run is under way, or after it
LoadMessage(a, id, r) ==
  /\ reading[a] = NotReading
  /\ r \in told[id] /\ <<id, r>> \notin dropped
  /\ IF HasRow(id)
     THEN /\ reading' = [reading EXCEPT ![a] = [id |-> id, receipt |-> r, row |-> rows[id]]]
          /\ UNCHANGED dropped
     ELSE dropped' = dropped \cup {<<id, r>>} /\ UNCHANGED reading
  /\ UNCHANGED <<sending, rows, told, heeded, crossed>>

WriteMessage(a) ==
  LET s == reading[a] IN
  /\ s # NotReading
  /\ rows' = [rows EXCEPT ![s.id] = Flushed(s.row, Applied(s.row, s.receipt), @)]
  /\ heeded' = [heeded EXCEPT ![s.id] = @ \cup {s.receipt}]
  /\ crossed' = IF rows[s.id] # s.row THEN crossed \cup {s.id} ELSE crossed
  /\ reading' = [reading EXCEPT ![a] = NotReading]
  /\ UNCHANGED <<sending, told, dropped>>

\* the session is lost and its event waits for the sweep
LoseSession(a) ==
  /\ reading[a] # NotReading
  /\ reading' = [reading EXCEPT ![a] = NotReading]
  /\ UNCHANGED <<sending, rows, told, heeded, dropped, crossed>>

ReceiptsNext ==
  \/ \E id \in Ids : Send(id) \/ RecordOutbound(id) \/ \E r \in Receipts : Tell(id, r)
  \/ \E id \in Ids, r \in Receipts, a \in Readers : LoadMessage(a, id, r)
  \/ \E a \in Readers : WriteMessage(a) \/ LoseSession(a)

ReceiptsSpec == ReceiptsInit /\ [][ReceiptsNext]_receiptVars

-----------------------------------------------------------------------------
ReceiptsTypeOK ==
  /\ sending \subseteq Ids
  /\ rows \in [Ids -> Row]
  /\ told \in [Ids -> SUBSET Receipts]
  /\ heeded \in [Ids -> SUBSET Receipts]
  /\ reading \in [Readers -> Reading]
  /\ dropped \subseteq Ids \X Receipts
  /\ crossed \subseteq Ids

(* "Applying a receipt is idempotent and order-independent"                 *)
(* (conversations.py 285-287), as far as that is true: whatever the order   *)
(* and the repetitions, the status is the furthest the receipts told of -   *)
(* unless two sessions overlapped on the message, which nothing prevents    *)
(* ("two of them can be in flight at once").                                *)
OrderIndependent ==
  \A id \in Ids \ crossed :
     HasRow(id) =>
       /\ rows[id].status \in heeded[id] \cup {"sent"}
       /\ \A r \in heeded[id] \cap Known : Progress[r] <= Progress[rows[id].status]

(* "Timestamps are facts about what happened and are recorded whatever      *)
(* order the receipts arrive in" (conversations.py 304-305): overlapping    *)
(* sessions or not, a receipt that was applied is stamped, and a message    *)
(* that was read looks delivered at least.                                  *)
StampsRemember ==
  \A id \in Ids :
     /\ rows[id].readAt # None <=> "read" \in heeded[id]
     /\ rows[id].deliveredAt # None <=> heeded[id] \cap {"delivered", "read"} # {}
     /\ rows[id].readAt # None => rows[id].status \in {"delivered", "read"}

(* "A receipt may only move a message forward ... `failed` ranks highest    *)
(* because it is terminal" (conversations.py 250-257): a message never      *)
(* comes back from `failed`, and never to `sent` from anything later, even  *)
(* when sessions overlap.                                                   *)
NeverUnsent ==
  [][\A id \in Ids : /\ rows[id].status = "failed" => rows'[id].status = "failed"
                     /\ rows[id].status \in {"delivered", "read"}
                          => rows'[id].status \in {"delivered", "read"}]_receiptVars

=============================================================================
