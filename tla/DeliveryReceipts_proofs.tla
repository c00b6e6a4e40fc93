------------------------ MODULE DeliveryReceipts_proofs ------------------------
(***************************************************************************)
(* DeliveryReceipts for any number of messages and of job slots.           *)
(***************************************************************************)
EXTENDS DeliveryReceipts, TLAPS

LEMMA ProgressFacts ==
  /\ Progress["sent"] = 2 /\ Progress["delivered"] = 3
  /\ Progress["read"] = 4 /\ Progress["failed"] = 5
BY DEF Progress

-----------------------------------------------------------------------------
(* The invariant.  What makes it inductive is that a message's row only      *)
(* gains: whatever a session has loaded is still there when it writes.       *)

Reached == {"delivered", "read"}

\* Meta reports a failure instead of a delivery, and only what it told is heeded
ToldOK ==
  \A id \in Ids : /\ heeded[id] \subseteq told[id]
                  /\ "failed" \in told[id] => told[id] \cap Reached = {}

\* a message without a row has heard nothing, and one whose session is open has none
UnsentOK ==
  \A id \in Ids :
    /\ id \in sending => rows[id].status = "unsent"
    /\ ~HasRow(id) => /\ heeded[id] = {}
                      /\ rows[id].deliveredAt = None /\ rows[id].readAt = None

\* a status was reported, or is the one the message was recorded with
ReportedOK ==
  \A id \in Ids : HasRow(id) => rows[id].status \in told[id] \cup {"sent"}

Session(s) ==
  /\ s.id \in Ids /\ s.receipt \in told[s.id]
  /\ HasRow(s.id) /\ s.row.status \in Known
  /\ s.row.readAt # None => rows[s.id].readAt # None
  /\ s.row.deliveredAt # None => rows[s.id].deliveredAt # None
  /\ s.row.status \in Reached => rows[s.id].status \in Reached
  /\ s.row.status = "failed" => rows[s.id].status = "failed"

SessionsOK == \A a \in Readers : reading[a] # NotReading => Session(reading[a])

ReceiptsInv ==
  /\ ReceiptsTypeOK
  /\ ToldOK /\ UnsentOK /\ ReportedOK /\ SessionsOK
  /\ OrderIndependent /\ StampsRemember

\* what NeverUnsent asks of a step
KeepsStatus ==
  \A id \in Ids : /\ rows[id].status = "failed" => rows'[id].status = "failed"
                  /\ rows[id].status \in Reached => rows'[id].status \in Reached

-----------------------------------------------------------------------------
(* What one session makes of the row: the columns it changed, and no other.  *)
LEMMA FlushedFacts ==
  ASSUME NEW seen \in Row, NEW row \in Row, NEW r \in Receipts
  PROVE  LET new == Flushed(seen, Applied(seen, r), row) IN
         /\ new \in Row
         /\ new.status = IF r \in Known /\ Progress[r] > Progress[seen.status]
                         THEN r ELSE row.status
         /\ new.deliveredAt = IF r \in Reached /\ seen.deliveredAt = None
                              THEN r ELSE row.deliveredAt
         /\ new.readAt = IF r = "read" /\ seen.readAt = None THEN r ELSE row.readAt
<1> DEFINE new == Flushed(seen, Applied(seen, r), row)
           app == Applied(seen, r)
<1>1. DOMAIN row = {"status", "deliveredAt", "readAt"}
  BY DEF Row
<1>2. new = [c \in {"status", "deliveredAt", "readAt"} |->
              IF app[c] # seen[c] THEN app[c] ELSE row[c]]
  BY <1>1 DEF Flushed
<1>3. r # None
  BY ReceiptsAssumption
<1>4. /\ app["status"] = IF r \in Known /\ Progress[r] > Progress[seen.status]
                         THEN r ELSE seen.status
      /\ app["deliveredAt"] = IF r \in Reached /\ seen.deliveredAt = None
                              THEN r ELSE seen.deliveredAt
      /\ app["readAt"] = IF r = "read" /\ seen.readAt = None THEN r ELSE seen.readAt
  BY DEF Applied, Stamp, Reached
<1> HIDE DEF app
<1>5. /\ new.status = IF r \in Known /\ Progress[r] > Progress[seen.status]
                      THEN r ELSE row.status
      /\ new.deliveredAt = IF r \in Reached /\ seen.deliveredAt = None
                           THEN r ELSE row.deliveredAt
      /\ new.readAt = IF r = "read" /\ seen.readAt = None THEN r ELSE row.readAt
  BY <1>2, <1>3, <1>4, ProgressFacts DEF Known
<1>6. new = [status |-> new.status, deliveredAt |-> new.deliveredAt, readAt |-> new.readAt]
  BY <1>2
<1>7. /\ new.status \in {"unsent", "absent", "sent", "delivered", "read", "failed"}
      /\ new.deliveredAt \in {None, "delivered", "read"}
      /\ new.readAt \in {None, "read"}
  BY <1>5 DEF Row, Known, Reached
<1>8. new \in Row
  <2> HIDE DEF new
  <2> QED BY <1>6, <1>7 DEF Row
<1> QED BY <1>5, <1>8

(* A session writes: the receipt is heeded, and what an earlier or an        *)
(* overlapping session recorded is still recorded.                           *)
LEMMA WriteStep ==
  ASSUME ReceiptsInv, NEW a \in Readers, WriteMessage(a)
  PROVE  ReceiptsInv' /\ KeepsStatus
<1> DEFINE s == reading[a]
           m == s.id
           r == s.receipt
           new == Flushed(s.row, Applied(s.row, r), rows[m])
<1>1. /\ s # NotReading /\ Session(s) /\ s \in Reading
      /\ m \in Ids /\ r \in Receipts /\ r \in told[m] /\ s.row \in Row /\ rows[m] \in Row
  BY DEF ReceiptsInv, ReceiptsTypeOK, SessionsOK, Session, WriteMessage, Reading
<1>2. /\ rows' = [rows EXCEPT ![m] = new]
      /\ heeded' = [heeded EXCEPT ![m] = @ \cup {r}]
      /\ crossed' = IF rows[m] # s.row THEN crossed \cup {m} ELSE crossed
      /\ reading' = [reading EXCEPT ![a] = NotReading]
      /\ UNCHANGED <<sending, told, dropped>>
  BY DEF WriteMessage
<1>3. /\ new \in Row
      /\ new.status = IF r \in Known /\ Progress[r] > Progress[s.row.status]
                      THEN r ELSE rows[m].status
      /\ new.deliveredAt = IF r \in Reached /\ s.row.deliveredAt = None
                           THEN r ELSE rows[m].deliveredAt
      /\ new.readAt = IF r = "read" /\ s.row.readAt = None THEN r ELSE rows[m].readAt
  BY <1>1, FlushedFacts
<1>4. NotReading \in Reading
  BY DEF NotReading, Reading, NoRow, Row
<1> HIDE DEF new
<1>5. /\ rows \in [Ids -> Row] /\ heeded \in [Ids -> SUBSET Receipts]
      /\ reading \in [Readers -> Reading] /\ crossed \subseteq Ids
  BY DEF ReceiptsInv, ReceiptsTypeOK
<1>6. /\ rows'[m] = new /\ \A id \in Ids \ {m} : rows'[id] = rows[id]
      /\ heeded'[m] = heeded[m] \cup {r} /\ \A id \in Ids \ {m} : heeded'[id] = heeded[id]
      /\ \A b \in Readers : reading'[b] = NotReading \/ reading'[b] = reading[b]
  BY <1>1, <1>2, <1>5
<1>7. ReceiptsTypeOK'
  <2>1. rows' \in [Ids -> Row] /\ heeded' \in [Ids -> SUBSET Receipts]
    BY <1>1, <1>2, <1>3, <1>5
  <2>2. reading' \in [Readers -> Reading] /\ crossed' \subseteq Ids
    BY <1>1, <1>2, <1>4, <1>5
  <2> QED BY <1>2, <2>1, <2>2 DEF ReceiptsInv, ReceiptsTypeOK
<1>8. ToldOK'
  BY <1>1, <1>2, <1>6 DEF ReceiptsInv, ToldOK
<1>9. HasRow(m) /\ new.status \in Known
  BY <1>1, <1>3 DEF Session, HasRow
<1>10. UnsentOK'
  BY <1>2, <1>6, <1>9 DEF ReceiptsInv, UnsentOK, HasRow, Known
<1>11. ReportedOK'
  BY <1>1, <1>2, <1>3, <1>6, <1>9 DEF ReceiptsInv, ReportedOK, HasRow
(* The row only gains: the furthest status and the stamps.                   *)
<1>12. rows[m].status = "failed" => new.status = "failed"
  <2>1. rows[m].status = "failed" => r \notin Reached
    BY <1>1, <1>9 DEF ReceiptsInv, ReportedOK, ToldOK, HasRow
  <2>2. s.row.status \in Known
    BY <1>1 DEF Session
  <2> QED BY <1>3, <2>1, <2>2, ProgressFacts DEF Known, Reached
<1>13. rows[m].status \in Reached => new.status \in Reached
  <2>1. rows[m].status \in Reached => r # "failed"
    BY <1>1, <1>9 DEF ReceiptsInv, ReportedOK, ToldOK, HasRow, Reached
  <2>2. s.row.status \in Known
    BY <1>1 DEF Session
  <2> QED BY <1>3, <2>1, <2>2, ProgressFacts DEF Known, Reached
<1>14. /\ rows[m].readAt # None => new.readAt # None
       /\ rows[m].deliveredAt # None => new.deliveredAt # None
  BY <1>1, <1>3, ReceiptsAssumption
<1>15. KeepsStatus
  BY <1>6, <1>12, <1>13 DEF KeepsStatus
<1>16. SessionsOK'
  <2> SUFFICES ASSUME NEW b \in Readers, reading'[b] # NotReading
               PROVE  Session(reading[b])'
    BY DEF SessionsOK
  <2>1. reading'[b] = reading[b] /\ Session(reading[b])
    BY <1>6 DEF ReceiptsInv, SessionsOK
  <2>2. reading[b].id \in Ids
    BY <2>1 DEF Session
  <2>3. CASE reading[b].id = m
    BY <1>2, <1>6, <1>9, <1>12, <1>13, <1>14, <2>1, <2>3 DEF Session, HasRow
  <2>4. CASE reading[b].id # m
    BY <1>2, <1>6, <2>1, <2>2, <2>4 DEF Session, HasRow
  <2> QED BY <2>3, <2>4
<1>17. OrderIndependent'
  <2> SUFFICES ASSUME NEW id \in Ids, id \notin crossed', HasRow(id)'
               PROVE  /\ rows'[id].status \in heeded'[id] \cup {"sent"}
                      /\ \A q \in heeded'[id] \cap Known : Progress[q] <= Progress[rows'[id].status]
    BY DEF OrderIndependent
  <2>1. id \notin crossed
    BY <1>2
  <2>2. CASE id # m
    BY <1>6, <2>1, <2>2 DEF ReceiptsInv, OrderIndependent, HasRow
  <2>3. CASE id = m
    <3>1. rows[m] = s.row
      BY <1>2, <2>3
    <3>2. /\ rows[m].status \in heeded[m] \cup {"sent"}
          /\ \A q \in heeded[m] \cap Known : Progress[q] <= Progress[rows[m].status]
      BY <1>9, <2>1, <2>3 DEF ReceiptsInv, OrderIndependent
    <3>3. rows'[m].status = IF r \in Known /\ Progress[r] > Progress[rows[m].status]
                            THEN r ELSE rows[m].status
      BY <1>3, <1>6, <3>1
    <3>4. rows'[m].status \in heeded'[m] \cup {"sent"}
      BY <1>6, <3>2, <3>3
    <3>5. ASSUME NEW q \in heeded'[m] \cap Known
          PROVE  Progress[q] <= Progress[rows'[m].status]
      <4>1. q \in heeded[m] \/ q = r
        BY <1>6
      <4>2. (Progress[q] \in Nat /\ Progress[r] \in Nat) \/ r \notin Known
        BY ProgressFacts DEF Known
      <4>3. Progress[rows[m].status] \in Nat /\ Progress[q] \in Nat
        BY <1>9, ProgressFacts DEF HasRow, Known
      <4> QED BY <3>2, <3>3, <3>5, <4>1, <4>2, <4>3
    <3> QED BY <2>3, <3>4, <3>5
  <2> QED BY <2>2, <2>3
<1>18. StampsRemember'
  <2> SUFFICES ASSUME NEW id \in Ids
               PROVE  /\ rows'[id].readAt # None <=> "read" \in heeded'[id]
                      /\ rows'[id].deliveredAt # None
                           <=> heeded'[id] \cap {"delivered", "read"} # {}
                      /\ rows'[id].readAt # None => rows'[id].status \in {"delivered", "read"}
    BY DEF StampsRemember
  <2>1. CASE id # m
    BY <1>6, <2>1 DEF ReceiptsInv, StampsRemember
  <2>2. CASE id = m
    <3>1. /\ rows[m].readAt # None <=> "read" \in heeded[m]
          /\ rows[m].deliveredAt # None <=> heeded[m] \cap {"delivered", "read"} # {}
          /\ rows[m].readAt # None => rows[m].status \in {"delivered", "read"}
      BY <1>1 DEF ReceiptsInv, StampsRemember
    <3>2. /\ s.row.readAt # None => rows[m].readAt # None
          /\ s.row.deliveredAt # None => rows[m].deliveredAt # None
      BY <1>1 DEF Session
    <3>3. new.readAt # None <=> "read" \in heeded'[m]
      BY <1>1, <1>3, <1>6, <3>1, <3>2, ReceiptsAssumption
    <3>4. new.deliveredAt # None <=> heeded'[m] \cap {"delivered", "read"} # {}
      BY <1>1, <1>3, <1>6, <3>1, <3>2, ReceiptsAssumption DEF Reached
    <3>5. new.readAt # None => new.status \in {"delivered", "read"}
      <4>1. CASE rows[m].readAt # None
        BY <1>13, <3>1, <4>1 DEF Reached
      <4>2. CASE rows[m].readAt = None /\ r = "read"
        <5>1. s.row.status \in {"sent", "delivered", "read"}
          <6>1. s.row.status # "failed"
            BY <1>1, <1>9, <4>2 DEF Session, ReceiptsInv, ReportedOK, ToldOK, Reached
          <6> QED BY <1>1, <6>1 DEF Session, Known
        <5>2. CASE s.row.status = "read"
          BY <1>1, <1>3, <4>2, <5>2, ProgressFacts DEF Session, Reached
        <5>3. CASE s.row.status # "read"
          BY <1>3, <4>2, <5>1, <5>3, ProgressFacts DEF Known
        <5> QED BY <5>2, <5>3
      <4>3. CASE rows[m].readAt = None /\ r # "read"
        BY <1>3, <4>3
      <4> QED BY <4>1, <4>2, <4>3
    <3> QED BY <1>6, <2>2, <3>3, <3>4, <3>5
  <2> QED BY <2>1, <2>2
<1> QED BY <1>7, <1>8, <1>10, <1>11, <1>15, <1>16, <1>17, <1>18 DEF ReceiptsInv

(* A session loads what is there, and nothing of it can be lost again.       *)
LEMMA LoadStep ==
  ASSUME ReceiptsInv, NEW a \in Readers, NEW id \in Ids, NEW r \in Receipts,
         LoadMessage(a, id, r)
  PROVE  ReceiptsInv' /\ KeepsStatus
<1>1. /\ UNCHANGED <<sending, rows, told, heeded, crossed>>
      /\ r \in told[id]
      /\ \/ /\ HasRow(id) /\ UNCHANGED dropped
            /\ reading' = [reading EXCEPT ![a] = [id |-> id, receipt |-> r, row |-> rows[id]]]
         \/ dropped' = dropped \cup {<<id, r>>} /\ UNCHANGED reading
  BY DEF LoadMessage
<1>2. ReceiptsTypeOK /\ rows[id] \in Row
  BY DEF ReceiptsInv, ReceiptsTypeOK
<1>3. [id |-> id, receipt |-> r, row |-> rows[id]] \in Reading
  BY <1>2 DEF Reading
<1>4. ReceiptsTypeOK'
  BY <1>1, <1>2, <1>3 DEF ReceiptsTypeOK
<1>5. ToldOK' /\ UnsentOK' /\ ReportedOK' /\ OrderIndependent' /\ StampsRemember'
  BY <1>1 DEF ReceiptsInv, ToldOK, UnsentOK, ReportedOK, OrderIndependent, StampsRemember, HasRow
<1>6. KeepsStatus
  BY <1>1 DEF KeepsStatus
<1>7. SessionsOK'
  <2> SUFFICES ASSUME NEW b \in Readers, reading'[b] # NotReading
               PROVE  Session(reading'[b])
    BY <1>1 DEF SessionsOK, Session, HasRow
  <2>1. CASE reading'[b] = reading[b]
    BY <2>1 DEF ReceiptsInv, SessionsOK
  <2>2. CASE reading'[b] # reading[b]
    <3>1. reading'[b] = [id |-> id, receipt |-> r, row |-> rows[id]] /\ HasRow(id)
      BY <1>1, <1>2, <2>2 DEF ReceiptsTypeOK
    <3> QED BY <1>1, <3>1 DEF Session, HasRow
  <2> QED BY <2>1, <2>2
<1> QED BY <1>4, <1>5, <1>6, <1>7 DEF ReceiptsInv

LEMMA ReceiptsStep == ReceiptsInv /\ [ReceiptsNext]_receiptVars => ReceiptsInv' /\ KeepsStatus
<1> SUFFICES ASSUME ReceiptsInv, [ReceiptsNext]_receiptVars PROVE ReceiptsInv' /\ KeepsStatus
  OBVIOUS
<1>1. ReceiptsTypeOK /\ ToldOK /\ UnsentOK /\ ReportedOK /\ SessionsOK
      /\ OrderIndependent /\ StampsRemember
  BY DEF ReceiptsInv
<1>2. ASSUME NEW id \in Ids, Send(id) PROVE ReceiptsInv' /\ KeepsStatus
  <2>1. /\ sending' = sending \cup {id} /\ rows[id].status = "unsent"
        /\ UNCHANGED <<rows, told, heeded, reading, dropped, crossed>>
    BY <1>2 DEF Send
  <2>2. ReceiptsTypeOK' /\ UnsentOK'
    BY <1>1, <2>1 DEF ReceiptsTypeOK, UnsentOK, HasRow
  <2> QED BY <1>1, <2>1, <2>2 DEF ReceiptsInv, ToldOK, ReportedOK, SessionsOK, Session,
                                  OrderIndependent, StampsRemember, KeepsStatus, HasRow
<1>3. ASSUME NEW id \in Ids, RecordOutbound(id) PROVE ReceiptsInv' /\ KeepsStatus
  <2>1. PICK row \in {SentRow, LostRow} : rows' = [rows EXCEPT ![id] = row]
    BY <1>3 DEF RecordOutbound
  <2>2. /\ id \in sending /\ sending' = sending \ {id}
        /\ UNCHANGED <<told, heeded, reading, dropped, crossed>>
    BY <1>3 DEF RecordOutbound
  <2>3. /\ row \in Row /\ row.status \in {"sent", "absent"}
        /\ row.deliveredAt = None /\ row.readAt = None
    BY DEF SentRow, LostRow, NoRow, Row
  <2>4. ReceiptsTypeOK'
    BY <1>1, <2>1, <2>2, <2>3 DEF ReceiptsTypeOK
  <2>5. /\ rows'[id] = row /\ \A other \in Ids \ {id} : rows'[other] = rows[other]
        /\ rows[id].status = "unsent" /\ ~HasRow(id) /\ heeded[id] = {}
    BY <1>1, <2>1, <2>2 DEF ReceiptsTypeOK, UnsentOK, HasRow, Known
  <2>6. ToldOK' /\ UnsentOK' /\ ReportedOK'
    BY <1>1, <2>2, <2>3, <2>5 DEF ToldOK, UnsentOK, ReportedOK, HasRow, Known
  <2>7. SessionsOK'
    <3> SUFFICES ASSUME NEW b \in Readers, reading[b] # NotReading
                 PROVE  Session(reading[b])'
      BY <2>2 DEF SessionsOK
    <3>1. Session(reading[b])
      BY <1>1 DEF SessionsOK
    <3>2. reading[b].id \in Ids \ {id}
      BY <2>5, <3>1 DEF Session
    <3> QED BY <2>2, <2>5, <3>1, <3>2 DEF Session, HasRow
  <2>8. OrderIndependent' /\ StampsRemember'
    BY <1>1, <2>2, <2>3, <2>5 DEF OrderIndependent, StampsRemember, HasRow, Known
  <2>9. KeepsStatus
    BY <2>5 DEF KeepsStatus, Reached
  <2> QED BY <2>4, <2>6, <2>7, <2>8, <2>9 DEF ReceiptsInv
<1>4. ASSUME NEW id \in Ids, NEW r \in Receipts, Tell(id, r) PROVE ReceiptsInv' /\ KeepsStatus
  <2>1. /\ told' = [told EXCEPT ![id] = @ \cup {r}]
        /\ r \in {"delivered", "read"} => "failed" \notin told[id]
        /\ r = "failed" => told[id] \cap {"delivered", "read"} = {}
        /\ UNCHANGED <<sending, rows, heeded, reading, dropped, crossed>>
    BY <1>4 DEF Tell
  <2>2. ReceiptsTypeOK' /\ \A other \in Ids : told[other] \subseteq told'[other]
    BY <1>1, <2>1 DEF ReceiptsTypeOK
  <2>3. ToldOK'
    <3>1. /\ told'[id] = told[id] \cup {r}
          /\ \A other \in Ids \ {id} : told'[other] = told[other]
      BY <1>1, <2>1 DEF ReceiptsTypeOK
    <3> QED BY <1>1, <2>1, <3>1 DEF ToldOK, Reached
  <2>4. UnsentOK' /\ ReportedOK' /\ OrderIndependent' /\ StampsRemember' /\ KeepsStatus
    BY <1>1, <2>1, <2>2
       DEF UnsentOK, ReportedOK, OrderIndependent, StampsRemember, KeepsStatus, HasRow
  <2>5. SessionsOK'
    BY <1>1, <2>1, <2>2 DEF SessionsOK, Session, HasRow
  <2> QED BY <2>2, <2>3, <2>4, <2>5 DEF ReceiptsInv
<1>5. ASSUME NEW a \in Readers, LoseSession(a) PROVE ReceiptsInv' /\ KeepsStatus
  <2>1. /\ reading' = [reading EXCEPT ![a] = NotReading]
        /\ UNCHANGED <<sending, rows, told, heeded, dropped, crossed>>
    BY <1>5 DEF LoseSession
  <2>2. NotReading \in Reading
    BY DEF NotReading, Reading, NoRow, Row
  <2>3. ReceiptsTypeOK' /\ \A b \in Readers : reading'[b] \in {NotReading, reading[b]}
    BY <1>1, <2>1, <2>2 DEF ReceiptsTypeOK
  <2>4. SessionsOK'
    BY <1>1, <2>1, <2>3 DEF SessionsOK, Session, HasRow
  <2> QED BY <1>1, <2>1, <2>3, <2>4 DEF ReceiptsInv, ToldOK, UnsentOK, ReportedOK,
                                        OrderIndependent, StampsRemember, KeepsStatus, HasRow
<1>6. CASE UNCHANGED receiptVars
  BY <1>1, <1>6 DEF receiptVars, ReceiptsInv, ReceiptsTypeOK, ToldOK, UnsentOK, ReportedOK,
                    SessionsOK, Session, OrderIndependent, StampsRemember, KeepsStatus, HasRow
<1> QED BY <1>2, <1>3, <1>4, <1>5, <1>6, WriteStep, LoadStep DEF ReceiptsNext

LEMMA ReceiptsStart == ReceiptsInit => ReceiptsInv
<1> SUFFICES ASSUME ReceiptsInit PROVE ReceiptsInv
  OBVIOUS
<1>1. NoRow \in Row /\ NoRow.status = "unsent" /\ NoRow.readAt = None /\ NoRow.deliveredAt = None
  BY DEF NoRow, Row
<1>2. NotReading \in Reading
  BY <1>1 DEF NotReading, Reading
<1>3. ReceiptsTypeOK
  BY <1>1, <1>2 DEF ReceiptsInit, ReceiptsTypeOK
<1>4. \A id \in Ids : rows[id] = NoRow /\ told[id] = {} /\ heeded[id] = {} /\ ~HasRow(id)
  BY <1>1 DEF ReceiptsInit, HasRow, Known
<1>5. SessionsOK
  BY DEF ReceiptsInit, SessionsOK
<1>6. ToldOK /\ UnsentOK /\ ReportedOK /\ OrderIndependent /\ StampsRemember
  BY <1>1, <1>4 DEF ReceiptsInit, ToldOK, UnsentOK, ReportedOK, OrderIndependent, StampsRemember
<1> QED BY <1>3, <1>5, <1>6 DEF ReceiptsInv

LEMMA ReceiptsInvHolds == ReceiptsSpec => []ReceiptsInv
BY ReceiptsStart, ReceiptsStep, PTL DEF ReceiptsSpec

(* The rows of the messages and the sessions of the receipts are well typed. *)
THEOREM ReceiptsTypeCorrect == ReceiptsSpec => []ReceiptsTypeOK
BY ReceiptsInvHolds, PTL DEF ReceiptsInv

(* Where sessions do not overlap, the order and the repetition of receipts   *)
(* leave no trace: the status is the furthest one heeded.                    *)
THEOREM OrderDoesNotMatter == ReceiptsSpec => []OrderIndependent
BY ReceiptsInvHolds, PTL DEF ReceiptsInv

(* Every receipt that was applied is stamped, overlapping sessions or not.   *)
THEOREM StampsAreKept == ReceiptsSpec => []StampsRemember
BY ReceiptsInvHolds, PTL DEF ReceiptsInv

(* No step takes a message back from failed, or back to sent.                *)
THEOREM NeverTakenBack == ReceiptsSpec => NeverUnsent
<1>1. ReceiptsInv /\ [ReceiptsNext]_receiptVars
      => [\A id \in Ids : /\ rows[id].status = "failed" => rows'[id].status = "failed"
                          /\ rows[id].status \in {"delivered", "read"}
                               => rows'[id].status \in {"delivered", "read"}]_receiptVars
  BY ReceiptsStep DEF KeepsStatus, Reached
<1> QED BY <1>1, ReceiptsInvHolds, PTL DEF ReceiptsSpec, NeverUnsent
=============================================================================
