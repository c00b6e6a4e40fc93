-------------------------- MODULE LeadOutreach_proofs --------------------------
(***************************************************************************)
(* LeadOutreach for any number of forms, messages, slots, attempts and     *)
(* crashes.  The argument: a form has at most one session in its second    *)
(* transaction, because only the insert of the lead lets one in and a lead *)
(* is never deleted; and what such a session has loaded stays true of the  *)
(* tables unless the customer writes meanwhile.                            *)
(***************************************************************************)
EXTENDS LeadOutreach, TLAPS

FormOnly == {"fetching"} \cup SecondTransaction
MessageOnly == {"looking", "attributing", "storing", "enriching", "asking"}

\* whose session it is, and how often it may still send
Owned(c) ==
  /\ c.pc # "idle" => c.event \in Events
  /\ c.pc \in FormOnly => c.event \in Forms
  /\ c.pc \in MessageOnly => c.event \in Msgs
  /\ c.pc \in {"looking", "attributing"} => c.found = None
  /\ c.pc \in {"fetching", "stored"} => c.sends = 0
  /\ c.pc = "sending" => c.sends < MaxSends

\* what a form's second transaction has loaded, or heard from Meta
FormGood(c) ==
  /\ c.pc \in SecondTransaction
       => lead[c.event].status # "absent" /\ thread.stage # "absent"
  /\ c.pc = "recording" => c.id \in Ids /\ accepted[c.id] = c.event
  /\ c.pc \in {"sending", "recording"} =>
       /\ c.status # "new" => lead[c.event].status # "new"
       /\ c.event \notin overtaken =>
            /\ c.stage = "contacted" => thread.stage = "contacted"
            /\ c.status = "contacted" => lead[c.event].status = "contacted"

\* what a message's session has read of the ad
MessageGood(c) ==
  /\ c.inserts => c.pc = "storing" /\ ad = "absent"
  /\ c.pc = "storing" /\ c.found = c.event /\ lead[c.event].status = "absent" =>
       /\ c.blind = (c.ad # "known") /\ c.inserts = (c.ad = "absent")
       /\ c.ad # "absent" => ad # "absent"
  /\ c.pc = "storing" /\ c.found \notin {None, c.event} => lead[c.found].status # "absent"
  /\ c.pc = "asking" => ad # "absent"

Good(c) == Owned(c) /\ FormGood(c) /\ MessageGood(c)

Second(c, f) == c.pc \in SecondTransaction /\ c.event = f

OneSecond ==
  \A s, t \in Slots, f \in Forms : Second(slot[s], f) /\ Second(slot[t], f) => s = t

OneInserter == \A s, t \in Slots : slot[s].inserts /\ slot[t].inserts => s = t

\* once Meta has answered for a form, no session is still to send for it
AnsweredOnce ==
  \A i \in Ids \ lost : accepted[i] # None =>
     /\ lead[accepted[i]].status # "absent"
     /\ \A s \in Slots : slot[s].event = accepted[i] => slot[s].pc \notin {"stored", "sending"}

\* a lead still `new` has a session to contact it, or had one that failed
NewIsWaiting ==
  \A f \in Forms : lead[f].status = "new" => f \in failed \/ \E s \in Slots : Second(slot[s], f)

AdComesFirst == FromAd # {} => ad # "absent"

NamedIsThere == thread.lead # None => lead[thread.lead].status # "absent"

OutreachInv ==
  /\ OutreachTypeOK
  /\ \A s \in Slots : Good(slot[s])
  /\ OneSecond /\ OneInserter /\ AnsweredOnce /\ NewIsWaiting /\ AdComesFirst /\ NamedIsThere
  /\ WelcomedOnce /\ ContactedWasSent /\ AttributionComplete /\ ReplyEndsOutreach

-----------------------------------------------------------------------------
LEMMA IdleFacts ==
  Idle \in Session /\ Idle.pc = "idle" /\ Idle.found = None /\ ~Idle.inserts
BY OutreachAssumption DEF Idle, Session, Stages

(* A step that only moves one session on, without touching a table.          *)
LEMMA QuietStep ==
  ASSUME OutreachInv, NEW s \in Slots, NEW c \in Session, Good(c),
         slot' = [slot EXCEPT ![s] = c],
         UNCHANGED <<recorded, outreachTables, meta, raced, filled, overtaken>>,
         over' \subseteq Events, tries' \in [Events -> 0..MaxTries], crashes' \in 0..MaxCrashes,
         failed \subseteq failed', failed' \subseteq Forms,
         c.pc \in SecondTransaction => slot[s].pc \in SecondTransaction /\ c.event = slot[s].event,
         c.pc \in {"stored", "sending"} => slot[s].pc \in {"stored", "sending"},
         slot[s].pc \in SecondTransaction => c.pc \in SecondTransaction \/ slot[s].event \in failed',
         c.inserts => ~AdBeingInserted \/ slot[s].inserts
  PROVE  OutreachInv'
<1>1. OutreachTypeOK'
  BY DEF OutreachInv, OutreachTypeOK, outreachTables, meta
<1>2. slot'[s] = c /\ \A t \in Slots \ {s} : slot'[t] = slot[t]
  BY DEF OutreachInv, OutreachTypeOK
<1>3. \A t \in Slots : Good(slot[t])'
  BY <1>2 DEF OutreachInv, outreachTables, meta, Good, Owned, FormGood, MessageGood
<1>4. OneSecond'
  BY <1>2 DEF OutreachInv, OneSecond, Second
<1>5. OneInserter'
  BY <1>2 DEF OutreachInv, OneInserter, AdBeingInserted
<1>6. AnsweredOnce'
  <2>1. ASSUME NEW t \in Slots, NEW e \in Events, slot'[t].event = e,
               slot'[t].pc \in {"stored", "sending"}
        PROVE  slot[t].event = e /\ slot[t].pc \in {"stored", "sending"}
    BY <1>2, <2>1 DEF SecondTransaction
  <2>2. \A i \in Ids : accepted[i] # None => accepted[i] \in Events
    BY DEF OutreachInv, OutreachTypeOK, Events
  <2> QED BY <2>1, <2>2 DEF OutreachInv, AnsweredOnce, outreachTables, meta
<1>7. NewIsWaiting'
  <2> SUFFICES ASSUME NEW f \in Forms, lead[f].status = "new"
               PROVE  f \in failed' \/ \E t \in Slots : Second(slot'[t], f)
    BY DEF NewIsWaiting, outreachTables, Second
  <2>1. CASE f \in failed
    BY <2>1
  <2>2. CASE f \notin failed
    <3>1. PICK t \in Slots : Second(slot[t], f)
      BY <2>2 DEF OutreachInv, NewIsWaiting
    <3> QED BY <1>2, <3>1 DEF Second
  <2> QED BY <2>1, <2>2
<1>8. AdComesFirst' /\ NamedIsThere' /\ WelcomedOnce' /\ ContactedWasSent'
      /\ AttributionComplete' /\ ReplyEndsOutreach'
  BY DEF OutreachInv, outreachTables, meta, AdComesFirst, NamedIsThere, FromAd, WelcomedOnce, ContactedWasSent,
         AttributionComplete, ReplyEndsOutreach
<1> QED BY <1>1, <1>3, <1>4, <1>5, <1>6, <1>7, <1>8 DEF OutreachInv

(* The steps that only read, wait, give up or report.                        *)
LEMMA BeginStep ==
  ASSUME OutreachInv, NEW s \in Slots, NEW e \in Events, Begin(s, e)
  PROVE  OutreachInv'
<1> DEFINE c == [Idle EXCEPT !.event = e, !.pc = IF e \in Forms THEN "fetching" ELSE "looking"]
<1>1. /\ slot' = [slot EXCEPT ![s] = c] /\ slot[s].pc = "idle"
      /\ tries' = [tries EXCEPT ![e] = @ + 1] /\ tries[e] < MaxTries
      /\ UNCHANGED <<recorded, outreachTables, over, meta, outreachHistory, crashes>>
  BY DEF Begin
<1>2. /\ c \in Session /\ c.pc = (IF e \in Forms THEN "fetching" ELSE "looking")
      /\ c.event = e /\ c.found = None /\ c.sends = 0 /\ ~c.inserts
  <2>1. (IF e \in Forms THEN "fetching" ELSE "looking") \in {"fetching", "looking"}
    OBVIOUS
  <2>2. c \in Session
    BY <2>1, IdleFacts, ZenonT(60) DEF Session
  <2> QED BY <2>2 DEF Idle
<1> HIDE DEF c
<1>3. Good(c)
  BY <1>2 DEF Good, Owned, FormGood, MessageGood, FormOnly, MessageOnly, SecondTransaction, Events
<1>4. tries' \in [Events -> 0..MaxTries]
  BY <1>1, OutreachAssumption DEF OutreachInv, OutreachTypeOK
<1> QED BY <1>1, <1>2, <1>3, <1>4, QuietStep
        DEF OutreachInv, OutreachTypeOK, outreachHistory, SecondTransaction

(* A session that ends: finished, rolled back, without a phone number,       *)
(* refused by the thread's stage, or dead.                                   *)
LEMMA EndStep ==
  ASSUME OutreachInv, NEW s \in Slots,
         Finish(s) \/ Retry(s) \/ NoPhone(s) \/ SendWasted(s) \/ Crash(s)
  PROVE  OutreachInv'
<1>1. /\ slot' = [slot EXCEPT ![s] = Idle]
      /\ UNCHANGED <<recorded, outreachTables, tries, meta, raced, filled, overtaken>>
  BY DEF Finish, Retry, NoPhone, SendWasted, Crash, outreachHistory
<1>2. Good(Idle)
  BY IdleFacts DEF Good, Owned, FormGood, MessageGood, FormOnly, MessageOnly, SecondTransaction
<1>3. Good(slot[s]) /\ slot[s].event \in Events \cup {None}
  BY DEF OutreachInv, OutreachTypeOK, Session
<1>4. over' \subseteq Events
  BY <1>3 DEF OutreachInv, OutreachTypeOK, Finish, Retry, NoPhone, SendWasted, Crash, Good, Owned
<1>5. failed' \subseteq Forms /\ failed \subseteq failed'
  BY <1>3 DEF OutreachInv, OutreachTypeOK, Finish, Retry, NoPhone, SendWasted, Crash,
              Good, Owned, FormOnly, SecondTransaction, outreachHistory
<1>6. slot[s].pc \in SecondTransaction => slot[s].event \in failed'
  BY DEF Finish, Retry, NoPhone, SendWasted, Crash, SecondTransaction
<1>7. crashes' \in 0..MaxCrashes
  BY OutreachAssumption DEF OutreachInv, OutreachTypeOK, Finish, Retry, NoPhone, SendWasted, Crash
<1> QED BY <1>1, <1>2, <1>4, <1>5, <1>6, <1>7, IdleFacts, QuietStep
        DEF OutreachInv, OutreachTypeOK, SecondTransaction

LEMMA LoadThreadStep ==
  ASSUME OutreachInv, NEW s \in Slots, LoadThread(s)
  PROVE  OutreachInv'
<1> DEFINE c == [slot[s] EXCEPT !.pc = IF optedOut THEN "refused" ELSE "sending",
                                !.stage = thread.stage, !.status = lead[slot[s].event].status]
<1>1. /\ slot[s].pc = "stored" /\ slot[s] \in Session /\ Good(slot[s])
      /\ UNCHANGED <<recorded, outreachTables, over, tries, meta, outreachHistory, crashes>>
  BY DEF LoadThread, OutreachInv, OutreachTypeOK
<1>2. slot' = [slot EXCEPT ![s] = c]
  BY DEF LoadThread, OutreachInv, OutreachTypeOK
<1>3. /\ slot[s].event \in Forms /\ slot[s].sends = 0 /\ ~slot[s].inserts
      /\ lead[slot[s].event].status # "absent" /\ thread.stage # "absent"
  BY <1>1 DEF Good, Owned, FormGood, MessageGood, FormOnly, SecondTransaction
<1>4. lead[slot[s].event].status \in {"new", "contacted", "responded", "unreachable"}
      /\ thread.stage \in Stages
  BY <1>3 DEF OutreachInv, OutreachTypeOK, Lead, Events
<1>5. c \in Session
  BY <1>1, <1>4 DEF Session
<1>6. /\ c.pc \in {"refused", "sending"} /\ c.event = slot[s].event /\ c.sends = 0 /\ ~c.inserts
      /\ c.stage = thread.stage /\ c.status = lead[slot[s].event].status
  BY <1>1, <1>3 DEF Session
<1> HIDE DEF c
<1>7. Good(c)
  BY <1>3, <1>6, OutreachAssumption
     DEF Good, Owned, FormGood, MessageGood, FormOnly, MessageOnly, SecondTransaction, Events
<1> QED BY <1>1, <1>2, <1>5, <1>6, <1>7, QuietStep
        DEF OutreachInv, OutreachTypeOK, outreachHistory, SecondTransaction

(* What a message's session reads before its ingest: the lead, or the ad.    *)
LEMMA LookStep ==
  ASSUME OutreachInv, NEW s \in Slots, LookForLead(s) \/ LookForAd(s)
  PROVE  OutreachInv'
<1>1. /\ slot[s].pc \in {"looking", "attributing"} /\ slot[s] \in Session /\ Good(slot[s])
      /\ UNCHANGED <<recorded, outreachTables, over, tries, meta, outreachHistory, crashes>>
  BY DEF LookForLead, LookForAd, OutreachInv, OutreachTypeOK
<1>2. slot[s].event \in Msgs /\ slot[s].found = None /\ ~slot[s].inserts
  BY <1>1 DEF Good, Owned, MessageGood, MessageOnly
<1>3. ASSUME NEW c \in Session, slot' = [slot EXCEPT ![s] = c], c.event = slot[s].event,
             \/ c.pc = "attributing" /\ c.found = None
             \/ c.pc = "storing",
             MessageGood(c), c.inserts => ~AdBeingInserted
      PROVE  OutreachInv'
  <2>1. Good(c)
    BY <1>2, <1>3 DEF Good, Owned, FormGood, FormOnly, MessageOnly, SecondTransaction, Events
  <2> QED BY <1>1, <1>3, <2>1, QuietStep
          DEF OutreachInv, OutreachTypeOK, outreachHistory, SecondTransaction
<1>4. CASE LookForLead(s) /\ slot[s].event \notin Referred
  <2> DEFINE c == [slot[s] EXCEPT !.pc = "storing"]
  <2>1. slot' = [slot EXCEPT ![s] = c] /\ c \in Session
    BY <1>1, <1>4 DEF LookForLead, OutreachInv, OutreachTypeOK, Session
  <2>2. c.pc = "storing" /\ c.event = slot[s].event /\ c.found = None /\ ~c.inserts
    BY <1>1, <1>2 DEF Session
  <2> HIDE DEF c
  <2>3. MessageGood(c)
    BY <1>2, <2>2, OutreachAssumption DEF MessageGood, Events
  <2> QED BY <1>3, <2>1, <2>2, <2>3
<1>5. CASE LookForLead(s) /\ slot[s].event \in Referred /\ FromAd = {}
  <2> DEFINE c == [slot[s] EXCEPT !.pc = "attributing"]
  <2>1. slot' = [slot EXCEPT ![s] = c] /\ c \in Session
    BY <1>1, <1>5 DEF LookForLead, OutreachInv, OutreachTypeOK, Session
  <2>2. c.pc = "attributing" /\ c.event = slot[s].event /\ c.found = None /\ ~c.inserts
    BY <1>1, <1>2 DEF Session
  <2> HIDE DEF c
  <2>3. MessageGood(c)
    BY <2>2 DEF MessageGood
  <2> QED BY <1>3, <2>1, <2>2, <2>3
<1>6. CASE LookForLead(s) /\ slot[s].event \in Referred /\ FromAd # {}
  <2>1. PICK l \in FromAd : slot' = [slot EXCEPT ![s].pc = "storing", ![s].found = l,
                                                 ![s].blind = ~lead[l].campaign]
    BY <1>6 DEF LookForLead
  <2> DEFINE c == [slot[s] EXCEPT !.pc = "storing", !.found = l, !.blind = ~lead[l].campaign]
  <2>2. l \in Events /\ lead[l].status # "absent" /\ lead[l].campaign \in BOOLEAN
    BY DEF FromAd, Events, OutreachInv, OutreachTypeOK, Lead
  <2>3. slot' = [slot EXCEPT ![s] = c] /\ c \in Session
    BY <1>1, <2>1, <2>2 DEF OutreachInv, OutreachTypeOK, Session
  <2>4. c.pc = "storing" /\ c.event = slot[s].event /\ c.found = l /\ ~c.inserts
    BY <1>1, <1>2 DEF Session
  <2> HIDE DEF c
  <2>5. MessageGood(c)
    BY <2>2, <2>4 DEF MessageGood
  <2> QED BY <1>3, <2>3, <2>4, <2>5
<1>7. CASE LookForAd(s)
  <2> DEFINE c == [slot[s] EXCEPT !.pc = "storing", !.found = slot[s].event,
                                  !.inserts = (ad = "absent"), !.ad = ad,
                                  !.blind = (ad # "known")]
  <2>1. slot' = [slot EXCEPT ![s] = c] /\ c \in Session /\ ~AdBeingInserted
    BY <1>1, <1>7, ZenonT(60) DEF LookForAd, OutreachInv, OutreachTypeOK, Session
  <2>2. /\ c.pc = "storing" /\ c.event = slot[s].event
        /\ c.found = slot[s].event
        /\ c.inserts = (ad = "absent") /\ c.ad = ad /\ c.blind = (ad # "known")
    BY <1>1 DEF Session
  <2> HIDE DEF c
  <2>3. MessageGood(c)
    BY <2>2 DEF MessageGood
  <2> QED BY <1>3, <2>1, <2>2, <2>3
<1> QED BY <1>4, <1>5, <1>6, <1>7

(* The ad's campaign is asked for, or there is nothing to ask or to tell.    *)
LEMMA AskStep ==
  ASSUME OutreachInv, NEW s \in Slots, LookAtAd(s) \/ NoCampaign(s)
  PROVE  OutreachInv'
<1> DEFINE c == [slot[s] EXCEPT !.pc = IF slot[s].pc = "enriching" /\ ad = "blind"
                                       THEN "asking" ELSE "done"]
<1>1. /\ slot[s].pc \in {"enriching", "asking"} /\ slot[s] \in Session /\ Good(slot[s])
      /\ UNCHANGED <<recorded, outreachTables, over, tries, meta, outreachHistory, crashes>>
  BY DEF LookAtAd, NoCampaign, OutreachInv, OutreachTypeOK
<1>2. slot' = [slot EXCEPT ![s] = c] /\ c \in Session
  BY <1>1 DEF LookAtAd, NoCampaign, OutreachInv, OutreachTypeOK, Session
<1>3. slot[s].event \in Msgs /\ ~slot[s].inserts
  BY <1>1 DEF Good, Owned, MessageGood, MessageOnly
<1>4. /\ c.pc \in {"asking", "done"} /\ (c.pc = "asking" => ad = "blind")
      /\ c.event = slot[s].event /\ ~c.inserts
  BY <1>1, <1>3 DEF Session
<1> HIDE DEF c
<1>5. Good(c)
  BY <1>3, <1>4 DEF Good, Owned, FormGood, MessageGood, FormOnly, MessageOnly, SecondTransaction,
                    Events
<1> QED BY <1>1, <1>2, <1>4, <1>5, QuietStep
        DEF OutreachInv, OutreachTypeOK, outreachHistory, SecondTransaction

(* The campaign is written on the ad and on every lead there is.             *)
LEMMA EnrichStep ==
  ASSUME OutreachInv, NEW s \in Slots, Enrich(s)
  PROVE  OutreachInv'
<1> DEFINE c == [slot[s] EXCEPT !.pc = "done"]
<1>1. /\ slot[s].pc = "asking" /\ slot[s] \in Session /\ Good(slot[s]) /\ OutreachTypeOK
      /\ ad' = "known"
      /\ lead' = [e \in Events |-> IF lead[e].status # "absent" THEN Attributed(lead[e])
                                   ELSE lead[e]]
      /\ UNCHANGED <<recorded, thread, optedOut, heard, nudges, over, tries, meta,
                     outreachHistory, crashes>>
  BY DEF Enrich, OutreachInv, OutreachTypeOK
<1>2. slot' = [slot EXCEPT ![s] = c] /\ c \in Session
  BY <1>1 DEF Enrich, OutreachTypeOK, Session
<1>3. ad # "absent" /\ slot[s].event \in Msgs /\ ~slot[s].inserts
  BY <1>1 DEF Good, Owned, MessageGood, MessageOnly
<1>4. c.pc = "done" /\ c.event = slot[s].event /\ ~c.inserts
  BY <1>1, <1>3 DEF Session
<1> HIDE DEF c
<1>5. slot'[s] = c /\ \A t \in Slots \ {s} : slot'[t] = slot[t]
  BY <1>1, <1>2 DEF OutreachTypeOK
<1>6. \A e \in Events : lead'[e] \in Lead /\ lead'[e].status = lead[e].status
                        /\ (lead[e].status # "absent" => lead'[e].campaign)
  BY <1>1 DEF OutreachTypeOK, Lead, Attributed
<1>7. OutreachTypeOK'
  <2>1. slot' \in [Slots -> Session] /\ lead' \in [Events -> Lead]
    BY <1>1, <1>2, <1>6 DEF OutreachTypeOK
  <2> QED BY <1>1, <2>1 DEF OutreachTypeOK, meta, outreachHistory
<1>8. \A t \in Slots : Good(slot[t])'
  <2> SUFFICES ASSUME NEW t \in Slots PROVE Good(slot[t])'
    OBVIOUS
  <2>1. CASE t = s
    BY <1>3, <1>4, <1>5, <2>1
       DEF Good, Owned, FormGood, MessageGood, FormOnly, MessageOnly, SecondTransaction, Events
  <2>2. CASE t # s
    <3>1. slot'[t] = slot[t] /\ Good(slot[t])
      BY <1>5, <2>2 DEF OutreachInv
    <3>2. ~slot[t].inserts
      BY <1>3, <3>1 DEF Good, MessageGood
    <3>3. /\ slot[t].pc # "idle" => slot[t].event \in Events
          /\ slot[t].pc \in SecondTransaction => slot[t].pc # "idle"
      BY <3>1 DEF Good, Owned, SecondTransaction
    <3>4. Owned(slot[t])'
      BY <3>1 DEF Good, Owned
    <3>5. FormGood(slot[t])'
      BY <1>1, <1>6, <3>1, <3>3 DEF Good, FormGood, meta, outreachHistory
    <3>6. MessageGood(slot[t])'
      <4>1. slot[t].found \in Events \cup {None}
        BY <1>1 DEF OutreachTypeOK, Session
      <4> QED BY <1>1, <1>3, <1>6, <3>1, <3>2, <3>3, <4>1 DEF Good, MessageGood
    <3> QED BY <3>4, <3>5, <3>6 DEF Good
  <2> QED BY <2>1, <2>2
<1>9. OneSecond' /\ OneInserter'
  BY <1>4, <1>5 DEF OutreachInv, OneSecond, OneInserter, Second, SecondTransaction
<1>10. AnsweredOnce'
  <2>1. \A i \in Ids : accepted[i] # None => accepted[i] \in Events
    BY <1>1 DEF OutreachTypeOK, Events
  <2> QED BY <1>1, <1>4, <1>5, <1>6, <2>1 DEF OutreachInv, AnsweredOnce, meta
<1>11. NewIsWaiting'
  <2> SUFFICES ASSUME NEW f \in Forms, lead'[f].status = "new", f \notin failed
               PROVE  \E t \in Slots : Second(slot'[t], f)
    BY <1>1 DEF NewIsWaiting, Second, outreachHistory
  <2>1. PICK t \in Slots : Second(slot[t], f)
    BY <1>6 DEF OutreachInv, NewIsWaiting, Events
  <2>2. t # s
    BY <1>1, <2>1 DEF Second, SecondTransaction
  <2> QED BY <1>5, <2>1, <2>2 DEF Second
<1>12. AdComesFirst' /\ NamedIsThere' /\ WelcomedOnce' /\ ContactedWasSent'
       /\ AttributionComplete' /\ ReplyEndsOutreach'
  <2>1. Forms \subseteq Events /\ Msgs \subseteq Events
    BY DEF Events
  <2>2. AdComesFirst' /\ AttributionComplete' /\ NamedIsThere'
    BY <1>1, <1>6, <2>1
       DEF OutreachInv, OutreachTypeOK, AdComesFirst, AttributionComplete, NamedIsThere, FromAd
  <2>3. WelcomedOnce' /\ ContactedWasSent'
    BY <1>1, <1>6, <2>1 DEF OutreachInv, WelcomedOnce, ContactedWasSent, meta
  <2>4. nudges \subseteq Forms
    BY <1>1 DEF OutreachTypeOK
  <2>5. ReplyEndsOutreach'
    BY <1>1, <1>6, <2>1, <2>4 DEF OutreachInv, ReplyEndsOutreach, outreachHistory
  <2> QED BY <2>2, <2>3, <2>5
<1> QED BY <1>7, <1>8, <1>9, <1>10, <1>11, <1>12 DEF OutreachInv

(* A form is stored: only the session whose insert made the lead goes on.    *)
LEMMA StoreFormStep ==
  ASSUME OutreachInv, NEW s \in Slots, StoreForm(s)
  PROVE  OutreachInv'
<1> DEFINE f == slot[s].event
           created == Created(f)
           c == [slot[s] EXCEPT !.pc = IF created THEN "stored" ELSE "done"]
<1>1. /\ slot[s].pc = "fetching" /\ slot[s] \in Session /\ Good(slot[s]) /\ OutreachTypeOK
      /\ ~AdBeingInserted
      /\ ad' = "known" /\ filled' = (filled \/ ad = "blind")
      /\ lead' = IF created THEN [lead EXCEPT ![f] = [status |-> "new", campaign |-> TRUE]]
                 ELSE lead
      /\ thread' = IF created
                   THEN [stage |-> IF thread.stage = "absent" THEN "new" ELSE thread.stage,
                         lead |-> IF thread.lead = None THEN f ELSE thread.lead]
                   ELSE thread
      /\ UNCHANGED <<recorded, optedOut, heard, nudges, over, tries, meta, raced,
                     overtaken, failed, crashes>>
  BY DEF StoreForm, OutreachInv, OutreachTypeOK
<1>2. slot' = [slot EXCEPT ![s] = c] /\ c \in Session
  BY <1>1 DEF StoreForm, OutreachTypeOK, Session
<1>3. f \in Forms /\ f \in Events /\ slot[s].sends = 0
  BY <1>1 DEF Good, Owned, FormOnly, Events
<1>4. /\ c.pc = (IF created THEN "stored" ELSE "done") /\ c.event = f
      /\ c.sends = 0 /\ \A t \in Slots : ~slot[t].inserts
      /\ ~c.inserts
  BY <1>1, <1>3 DEF Session, AdBeingInserted
<1>5. slot'[s] = c /\ \A t \in Slots \ {s} : slot'[t] = slot[t]
  BY <1>1, <1>2 DEF OutreachTypeOK
<1> HIDE DEF c
<1>6. /\ \A e \in Events \ {f} : lead'[e] = lead[e]
      /\ lead'[f] = IF created THEN [status |-> "new", campaign |-> TRUE] ELSE lead[f]
      /\ lead' \in [Events -> Lead]
  BY <1>1, <1>3 DEF OutreachTypeOK, Lead
<1>7. /\ thread' \in [stage : Stages \cup {"absent"}, lead : Events \cup {None}]
      /\ created => thread'.stage # "absent"
      /\ thread.stage # "absent" => thread'.stage = thread.stage
      /\ ~created => lead[f].status # "absent"
  BY <1>1, <1>3 DEF OutreachTypeOK, Stages, Created
<1>8. OutreachTypeOK'
  <2>1. slot' \in [Slots -> Session]
    BY <1>1, <1>2 DEF OutreachTypeOK
  <2> QED BY <1>1, <1>6, <1>7, <2>1 DEF OutreachTypeOK, meta
<1>9. created => /\ lead[f].status = "absent"
                 /\ \A t \in Slots : ~Second(slot[t], f)
                 /\ \A i \in Ids \ lost : accepted[i] # f
  BY <1>1, <1>3, OutreachAssumption
     DEF Created, OutreachInv, Good, FormGood, Second, AnsweredOnce, Events
<1> HIDE DEF created
<1>10. \A t \in Slots : Good(slot[t])'
  <2> SUFFICES ASSUME NEW t \in Slots PROVE Good(slot[t])'
    OBVIOUS
  <2>1. CASE t = s
    <3>1. /\ slot'[s].pc = (IF created THEN "stored" ELSE "done") /\ slot'[s].event = f
          /\ slot'[s].sends = 0 /\ ~slot'[s].inserts
      BY <1>4, <1>5
    <3>2. Owned(slot[s])' /\ MessageGood(slot[s])'
      BY <1>3, <3>1, OutreachAssumption
         DEF Owned, MessageGood, FormOnly, MessageOnly, SecondTransaction
    <3>3. FormGood(slot[s])'
      BY <1>3, <1>6, <1>7, <3>1 DEF FormGood, SecondTransaction
    <3> QED BY <2>1, <3>2, <3>3 DEF Good
  <2>2. CASE t # s
    <3>1. slot'[t] = slot[t] /\ Good(slot[t]) /\ ~slot[t].inserts
      BY <1>4, <1>5, <2>2 DEF OutreachInv
    <3>2. Owned(slot[t])'
      BY <3>1 DEF Good, Owned
    <3>3. FormGood(slot[t])'
      <4>1. slot[t].pc \in SecondTransaction =>
              /\ slot[t].event \in Events
              /\ lead'[slot[t].event] = lead[slot[t].event]
        BY <1>6, <1>9, <3>1 DEF Good, Owned, FormOnly, Second, Events
      <4> QED BY <1>1, <1>7, <3>1, <4>1 DEF Good, FormGood, meta, SecondTransaction
    <3>4. MessageGood(slot[t])'
      <4>1. slot[t].pc = "storing" =>
              slot[t].event \in Events /\ lead'[slot[t].event] = lead[slot[t].event]
        BY <1>3, <1>6, <3>1, OutreachAssumption DEF Good, Owned, MessageOnly, Events
      <4>2. slot[t].found \in Events \cup {None}
        BY <1>1 DEF OutreachTypeOK, Session
      <4>3. \A e \in Events : lead[e].status # "absent" => lead'[e].status # "absent"
        BY <1>6, <1>7
      <4> QED BY <1>1, <3>1, <4>1, <4>2, <4>3 DEF Good, MessageGood
    <3> QED BY <3>2, <3>3, <3>4, <3>1 DEF Good
  <2> QED BY <2>1, <2>2
<1>11. OneSecond' /\ OneInserter'
  <2>1. \A t \in Slots \ {s}, g \in Forms : Second(slot'[t], g) <=> Second(slot[t], g)
    BY <1>5
  <2>2. \A g \in Forms : Second(slot'[s], g) => created /\ g = f
    BY <1>4, <1>5 DEF Second, SecondTransaction
  <2>3. OneSecond'
    BY <1>9, <2>1, <2>2 DEF OutreachInv, OneSecond
  <2> QED BY <1>4, <1>5, <2>3 DEF OneInserter
<1>12. AnsweredOnce'
  <2> SUFFICES ASSUME NEW i \in Ids \ lost, accepted[i] # None
               PROVE  /\ lead'[accepted[i]].status # "absent"
                      /\ \A t \in Slots : slot'[t].event = accepted[i]
                                            => slot'[t].pc \notin {"stored", "sending"}
    BY <1>1 DEF AnsweredOnce, meta
  <2>1. /\ accepted[i] \in Events
        /\ lead[accepted[i]].status # "absent"
        /\ \A t \in Slots : slot[t].event = accepted[i] => slot[t].pc \notin {"stored", "sending"}
    BY <1>1 DEF OutreachInv, AnsweredOnce, OutreachTypeOK, Events
  <2> QED BY <1>4, <1>5, <1>6, <1>9, <2>1
<1>13. NewIsWaiting'
  <2> SUFFICES ASSUME NEW g \in Forms, lead'[g].status = "new", g \notin failed
               PROVE  \E t \in Slots : Second(slot'[t], g)
    BY <1>1 DEF NewIsWaiting, Second
  <2>1. CASE g = f /\ created
    BY <1>4, <1>5, <2>1 DEF Second, SecondTransaction
  <2>2. CASE ~(g = f /\ created)
    <3>1. lead[g].status = "new"
      BY <1>6, <2>2 DEF Events
    <3>2. PICK t \in Slots : Second(slot[t], g)
      BY <3>1 DEF OutreachInv, NewIsWaiting
    <3>3. t # s
      BY <1>1, <3>2 DEF Second, SecondTransaction
    <3> QED BY <1>5, <3>2, <3>3 DEF Second
  <2> QED BY <2>1, <2>2
<1>14. AdComesFirst' /\ AttributionComplete'
  <2>1. \A m \in Msgs : m \in Events /\ lead'[m] = lead[m]
    BY <1>3, <1>6, OutreachAssumption DEF Events
  <2>2. FromAd' = FromAd
    BY <2>1 DEF FromAd
  <2> QED BY <1>1, <2>1, <2>2 DEF OutreachInv, AdComesFirst, AttributionComplete, FromAd, OutreachTypeOK
<1>15. WelcomedOnce' /\ ContactedWasSent'
  BY <1>1, <1>6 DEF OutreachInv, WelcomedOnce, ContactedWasSent, meta, Events
<1>17. NamedIsThere'
  BY <1>1, <1>3, <1>6, <1>7 DEF OutreachInv, NamedIsThere, OutreachTypeOK
<1>16. ReplyEndsOutreach'
  <2>1. \A g \in nudges \ overtaken : g \in Events /\ lead[g].status = "contacted"
                                      /\ thread.stage = "contacted"
    BY <1>1 DEF OutreachInv, ReplyEndsOutreach, OutreachTypeOK, Events
  <2> QED BY <1>1, <1>6, <1>7, <1>9, <2>1 DEF ReplyEndsOutreach
<1> QED BY <1>8, <1>10, <1>11, <1>12, <1>13, <1>14, <1>15, <1>16, <1>17 DEF OutreachInv

(* One attempt to send.  Whether Meta takes it or not, only the session of   *)
(* this form could have sent before it, and that one had no answer.          *)
LEMMA SendStep ==
  ASSUME OutreachInv, NEW s \in Slots, NEW answer \in {"ok", "timeout", "busy", "no"},
         SendTemplate(s, answer)
  PROVE  OutreachInv'
<1> DEFINE f == slot[s].event
           more == slot[s].sends + 1 < MaxSends
<1>1. /\ slot[s].pc = "sending" /\ slot[s] \in Session /\ Good(slot[s]) /\ OutreachTypeOK
      /\ UNCHANGED <<recorded, outreachTables, over, tries, outreachHistory, crashes>>
  BY DEF SendTemplate, OutreachInv, OutreachTypeOK
<1>2. /\ f \in Forms /\ f \in Events /\ f # None
      /\ slot[s].sends \in 0..MaxSends /\ slot[s].sends < MaxSends
      /\ lead[f].status # "absent" /\ thread.stage # "absent" /\ ~slot[s].inserts
  BY <1>1, OutreachAssumption
     DEF Good, Owned, FormGood, MessageGood, FormOnly, SecondTransaction, Session, Events
<1>3. /\ \A i \in Ids \ lost : accepted[i] # f
      /\ \A t \in Slots \ {s} : slot[t].event = f => slot[t].pc \notin SecondTransaction
  BY <1>1, <1>2 DEF OutreachInv, AnsweredOnce, OneSecond, Second, SecondTransaction
(* The session may send once more, or reports the failure.                   *)
<1>4. ASSUME NEW c \in Session, slot' = [slot EXCEPT ![s] = c],
             c = [slot[s] EXCEPT !.pc = c.pc, !.sends = slot[s].sends + 1],
             (c.pc = "sending" /\ more) \/ c.pc = "refused"
      PROVE  Good(c) /\ c.event = f /\ ~c.inserts
  <2>1. /\ c.event = f /\ c.sends = slot[s].sends + 1 /\ ~c.inserts
        /\ c.stage = slot[s].stage /\ c.status = slot[s].status
    BY <1>1, <1>2, <1>4 DEF Session
  <2> QED BY <1>1, <1>2, <1>4, <2>1, OutreachAssumption
          DEF Good, Owned, FormGood, MessageGood, FormOnly, MessageOnly, SecondTransaction
<1>5. CASE answer \in {"busy", "no"}
  <2> DEFINE p == IF answer = "busy" /\ more THEN "sending" ELSE "refused"
             c == [slot[s] EXCEPT !.pc = p, !.sends = slot[s].sends + 1]
  <2>1. slot' = [slot EXCEPT ![s] = c] /\ UNCHANGED meta
    BY <1>1, <1>5 DEF SendTemplate, OutreachTypeOK
  <2>2. c \in Session
    <3>1. p \in {"sending", "refused"} /\ slot[s].sends + 1 \in 0..MaxSends
      BY <1>2, OutreachAssumption
    <3> HIDE DEF p
    <3> QED BY <1>1, <3>1 DEF Session
  <2>3. c.pc = p
    BY <1>1 DEF Session
  <2>4. c = [slot[s] EXCEPT !.pc = c.pc, !.sends = slot[s].sends + 1]
    BY <2>3
  <2> HIDE DEF c
  <2>5. Good(c) /\ c.event = f /\ ~c.inserts
    BY <1>4, <2>1, <2>2, <2>3, <2>4
  <2> QED BY <1>1, <2>1, <2>2, <2>3, <2>5, QuietStep
          DEF OutreachTypeOK, outreachHistory, SecondTransaction
<1>6. CASE answer \in {"ok", "timeout"}
  <2>1. PICK id \in Ids :
          /\ accepted[id] = None
          /\ accepted' = [accepted EXCEPT ![id] = f]
          /\ IF answer = "ok"
             THEN /\ slot' = [slot EXCEPT ![s].pc = "recording", ![s].id = id]
                  /\ UNCHANGED lost
             ELSE /\ slot' = [slot EXCEPT ![s].pc = IF more THEN "sending" ELSE "refused",
                                          ![s].sends = @ + 1]
                  /\ lost' = lost \cup {id}
    BY <1>6 DEF SendTemplate
  <2>2. PICK c \in Session :
          /\ slot' = [slot EXCEPT ![s] = c] /\ c.event = f /\ ~c.inserts /\ Owned(c)
          /\ c.stage = slot[s].stage /\ c.status = slot[s].status
          /\ IF answer = "ok" THEN c.pc = "recording" /\ c.id = id
                              ELSE c.pc \in {"sending", "refused"}
    <3>1. CASE answer = "ok"
      <4> DEFINE c == [slot[s] EXCEPT !.pc = "recording", !.id = id]
      <4>1. slot' = [slot EXCEPT ![s] = c] /\ c \in Session
        BY <1>1, <2>1, <3>1, ZenonT(60) DEF OutreachTypeOK, Session
      <4>2. /\ c.event = f /\ ~c.inserts /\ c.pc = "recording" /\ c.id = id
            /\ c.stage = slot[s].stage /\ c.status = slot[s].status
        BY <1>1, <1>2 DEF Session
      <4> HIDE DEF c
      <4>3. Owned(c)
        BY <1>2, <4>2 DEF Owned, FormOnly, MessageOnly, SecondTransaction
      <4> QED BY <3>1, <4>1, <4>2, <4>3
    <3>2. CASE answer # "ok"
      <4> DEFINE p == IF more THEN "sending" ELSE "refused"
                 c == [slot[s] EXCEPT !.pc = p, !.sends = slot[s].sends + 1]
      <4>1. slot' = [slot EXCEPT ![s] = c]
        BY <1>1, <2>1, <3>2 DEF OutreachTypeOK
      <4>2. c \in Session
        <5>1. p \in {"sending", "refused"} /\ slot[s].sends + 1 \in 0..MaxSends
          BY <1>2, OutreachAssumption
        <5> HIDE DEF p
        <5> QED BY <1>1, <5>1 DEF Session
      <4>3. c.pc = p /\ c.stage = slot[s].stage /\ c.status = slot[s].status
        BY <1>1 DEF Session
      <4>4. c = [slot[s] EXCEPT !.pc = c.pc, !.sends = slot[s].sends + 1]
        BY <4>3
      <4> HIDE DEF c
      <4>5. Good(c) /\ c.event = f /\ ~c.inserts
        BY <1>4, <4>1, <4>2, <4>3, <4>4
      <4> QED BY <3>2, <4>1, <4>2, <4>3, <4>5 DEF Good
    <3> QED BY <3>1, <3>2
  <2>3. slot'[s] = c /\ \A t \in Slots \ {s} : slot'[t] = slot[t]
    BY <1>1, <2>2 DEF OutreachTypeOK
  <2>4. /\ accepted'[id] = f /\ \A i \in Ids \ {id} : accepted'[i] = accepted[i]
        /\ lost \subseteq lost' /\ lost' \subseteq lost \cup {id}
        /\ answer # "ok" => id \in lost'
    BY <1>1, <2>1 DEF OutreachTypeOK
  <2>5. OutreachTypeOK'
    <3>1. slot' \in [Slots -> Session] /\ accepted' \in [Ids -> Forms \cup {None}]
          /\ lost' \subseteq Ids
      BY <1>1, <1>2, <2>1, <2>2, <2>4 DEF OutreachTypeOK
    <3> QED BY <1>1, <3>1 DEF OutreachTypeOK, outreachTables, outreachHistory
  <2>6. \A t \in Slots : Good(slot[t])'
    <3> SUFFICES ASSUME NEW t \in Slots PROVE Good(slot[t])'
      OBVIOUS
    <3>1. CASE t = s
      <4>1. Owned(slot[t])' /\ MessageGood(slot[t])'
        BY <2>2, <2>3, <3>1 DEF Owned, MessageGood
      <4>2. FormGood(slot[t])'
        BY <1>1, <1>2, <2>2, <2>3, <2>4, <3>1
           DEF Good, FormGood, outreachTables, outreachHistory, SecondTransaction
      <4> QED BY <4>1, <4>2 DEF Good
    <3>2. CASE t # s
      <4>1. slot'[t] = slot[t] /\ Good(slot[t])
        BY <2>3, <3>2 DEF OutreachInv
      <4>2. slot[t].pc = "recording" => slot[t].id # id
        BY <2>1, <4>1, OutreachAssumption
           DEF Good, Owned, FormGood, FormOnly, SecondTransaction, Events
      <4> QED BY <1>1, <2>4, <4>1, <4>2
              DEF Good, Owned, FormGood, MessageGood, outreachTables, outreachHistory
    <3> QED BY <3>1, <3>2
  <2>7. OneSecond' /\ OneInserter'
    BY <1>1, <2>2, <2>3
       DEF OutreachInv, OneSecond, OneInserter, Second, SecondTransaction
  <2>8. AnsweredOnce'
    <3> SUFFICES ASSUME NEW i \in Ids \ lost', accepted'[i] # None
                 PROVE  /\ lead[accepted'[i]].status # "absent"
                        /\ \A t \in Slots : slot'[t].event = accepted'[i]
                                              => slot'[t].pc \notin {"stored", "sending"}
      BY <1>1 DEF AnsweredOnce, outreachTables
    <3>1. CASE i = id
      BY <1>2, <1>3, <2>2, <2>3, <2>4, <3>1 DEF SecondTransaction
    <3>2. CASE i # id
      <4>1. i \notin lost /\ accepted'[i] = accepted[i] /\ accepted[i] # f
        BY <1>3, <2>4, <3>2
      <4> QED BY <2>2, <2>3, <4>1 DEF OutreachInv, AnsweredOnce
    <3> QED BY <3>1, <3>2
  <2>9. NewIsWaiting'
    <3> SUFFICES ASSUME NEW g \in Forms, lead[g].status = "new", g \notin failed
                 PROVE  \E t \in Slots : Second(slot'[t], g)
      BY <1>1 DEF NewIsWaiting, Second, outreachTables, outreachHistory
    <3>1. PICK t \in Slots : Second(slot[t], g)
      BY DEF OutreachInv, NewIsWaiting
    <3> QED BY <2>2, <2>3, <3>1 DEF Second, SecondTransaction
  <2>10. WelcomedOnce'
    BY <1>2, <1>3, <2>4 DEF OutreachInv, WelcomedOnce
  <2>11. ContactedWasSent'
    <3> SUFFICES ASSUME NEW g \in Forms, lead[g].status = "contacted"
                 PROVE  \E i \in Ids : accepted'[i] = g /\ i \in recorded
      BY <1>1 DEF ContactedWasSent, outreachTables
    <3>1. PICK i \in Ids : accepted[i] = g /\ i \in recorded
      BY DEF OutreachInv, ContactedWasSent
    <3>2. i # id
      BY <2>1, <3>1, OutreachAssumption DEF Events
    <3> QED BY <2>4, <3>1, <3>2
  <2>12. AdComesFirst' /\ NamedIsThere' /\ AttributionComplete' /\ ReplyEndsOutreach'
    BY <1>1 DEF OutreachInv, AdComesFirst, NamedIsThere, AttributionComplete, ReplyEndsOutreach, FromAd,
                outreachTables, outreachHistory
  <2> QED BY <2>5, <2>6, <2>7, <2>8, <2>9, <2>10, <2>11, <2>12 DEF OutreachInv
<1> QED BY <1>5, <1>6

(* What the template's recording writes: the thread, the lead and the nudge. *)
LEMMA RecordStep ==
  ASSUME OutreachInv, NEW s \in Slots, RecordSent(s)
  PROVE  OutreachInv'
<1> DEFINE f == slot[s].event
           c == [slot[s] EXCEPT !.pc = "done"]
<1>1. /\ slot[s].pc = "recording" /\ slot[s] \in Session /\ Good(slot[s]) /\ OutreachTypeOK
      /\ recorded' = recorded \cup {slot[s].id}
      /\ thread' = [thread EXCEPT !.stage = StageAfter(slot[s].stage, @)]
      /\ lead' = [lead EXCEPT ![f] = Contacted(@, slot[s].status)]
      /\ nudges' = {f}
      /\ UNCHANGED <<ad, optedOut, heard, over, tries, meta, outreachHistory, crashes>>
  BY DEF RecordSent, OutreachInv, OutreachTypeOK
<1>2. slot' = [slot EXCEPT ![s] = c] /\ c \in Session
  BY <1>1 DEF RecordSent, OutreachTypeOK, Session
<1>3. /\ f \in Forms /\ f \in Events /\ ~slot[s].inserts
      /\ slot[s].id \in Ids /\ accepted[slot[s].id] = f
      /\ lead[f].status # "absent" /\ thread.stage # "absent"
      /\ slot[s].status # "new" => lead[f].status # "new"
      /\ f \notin overtaken => /\ slot[s].stage = "contacted" => thread.stage = "contacted"
                               /\ slot[s].status = "contacted" => lead[f].status = "contacted"
  BY <1>1 DEF Good, Owned, FormGood, MessageGood, FormOnly, SecondTransaction, Events
<1>4. c.pc = "done" /\ c.event = f /\ ~c.inserts
  BY <1>1, <1>3 DEF Session
<1>5. slot'[s].pc = "done" /\ slot'[s].event = f /\ ~slot'[s].inserts
      /\ \A t \in Slots \ {s} : slot'[t] = slot[t]
  BY <1>1, <1>2, <1>4 DEF OutreachTypeOK
<1>6. /\ thread' \in [stage : Stages \cup {"absent"}, lead : Events \cup {None}]
      /\ thread'.stage = IF slot[s].stage # "contacted" THEN "contacted" ELSE thread.stage
  BY <1>1 DEF OutreachTypeOK, StageAfter, Stages
<1>7. /\ lead' \in [Events -> Lead]
      /\ \A e \in Events \ {f} : lead'[e] = lead[e]
      /\ lead'[f].status = IF slot[s].status # "contacted" THEN "contacted" ELSE lead[f].status
  BY <1>1, <1>3 DEF OutreachTypeOK, Contacted, Lead
<1>8. lead'[f].status \notin {"absent", "new"}
  BY <1>3, <1>7
<1>9. OutreachTypeOK'
  <2>1. slot' \in [Slots -> Session] /\ recorded' \subseteq Ids
    BY <1>1, <1>2, <1>3 DEF OutreachTypeOK
  <2> QED BY <1>1, <1>3, <1>6, <1>7, <2>1 DEF OutreachTypeOK, meta, outreachHistory
<1>10. \A t \in Slots \ {s} : slot[t].event = f => slot[t].pc \notin SecondTransaction
  BY <1>1, <1>3 DEF OutreachInv, OneSecond, Second, SecondTransaction
<1>11. \A t \in Slots : Good(slot[t])'
  <2> SUFFICES ASSUME NEW t \in Slots PROVE Good(slot[t])'
    OBVIOUS
  <2>1. CASE t = s
    BY <1>3, <1>5, <2>1
       DEF Good, Owned, FormGood, MessageGood, FormOnly, MessageOnly, SecondTransaction
  <2>2. CASE t # s
    <3>1. slot'[t] = slot[t] /\ Good(slot[t])
      BY <1>5, <2>2 DEF OutreachInv
    <3>2. Owned(slot[t])'
      BY <3>1 DEF Good, Owned
    <3>3. FormGood(slot[t])'
      <4>1. slot[t].pc \in SecondTransaction =>
              slot[t].event \in Events /\ lead'[slot[t].event] = lead[slot[t].event]
        BY <1>7, <1>10, <2>2, <3>1 DEF Good, Owned, FormOnly, Events
      <4>2. thread.stage = "contacted" => thread'.stage = "contacted"
        BY <1>6
      <4>3. thread'.stage # "absent"
        BY <1>3, <1>6
      <4> QED BY <1>1, <3>1, <4>1, <4>2, <4>3
              DEF Good, FormGood, meta, outreachHistory, SecondTransaction
    <3>4. MessageGood(slot[t])'
      <4>1. slot[t].pc = "storing" =>
              slot[t].event \in Events /\ lead'[slot[t].event] = lead[slot[t].event]
        BY <1>3, <1>7, <3>1, OutreachAssumption DEF Good, Owned, MessageOnly, Events
      <4>2. slot[t].found \in Events \cup {None}
        BY <1>1 DEF OutreachTypeOK, Session
      <4>3. \A e \in Events : lead[e].status # "absent" => lead'[e].status # "absent"
        BY <1>7, <1>8
      <4> QED BY <1>1, <3>1, <4>1, <4>2, <4>3 DEF Good, MessageGood
    <3> QED BY <3>2, <3>3, <3>4 DEF Good
  <2> QED BY <2>1, <2>2
<1>12. OneSecond' /\ OneInserter'
  BY <1>5 DEF OutreachInv, OneSecond, OneInserter, Second, SecondTransaction
<1>13. AnsweredOnce'
  <2> SUFFICES ASSUME NEW i \in Ids \ lost, accepted[i] # None
               PROVE  /\ lead'[accepted[i]].status # "absent"
                      /\ \A t \in Slots : slot'[t].event = accepted[i]
                                            => slot'[t].pc \notin {"stored", "sending"}
    BY <1>1 DEF AnsweredOnce, meta
  <2>1. /\ accepted[i] \in Events /\ lead[accepted[i]].status # "absent"
        /\ \A t \in Slots : slot[t].event = accepted[i] => slot[t].pc \notin {"stored", "sending"}
    BY <1>1 DEF OutreachInv, AnsweredOnce, OutreachTypeOK, Events
  <2> QED BY <1>5, <1>7, <1>8, <2>1
<1>14. NewIsWaiting'
  <2> SUFFICES ASSUME NEW g \in Forms, lead'[g].status = "new", g \notin failed
               PROVE  \E t \in Slots : Second(slot'[t], g)
    BY <1>1 DEF NewIsWaiting, Second, outreachHistory
  <2>1. g # f /\ lead[g].status = "new"
    BY <1>7, <1>8 DEF Events
  <2>2. PICK t \in Slots : Second(slot[t], g)
    BY <2>1 DEF OutreachInv, NewIsWaiting
  <2>3. t # s
    BY <2>1, <2>2 DEF Second
  <2> QED BY <1>5, <2>2, <2>3 DEF Second
<1>15. AdComesFirst' /\ AttributionComplete'
  <2>1. \A m \in Msgs : m \in Events /\ lead'[m] = lead[m]
    BY <1>3, <1>7, OutreachAssumption DEF Events
  <2> QED BY <1>1, <2>1 DEF OutreachInv, AdComesFirst, AttributionComplete, FromAd, outreachHistory
<1>16. WelcomedOnce' /\ ContactedWasSent'
  BY <1>1, <1>3, <1>7 DEF OutreachInv, WelcomedOnce, ContactedWasSent, meta, Events
<1>17. ReplyEndsOutreach'
  BY <1>1, <1>3, <1>6, <1>7 DEF ReplyEndsOutreach, outreachHistory
<1>18. NamedIsThere'
  BY <1>1, <1>7, <1>8 DEF OutreachInv, NamedIsThere, OutreachTypeOK
<1> QED BY <1>9, <1>11, <1>12, <1>13, <1>14, <1>15, <1>16, <1>17, <1>18 DEF OutreachInv

(* The ingest of a message: what it read of the ad before may be stale, and  *)
(* then the lead it makes is counted as raced; what the second transaction   *)
(* of a form has loaded may be stale from here on, and then the form is      *)
(* counted as overtaken.                                                     *)
LEMMA StoreMessageStep ==
  ASSUME OutreachInv, NEW s \in Slots, StoreMessage(s)
  PROVE  OutreachInv'
<1> DEFINE m == slot[s].event
           makes == slot[s].found = m /\ lead[m].status = "absent"
           named == IF thread.lead = None THEN slot[s].found ELSE thread.lead
           fresh == m \notin heard
           opened == IF thread.stage = "absent" THEN "new" ELSE thread.stage
           made == IF makes
                   THEN [lead EXCEPT ![m] = [status |-> "responded", campaign |-> ~slot[s].blind]]
                   ELSE lead
           c == [Idle EXCEPT !.pc = IF slot[s].blind THEN "enriching" ELSE "done", !.event = m]
<1>1. /\ slot[s].pc = "storing" /\ slot[s] \in Session /\ Good(slot[s]) /\ OutreachTypeOK
      /\ ad' = IF slot[s].inserts THEN "blind" ELSE ad
      /\ thread' = [stage |-> IF fresh THEN Revived(opened) ELSE opened, lead |-> named]
      /\ lead' = IF fresh /\ named # None THEN [made EXCEPT ![named].status = "responded"] ELSE made
      /\ heard' = heard \cup {m}
      /\ nudges' = PendingAfter(fresh)
      /\ optedOut' = (optedOut /\ ~fresh)
      /\ slot' = [slot EXCEPT ![s] = c]
      /\ raced' = IF makes /\ ~slot[s].inserts /\ slot[s].ad # ad THEN raced \cup {m} ELSE raced
      /\ overtaken' = overtaken \cup
            {f \in Forms : fresh /\ \E t \in Slots : /\ slot[t].event = f
                                                     /\ slot[t].pc \in {"sending", "recording"}}
      /\ UNCHANGED <<recorded, over, tries, meta, filled, failed, crashes>>
  BY DEF StoreMessage, OutreachInv, OutreachTypeOK
<1>2. /\ m \in Msgs /\ m \in Events /\ m \notin Forms
      /\ slot[s].inserts => ad = "absent"
      /\ makes => /\ slot[s].blind = (slot[s].ad # "known")
                  /\ slot[s].inserts = (slot[s].ad = "absent")
                  /\ slot[s].ad # "absent" => ad # "absent"
      /\ slot[s].found \in Events \cup {None} /\ slot[s].blind \in BOOLEAN
  BY <1>1, OutreachAssumption DEF Good, Owned, MessageGood, MessageOnly, Session, Events
<1>3. /\ named \in Events \cup {None}
      /\ opened \in Stages /\ (thread.stage # "absent" => opened = thread.stage)
      /\ Revived(opened) \in Stages
  BY <1>1, <1>2 DEF OutreachTypeOK, Stages, Revived
<1>4. /\ c \in Session /\ c.pc \in {"enriching", "done"} /\ c.event = m /\ ~c.inserts
  <2>1. (IF slot[s].blind THEN "enriching" ELSE "done") \in {"enriching", "done"}
    OBVIOUS
  <2>2. c \in Session
    BY <1>2, <2>1, IdleFacts DEF Session
  <2> QED BY <2>1, <2>2, IdleFacts DEF Idle
<1>5. /\ slot'[s].pc \in {"enriching", "done"} /\ slot'[s].event = m /\ ~slot'[s].inserts
      /\ \A t \in Slots \ {s} : slot'[t] = slot[t]
      /\ slot' \in [Slots -> Session]
  BY <1>1, <1>4 DEF OutreachTypeOK
<1> HIDE DEF c, named, opened, fresh
<1>6. /\ made \in [Events -> Lead]
      /\ \A e \in Events \ {m} : made[e] = lead[e]
      /\ made[m] = IF makes THEN [status |-> "responded", campaign |-> ~slot[s].blind]
                   ELSE lead[m]
  BY <1>1, <1>2 DEF OutreachTypeOK, Lead
<1> HIDE DEF made, makes
(* A lead that there was stays; one there was not is this message's.         *)
<1>7. /\ lead' \in [Events -> Lead]
      /\ \A e \in Events : /\ lead'[e].campaign = made[e].campaign
                           /\ lead'[e].status \in {made[e].status, "responded"}
                           /\ ~fresh => lead'[e].status = made[e].status
  BY <1>1, <1>3, <1>6 DEF Lead
<1>8. \A f \in Forms : /\ f \in Events /\ f # m
                       /\ lead'[f].status \in {lead[f].status, "responded"}
                       /\ ~fresh => lead'[f].status = lead[f].status
  BY <1>2, <1>6, <1>7 DEF Events
<1>9. /\ thread' \in [stage : Stages \cup {"absent"}, lead : Events \cup {None}]
      /\ thread'.stage # "absent"
      /\ ~fresh /\ thread.stage # "absent" => thread'.stage = thread.stage
  BY <1>1, <1>3 DEF Stages
<1>10. OutreachTypeOK'
  <2>1. ad' \in {"absent", "blind", "known"} /\ optedOut' \in BOOLEAN
        /\ heard' \subseteq Msgs /\ nudges' \subseteq Forms
        /\ raced' \subseteq Msgs /\ overtaken' \subseteq Forms
    BY <1>1, <1>2 DEF OutreachTypeOK, PendingAfter, fresh
  <2> QED BY <1>1, <1>5, <1>7, <1>9, <2>1 DEF OutreachTypeOK, meta
<1>11. /\ ad' # "absent" \/ (ad = "absent" /\ ~slot[s].inserts)
       /\ ad # "absent" => ad' = ad
       /\ ad = "absent" => ad' # "known"
  BY <1>1, <1>2
<1>12. \A t \in Slots : Good(slot[t])'
  <2> SUFFICES ASSUME NEW t \in Slots PROVE Good(slot[t])'
    OBVIOUS
  <2>1. CASE t = s
    BY <1>2, <1>5, <2>1
       DEF Good, Owned, FormGood, MessageGood, FormOnly, MessageOnly, SecondTransaction
  <2>2. CASE t # s
    <3>1. slot'[t] = slot[t] /\ Good(slot[t])
      BY <1>5, <2>2 DEF OutreachInv
    <3>2. Owned(slot[t])'
      BY <3>1 DEF Good, Owned
    <3>3. FormGood(slot[t])'
      <4>1. slot[t].pc \in SecondTransaction => slot[t].event \in Forms
        BY <3>1 DEF Good, Owned, FormOnly
      <4>2. slot[t].pc \in {"sending", "recording"} /\ fresh => slot[t].event \in overtaken'
        BY <1>1, <4>1 DEF SecondTransaction
      <4>3. overtaken \subseteq overtaken' /\ accepted' = accepted
        BY <1>1 DEF meta
      <4> QED BY <1>8, <1>9, <3>1, <4>1, <4>2, <4>3 DEF Good, FormGood, SecondTransaction
    <3>4. MessageGood(slot[t])'
      <4>1. slot[t].inserts => ~slot[s].inserts
        BY <2>2 DEF OutreachInv, OneInserter
      <4>2. slot[t].pc = "storing" => slot[t].event \in Events
        BY <3>1 DEF Good, Owned
      <4>3. \A e \in Events : lead'[e].status = "absent" => lead[e].status = "absent"
        BY <1>2, <1>6, <1>7
      <4>4. slot[t].found \in Events \cup {None}
        BY <1>1 DEF OutreachTypeOK, Session
      <4> QED BY <1>1, <1>11, <3>1, <4>1, <4>2, <4>3, <4>4 DEF Good, MessageGood
    <3> QED BY <3>2, <3>3, <3>4 DEF Good
  <2> QED BY <2>1, <2>2
<1>13. OneSecond' /\ OneInserter'
  BY <1>5 DEF OutreachInv, OneSecond, OneInserter, Second, SecondTransaction
<1>14. AnsweredOnce'
  <2> SUFFICES ASSUME NEW i \in Ids \ lost, accepted[i] # None
               PROVE  /\ lead'[accepted[i]].status # "absent"
                      /\ \A t \in Slots : slot'[t].event = accepted[i]
                                            => slot'[t].pc \notin {"stored", "sending"}
    BY <1>1 DEF AnsweredOnce, meta
  <2>1. /\ accepted[i] \in Forms /\ lead[accepted[i]].status # "absent"
        /\ \A t \in Slots : slot[t].event = accepted[i] => slot[t].pc \notin {"stored", "sending"}
    BY <1>1 DEF OutreachInv, AnsweredOnce, OutreachTypeOK
  <2> QED BY <1>5, <1>8, <2>1
<1>15. NewIsWaiting'
  <2> SUFFICES ASSUME NEW g \in Forms, lead'[g].status = "new", g \notin failed
               PROVE  \E t \in Slots : Second(slot'[t], g)
    BY <1>1 DEF NewIsWaiting, Second
  <2>1. lead[g].status = "new"
    BY <1>8
  <2>2. PICK t \in Slots : Second(slot[t], g)
    BY <2>1 DEF OutreachInv, NewIsWaiting
  <2>3. t # s
    BY <1>1, <2>2 DEF Second, SecondTransaction
  <2> QED BY <1>5, <2>2, <2>3 DEF Second
(* The lead the thread names from now on was there, or has just been made.   *)
<1>16. named # None => made[named].status # "absent"
  <2>1. CASE thread.lead # None
    <3>1. lead[named].status # "absent"
      BY <2>1 DEF OutreachInv, NamedIsThere, named
    <3> QED BY <1>3, <1>6, <3>1
  <2>2. CASE thread.lead = None /\ slot[s].found # m
    <3>1. named # None => lead[named].status # "absent"
      BY <1>1, <2>2 DEF Good, MessageGood, named
    <3> QED BY <1>3, <1>6, <3>1
  <2>3. CASE thread.lead = None /\ slot[s].found = m
    BY <1>2, <1>6, <2>3 DEF named, makes
  <2> QED BY <2>1, <2>2, <2>3
<1>17. \A e \in Events : lead'[e].status = "absent" <=> made[e].status = "absent"
  BY <1>1, <1>3, <1>6, <1>16 DEF Lead
<1>18. NamedIsThere'
  BY <1>1, <1>3, <1>16, <1>17 DEF NamedIsThere
<1>19. FromAd' = FromAd \cup IF makes THEN {m} ELSE {}
  BY <1>2, <1>6, <1>17 DEF FromAd, Events
<1>20. AdComesFirst'
  BY <1>2, <1>11, <1>19 DEF OutreachInv, AdComesFirst
<1>21. WelcomedOnce' /\ ContactedWasSent'
  BY <1>1, <1>8 DEF OutreachInv, WelcomedOnce, ContactedWasSent, meta
<1>22. AttributionComplete'
  <2> SUFFICES ASSUME ad' = "known", ~filled, NEW e \in FromAd' \ raced'
               PROVE  lead'[e].campaign
    BY <1>1 DEF AttributionComplete
  <2>1. e \in Events /\ lead'[e].campaign = made[e].campaign
    BY <1>7 DEF FromAd, Events
  <2>2. ad = "known" /\ ~slot[s].inserts /\ raced \subseteq raced'
    BY <1>1, <1>11
  <2>3. CASE makes /\ e = m
    <3>1. slot[s].ad = "known"
      BY <1>1, <2>2, <2>3
    <3>2. ~slot[s].blind
      BY <1>2, <2>3, <3>1
    <3>3. made[m].campaign = ~slot[s].blind
      BY <1>6, <2>3
    <3> QED BY <2>1, <2>3, <3>2, <3>3
  <2>4. CASE ~(makes /\ e = m)
    <3>1. made[e] = lead[e] /\ e \in FromAd \ raced
      BY <1>6, <1>19, <2>1, <2>2, <2>4
    <3> QED BY <2>1, <2>2, <3>1 DEF OutreachInv, AttributionComplete
  <2> QED BY <2>3, <2>4
<1>23. ReplyEndsOutreach'
  <2>1. CASE fresh
    BY <1>1, <2>1 DEF ReplyEndsOutreach, PendingAfter
  <2>2. CASE ~fresh
    <3>1. nudges' = nudges /\ nudges \subseteq Forms /\ overtaken \subseteq overtaken'
      BY <1>1, <2>2 DEF PendingAfter, OutreachTypeOK
    <3> QED BY <1>8, <1>9, <2>2, <3>1 DEF OutreachInv, ReplyEndsOutreach
  <2> QED BY <2>1, <2>2
<1> QED BY <1>10, <1>12, <1>13, <1>14, <1>15, <1>18, <1>20, <1>21, <1>22, <1>23 DEF OutreachInv

LEMMA OutreachStep == OutreachInv /\ [Next]_vars => OutreachInv'
<1> SUFFICES ASSUME OutreachInv, [Next]_vars PROVE OutreachInv'
  OBVIOUS
<1>1. ASSUME NEW s \in Slots, SlotStep(s) \/ Crash(s) PROVE OutreachInv'
  BY <1>1, EndStep, StoreFormStep, LoadThreadStep, RecordStep, SendStep, LookStep,
     StoreMessageStep, AskStep, EnrichStep DEF SlotStep, FormStep, MessageStep
<1>2. CASE NudgeEnds
  BY <1>2 DEF NudgeEnds, OutreachInv, OutreachTypeOK, meta, outreachHistory, Good, Owned, FormGood,
              MessageGood, OneSecond, OneInserter, Second, AnsweredOnce, NewIsWaiting, AdComesFirst,
              NamedIsThere, FromAd, WelcomedOnce, ContactedWasSent, AttributionComplete,
              ReplyEndsOutreach
<1>3. CASE UNCHANGED vars
  BY <1>3 DEF vars, outreachTables, meta, outreachHistory, OutreachInv, OutreachTypeOK, Good, Owned,
              FormGood, MessageGood, OneSecond, OneInserter, Second, AnsweredOnce, NewIsWaiting,
              AdComesFirst, NamedIsThere, FromAd, WelcomedOnce, ContactedWasSent,
              AttributionComplete, ReplyEndsOutreach
<1> QED BY <1>1, <1>2, <1>3, BeginStep DEF Next

LEMMA OutreachStarts == Init => OutreachInv
<1> SUFFICES ASSUME Init PROVE OutreachInv
  OBVIOUS
<1>1. /\ \A e \in Events : lead[e] = NoLead
      /\ thread.lead = None /\ thread \in [stage : Stages \cup {"absent"}, lead : Events \cup {None}]
      /\ \A s \in Slots : slot[s] = Idle
      /\ \A id \in Ids : accepted[id] = None
      /\ nudges = {} /\ over = {}
  BY OutreachAssumption DEF Init
<1>2. NoLead \in Lead /\ NoLead.status = "absent"
  BY DEF NoLead, Lead
<1>3. OutreachTypeOK
  <2>1. lead \in [Events -> Lead] /\ slot \in [Slots -> Session]
    BY <1>2, IdleFacts DEF Init
  <2>2. tries \in [Events -> 0..MaxTries] /\ crashes \in 0..MaxCrashes
    BY OutreachAssumption DEF Init
  <2>3. accepted \in [Ids -> Forms \cup {None}] /\ ad \in {"absent", "blind", "known"}
    BY DEF Init
  <2> QED BY <1>1, <2>1, <2>2, <2>3 DEF Init, OutreachTypeOK
<1>4. \A s \in Slots : Good(slot[s])
  BY <1>1, IdleFacts DEF Good, Owned, FormGood, MessageGood, FormOnly, MessageOnly, SecondTransaction
<1>5. OneSecond /\ OneInserter /\ AnsweredOnce
  BY <1>1, IdleFacts DEF OneSecond, OneInserter, AnsweredOnce, Second, SecondTransaction
<1>6. FromAd = {} /\ NewIsWaiting /\ AdComesFirst /\ NamedIsThere
  BY <1>1, <1>2 DEF FromAd, NewIsWaiting, AdComesFirst, NamedIsThere, Events
<1>7. WelcomedOnce /\ ContactedWasSent /\ AttributionComplete /\ ReplyEndsOutreach
  BY <1>1, <1>2, <1>6
     DEF WelcomedOnce, ContactedWasSent, AttributionComplete, ReplyEndsOutreach, Events
<1> QED BY <1>3, <1>4, <1>5, <1>6, <1>7 DEF OutreachInv

LEMMA OutreachInvHolds == Spec => []OutreachInv
BY OutreachStarts, OutreachStep, PTL DEF Spec

(* The rows and the sessions of the outreach are well typed.                 *)
THEOREM OutreachTypeCorrect == Spec => []OutreachTypeOK
BY OutreachInvHolds, PTL DEF OutreachInv

(* Meta takes one template per form, counting those it answered for, however *)
(* many slots, repeats and crashes there are.                                *)
THEOREM OneWelcome == Spec => []WelcomedOnce
BY OutreachInvHolds, PTL DEF OutreachInv

(* A lead that counts as contacted has its template on record.               *)
THEOREM ContactedMeansSent == Spec => []ContactedWasSent
BY OutreachInvHolds, PTL DEF OutreachInv

(* But for a session that read the ad before, and a form that named the      *)
(* campaign, no lead of a known ad is without its campaign.                  *)
THEOREM CampaignsReachLeads == Spec => []AttributionComplete
BY OutreachInvHolds, PTL DEF OutreachInv

(* A customer who wrote is not nudged for silence, unless they wrote while   *)
(* the template was on its way.                                              *)
THEOREM RepliesEndOutreach == Spec => []ReplyEndsOutreach
BY OutreachInvHolds, PTL DEF OutreachInv

(* A lead nobody will contact any more has a failed session behind it.       *)
THEOREM OnlyFailuresForget == Spec => []ForgottenWereFailed
<1>1. OutreachInv => ForgottenWereFailed
  BY DEF OutreachInv, NewIsWaiting, ForgottenWereFailed, Second
<1> QED BY <1>1, OutreachInvHolds, PTL
=============================================================================
