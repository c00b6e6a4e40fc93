---------------------------- MODULE LeadOutreach ----------------------------
(***************************************************************************)
(* Where one customer came from and the first message we send them:        *)
(* submissions of a lead form, answered with a template                    *)
(* (app/services/conversation_flow.py handle_leadgen), and messages that   *)
(* name the ad they came from (ingest_inbound, app/services/leads.py), with*)
(* the ad's campaign looked up afterwards (app/services/attribution.py).   *)
(* The receipts of the templates are DeliveryReceipts', the replies        *)
(* Conversation's; here a message is stored and its event is over.         *)
(*                                                                         *)
(* Both flows meet in the rows of one ad and of one thread.  A session     *)
(* writes at its commit what it decided from the rows it loaded.           *)
(***************************************************************************)
EXTENDS SalesStages

CONSTANTS
  Forms,        \* submissions of the lead form, one webhook event each
  Msgs,         \* messages of the customer, one webhook event each
  Referred,     \* those that name the ad
  Ids,          \* ids Meta gives to templates it takes
  Slots,        \* job slots
  None,
  Earlier,      \* bound: stages at which an earlier thread may be ("absent": none)
  MaxSends,     \* attempts of MetaClient._request
  MaxTries,     \* bound: worker_max_attempts of an event
  MaxCrashes    \* bound: slots that die

Events == Forms \cup Msgs

ASSUME OutreachAssumption ==
  /\ Forms \cap Msgs = {} /\ Referred \subseteq Msgs
  /\ IsFiniteSet(Forms) /\ IsFiniteSet(Msgs) /\ IsFiniteSet(Ids)
  /\ Earlier \subseteq Stages \cup {"absent"}
  /\ MaxSends \in Nat \ {0} /\ MaxTries \in Nat /\ MaxCrashes \in Nat
  /\ None \notin Events \cup Slots

VARIABLES
  lead,      \* lead[e]: the lead row that event e made
  ad,        \* the ad's row: absent, blind (no campaign) or known
  thread,    \* the customer's open conversation: its stage and the lead it names
  optedOut,
  heard,     \* messages whose row is committed
  nudges,    \* forms whose NO_REPLY_NUDGE is pending
  over,      \* events processed, or failed for good
  tries,     \* tries[e]: attempts of event e
  slot,      \* slot[s]: the session of s
  accepted,  \* accepted[id]: the form whose template Meta took under this id
  recorded,  \* ids of outbound messages on record
  lost,      \* history: those whose id we were not told
  raced,     \* history: leads inserted by a session that read the ad before a commit changed it
  filled,    \* history: a lead form gave a blind ad its campaign
  failed,    \* history: forms that failed after their first transaction
  overtaken, \* history: forms during whose template the customer wrote
  crashes

outreachTables == <<lead, ad, thread, optedOut, heard, nudges>>
outreachHistory == <<raced, filled, overtaken, failed>>
meta == <<accepted, lost>>
vars == <<recorded, outreachTables, over, tries, slot, meta, outreachHistory, crashes>>

Lead == [status : {"absent", "new", "contacted", "responded", "unreachable"},
         campaign : BOOLEAN]

NoLead == [status |-> "absent", campaign |-> FALSE]

Session ==
  [pc : {"idle", "fetching", "stored", "sending", "recording", "refused", "looking",
         "attributing", "storing", "enriching", "asking", "done"},
   event : Events \cup {None},
   found : Events \cup {None},                  \* the lead an ingest found or makes
   blind : BOOLEAN,                             \* ... without a campaign
   ad : {"absent", "blind", "known"}, inserts : BOOLEAN,
   stage : Stages, status : {"new", "contacted", "responded", "unreachable"},
   sends : 0..MaxSends, id : Ids \cup {None}]

Idle == [pc |-> "idle", event |-> None, found |-> None, blind |-> FALSE, ad |-> "absent",
         inserts |-> FALSE, stage |-> "new", status |-> "new", sends |-> 0, id |-> None]

Init ==
  /\ lead = [e \in Events |-> NoLead]
  /\ ad \in {"absent", "blind"}
  /\ \E s \in Earlier : thread = [stage |-> s, lead |-> None]
  /\ optedOut \in BOOLEAN
  /\ heard = {} /\ nudges = {} /\ over = {}
  /\ tries = [e \in Events |-> 0]
  /\ slot = [s \in Slots |-> Idle]
  /\ accepted = [id \in Ids |-> None] /\ recorded = {}
  /\ lost = {} /\ raced = {} /\ filled = FALSE /\ overtaken = {} /\ failed = {}
  /\ crashes = 0

-----------------------------------------------------------------------------
\* the cap on attempts left to the queue
BeginUncapped(s, e) ==
  /\ slot[s].pc = "idle"
  /\ e \notin over
  /\ tries' = [tries EXCEPT ![e] = @ + 1]
  /\ slot' = [slot EXCEPT ![s] = [Idle EXCEPT !.event = e,
                                    !.pc = IF e \in Forms THEN "fetching" ELSE "looking"]]
  /\ UNCHANGED <<recorded, outreachTables, over, meta, outreachHistory, crashes>>

Begin(s, e) ==
  /\ slot[s].pc = "idle"
  /\ e \notin over /\ tries[e] < MaxTries
  /\ tries' = [tries EXCEPT ![e] = @ + 1]
  /\ slot' = [slot EXCEPT ![s] = [Idle EXCEPT !.event = e,
                                    !.pc = IF e \in Forms THEN "fetching" ELSE "looking"]]
  /\ UNCHANGED <<recorded, outreachTables, over, meta, outreachHistory, crashes>>

\* mark_processed, a transaction of its own
Finish(s) ==
  /\ slot[s].pc = "done"
  /\ over' = over \cup {slot[s].event}
  /\ slot' = [slot EXCEPT ![s] = Idle]
  /\ UNCHANGED <<recorded, outreachTables, tries, meta, outreachHistory, crashes>>

\* the outcome of the send not looked at
Unlooked(s) ==
  /\ slot[s].pc = "refused"
  /\ slot' = [slot EXCEPT ![s].pc = "done"]
  /\ lead' = [lead EXCEPT ![slot[s].event].status = "contacted"]
  /\ UNCHANGED <<recorded, ad, thread, optedOut, heard, nudges, over, tries, meta,
                 outreachHistory, crashes>>

\* RetryableError: the session is rolled back, the event waits for the sweep
Retry(s) ==
  /\ slot[s].pc \in {"fetching", "refused"}
  /\ slot' = [slot EXCEPT ![s] = Idle]
  /\ failed' = IF slot[s].pc = "refused" THEN failed \cup {slot[s].event} ELSE failed
  /\ UNCHANGED <<recorded, outreachTables, over, tries, meta, raced, filled, overtaken, crashes>>

\* an ad row whose insert is not committed
AdBeingInserted == \E s \in Slots : slot[s].inserts

-----------------------------------------------------------------------------
(* A lead form.                                                             *)

\* a form without a phone number will never have one
NoPhone(s) ==
  /\ slot[s].pc = "fetching"
  /\ over' = over \cup {slot[s].event}
  /\ slot' = [slot EXCEPT ![s] = Idle]
  /\ UNCHANGED <<recorded, outreachTables, tries, meta, outreachHistory, crashes>>

\* every submission taken for a new one
AlwaysCreated(f) == f \in Forms

\* insert_or_get on meta_leadgen_id
Created(f) == lead[f].status = "absent"

\* the first transaction; whoever finds the lead there leaves it alone
StoreForm(s) ==
  LET f == slot[s].event
      created == Created(f) IN
  /\ slot[s].pc = "fetching"
  /\ ~AdBeingInserted
  /\ ad' = "known"
  /\ filled' = (filled \/ ad = "blind")
  /\ lead' = IF created THEN [lead EXCEPT ![f] = [status |-> "new", campaign |-> TRUE]] ELSE lead
  /\ thread' = IF created
               THEN [stage |-> IF thread.stage = "absent" THEN "new" ELSE thread.stage,
                     lead |-> IF thread.lead = None THEN f ELSE thread.lead]
               ELSE thread
  /\ slot' = [slot EXCEPT ![s].pc = IF created THEN "stored" ELSE "done"]
  /\ UNCHANGED <<recorded, optedOut, heard, nudges, over, tries, meta, raced,
                 overtaken, failed, crashes>>

\* the second transaction loads the thread, the customer and the lead
LoadThread(s) ==
  LET f == slot[s].event IN
  /\ slot[s].pc = "stored"
  /\ slot' = [slot EXCEPT ![s].pc = IF optedOut THEN "refused" ELSE "sending",
                          ![s].stage = thread.stage, ![s].status = lead[f].status]
  /\ UNCHANGED <<recorded, outreachTables, over, tries, meta, outreachHistory, crashes>>

\* one attempt: answered, taken but not answered in time, throttled, or refused for good
SendTemplate(s, answer) ==
  LET f == slot[s].event
      more == slot[s].sends + 1 < MaxSends IN
  /\ slot[s].pc = "sending"
  /\ \/ /\ answer \in {"ok", "timeout"}
        /\ \E id \in Ids :
             /\ accepted[id] = None
             /\ accepted' = [accepted EXCEPT ![id] = f]
             /\ IF answer = "ok"
                THEN /\ slot' = [slot EXCEPT ![s].pc = "recording", ![s].id = id]
                     /\ UNCHANGED lost
                ELSE /\ slot' = [slot EXCEPT ![s].pc = IF more THEN "sending" ELSE "refused",
                                             ![s].sends = @ + 1]
                     /\ lost' = lost \cup {id}
     \/ /\ answer \in {"busy", "no"}
        /\ slot' = [slot EXCEPT ![s].pc = IF answer = "busy" /\ more THEN "sending" ELSE "refused",
                                ![s].sends = @ + 1]
        /\ UNCHANGED meta
  /\ UNCHANGED <<recorded, outreachTables, over, tries, outreachHistory, crashes>>

\* set_stage refuses to take the thread to `contacted`
TooFar(stage) == stage # "contacted" /\ ~MaySet(stage, "contacted", FALSE)

\* ... and raises: what was sent is not recorded and the event has failed for good
SendWasted(s) ==
  LET f == slot[s].event IN
  /\ slot[s].pc = "recording" /\ TooFar(slot[s].stage)
  /\ over' = over \cup {f}
  /\ failed' = failed \cup {f}
  /\ slot' = [slot EXCEPT ![s] = Idle]
  /\ UNCHANGED <<recorded, outreachTables, tries, meta, raced, filled, overtaken, crashes>>

\* set_stage writes whatever the stage has become since it was loaded
StageAfter(loaded, stage) == IF loaded # "contacted" THEN "contacted" ELSE stage

\* a lead's status left to the reply
Untouched(l, loaded) == l

\* set_status writes over whatever a reply has made of the lead
Contacted(l, loaded) == IF loaded # "contacted" THEN [l EXCEPT !.status = "contacted"] ELSE l

\* the template is recorded with everything that follows from it
RecordSent(s) ==
  LET c == slot[s]
      f == c.event IN
  /\ c.pc = "recording" /\ ~TooFar(c.stage)
  /\ recorded' = recorded \cup {c.id}
  /\ thread' = [thread EXCEPT !.stage = StageAfter(c.stage, @)]
  /\ lead' = [lead EXCEPT ![f] = Contacted(@, c.status)]
  /\ nudges' = {f}
  /\ slot' = [slot EXCEPT ![s].pc = "done"]
  /\ UNCHANGED <<ad, optedOut, heard, over, tries, meta, outreachHistory, crashes>>

-----------------------------------------------------------------------------
(* A message of the customer.                                               *)

FromAd == {m \in Msgs : lead[m].status # "absent"}

LookForLead(s) ==
  LET m == slot[s].event IN
  /\ slot[s].pc = "looking"
  /\ \/ /\ m \notin Referred
        /\ slot' = [slot EXCEPT ![s].pc = "storing"]
     \/ /\ m \in Referred /\ FromAd = {}
        /\ slot' = [slot EXCEPT ![s].pc = "attributing"]
     \/ /\ m \in Referred
        /\ \E l \in FromAd : slot' = [slot EXCEPT ![s].pc = "storing", ![s].found = l,
                                                  ![s].blind = ~lead[l].campaign]
  /\ UNCHANGED <<recorded, outreachTables, over, tries, meta, outreachHistory, crashes>>

\* insert_or_get of the ad
LookForAd(s) ==
  /\ slot[s].pc = "attributing"
  /\ ~AdBeingInserted
  /\ slot' = [slot EXCEPT ![s].pc = "storing", ![s].found = slot[s].event,
                          ![s].inserts = (ad = "absent"), ![s].ad = ad,
                          ![s].blind = (ad # "known")]
  /\ UNCHANGED <<recorded, outreachTables, over, tries, meta, outreachHistory, crashes>>

\* what is pending left to relevance_block
NotCancelled(fresh) == nudges

\* cancel_pending
PendingAfter(fresh) == IF fresh THEN {} ELSE nudges

\* the rest of ingest_inbound and its commit
StoreMessage(s) ==
  LET c == slot[s]
      m == c.event
      makes == c.found = m /\ lead[m].status = "absent"
      named == IF thread.lead = None THEN c.found ELSE thread.lead
      fresh == m \notin heard
      opened == IF thread.stage = "absent" THEN "new" ELSE thread.stage
      made == IF makes THEN [lead EXCEPT ![m] = [status |-> "responded", campaign |-> ~c.blind]]
                       ELSE lead IN
  /\ c.pc = "storing"
  /\ ad' = IF c.inserts THEN "blind" ELSE ad
  /\ thread' = [stage |-> IF fresh THEN Revived(opened) ELSE opened, lead |-> named]
  /\ lead' = IF fresh /\ named # None THEN [made EXCEPT ![named].status = "responded"] ELSE made
  /\ heard' = heard \cup {m}
  /\ nudges' = PendingAfter(fresh)
  /\ optedOut' = (optedOut /\ ~fresh)
  /\ slot' = [slot EXCEPT ![s] = [Idle EXCEPT !.pc = IF c.blind THEN "enriching" ELSE "done",
                                              !.event = m]]
  /\ raced' = IF makes /\ ~c.inserts /\ c.ad # ad THEN raced \cup {m} ELSE raced
  /\ overtaken' = overtaken \cup
        {f \in Forms : fresh /\ \E t \in Slots : /\ slot[t].event = f
                                                 /\ slot[t].pc \in {"sending", "recording"}}
  /\ UNCHANGED <<recorded, over, tries, meta, filled, failed, crashes>>

\* enrich_ad_from_meta: an ad with a campaign is left alone, any other is asked about
LookAtAd(s) ==
  /\ slot[s].pc = "enriching"
  /\ slot' = [slot EXCEPT ![s].pc = IF ad = "blind" THEN "asking" ELSE "done"]
  /\ UNCHANGED <<recorded, outreachTables, over, tries, meta, outreachHistory, crashes>>

\* Meta cannot say: logged and swallowed
NoCampaign(s) ==
  /\ slot[s].pc = "asking"
  /\ slot' = [slot EXCEPT ![s].pc = "done"]
  /\ UNCHANGED <<recorded, outreachTables, over, tries, meta, outreachHistory, crashes>>

\* the leads that are there left as they are
LeftBlind(l) == l

Attributed(l) == [l EXCEPT !.campaign = TRUE]

\* the campaign goes on the ad and on the leads that are there
Enrich(s) ==
  /\ slot[s].pc = "asking"
  /\ ad' = "known"
  /\ lead' = [e \in Events |-> IF lead[e].status # "absent" THEN Attributed(lead[e]) ELSE lead[e]]
  /\ slot' = [slot EXCEPT ![s].pc = "done"]
  /\ UNCHANGED <<recorded, thread, optedOut, heard, nudges, over, tries, meta,
                 outreachHistory, crashes>>

-----------------------------------------------------------------------------
\* the nudge comes due and is sent, or is found irrelevant (Conversation has the rest)
NudgeEnds ==
  /\ nudges # {}
  /\ nudges' = {}
  /\ UNCHANGED <<recorded, lead, ad, thread, optedOut, heard, over, tries, slot, meta,
                 outreachHistory, crashes>>

SecondTransaction == {"stored", "sending", "recording", "refused"}

Crash(s) ==
  /\ crashes < MaxCrashes
  /\ slot[s].pc # "idle"
  /\ crashes' = crashes + 1
  /\ slot' = [slot EXCEPT ![s] = Idle]
  /\ failed' = IF slot[s].pc \in SecondTransaction THEN failed \cup {slot[s].event} ELSE failed
  /\ UNCHANGED <<recorded, outreachTables, over, tries, meta, raced, filled, overtaken>>

FormStep(s) ==
  \/ NoPhone(s) \/ StoreForm(s) \/ LoadThread(s) \/ RecordSent(s) \/ SendWasted(s)
  \/ \E answer \in {"ok", "timeout", "busy", "no"} : SendTemplate(s, answer)

MessageStep(s) ==
  \/ LookForLead(s) \/ LookForAd(s) \/ StoreMessage(s)
  \/ LookAtAd(s) \/ NoCampaign(s) \/ Enrich(s)

SlotStep(s) == FormStep(s) \/ MessageStep(s) \/ Retry(s) \/ Finish(s)

Next ==
  \/ \E s \in Slots, e \in Events : Begin(s, e)
  \/ \E s \in Slots : SlotStep(s) \/ Crash(s)
  \/ NudgeEnds

Spec == Init /\ [][Next]_vars

-----------------------------------------------------------------------------
OutreachTypeOK ==
  /\ lead \in [Events -> Lead]
  /\ ad \in {"absent", "blind", "known"}
  /\ thread \in [stage : Stages \cup {"absent"}, lead : Events \cup {None}]
  /\ optedOut \in BOOLEAN
  /\ heard \subseteq Msgs /\ nudges \subseteq Forms /\ over \subseteq Events
  /\ tries \in [Events -> 0..MaxTries]
  /\ slot \in [Slots -> Session]
  /\ accepted \in [Ids -> Forms \cup {None}]
  /\ recorded \subseteq Ids /\ lost \subseteq Ids /\ raced \subseteq Msgs /\ overtaken \subseteq Forms /\ failed \subseteq Forms
  /\ filled \in BOOLEAN
  /\ crashes \in 0..MaxCrashes

(* "a retried webhook returns the existing lead and reports created=False,  *)
(* so no second welcome message is sent" (leads.py 92-94): whatever is run  *)
(* twice, repeated or interrupted, Meta takes one template for a form whose *)
(* acceptance we heard of; those whose answer was lost come on top of it.   *)
WelcomedOnce ==
  \A i, j \in Ids \ lost : accepted[i] = accepted[j] /\ accepted[i] # None => i = j

(* A lead that counts as contacted was: Meta took its template and the      *)
(* message is on record under the id that its receipts will name.           *)
ContactedWasSent ==
  \A f \in Forms : lead[f].status = "contacted" =>
     \E id \in Ids : accepted[id] = f /\ id \in recorded

(* "Backfill the leads that arrived before we knew the campaign"            *)
(* (attribution.py 122): once the ad's campaign is known no lead of it is   *)
(* left without, but for two gaps: a lead inserted by a session that had    *)
(* read the ad before, and a campaign that a lead form filled in.           *)
AttributionComplete ==
  ad = "known" /\ ~filled => \A m \in FromAd \ raced : lead[m].campaign

(* A message of the customer ends the outreach: no "no reply" nudge is queued *)
(* for someone who has written since - unless they wrote while the template *)
(* was on its way, when the second transaction overwrites the thread's      *)
(* stage and the lead's status and queues the nudge after the cancelling.   *)
ReplyEndsOutreach ==
  \A f \in nudges \ overtaken : thread.stage = "contacted" /\ lead[f].status = "contacted"

(* A lead that nobody seems to have tried, its event being over, is one     *)
(* that a failure hit after the first transaction - Meta refused the        *)
(* template, the thread was past `contacted`, or the slot died - and no     *)
(* other order of commits leaves one.  In these cases the retry stops at    *)
(* created = False: the RetryableError has rolled back the UNREACHABLE and  *)
(* the failed message written just before it, and the lead stays `new`.     *)
ForgottenWereFailed ==
  \A f \in Forms \cap over :
     lead[f].status = "new" => f \in failed \/ \E s \in Slots : slot[s].event = f

=============================================================================
