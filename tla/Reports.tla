------------------------------ MODULE Reports -------------------------------
(***************************************************************************)
(* What the operators are told: the funnel and agent reports                *)
(* (app/api/admin.py) and the dashboard's overview, table and detail        *)
(* (app/api/dashboard.py), computed from the tables of Customers in every   *)
(* state those can be in.  A report reads one snapshot.                     *)
(***************************************************************************)
EXTENDS Customers

CONSTANTS
  Campaigns,     \* the campaigns that leads may be of
  LeadsOf,       \* LeadsOf[p]: what brought p in, first lead first
  MessageLimit   \* _MESSAGE_LIMIT

Lead == [source : {"click_to_whatsapp", "lead_ad", "manual"}, campaign : Campaigns \cup {None}]

\* a database has finitely many rows, and none of them is its null
ASSUME ReportsAssumption ==
  /\ IsFiniteSet(People) /\ IsFiniteSet(Numbers)
  /\ LeadsOf \in [People -> Seq(Lead)] /\ MessageLimit \in Nat
  /\ None \notin Campaigns
  /\ None \notin [who : People, lead : Nat] \cup [who : People, on : Numbers]
                \cup [who : People, token : Nat]

-----------------------------------------------------------------------------
(* The tables' rows, each with the customer that it hangs from.             *)

Known == {p \in People : customer[p].known}
CustomerRows == {[who |-> p] : p \in Known}
LeadRows == UNION {{[who |-> p, lead |-> i] : i \in DOMAIN LeadsOf[p]} : p \in Known}
ThreadRows == UNION {{[who |-> p, on |-> n] : n \in Threads(p)} : p \in Known}
LinkRows == UNION {{[who |-> p, token |-> t] : t \in LinksOf(p)} : p \in Known}

CampaignOf(lead) == LeadsOf[lead.who][lead.lead].campaign
Log(row) == thread[row.who][row.on].log

Owners(rows) == {row.who : row \in rows}

\* the messages of these threads, one for each turn of the AI
Messages(rows) == SumFunction([row \in rows |-> Len(Log(row))])

-----------------------------------------------------------------------------
(* /admin/reports/funnel: a row per campaign of the leads, joined to their  *)
(* customers, those to their threads and to their links.                    *)

\* an outer join keeps a row that nothing joins
Outer(rows) == IF rows = {} THEN {None} ELSE rows

OfPerson(rows, p) == {row \in rows : row.who = p}

Joined(k) ==
  UNION {{[lead |-> lead, customer |-> lead.who, conversation |-> c, link |-> l] :
            c \in Outer(OfPerson(ThreadRows, lead.who)), l \in Outer(OfPerson(LinkRows, lead.who))} :
         lead \in {row \in LeadRows : CampaignOf(row) = k}}

\* count(column)
CountEvery(rows, column) == Cardinality({row \in rows : row[column] # None})

\* count(distinct(column)): None is not counted
CountDistinct(rows, column) == Cardinality({row[column] : row \in rows} \ {None})

FunnelRow(k) ==
  LET join == Joined(k)
  IN  [leads |-> CountDistinct(join, "lead"),
       conversations |-> CountDistinct(join, "conversation"),
       linksSent |-> CountDistinct({r \in join : r.link # None /\ links[r.link.token].sent}, "link"),
       downloads |-> CountDistinct({r \in join : customer[r.customer].downloaded}, "customer"),
       activations |-> CountDistinct({r \in join : customer[r.customer].activated}, "customer")]

-----------------------------------------------------------------------------
(* /admin/reports/agent.                                                    *)

AtOrPastLinkSent == {"link_sent", "downloaded", "activated"}

\* turns.get(conversation_id, 0) + 1
OneMore(turns) == IF turns = None THEN 1 ELSE turns + 1

\* turns[conversation_id] after so many of its rows: None before the first, 0 once the link is found
TurnsAfter(log) ==
  LET turns[i \in 0..Len(log)] ==
        IF i = 0 THEN None
        ELSE IF turns[i - 1] = 0 \/ log[i] = "link" THEN 0
        ELSE OneMore(turns[i - 1])
  IN  turns

\* every sending counted, not the first of a conversation only
AppendedAgain(log) == {i \in DOMAIN log : log[i] = "link"}

\* the rows that append to counts
Appended(log) == {i \in DOMAIN log : log[i] = "link" /\ TurnsAfter(log)[i - 1] # 0}

\* counts, a value for each row that appended it
Counts ==
  UNION {{[of |-> r, at |-> i, turns |-> OneMore(TurnsAfter(Log(r))[i - 1])] : i \in Appended(Log(r))} :
         r \in ThreadRows}

\* counts.sort(): in place k is the least value that k of them do not exceed
Sorted(counts) ==
  [k \in 1..Cardinality(counts) |->
     Min({v \in {c.turns : c \in counts} : Cardinality({c \in counts : c.turns <= v}) >= k})]

\* _median_turns_to_link, doubled to stay whole
MedianTurnsToLink ==
  LET sorted == Sorted(Counts)
      n == Cardinality(Counts)
      middle == n \div 2
  IN  IF n = 0 THEN None
      ELSE IF n % 2 = 1 THEN 2 * sorted[middle + 1]
      ELSE sorted[middle] + sorted[middle + 1]

AgentReport ==
  [conversations |-> Cardinality(ThreadRows),
   reachedLinkSent |-> Cardinality({r \in ThreadRows : thread[r.who][r.on].stage \in AtOrPastLinkSent}),
   linksClicked |-> Cardinality({r \in LinkRows : links[r.token].clicked}),
   downloads |-> Cardinality({p \in Known : customer[p].downloaded}),
   aiTurns |-> Messages(ThreadRows),
   medianTurns |-> MedianTurnsToLink]

-----------------------------------------------------------------------------
(* The dashboard.  tests: the customers whose numbers are the team's own,   *)
(* none when the operator asked to include them.                            *)

\* _excluding_tests
Excluding(rows, tests) == {row \in rows : row.who \notin tests}

\* the filter forgotten
EveryConversation(tests) == ThreadRows

Conversations(tests) == Excluding(ThreadRows, tests)

AdSources == {"click_to_whatsapp", "lead_ad"}

Source(row) == LeadsOf[row.who][row.lead].source

Overview(tests) ==
  LET kept == Excluding(CustomerRows, tests)
      linkRows == Excluding(LinkRows, tests)
      leads == Excluding(LeadRows, tests)
      sent == {r \in linkRows : links[r.token].sent}
      clicked == {r \in linkRows : links[r.token].clicked}
  IN  [customers |-> Cardinality(kept),
       downloaded |-> Cardinality({r \in kept : customer[r.who].downloaded}),
       activated |-> Cardinality({r \in kept : customer[r.who].activated}),
       linksSent |-> Cardinality(sent), linksClicked |-> Cardinality(clicked),
       withLink |-> Cardinality(Owners(sent)), clicked |-> Cardinality(Owners(clicked)),
       fromAds |-> Cardinality(Owners({r \in leads : Source(r) \in AdSources})),
       direct |-> Cardinality(kept) - Cardinality(Owners(leads)),
       bySource |-> [s \in {Source(r) : r \in leads} |-> Cardinality({r \in leads : Source(r) = s})],
       conversations |-> Cardinality(Conversations(tests)),
       messages |-> Messages(Conversations(tests)),
       unanswerable |-> Cardinality({r \in Conversations(tests) : r.on \notin Configured})]

\* _STAGE_ORDER
StageOrder ==
  [not_interested |-> 0, human_handoff |-> 1, new |-> 2, contacted |-> 3, engaged |-> 4,
   objection_handling |-> 5, qualified |-> 6, product_explained |-> 7, download_suggested |-> 8,
   link_sent |-> 9, downloaded |-> 10, activated |-> 11, closed |-> 12]

\* the stage of a customer's furthest thread
BestStage(p) ==
  LET stages == {thread[p][n].stage : n \in Threads(p)}
  IN  CHOOSE s \in stages : \A t \in stages : StageOrder[t] <= StageOrder[s]

\* the first lead wins
Origin(p) == IF LeadsOf[p] = <<>> THEN "direct" ELSE LeadsOf[p][1].source

CustomerRow(p) ==
  [who |-> p,
   clicked |-> \E t \in LinksOf(p) : links[t].clicked,
   downloaded |-> customer[p].downloaded,
   activated |-> customer[p].activated,
   source |-> Origin(p),
   numbers |-> Threads(p),
   stage |-> IF Threads(p) = {} THEN None ELSE BestStage(p),
   messages |-> Messages(OfPerson(ThreadRows, p))]

\* _customer_filter
CustomerFilter(row, outcome) ==
  CASE outcome = "clicked" -> row.clicked
    [] outcome = "activated" -> row.activated
    [] outcome = "downloaded" -> row.downloaded
    [] outcome = "not_downloaded" -> ~row.downloaded

Table(tests) == {CustomerRow(row.who) : row \in Excluding(CustomerRows, tests)}

CustomerPage(table, outcome) == {row \in table : CustomerFilter(row, outcome)}

CustomerDetail(p) ==
  [n \in Threads(p) |->
    LET log == thread[p][n].log IN
    [messages |-> SubSeq(log, Max({1, Len(log) - MessageLimit + 1}), Len(log)),
     truncated |-> Len(log) > MessageLimit]]

-----------------------------------------------------------------------------
(* "A count that forgot to apply it would disagree with the rest of the     *)
(* page ... the operator cannot tell which number to believe"               *)
(* (dashboard.py 92-94): with and without the team's own numbers, each      *)
(* figure of the overview is what the table and the details add up to.      *)
FiguresAgree ==
  \A tests \in SUBSET Known :
    LET o == Overview(tests)
        page == Table(tests)
    IN  /\ o.customers = Cardinality(page)
        /\ o.downloaded = Cardinality(CustomerPage(page, "downloaded"))
        /\ o.activated = Cardinality(CustomerPage(page, "activated"))
        /\ o.clicked = Cardinality(CustomerPage(page, "clicked"))
        /\ o.customers - o.downloaded = Cardinality(CustomerPage(page, "not_downloaded"))
        /\ o.direct = Cardinality({row \in page : row.source = "direct"})
        /\ o.conversations = SumFunction([row \in page |-> Cardinality(row.numbers)])
        /\ o.messages = SumFunction([row \in page |-> row.messages])
        /\ \A row \in page :
             \/ \E n \in row.numbers : CustomerDetail(row.who)[n].truncated
             \/ row.messages = SumFunction([n \in row.numbers |->
                                               Len(CustomerDetail(row.who)[n].messages)])

(* "People, not links: the funnel step sits under the one above"            *)
(* (dashboard.py 229): whoever clicked was sent a link, unless the sending  *)
(* is not committed yet, or never was although the message arrived.         *)
FunnelShrinks ==
  LET sending == {slot[s].token : s \in {r \in Slots : slot[r].pc = "sent"}} IN
  \A p \in Known :
    CustomerRow(p).clicked =>
      \E t \in LinksOf(p) : links[t].clicked /\ (links[t].sent \/ t \in unheard \cup sending)

(* The funnel report is one join over leads, threads and links; the rows    *)
(* it multiplies are not counted again: a campaign has the leads, threads   *)
(* and installs of the people it brought, and never more activations than   *)
(* downloads nor downloads than people.                                     *)
FunnelCountsOnce ==
  \A k \in Campaigns \cup {None} :
    LET brought == Owners({row \in LeadRows : CampaignOf(row) = k})
        row == FunnelRow(k)
    IN  /\ row.leads = Cardinality({r \in LeadRows : CampaignOf(r) = k})
        /\ row.conversations = Cardinality({r \in ThreadRows : r.who \in brought})
        /\ row.downloads = Cardinality({p \in brought : customer[p].downloaded})
        /\ row.linksSent = Cardinality({r \in LinkRows : r.who \in brought /\ links[r.token].sent})
        /\ row.activations <= row.downloads /\ row.downloads <= Cardinality(brought)

(* "Median AI turns taken to get the download link out, counting the turn   *)
(* it went on" (admin.py 52): the middle one of the places of each thread's *)
(* first link in its log, however many were sent after.                     *)
MedianIsOfFirstLinks ==
  LET linked == {r \in ThreadRows : \E i \in DOMAIN Log(r) : Log(r)[i] = "link"}
      first == [r \in linked |-> Min({i \in DOMAIN Log(r) : Log(r)[i] = "link"})]
      values == {first[r] : r \in linked}
      half(rows) == 2 * Cardinality(rows) >= Cardinality(linked)
      low == Min({v \in values : half({r \in linked : first[r] <= v})})
      high == Max({v \in values : half({r \in linked : first[r] >= v})})
  IN  AgentReport.medianTurns = IF linked = {} THEN None ELSE low + high

(* "Furthest-first, so a customer with several threads is reported by their *)
(* best one" (dashboard.py 70-71): who installed is shown as installed as   *)
(* long as one thread of theirs says so.                                    *)
RowShowsTheSale ==
  \A p \in Known :
    customer[p].downloaded /\ (\E n \in Threads(p) : <<p, n>> \notin late \cup handed) =>
      CustomerRow(p).stage \in {"downloaded", "activated"}

(* An install is one fact kept in four places - the link, the person, their *)
(* threads and the row the operator reads - by reports that may come in any *)
(* order, twice, or while sessions that know nothing of it are open.        *)
InstallIsOneFact == LinkTellsTheTruth /\ InstallReachesThreads /\ RowShowsTheSale

=============================================================================
