--------------------------------- MODULE Crm ---------------------------------
(***************************************************************************)
(* The leads of the BI (src/app/services/crm.py, lead_priority.py): every  *)
(* customer is one until somebody finishes the attendance; who bought is   *)
(* listed by what is at stake, who never did by name.  A request reads the *)
(* attendance without a lock and writes back the columns it changed.  The  *)
(* boost a segment gives the heuristic is left out; names are distinct.    *)
(***************************************************************************)
EXTENDS Savings

CONSTANTS
  Desks,              (* model bound: requests on attendances under way at once *)
  Attendable,         (* model bound: the customers they are about *)
  Staff,              (* the names sellers give *)
  Decisions,          (* how an attendance may be finished: [seller, outcome, sale] *)
  AiAnswers,          (* what the AI may answer: scores of some customers *)
  HeuristicScore(_, _, _),   (* the potential by revenue, orders and days since *)
  LEAD_INACTIVE_DAYS,        (* 90 in the code *)
  AI_BATCH_SIZE,             (* 40 in the code *)
  LeadPages                  (* the sizes of top and page the lists are read with *)

(* Names are numbers, of which only the order counts.  The lists break     *)
(* their last tie by the name (crm.py:45-53); customers that tie in all    *)
(* else and share a name too would come in any order the database likes,   *)
(* and a page of them be read twice: the model has none.                   *)
ASSUME CustomersTyped ==
  IsFiniteSet(DOMAIN CustomerTable) /\ \A c \in DOMAIN CustomerTable : CustomerTable[c].name \in Int
ASSUME NamesTellApart ==
  \A c, d \in DOMAIN CustomerTable : c # d => CustomerTable[c].name # CustomerTable[d].name
ASSUME AnswersTyped ==
  /\ \A decision \in Decisions : decision.sale \in Int
  /\ \A answer \in AiAnswers : \A c \in DOMAIN answer : answer[c] \in Int
ASSUME PagesTyped == \A sizes \in LeadPages : sizes.top \in Nat /\ sizes.size \in Nat \ {0}

VARIABLES
  attended,     (* the crm_attendances table: customer -> row, for some customers *)
  desk          (* what each request has read and is about to write *)

crmVars == <<attended, desk>>

Idle == [doing |-> "nothing"]
OpenRow == [status |-> "open", seller |-> {}, claimed |-> {}, finished |-> {},
            outcome |-> {}, sale |-> {}, score |-> {}, scoredAt |-> {}]

-----------------------------------------------------------------------------
(* The orders that make a customer a buyer.                                *)
BoughtBy(c) ==
  {o \in SoldSince({}) : /\ c \in book[o].buyer
                         /\ HeaderRevenue(o) > 0 /\ HeaderRevenue(o) < MAX_ORDER_TOTAL}

OrderStats(c) ==
  [orders |-> Cardinality(BoughtBy(c)), revenue |-> SumOver(BoughtBy(c), HeaderRevenue),
   daysSince |-> today - Max({book[o].day : o \in BoughtBy(c)})]

StatusOfLead(c) == IF c \in DOMAIN attended THEN attended[c].status ELSE "open"
ScoreOf(c) == IF c \in DOMAIN attended THEN attended[c].score ELSE {}

OpenLeads == {c \in DOMAIN CustomerTable : StatusOfLead(c) # "finished"}
Buyers == {c \in OpenLeads : BoughtBy(c) # {}}
Newcomers == OpenLeads \ Buyers

LeadSummary(c) ==
  [id |-> c, stats |-> IF BoughtBy(c) = {} THEN {} ELSE {OrderStats(c)},
   segment |-> classify_customer(BoughtBy(c), LEAD_INACTIVE_DAYS),
   status |-> StatusOfLead(c)]

-----------------------------------------------------------------------------
(* Whether the first key in which two lists of keys differ is the greater. *)
Precedes(mine, others) ==
  \E i \in DOMAIN mine :
    mine[i] > others[i] /\ \A j \in 1..i - 1 : mine[j] = others[j]

Potential(c) ==
  LET s == OrderStats(c) IN HeuristicScore(s.revenue, s.orders, s.daysSince)
Name(c) == -CustomerTable[c].name
ByName == [c \in Newcomers |-> <<Name(c)>>]
ByPriority ==
  [c \in Buyers |->
    LET s == OrderStats(c) IN <<s.revenue * s.daysSince, s.daysSince, s.revenue, Name(c)>>]
ByScore ==
  [c \in Buyers |->
    <<ValueOr(ScoreOf(c), -1), Potential(c), OrderStats(c).revenue, Name(c)>>]

PlaceOf(c, keys) == Cardinality({d \in DOMAIN keys : Precedes(keys[d], keys[c])})
Slice(keys, from, size) == {c \in DOMAIN keys : PlaceOf(c, keys) \in from..from + size - 1}

(* The three views of the list of leads, one page of them.                 *)
Listing(count, top, queue, loaded, queueTotal, scored) ==
  [count |-> count, newCount |-> Cardinality(Newcomers), top |-> top, queue |-> queue,
   queueTotal |-> queueTotal, hasMore |-> loaded < queueTotal, scored |-> scored,
   leads |-> {LeadSummary(c) : c \in top \cup queue}]

list_leads(view, top, page, size) ==
  LET before == (page - 1) * size
      count == Cardinality(Buyers)
      new == Cardinality(Newcomers)
      scored == Cardinality({c \in Buyers : ScoreOf(c) # {}})
      first == Slice(ByPriority, 0, top)
      queue == CASE view = "main" -> Slice(ByPriority, top + before, size)
                 [] view = "new" -> Slice(ByName, before, size)
                 [] view = "ai" -> Slice(ByScore, before, size)
      loaded == before + Cardinality(queue)
  IN CASE view = "main" -> Listing(count, first, queue, loaded, MaxOf2(count - top, 0), {})
       [] view = "new" -> Listing(new, {}, queue, loaded, new, {})
       [] view = "ai" -> Listing(count, {}, queue, loaded, count, {scored})

(* Every line of a customer's orders, of whatever status they are.         *)
ProductBreakdown(c) ==
  LET lines == LinesOf({o \in DOMAIN book : c \in book[o].buyer})
  IN [bought |-> [g \in {Line(l).good : l \in lines} |->
                   LinesQuantity({l \in lines : Line(l).good = g})],
      history |-> {l[1] : l \in lines}]

(* The lines of a customer's sales, for the top of the list.               *)
LastProducts(c) == GoodsIn({o \in SoldSince({}) : c \in book[o].buyer})

(* The page of one lead; nothing for one finished or unknown.              *)
lead_detail(c) ==
  IF c \in OpenLeads
  THEN {[summary |-> LeadSummary(c), products |-> ProductBreakdown(c)]} ELSE {}

-----------------------------------------------------------------------------
(* The dashboard of the attendances, from one read of them.                *)
FinishedSince(start) ==
  {c \in DOMAIN attended : attended[c].status = "finished"
                           /\ \A day \in attended[c].finished : day >= start}

AttendanceSaleValue(c) ==
  IF attended[c].outcome = {"won"} THEN ValueOr(attended[c].sale, 0) ELSE 0

GroupAttendances(rows, column) ==
  [k \in {attended[c][column] : c \in rows} |->
    LET mine == {c \in rows : attended[c][column] = k}
    IN [attendances |-> Cardinality(mine), revenue |-> SumOver(mine, AttendanceSaleValue),
        sales |-> Cardinality({c \in mine : attended[c].outcome = {"won"}})]]

RevenueFor(customers) ==
  SumOver({c \in customers : BoughtBy(c) # {}}, LAMBDA c : OrderStats(c).revenue)

crm_dashboard(days) ==
  LET period == FinishedSince(Now - days)
      won == {c \in period : attended[c].outcome = {"won"}}
  IN [openLeads |-> Cardinality(OpenLeads),
      inProgress |-> Cardinality({c \in DOMAIN attended : attended[c].status = "in_progress"}),
      finishedToday |-> Cardinality(FinishedSince(today)),
      finishedMonth |-> Cardinality(FinishedSince(MonthStart(MonthOf(today)))),
      finishedPeriod |-> Cardinality(period),
      salesWon |-> Cardinality(won), salesValue |-> SumOver(won, AttendanceSaleValue),
      billingOpen |-> RevenueFor(OpenLeads), billingFinished |-> RevenueFor(FinishedSince(0)),
      handled |-> [c \in period |-> The(attended[c].finished) - The(attended[c].claimed)],
      series |-> GroupAttendances(period, "finished"),
      sellers |-> GroupAttendances(period, "seller")]

-----------------------------------------------------------------------------
(* The table with some of its rows written over, or put into it.           *)
WithRows(rows) ==
  [c \in DOMAIN rows \cup DOMAIN attended |->
    IF c \in DOMAIN rows THEN rows[c] ELSE attended[c]]

CrmInit == attended = << >> /\ desk = [d \in Desks |-> Idle]

ClaimedRow(row, seller, day) ==
  [row EXCEPT !.status = "in_progress", !.seller = {seller},
              !.claimed = Coalesce(@, {day})]

(* A sale is kept of a lead that was won only.                             *)
FinishedRow(row, decision, day) ==
  [row EXCEPT !.status = "finished", !.seller = Coalesce(decision.seller, @),
              !.finished = {day}, !.outcome = {decision.outcome},
              !.sale = IF decision.outcome = "won" THEN {decision.sale} ELSE {},
              !.claimed = Coalesce(@, {day})]

(* A request has read the attendance, or found none and made one in its    *)
(* own transaction; a finished one is refused (409), as is one of a        *)
(* customer nobody knows (404).                                            *)
Reads(d, c, write(_)) ==
  /\ desk[d] = Idle /\ c \in OpenLeads
  /\ LET row == IF c \in DOMAIN attended THEN attended[c] ELSE OpenRow
     IN desk' = [desk EXCEPT ![d] =
          [doing |-> "attend", lead |-> c, made |-> c \notin DOMAIN attended,
           read |-> row, write |-> write(row)]]
  /\ UNCHANGED attended

Claim(d, c, seller) == Reads(d, c, LAMBDA row : ClaimedRow(row, seller, today))
Finish(d, c, decision) == Reads(d, c, LAMBDA row : FinishedRow(row, decision, today))

(* Mutant: the UPDATE writes the whole row.                                *)
UpdatedWhole(current, read, write) == write

(* Only the columns a request changed are in its UPDATE.                   *)
Updated(current, read, write) ==
  [column \in DOMAIN current |->
    IF write[column] # read[column] THEN write[column] ELSE current[column]]

(* The transaction is committed.  A customer has one attendance: of two    *)
(* requests that both make one the second fails.                           *)
Commit(d) ==
  /\ desk[d].doing = "attend"
  /\ LET c == desk[d].lead
     IN attended' =
          IF c \notin DOMAIN attended THEN WithRows([x \in {c} |-> desk[d].write])
          ELSE IF desk[d].made THEN attended
          ELSE [attended EXCEPT ![c] = Updated(@, desk[d].read, desk[d].write)]
  /\ desk' = [desk EXCEPT ![d] = Idle]

-----------------------------------------------------------------------------
(* The buyers to ask the AI about: those without a score, or, to refresh,  *)
(* those scored longest ago.                                               *)
BuyersToScore(refresh) ==
  LET asked == {c \in Buyers \cap Attendable : refresh \/ ScoreOf(c) = {}}
      age(c) == IF ~refresh THEN 0
                ELSE IF c \notin DOMAIN attended \/ attended[c].scoredAt = {} THEN today + 1
                ELSE today - The(attended[c].scoredAt)
      keys == [c \in asked |-> <<age(c), Potential(c), OrderStats(c).revenue, Name(c)>>]
  IN Slice(keys, 0, AI_BATCH_SIZE)

AskForScores(d, refresh) ==
  /\ desk[d] = Idle /\ BuyersToScore(refresh) # {}
  /\ desk' = [desk EXCEPT ![d] =
       [doing |-> "score", force |-> refresh,
        potential |-> [c \in BuyersToScore(refresh) |-> Potential(c)]]]
  /\ UNCHANGED attended

(* Without an answer the potentials are scaled to 0..100.                  *)
heuristic_rankings(potential) ==
  LET low == Min({potential[c] : c \in DOMAIN potential})
      high == Max({potential[c] : c \in DOMAIN potential})
  IN [c \in DOMAIN potential |->
       IF high = low THEN 50 ELSE Rounded(100 * (potential[c] - low), high - low)]

Scored(row, score, force) ==
  IF row.score # {} /\ ~force /\ row.scoredAt = {today} THEN row
  ELSE [row EXCEPT !.score = {MaxOf2(0, IF score > 100 THEN 100 ELSE score)},
                   !.scoredAt = {today}]

(* The answer arrives, with or without all the customers asked about, or   *)
(* none does.  The scores are the only columns written.                    *)
StoreScores(d, answer) ==
  /\ desk[d].doing = "score"
  /\ LET ranked == IF answer = << >> THEN heuristic_rankings(desk[d].potential) ELSE answer
         new == [c \in DOMAIN ranked \cap DOMAIN desk[d].potential |->
                  Scored(IF c \in DOMAIN attended THEN attended[c] ELSE OpenRow,
                         ranked[c], desk[d].force)]
     IN attended' = WithRows(new)
  /\ desk' = [desk EXCEPT ![d] = Idle]

(* A request fails: the AI's connection (only its refusals are caught), or *)
(* an attendance that somebody else made at the same time.                 *)
LeadRequestFails(d) ==
  /\ desk[d] # Idle
  /\ desk' = [desk EXCEPT ![d] = Idle]
  /\ UNCHANGED attended

CrmNext ==
  \E d \in Desks :
    \/ \E c \in Attendable : \/ \E seller \in Staff : Claim(d, c, seller)
                             \/ \E decision \in Decisions : Finish(d, c, decision)
    \/ Commit(d)
    \/ \E refresh \in BOOLEAN : AskForScores(d, refresh)
    \/ \E answer \in AiAnswers : StoreScores(d, answer)
    \/ LeadRequestFails(d)

-----------------------------------------------------------------------------
(* The pages of a list, one after another while it says there is more,     *)
(* show every lead once.                                                   *)
PagedOnce(leads, page) ==
  /\ UNION {page[n].top \cup page[n].queue : n \in DOMAIN page} = leads
  /\ \A n \in 1..Len(page) - 1 :
       /\ page[n].hasMore <=> page[n + 1].queue # {}
       /\ page[n].top \cap page[n].queue = {}
       /\ \A m \in 1..n - 1 : page[n].queue \cap page[m].queue = {}

(* The views are a partition of the open leads, the dashboard's count of   *)
(* them, and the page of each can be opened and shows what the list does.  *)
ViewsAddUp(main, new, ai) ==
  /\ PagedOnce(Buyers, main) /\ PagedOnce(Newcomers, new) /\ PagedOnce(Buyers, ai)
  /\ main[1].count + main[1].newCount = Cardinality(OpenLeads)
  /\ \A scored \in ai[1].scored : scored <= ai[1].count
  /\ \A lead \in main[1].leads \cup ai[1].leads :
       \E detail \in lead_detail(lead.id) : detail.summary = lead /\ lead.stats # {}
  /\ \A c \in main[1].top : \A detail \in lead_detail(c) :
       LastProducts(c) \subseteq UNION DOMAIN detail.products.bought

LeadsAddUp ==
  \A sizes \in LeadPages :
    LET pages(view) == [n \in 1..Cardinality(OpenLeads) + 1 |->
                         list_leads(view, sizes.top, n, sizes.size)]
    IN ViewsAddUp(pages("main"), pages("new"), pages("ai"))

(* The days of the chart and the sellers add up to the key figures, and    *)
(* what open and finished leads bought is what all customers did.          *)
AttendancesAddUp(d) ==
  LET sum(rows, value(_)) == SumOver(DOMAIN rows, LAMBDA k : value(rows[k]))
  IN /\ sum(d.series, LAMBDA r : r.revenue) = d.salesValue
     /\ sum(d.sellers, LAMBDA r : r.revenue) = d.salesValue
     /\ sum(d.series, LAMBDA r : r.sales) = d.salesWon
     /\ sum(d.sellers, LAMBDA r : r.attendances) = d.finishedPeriod
     /\ d.finishedToday <= d.finishedMonth /\ d.finishedToday <= d.finishedPeriod
     /\ d.openLeads = Cardinality(OpenLeads)
     /\ d.billingOpen + d.billingFinished = RevenueFor(DOMAIN CustomerTable)

(* An attendance that is finished has a claim, an end and an outcome,      *)
(* whatever requests have read before each other's commits.                *)
StoryIsWhole ==
  \A c \in DOMAIN attended :
    attended[c].status = "finished" =>
      attended[c].claimed # {} /\ attended[c].finished # {} /\ attended[c].outcome # {}

(* The leads and their attendances are sound whenever no request is under  *)
(* way: what one has only read is in no list (list_leads, lead_detail,     *)
(* crm_dashboard).                                                         *)
LeadsAreSound ==
  (\A d \in Desks : desk[d] = Idle) =>
    LeadsAddUp /\ StoryIsWhole /\ \A days \in {1, 2} : AttendancesAddUp(crm_dashboard(days))

(* What was finished is opened again, and its sale lost to the dashboard,  *)
(* only by a first claim that had read the lead before it was finished: a  *)
(* colleague who claims a lead already in progress never undoes the end of *)
(* it (claim_lead, finish_lead).                                           *)
OnlyTheFirstClaimReopens ==
  \A c \in DOMAIN attended :
    attended[c].status = "finished" /\ attended'[c].status # "finished" =>
      \E d \in Desks : /\ desk[d].doing = "attend" /\ desk[d].lead = c
                       /\ desk[d].read.status = "open" /\ desk'[d] = Idle

===============================================================================
