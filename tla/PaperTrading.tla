---------------------------- MODULE PaperTrading ----------------------------
(***************************************************************************)
(* The paper book of one agent: PaperTradingService and                    *)
(* PaperTradingRepository over the markets of an external exchange.        *)
(* A caller is the worker, which repeats one round for ever, or a client   *)
(* of the API, which asks for one operation.  Callers run concurrently on  *)
(* the same rows and nothing locks them: a step is what one of them does   *)
(* between two awaits of the exchange or of the database.                  *)
(***************************************************************************)
EXTENDS Integers, Sequences, FiniteSets, Sums

CONSTANTS
  PaperMarket, Category, CategoryOf,
  NoFirst,            \* the markets whose outcomes the exchange lists as No, Yes
  Rank,               \* the order in which the exchange lists markets
  Says,               \* bound: what the exchange says of each, prices in basis points
  Drift,              \* bound: momentum and language of a market, in basis points
  Conviction,         \* bound: the liquidity and volume scores
  PaperSignal,        \* bound: the answers of the signal endpoints
  MinStake, MaxStake, \* PAPER_MIN_STAKE_CENTS, PAPER_MAX_STAKE_CENTS
  PageLimit, PageSize, \* how many markets one ingestion asks for, and one request of it
  PaperWorker, Client, \* callers
  MaxFailed           \* bound: requests that fail, and worker processes that die

Caller == {PaperWorker} \cup Client

\* Prices, probabilities, confidences.
BpsRange == 0 .. 10000

ASSUME PaperAssumption ==
  /\ IsFiniteSet(PaperMarket)
  /\ CategoryOf \in [PaperMarket -> Category] /\ NoFirst \subseteq PaperMarket
  /\ Rank \in [PaperMarket -> Nat]
  /\ Says \in [PaperMarket -> SUBSET [yes : BpsRange, active : BOOLEAN, closed : BOOLEAN]]
  /\ Drift \subseteq Int /\ Conviction \subseteq Nat
  /\ PaperSignal \subseteq [probability : BpsRange, confidence : BpsRange]
  /\ MinStake \in Nat \ {0} /\ MaxStake \in Nat /\ MinStake <= MaxStake
  /\ PageLimit \in Nat \ {0} /\ PageSize \in Nat \ {0} /\ PaperWorker \notin Client /\ MaxFailed \in Nat

VARIABLES
  quoted,       \* the exchange: what it says of each market
  markets,      \* paper_markets
  book,         \* paper_predictions of the agent
  calibration,  \* paper_model_calibration of the agent
  plan,         \* per caller: the operations it still has to do, the current one first
  work,         \* per caller: the items the current operation has still to visit
  hand,         \* per caller: the write it is about to make
  offset,       \* per caller: how much of its page it has asked for
  settled,      \* per caller: whether its settlement has settled anything
  failed

paperRows == <<markets, book, calibration>>
local == <<plan, work, hand, offset, settled>>
paperVars == <<quoted, paperRows, local, failed>>

Nothing == [kind |-> "none", status |-> "none"]
NotRead == [kind |-> "not read"]

Min2(x, y) == IF x < y THEN x ELSE y
Max2(x, y) == IF x > y THEN x ELSE y
Clamp(x, lo, hi) == Max2(lo, Min2(hi, x))
Bps(x)     == Clamp(x, 0, 10000)
Toward0(x, y) == IF x < 0 THEN -((-x) \div y) ELSE x \div y

-----------------------------------------------------------------------------
(* Arithmetic.  The code's floats are integers here: a result differs from  *)
(* the code's by a rounding of at most one unit.                            *)

\* _raw_model: the price pushed by momentum and language, and away from even.
RawProbability(base, drift) == Bps(base + drift + Toward0(15 * (base - 5000), 100))
RawConfidence(p, conviction) ==
  Bps((7 * Max2(p - 5000, 5000 - p)) \div 10 + Min2(3200, conviction))

\* _blend_external_signals: a mean weighted by confidence.  A probability of 0 is
\* taken for a missing one.
Opinion(signal, p) == IF signal.probability = 0 THEN p ELSE signal.probability

Blend(p, c, signals) ==
  LET n      == Len(signals)
      own    == Max2(1000, c)
      weight == own + Total([i \in 1 .. n |-> signals[i].confidence], n)
      mean   == (p * own + Total([i \in 1 .. n |-> Opinion(signals[i], p) * signals[i].confidence], n))
                  \div weight
      loud   == CHOOSE x \in {own} \cup {signals[i].confidence : i \in 1 .. n} :
                  x >= own /\ \A i \in 1 .. n : x >= signals[i].confidence
  IN  [probability |-> Bps(mean),
       confidence  |-> Bps(Max2(loud, (8 * Max2(mean - 5000, 5000 - mean)) \div 10))]

StakeSize(edge, confidence) ==
  Clamp((MaxStake * (Clamp(edge, 250, 2500) \div 10) * (Clamp(confidence, 600, 6000) \div 100)) \div 15000,
        MinStake, MaxStake)

\* What a stake bought at the entry price is worth at another price, less the stake.
Profit(p, price) == (p.stake * price) \div Max2(1, p.entry) - p.stake
PriceFor(side, m) == IF side = "YES" THEN m.yes ELSE m.no

-----------------------------------------------------------------------------
(* The exchange, and the row made of what it lists.                        *)

\* Error: the first outcome is taken for Yes.
FirstIsYes(m) == 1

YesAt(m) == IF m \in NoFirst THEN 2 ELSE 1
Quote(m, q) ==
  [prices |-> IF m \in NoFirst THEN <<10000 - q.yes, q.yes>> ELSE <<q.yes, 10000 - q.yes>>,
   active |-> q.active, closed |-> q.closed]

\* A closed market at one end of the scale is resolved, for the dearer outcome.
ResolvedBy(item) == item.closed /\ \E i \in 1 .. 2 : item.prices[i] >= 9900
FinalOf(m, item) == ResolvedBy(item) /\ item.prices[YesAt(m)] >= item.prices[3 - YesAt(m)]

Row(m, item) ==
  [kind |-> "market", active |-> item.active /\ ~item.closed, closed |-> item.closed,
   yes |-> item.prices[YesAt(m)], no |-> item.prices[3 - YesAt(m)],
   resolved |-> ResolvedBy(item), final |-> FinalOf(m, item)]

\* What the exchange has decided for good.
Resolved(m) == quoted[m].closed /\ \E i \in 1 .. 2 : quoted[m].prices[i] >= 9900
Verdict(m)  == quoted[m].prices[IF m \in NoFirst THEN 2 ELSE 1] >= 9900

\* External: prices move until the exchange has closed the market and decided it;
\* active, which only says whether it is offered, may change at any time.
Trade(m, q) ==
  /\ quoted[m].closed => q.closed
  /\ Resolved(m) => Quote(m, q).prices = quoted[m].prices
  /\ quoted' = [quoted EXCEPT ![m] = Quote(m, q)]
  /\ UNCHANGED <<paperRows, local, failed>>

\* The markets the filters of an ingestion match, and how many of them are listed
\* before m.
Matching(closed) == {m \in PaperMarket : quoted[m].closed = closed /\ quoted[m].active = ~closed}
Before(m, closed) == Cardinality({x \in Matching(closed) : Rank[x] < Rank[m]})

-----------------------------------------------------------------------------
(* Requests.                                                               *)

PaperInit ==
  /\ quoted \in [PaperMarket -> UNION {{Quote(m, q) : q \in Says[m]} : m \in PaperMarket}]
  /\ \A m \in PaperMarket : \E q \in Says[m] : quoted[m] = Quote(m, q)
  /\ markets = [m \in PaperMarket |-> Nothing] /\ book = [m \in PaperMarket |-> Nothing]
  /\ calibration = [c \in Category |-> Nothing]
  /\ plan = [c \in Caller |-> <<>>] /\ work = [c \in Caller |-> NotRead]
  /\ hand = [c \in Caller |-> Nothing]
  /\ offset = [c \in Caller |-> 0] /\ settled = [c \in Caller |-> FALSE]
  /\ failed = 0

Doing(c, operation) == plan[c] # <<>> /\ Head(plan[c]) = operation
Visiting(c) == work[c].kind = "items" /\ hand[c] = Nothing
Items(s)    == [kind |-> "items", left |-> s]
Without(c, item) == [work EXCEPT ![c] = Items(work[c].left \ {item})]

Round == <<"ingest", "cycle", "ingest closed", "settle">>

\* What a client asks for; a cycle that ingests first is two of them in turn.
Operations ==
  {<<"ingest">>, <<"cycle">>, <<"ingest closed", "settle">>, <<"calibrate">>}

Ask(c, operations) ==
  /\ plan[c] = <<>>
  /\ plan' = [plan EXCEPT ![c] = operations]
  /\ UNCHANGED <<quoted, paperRows, work, hand, offset, settled, failed>>

Ingesting(c) == Doing(c, "ingest") \/ Doing(c, "ingest closed")

\* The loop over the items ends: the next request of the page, or the next operation.
Finish(c) ==
  /\ plan[c] # <<>> /\ Visiting(c) /\ work[c].left = {}
  /\ IF Ingesting(c) /\ offset[c] < PageLimit
     THEN UNCHANGED <<plan, offset, settled>>
     ELSE /\ plan' = [plan EXCEPT ![c] =
               IF Head(@) = "settle" /\ settled[c] THEN <<"calibrate">> \o Tail(@) ELSE Tail(@)]
          /\ offset' = [offset EXCEPT ![c] = 0]
          /\ settled' = [settled EXCEPT ![c] = FALSE]
  /\ work' = [work EXCEPT ![c] = NotRead]
  /\ UNCHANGED <<quoted, paperRows, hand, failed>>

\* An exception ends the request, and with it the worker's process.
Abort(c) ==
  /\ plan' = [plan EXCEPT ![c] = <<>>] /\ work' = [work EXCEPT ![c] = NotRead]
  /\ hand' = [hand EXCEPT ![c] = Nothing]
  /\ offset' = [offset EXCEPT ![c] = 0] /\ settled' = [settled EXCEPT ![c] = FALSE]
  /\ UNCHANGED <<quoted, paperRows>>

\* The exchange does not answer, the database refuses, the process dies.
FailRequest(c) ==
  /\ plan[c] # <<>> /\ failed < MaxFailed
  /\ failed' = failed + 1
  /\ Abort(c)

\* Ingestion: one request, for the next of the markets that are offered, or of those
\* that are closed and no longer offered.  An empty answer ends the page.
Page(c) ==
  LET closed == Doing(c, "ingest closed")
      end  == Min2(offset[c] + PageSize, PageLimit)
      page == {m \in Matching(closed) : Before(m, closed) \in offset[c] .. end - 1}
  IN  /\ Ingesting(c) /\ work[c] = NotRead
      /\ work' = [work EXCEPT ![c] = Items({<<m, quoted[m]>> : m \in page})]
      /\ offset' = [offset EXCEPT ![c] = IF page = {} THEN PageLimit ELSE end]
      /\ UNCHANGED <<quoted, paperRows, plan, hand, settled, failed>>

\* Written row by row.
Upsert(c, item) ==
  /\ Ingesting(c) /\ Visiting(c) /\ item \in work[c].left
  /\ markets' = [markets EXCEPT ![item[1]] = Row(item[1], item[2])]
  /\ work' = Without(c, item)
  /\ UNCHANGED <<quoted, book, calibration, plan, hand, offset, settled, failed>>

-----------------------------------------------------------------------------
(* The cycle: a position on every active market, the open ones marked.     *)

List(c, seen) ==
  LET all == {m \in PaperMarket : markets[m] # Nothing /\ markets[m].active}
  IN  /\ Doing(c, "cycle") /\ work[c] = NotRead
      /\ seen \subseteq all /\ Cardinality(seen) = Min2(PageLimit, Cardinality(all))
      /\ work' = [work EXCEPT ![c] = Items({<<m, markets[m]>> : m \in seen})]
      /\ UNCHANGED <<quoted, paperRows, plan, hand, offset, settled, failed>>

Decision(m, row, drift, conviction, signals) ==
  LET raw    == RawProbability(row.yes, drift)
      sure   == RawConfidence(raw, conviction)
      voice  == IF signals = <<>> THEN [probability |-> raw, confidence |-> sure] ELSE Blend(raw, sure, signals)
      table  == calibration[CategoryOf[m]]
      fair   == Bps(voice.probability + (IF table = Nothing THEN 0 ELSE table.bias))
      side   == IF fair >= row.yes THEN "YES" ELSE "NO"
      price  == Clamp(PriceFor(side, row), 1, 9999)
  IN  [kind |-> "prediction", status |-> "OPEN", side |-> side, model |-> voice.probability,
       stake |-> StakeSize(Max2(fair - row.yes, row.yes - fair), voice.confidence),
       entry |-> price, current |-> price, profit |-> 0, final |-> FALSE, exit |-> 0]

\* Error: the status of the position found is not looked at.
AnyFound(found) == found # Nothing
Markable(found) == found.status = "OPEN"

\* What the signal endpoints answer, those that fail left out: here none or one.
SignalAnswers == {<<>>} \cup {<<x>> : x \in PaperSignal}

\* The cycle turns to one of its markets.
TurnTo(c, item) ==
  /\ Doing(c, "cycle") /\ Visiting(c) /\ item \in work[c].left
  /\ work' = Without(c, item)

\* What it finds there: a position to mark, one to skip, or none.
Look(c, item) ==
  LET m == item[1]  found == book[item[1]]
  IN  /\ TurnTo(c, item)
      /\ \/ /\ found = Nothing
            /\ \E d \in Drift, v \in Conviction, s \in SignalAnswers :
                 hand' = [hand EXCEPT ![c] =
                   [kind |-> "open", market |-> m, found |-> found, row |-> Decision(m, item[2], d, v, s)]]
         \/ /\ Markable(found)
            /\ LET price == PriceFor(found.side, item[2])
               IN  hand' = [hand EXCEPT ![c] = [kind |-> "mark", market |-> m, found |-> found,
                     current |-> price, profit |-> Profit(found, price)]]
         \/ /\ found # Nothing /\ ~Markable(found)
            /\ UNCHANGED hand
      /\ UNCHANGED <<quoted, paperRows, plan, offset, settled, failed>>

\* uq_paper_prediction_agent_market: the second of two inserts is an error.
Open(c) ==
  /\ hand[c].kind = "open" /\ book[hand[c].market] = Nothing
  /\ book' = [book EXCEPT ![hand[c].market] = hand[c].row]
  /\ hand' = [hand EXCEPT ![c] = Nothing]
  /\ UNCHANGED <<quoted, markets, calibration, plan, work, offset, settled, failed>>

Refused(c) ==
  /\ hand[c].kind = "open" /\ book[hand[c].market] # Nothing
  /\ Abort(c)
  /\ UNCHANGED failed

Mark(c) ==
  /\ hand[c].kind = "mark"
  /\ book' = [book EXCEPT ![hand[c].market].current = hand[c].current, ![hand[c].market].profit = hand[c].profit]
  /\ hand' = [hand EXCEPT ![c] = Nothing]
  /\ UNCHANGED <<quoted, markets, calibration, plan, work, offset, settled, failed>>

-----------------------------------------------------------------------------
(* Settlement and calibration.                                             *)

\* The open positions, as they are when the settlement lists them.
ListOpen(c) ==
  /\ Doing(c, "settle") /\ work[c] = NotRead
  /\ work' = [work EXCEPT ![c] =
       Items({<<m, book[m]>> : m \in {x \in PaperMarket : book[x].status = "OPEN"}})]
  /\ UNCHANGED <<quoted, paperRows, plan, hand, offset, settled, failed>>

Judge(c, item) ==
  LET row == markets[item[1]]
      exit == IF (item[2].side = "YES") = row.final THEN 10000 ELSE 0
  IN  /\ Doing(c, "settle") /\ Visiting(c) /\ item \in work[c].left
      /\ work' = Without(c, item)
      /\ hand' = IF row = Nothing \/ ~row.resolved THEN hand
                 ELSE [hand EXCEPT ![c] = [kind |-> "settle", market |-> item[1], found |-> item[2],
                         final |-> row.final, exit |-> exit, profit |-> Profit(item[2], exit)]]
      /\ UNCHANGED <<quoted, paperRows, plan, offset, settled, failed>>

SettlePrediction(c) ==
  LET h == hand[c]
  IN  /\ h.kind = "settle"
      /\ book' = [book EXCEPT ![h.market] = [@ EXCEPT !.status = "SETTLED", !.final = h.final,
                     !.exit = h.exit, !.current = h.exit, !.profit = h.profit]]
      /\ hand' = [hand EXCEPT ![c] = Nothing] /\ settled' = [settled EXCEPT ![c] = TRUE]
      /\ UNCHANGED <<quoted, markets, calibration, plan, work, offset, failed>>

\* Error: open positions are learnt from.
AllOpened(k) == {m \in PaperMarket : CategoryOf[m] = k /\ book[m] # Nothing}

\* recompute_calibration: a table per category with a settled position.
SettledIn(k) == {m \in PaperMarket : CategoryOf[m] = k /\ book[m].status = "SETTLED"}
Table(k) ==
  LET n == Cardinality(SettledIn(k))
      errors == SumOver([m \in SettledIn(k) |-> (IF book[m].final THEN 10000 ELSE 0) - book[m].model],
                        SettledIn(k))
  IN  [kind |-> "table", samples |-> n, bias |-> Clamp(Toward0(errors, n + 25), -1500, 1500)]

ListSettled(c) ==
  /\ Doing(c, "calibrate") /\ work[c] = NotRead
  /\ work' = [work EXCEPT ![c] = Items({<<k, Table(k)>> : k \in {x \in Category : SettledIn(x) # {}}})]
  /\ UNCHANGED <<quoted, paperRows, plan, hand, offset, settled, failed>>

UpsertCalibration(c, item) ==
  /\ Doing(c, "calibrate") /\ Visiting(c) /\ item \in work[c].left
  /\ calibration' = [calibration EXCEPT ![item[1]] = item[2]]
  /\ work' = Without(c, item)
  /\ UNCHANGED <<quoted, markets, book, plan, hand, offset, settled, failed>>

-----------------------------------------------------------------------------
Unvisited(c) == IF work[c].kind = "items" THEN work[c].left ELSE {}

GoOn(c) ==
  \/ Finish(c) \/ Page(c) \/ ListOpen(c) \/ ListSettled(c) \/ Open(c) \/ Refused(c) \/ Mark(c) \/ SettlePrediction(c)
  \/ \E seen \in SUBSET PaperMarket : List(c, seen)
  \/ \E i \in Unvisited(c) : Upsert(c, i) \/ Judge(c, i) \/ UpsertCalibration(c, i)

Work(c) == GoOn(c) \/ \E i \in Unvisited(c) : Look(c, i)

WorkerStep == Ask(PaperWorker, Round) \/ Work(PaperWorker)

PaperNext ==
  \/ WorkerStep
  \/ \E c \in Client : Work(c) \/ \E o \in Operations : Ask(c, o)
  \/ \E c \in Caller : FailRequest(c)
  \/ \E m \in PaperMarket : \E q \in Says[m] : Trade(m, q)

PaperSpec == PaperInit /\ [][PaperNext]_paperVars

\* The worker is a loop whose process is started again when it dies.  Nobody else
\* takes items from it: to turn to one is to look at it.
PaperFairSpec ==
  /\ PaperSpec
  /\ WF_paperVars(Ask(PaperWorker, Round) \/ GoOn(PaperWorker))
  /\ WF_work(\E i \in Unvisited(PaperWorker) : TurnTo(PaperWorker, i))

-----------------------------------------------------------------------------
EntryRange == 1 .. 9999
BiasRange  == -1500 .. 1500

Position == [kind : {"prediction"}, status : {"OPEN", "SETTLED"}, side : {"YES", "NO"}, model : BpsRange,
             stake : MinStake .. MaxStake, entry : EntryRange, current : BpsRange, profit : Int,
             final : BOOLEAN, exit : {0, 10000}]

\* The rows and the requests have their types: in particular every stake is
\* within its limits and every entry price can be divided by.
PaperTypeOK ==
  /\ \A m \in PaperMarket : book[m] = Nothing \/ book[m] \in Position
  /\ \A k \in Category : calibration[k] = Nothing \/ calibration[k].bias \in BiasRange
  /\ \A c \in Caller : plan[c] = <<>> => work[c] = NotRead /\ hand[c] = Nothing /\ offset[c] = 0
  /\ failed \in 0 .. MaxFailed

\* A settled position carries the verdict of the exchange, read at the right
\* outcome, even while a page read before the verdict is still being written.
SettledAsDecided ==
  PaperTypeOK /\ \A m \in PaperMarket : book[m].status = "SETTLED" =>
    /\ Resolved(m) /\ book[m].final = Verdict(m)
    /\ book[m].exit = IF (book[m].side = "YES") = Verdict(m) THEN 10000 ELSE 0

\* A calibration is learnt from settled positions only, however many
\* settlements and calibrations run at once.
LearntFromSettled ==
  \A k \in Category : calibration[k] # Nothing =>
    calibration[k].samples \in 1 .. Cardinality({m \in PaperMarket : CategoryOf[m] = k /\ book[m].status = "SETTLED"})

Terms == {"side", "model", "stake", "entry"}

\* The step keeps the terms of every position and the settlement of every settled
\* one; a settled one's profit changes to its settlement's or by a late mark.
KeepsSettlements ==
  \A m \in PaperMarket :
     /\ book[m] # Nothing => book'[m] # Nothing /\ \A f \in Terms : book'[m][f] = book[m][f]
     /\ book[m].status = "SETTLED" =>
       /\ book'[m].status = "SETTLED" /\ book'[m].final = book[m].final /\ book'[m].exit = book[m].exit
       /\ \/ book'[m].profit = book[m].profit
          \/ book'[m].profit = Profit(book[m], book[m].exit)
          \/ \E c \in Caller : /\ hand[c].kind = "mark" /\ hand[c].market = m
                               /\ hand[c].found.status = "OPEN"

\* The terms of a position are never replaced (of two cycles that both find none,
\* one opens it and the other fails).  A settled position is never opened again, and
\* its profit changes only to the profit of its settlement or by a mark that a cycle
\* took while it was still open: update_mark_to_market does not look at the status.
OnlyLateMarks == [][KeepsSettlements]_paperVars

\* A position on a market that the exchange has decided, and lists where the page of
\* closed markets reaches it.
Reached(m) ==
  /\ book[m] # Nothing /\ Resolved(m)
  /\ m \in Matching(TRUE) /\ Before(m, TRUE) < PageLimit

=============================================================================
