---------------------------- MODULE AgentTrading ----------------------------
(***************************************************************************)
(* The live trading of one autonomous agent: AutonomousAgentService,       *)
(* AgentPredictionRepository and the chain client.  The agent's runner and *)
(* the API both start cycles; a cycle goes through the open markets, asks  *)
(* the database how much the agent has at stake, stores a prediction, and  *)
(* in live mode bets its amount on the market.                             *)
(*                                                                         *)
(* A step of a cycle is one database transaction or one call of the chain  *)
(* client.  What the signals say, and whether a step fails for a reason    *)
(* that is outside (no funds, node unreachable, market closed, row of the  *)
(* market out of room), is left open.  Predictions with status SKIPPED     *)
(* have no stake and are not stored here.                                  *)
(***************************************************************************)
EXTENDS Sums, Integers, FiniteSets

CONSTANTS
  NumMarkets,      \* markets 1 .. NumMarkets, by end time
  NumCycles,       \* cycles that can run at the same time
  MaxTrade,        \* AGENT_MAX_TRADE_WEI
  MaxMarket,       \* AGENT_MAX_MARKET_EXPOSURE_WEI
  MaxDaily,        \* AGENT_MAX_DAILY_EXPOSURE_WEI
  MaxTx,           \* AUTONOMOUS_AGENT_MAX_TX_WEI
  Day,             \* 24 hours, in ticks
  MaxPredictions,  \* bound: predictions stored
  MaxTime,         \* bound: the clock
  MaxCrashes       \* bound: cycles that are cut short

Market     == 1 .. NumMarkets
Cycle      == 1 .. NumCycles
Prediction == 1 .. MaxPredictions

ASSUME TradingAssumption ==
  /\ NumMarkets \in Nat \ {0} /\ NumCycles \in Nat \ {0} /\ MaxPredictions \in Nat \ {0}
  /\ MaxTrade \in Nat /\ MaxMarket \in Nat /\ MaxDaily \in Nat /\ MaxTx \in Nat
  /\ Day \in Nat /\ MaxTime \in Nat /\ MaxCrashes \in Nat

VARIABLES
  status, market, amount, createdAt,  \* agent_predictions
  recorded,                           \* predictions whose bet MarketService.place_bet has stored
  bet,                                \* the transaction of each prediction
  pc, live, todo, at, stake, current, \* of each cycle: markets left, the one it is at, its stake and prediction
  now, crashes

predictions == <<status, market, amount, createdAt>>
cycles      == <<pc, live, todo, at, stake, current>>
vars        == <<predictions, recorded, bet, cycles, now, crashes>>

Stored   == {p \in Prediction : status[p] # "none"}
Exposed  == {"PAPER", "SUBMITTED", "EXECUTED"}

Counts(p) == status[p] \in Exposed

\* exposure_for_agent_market and daily_exposure: the rows they add up, and the sums.
HeldIn(m) == [p \in Prediction |-> IF Counts(p) /\ market[p] = m THEN amount[p] ELSE 0]
HeldToday == [p \in Prediction |-> IF Counts(p) /\ now - createdAt[p] <= Day THEN amount[p] ELSE 0]

MarketExposure(m) == Total(HeldIn(m), MaxPredictions)
DailyExposure     == Total(HeldToday, MaxPredictions)

Init ==
  /\ status = [p \in Prediction |-> "none"]
  /\ market = [p \in Prediction |-> 1]
  /\ amount = [p \in Prediction |-> 0]
  /\ createdAt = [p \in Prediction |-> 0]
  /\ recorded = {}
  /\ bet = [p \in Prediction |-> "none"]
  /\ pc = [c \in Cycle |-> "idle"]
  /\ live = [c \in Cycle |-> FALSE]
  /\ todo = [c \in Cycle |-> {}]
  /\ at = [c \in Cycle |-> 1]
  /\ stake = [c \in Cycle |-> 0]
  /\ current = [c \in Cycle |-> 0]
  /\ now = 0
  /\ crashes = 0

-----------------------------------------------------------------------------
(* run_agent_cycle and _decide_market *)

Goto(c, from, to) ==
  /\ pc[c] = from
  /\ pc' = [pc EXCEPT ![c] = to]

\* The agent is active and, in live mode, the signer is its owner.
StartCycle(c) ==
  /\ Goto(c, "idle", "next")
  /\ \E mode \in BOOLEAN : live' = [live EXCEPT ![c] = mode]
  /\ todo' = [todo EXCEPT ![c] = Market]
  /\ UNCHANGED <<predictions, recorded, bet, at, stake, current, now, crashes>>

EndCycle(c) ==
  /\ todo[c] = {}
  /\ Goto(c, "next", "idle")
  /\ live' = [live EXCEPT ![c] = FALSE]
  /\ UNCHANGED <<predictions, recorded, bet, todo, at, stake, current, now, crashes>>

First(S, x) == x \in S /\ \A y \in S : x <= y

\* Not open, oracle activity, too close to the end, edge or confidence too small, no size.
Skip(c) ==
  /\ pc[c] = "next"
  /\ \E m \in Market : First(todo[c], m) /\ todo' = [todo EXCEPT ![c] = @ \ {m}]
  /\ UNCHANGED <<predictions, recorded, bet, pc, live, at, stake, current, now, crashes>>

\* Bound: a slot for the prediction is set aside before it is created.
Room ==
  Cardinality(Stored) + Cardinality({c \in Cycle : pc[c] \in {"market", "daily", "create"}}) < MaxPredictions

\* The edge and the confidence are large enough for a stake.
Consider(c) ==
  /\ Room
  /\ Goto(c, "next", "market")
  /\ \E m \in Market, size \in 1 .. MaxTrade :
       /\ First(todo[c], m)
       /\ todo' = [todo EXCEPT ![c] = @ \ {m}]
       /\ at' = [at EXCEPT ![c] = m]
       /\ stake' = [stake EXCEPT ![c] = size]
  /\ UNCHANGED <<predictions, recorded, bet, live, current, now, crashes>>

\* On to the next market; what was decided on this one is forgotten.
Done(c, from) ==
  /\ Goto(c, from, "next")
  /\ at' = [at EXCEPT ![c] = 1]
  /\ stake' = [stake EXCEPT ![c] = 0]
  /\ current' = [current EXCEPT ![c] = 0]
  /\ UNCHANGED <<live, todo>>

\* Mutant: the stake is not given up when the limit is reached.
ProceedAnyway(c, allowed, from, to) ==
  /\ Goto(c, from, to)
  /\ UNCHANGED <<predictions, recorded, bet, live, todo, at, stake, current, now, crashes>>

\* Go on if the limit allows, else store a skipped prediction.
Proceed(c, allowed, from, to) ==
  /\ \/ allowed /\ Goto(c, from, to) /\ UNCHANGED <<live, todo, at, stake, current>>
     \/ ~allowed /\ Done(c, from)
  /\ UNCHANGED <<predictions, recorded, bet, now, crashes>>

CheckMarketExposure(c) ==
  Proceed(c, MarketExposure(at[c]) + stake[c] <= MaxMarket, "market", "daily")

CheckDailyExposure(c) ==
  Proceed(c, DailyExposure + stake[c] <= MaxDaily, "daily", "create")

CreatePrediction(c) ==
  /\ pc[c] = "create"
  /\ \E p \in Prediction :
       /\ First(Prediction \ Stored, p)
       /\ status' = [status EXCEPT ![p] = "PAPER"]
       /\ market' = [market EXCEPT ![p] = at[c]]
       /\ amount' = [amount EXCEPT ![p] = stake[c]]
       /\ createdAt' = [createdAt EXCEPT ![p] = now]
       /\ \/ /\ live[c]
             /\ Goto(c, "create", "submit")
             /\ current' = [current EXCEPT ![c] = p]
             /\ UNCHANGED <<live, todo, at, stake>>
          \/ ~live[c] /\ Done(c, "create")
  /\ UNCHANGED <<recorded, bet, now, crashes>>

-----------------------------------------------------------------------------
(* Live execution *)

\* update_execution
SetStatus(p, to) ==
  /\ status' = [status EXCEPT ![p] = to]
  /\ UNCHANGED <<market, amount, createdAt>>

\* Mutant: the bet is sent before its prediction says so.
MarkSubmittedLater(c) ==
  /\ Goto(c, "submit", "send")
  /\ UNCHANGED <<predictions, recorded, bet, live, todo, at, stake, current, now, crashes>>

MarkSubmitted(c) ==
  /\ Goto(c, "submit", "send")
  /\ SetStatus(current[c], "SUBMITTED")
  /\ UNCHANGED <<recorded, bet, live, todo, at, stake, current, now, crashes>>

\* place_autonomous_agent_bet, with the allowance given before.
SendBet(c) ==
  /\ stake[c] <= MaxTx
  /\ Goto(c, "send", "wait")
  /\ bet' = [bet EXCEPT ![current[c]] = "pending"]
  /\ UNCHANGED <<predictions, recorded, live, todo, at, stake, current, now, crashes>>

\* The receipt has come, and MarketService.place_bet stores the bet.
Record(c) ==
  /\ Goto(c, "wait", "recorded")
  /\ bet[current[c]] = "mined"
  /\ recorded' = recorded \cup {current[c]}
  /\ UNCHANGED <<predictions, bet, live, todo, at, stake, current, now, crashes>>

Complete(c) ==
  /\ Done(c, "recorded")
  /\ SetStatus(current[c], "EXECUTED")
  /\ UNCHANGED <<recorded, bet, now, crashes>>

\* Mutant: the wait has no timeout.
FailUnlessWaiting(c) ==
  /\ \E from \in {"send", "recorded"} : Done(c, from)
  /\ SetStatus(current[c], "FAILED")
  /\ UNCHANGED <<recorded, bet, now, crashes>>

\* Any exception: nothing sent, a revert, a timeout, a bet on chain that place_bet
\* refuses, or a query that fails after place_bet has stored it.
Fail(c) ==
  /\ \E from \in {"send", "wait", "recorded"} : Done(c, from)
  /\ SetStatus(current[c], "FAILED")
  /\ UNCHANGED <<recorded, bet, now, crashes>>

-----------------------------------------------------------------------------
(* The chain, the clock and crashes *)

\* A transaction that reverts, or is never included, stays as it is.
Mine(p) ==
  /\ bet[p] = "pending"
  /\ bet' = [bet EXCEPT ![p] = "mined"]
  /\ UNCHANGED <<predictions, recorded, cycles, now, crashes>>

Tick ==
  /\ now < MaxTime
  /\ now' = now + 1
  /\ UNCHANGED <<predictions, recorded, bet, cycles, crashes>>

\* The process ends, or the request is cancelled.
Crash(c) ==
  /\ crashes < MaxCrashes /\ pc[c] # "idle"
  /\ crashes' = crashes + 1
  /\ pc' = [pc EXCEPT ![c] = "idle"]
  /\ live' = [live EXCEPT ![c] = FALSE]
  /\ todo' = [todo EXCEPT ![c] = {}]
  /\ at' = [at EXCEPT ![c] = 1]
  /\ stake' = [stake EXCEPT ![c] = 0]
  /\ current' = [current EXCEPT ![c] = 0]
  /\ UNCHANGED <<predictions, recorded, bet, now>>

Decide(c) ==
  \/ Skip(c) \/ Consider(c) \/ CheckMarketExposure(c) \/ CheckDailyExposure(c) \/ CreatePrediction(c)

Execute(c) == MarkSubmitted(c) \/ SendBet(c) \/ Record(c) \/ Complete(c) \/ Fail(c)

Run(c) == Decide(c) \/ Execute(c) \/ EndCycle(c)

Next ==
  \/ \E c \in Cycle : StartCycle(c) \/ Run(c) \/ Crash(c)
  \/ \E p \in Prediction : Mine(p)
  \/ Tick

Spec == Init /\ [][Next]_vars

\* A cycle that has started goes on.
FairSpec == Spec /\ \A c \in Cycle : WF_vars(Run(c))

-----------------------------------------------------------------------------
(* Properties. *)

\* Types: a stored prediction has a stake, of at most one trade.
TypeOK ==
  /\ status \in [Prediction -> {"none", "PAPER", "SUBMITTED", "EXECUTED", "FAILED"}]
  /\ market \in [Prediction -> Market]
  /\ amount \in [Prediction -> 0 .. MaxTrade]
  /\ \A p \in Stored : amount[p] > 0
  /\ createdAt \in [Prediction -> 0 .. now]
  /\ recorded \subseteq Prediction
  /\ bet \in [Prediction -> {"none", "pending", "mined"}]
  /\ pc \in [Cycle -> {"idle", "next", "market", "daily", "create", "submit",
                       "send", "wait", "recorded"}]
  /\ live \in [Cycle -> BOOLEAN]
  /\ todo \in [Cycle -> SUBSET Market]
  /\ at \in [Cycle -> Market]
  /\ stake \in [Cycle -> 0 .. MaxTrade]
  /\ current \in [Cycle -> 0 .. MaxPredictions]
  /\ now \in Nat /\ crashes \in Nat

\* What cycles that run at the same time can add beyond a limit: each of them
\* has read the exposure before the others stored their predictions.
Overshoot == (NumCycles - 1) * MaxTrade

\* The counted exposure of a market exceeds its limit by at most one trade for each
\* other cycle, however the cycles interleave, fail and crash; with one cycle it
\* stays within the limit.
MarketExposureBounded == \A m \in Market : MarketExposure(m) <= MaxMarket + Overshoot

\* The same for what was stored in the last day.
DailyExposureBounded == DailyExposure <= MaxDaily + Overshoot

\* Both limits, against any interleaving of the cycles.
ExposureBounded == TypeOK /\ MarketExposureBounded /\ DailyExposureBounded

\* A transaction is never without a prediction that says it may exist: a crash at
\* any point leaves no bet that the database does not know about.
NoUnknownBet == \A p \in Prediction : bet[p] # "none" => status[p] \in {"SUBMITTED", "EXECUTED", "FAILED"}

\* An executed prediction has its bet in the market and in the backend's copy of it.
ExecutedIsReal ==
  /\ \A p \in Prediction : status[p] = "EXECUTED" => p \in recorded
  /\ \A p \in recorded : bet[p] = "mined"

\* Database and chain know of each other's bets, wherever a cycle fails or crashes.
BetsAccounted == NoUnknownBet /\ ExecutedIsReal

\* A submitted prediction is resolved, unless the cycle that handles it is cut short.
SubmissionsResolve ==
  \A p \in Prediction :
    status[p] = "SUBMITTED" ~> status[p] # "SUBMITTED" \/ \A c \in Cycle : current[c] # p

=============================================================================
