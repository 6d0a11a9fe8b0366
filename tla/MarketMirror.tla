---------------------------- MODULE MarketMirror ----------------------------
(***************************************************************************)
(* The backend's copy of one market: MarketService and MarketRepository    *)
(* against the chain.  A bettor's wallet sends a bet to the market and     *)
(* then asks the backend to record it; the backend verifies the            *)
(* transaction and adds the amount to a row.  Governance asks the backend  *)
(* to settle, which sends a transaction, waits for it and marks the row,   *)
(* then grades what agents have predicted of the market and computes the   *)
(* scores of the agents whose owners have bet on it; an agent of one owner *)
(* stands for them all.                                                    *)
(*                                                                         *)
(* Requests run concurrently.  A step is what one of them does between two *)
(* awaits of something another can change: a database transaction's read   *)
(* and its commit, or a reply of the chain.  A crash ends all of them and  *)
(* rolls back what is not committed.  Sending a request again is another   *)
(* request with the same transaction.                                      *)
(*                                                                         *)
(* Waiting for a transaction is two loops: the first, with a deadline,     *)
(* ends with the receipt, the second, without one, when there are enough   *)
(* blocks upon it.  The chain never drops a block.                         *)
(***************************************************************************)
EXTENDS Sums, Selections, Integers, Sequences, FiniteSets, Functions, SequencesExt

CONSTANTS
  User,
  Bet,             \* the bet transactions: a sequence of [user, side, amount]
  TxOf,            \* the transaction each bet request names
  Asks,            \* the outcome each settlement request asks for
  Owner,           \* the owner of the agent
  Predicted,       \* the sides it predicts, one after the other
  RecentWindow,    \* _RECENT_WINDOW
  MaxExposure,
  EndTime,         \* of betting
  SettleTime,      \* endTime + disputeWindow
  MaxTime,         \* bound: the clock
  MaxCrashes       \* bound: crashes of the backend

Side     == {"YES", "NO"}
Tx       == 1 .. Len(Bet)
Request  == 1 .. Len(TxOf)
Settler  == 1 .. Len(Asks)
Position == User \X Side
Prediction == 1 .. Len(Predicted)

ASSUME MirrorAssumption ==
  /\ Bet \in Seq([user : User, side : Side, amount : Nat \ {0}])
  /\ TxOf \in Seq(1 .. Len(Bet))
  /\ Asks \in Seq(BOOLEAN) /\ MaxExposure \in Nat /\ MaxTime \in Nat /\ MaxCrashes \in Nat
  /\ Owner \in User /\ Predicted \in Seq(Side) /\ RecentWindow \in Nat \ {0}
  /\ EndTime \in Nat /\ SettleTime \in Nat /\ EndTime <= SettleTime

VARIABLES
  betTx, settleTx,            \* transactions: "none", "pending", "success" or "reverted"
  chainSettled, chainOutcome, \* the market on chain
  rows,                       \* market_bets: the amount of each position, 0 for no row
  dbSettled, dbOutcome,       \* the market's row
  pc, seen,                   \* bet requests, and the amount each one read
  settlerPc,                  \* settlement requests
  predictions,                \* "absent", "open", or graded "right" or "wrong"
  score, graded,              \* the agent's score, and what each settlement request makes it
  now, crashes

chain    == <<betTx, settleTx, chainSettled, chainOutcome>>
database == <<rows, dbSettled, dbOutcome>>
bets     == <<pc, seen>>
agents   == <<predictions, score, graded>>
vars     == <<chain, database, bets, settlerPc, agents, now, crashes>>

Of(r)     == Bet[TxOf[r]]
RowOf(r)  == <<Of(r).user, Of(r).side>>

\* What reached the chain, for one position and in all.
OnChain(p) ==
  Total([t \in Tx |-> IF betTx[t] = "success" /\ <<Bet[t].user, Bet[t].side>> = p THEN Bet[t].amount ELSE 0], Len(Bet))

ChainExposure == Total([t \in Tx |-> IF betTx[t] = "success" THEN Bet[t].amount ELSE 0], Len(Bet))

\* get_market_exposure: the sum of all rows.
RecordedExposure == FoldFunction(LAMBDA a, b : a + b, 0, rows)

Init ==
  /\ betTx = [t \in Tx |-> "pending"]
  /\ settleTx = [s \in Settler |-> "none"]
  /\ chainSettled = FALSE /\ chainOutcome = FALSE
  /\ rows = [p \in Position |-> 0]
  /\ dbSettled = FALSE /\ dbOutcome = FALSE
  /\ pc = [r \in Request |-> "new"]
  /\ seen = [r \in Request |-> 0]
  /\ settlerPc = [s \in Settler |-> "new"]
  /\ predictions = [k \in Prediction |-> "absent"]
  /\ score = 0 /\ graded = [s \in Settler |-> 0]
  /\ now = 0
  /\ crashes = 0

-----------------------------------------------------------------------------
(* The chain: PredictionMarket as the backend sees it. *)

MineBet(t) ==
  /\ betTx[t] = "pending"
  /\ now < EndTime
  /\ ChainExposure + Bet[t].amount <= MaxExposure
  /\ betTx' = [betTx EXCEPT ![t] = "success"]
  /\ UNCHANGED <<settleTx, chainSettled, chainOutcome, database, bets, settlerPc, agents, now, crashes>>

\* Too late, over the limit, paused, canceled or not paid for.
RevertBet(t) ==
  /\ betTx[t] = "pending"
  /\ betTx' = [betTx EXCEPT ![t] = "reverted"]
  /\ UNCHANGED <<settleTx, chainSettled, chainOutcome, database, bets, settlerPc, agents, now, crashes>>

SettleOnChain(outcome) ==
  /\ now >= SettleTime
  /\ ~chainSettled
  /\ chainSettled' = TRUE
  /\ chainOutcome' = outcome

MineSettlement(s) ==
  /\ settleTx[s] = "pending"
  /\ \/ /\ SettleOnChain(Asks[s])
        /\ settleTx' = [settleTx EXCEPT ![s] = "success"]
     \/ /\ now < SettleTime \/ chainSettled
        /\ settleTx' = [settleTx EXCEPT ![s] = "reverted"]
        /\ UNCHANGED <<chainSettled, chainOutcome>>
  /\ UNCHANGED <<betTx, database, bets, settlerPc, agents, now, crashes>>

\* Governance settles with a transaction of its own.
SettleElsewhere(outcome) ==
  /\ SettleOnChain(outcome)
  /\ UNCHANGED <<betTx, settleTx, database, bets, settlerPc, agents, now, crashes>>

Tick ==
  /\ now < MaxTime
  /\ now' = now + 1
  /\ UNCHANGED <<chain, database, bets, settlerPc, agents, crashes>>

-----------------------------------------------------------------------------
(* MarketService.place_bet *)

Goto(r, from, to) ==
  /\ pc[r] = from
  /\ pc' = [pc EXCEPT ![r] = to]

Step(r, from, to) ==
  /\ Goto(r, from, to)
  /\ UNCHANGED <<chain, database, seen, settlerPc, agents, now, crashes>>

\* The market's row, and the clock.
CheckMarket(r) ==
  Step(r, "new", IF ~dbSettled /\ now < EndTime THEN "open" ELSE "failed")

CheckExposure(r) ==
  Step(r, "open", IF RecordedExposure + Of(r).amount <= MaxExposure THEN "sized" ELSE "failed")

\* Mutants: a pending transaction is good enough; there is no timeout.
VerifyPending(r) ==
  \/ betTx[TxOf[r]] # "reverted" /\ Step(r, "sized", "verified")
  \/ betTx[TxOf[r]] = "reverted" /\ Step(r, "sized", "failed")

VerifyWithoutTimeout(r) ==
  \/ betTx[TxOf[r]] = "success" /\ Step(r, "sized", "receipt")
  \/ betTx[TxOf[r]] = "reverted" /\ Step(r, "sized", "failed")

\* Waiting for the receipt ends with it, or with a timeout.
VerifyBet(r) ==
  \/ betTx[TxOf[r]] = "success" /\ Step(r, "sized", "receipt")
  \/ betTx[TxOf[r]] # "success" /\ Step(r, "sized", "failed")

\* Enough blocks on the receipt's: nothing else depends on how many there are.
ConfirmBet(r) == Step(r, "receipt", "verified")

\* The node answers with an error.
BetCallFails(r) == Step(r, "sized", "failed") \/ Step(r, "receipt", "failed")

ReadRow(r) ==
  /\ Goto(r, "verified", "read")
  /\ seen' = [seen EXCEPT ![r] = rows[RowOf(r)]]
  /\ UNCHANGED <<chain, database, settlerPc, agents, now, crashes>>

\* The commit writes the number computed from the one that was read; an insert
\* fails when another request has inserted the row meanwhile.
WriteRow(r) ==
  \/ /\ seen[r] > 0 \/ rows[RowOf(r)] = 0
     /\ Goto(r, "read", "done")
     /\ rows' = [rows EXCEPT ![RowOf(r)] = seen[r] + Of(r).amount]
     /\ UNCHANGED <<chain, dbSettled, dbOutcome, seen, settlerPc, agents, now, crashes>>
  \/ /\ seen[r] = 0 /\ rows[RowOf(r)] > 0
     /\ Step(r, "read", "failed")

-----------------------------------------------------------------------------
(* MarketService.settle_market, and the replay of market.settled *)

SettlerGoto(s, from, to) ==
  /\ settlerPc[s] = from
  /\ settlerPc' = [settlerPc EXCEPT ![s] = to]

RefuseSettlement(s) ==
  /\ dbSettled
  /\ SettlerGoto(s, "new", "failed")
  /\ UNCHANGED <<chain, database, bets, agents, now, crashes>>

CheckSettlement(s) ==
  /\ ~dbSettled
  /\ SettlerGoto(s, "new", "send")
  /\ UNCHANGED <<chain, database, bets, agents, now, crashes>>

SendSettlement(s) ==
  /\ SettlerGoto(s, "send", "wait")
  /\ settleTx' = [settleTx EXCEPT ![s] = "pending"]
  /\ UNCHANGED <<betTx, chainSettled, chainOutcome, database, bets, agents, now, crashes>>

\* Not sent, reverted, or a timeout after which the transaction may still be mined.
FailSettlement(s) ==
  /\ settleTx[s] # "success"
  /\ SettlerGoto(s, "send", "failed") \/ SettlerGoto(s, "wait", "failed")
  /\ UNCHANGED <<chain, database, bets, agents, now, crashes>>

\* Mutant: any receipt will do.
ReceiveAny(s) ==
  /\ settleTx[s] \in {"success", "reverted"}
  /\ SettlerGoto(s, "wait", "mark")
  /\ UNCHANGED <<chain, database, bets, agents, now, crashes>>

ReceiveSettlement(s) ==
  /\ settleTx[s] = "success"
  /\ SettlerGoto(s, "wait", "receipt")
  /\ UNCHANGED <<chain, database, bets, agents, now, crashes>>

ConfirmSettlement(s) ==
  /\ SettlerGoto(s, "receipt", "mark")
  /\ UNCHANGED <<chain, database, bets, agents, now, crashes>>

SettlementCallFails(s) ==
  /\ SettlerGoto(s, "wait", "failed") \/ SettlerGoto(s, "receipt", "failed")
  /\ UNCHANGED <<chain, database, bets, agents, now, crashes>>

MarkSettled(s) ==
  /\ SettlerGoto(s, "mark", "marked")
  /\ dbSettled' = TRUE
  /\ dbOutcome' = Asks[s]
  /\ UNCHANGED <<chain, rows, bets, agents, now, crashes>>

\* The event of the settlement is handled, at any time after it and any number of
\* times.  The handler looks for a settled row first, in another transaction: the
\* row may have been settled when it writes.
HandleSettled ==
  /\ chainSettled
  /\ dbSettled' = TRUE
  /\ dbOutcome' = chainOutcome
  /\ UNCHANGED <<chain, rows, bets, settlerPc, agents, now, crashes>>

-----------------------------------------------------------------------------
(* The agents, after a settlement.                                         *)

\* A cycle of the agent stores a prediction, maybe long after it has listed the
\* market as open.
Predict(k) ==
  /\ predictions[k] = "absent" /\ \A j \in 1 .. k - 1 : predictions[j] # "absent"
  /\ predictions' = [predictions EXCEPT ![k] = "open"]
  /\ UNCHANGED <<chain, database, bets, settlerPc, score, graded, now, crashes>>

\* Error: the outcome is left out of the comparison.
CorrectIfYes(side, outcome) == side = "YES"

Correct(side, outcome) == side = (IF outcome THEN "YES" ELSE "NO")

\* mark_market_settled: every prediction that has no outcome yet, traded or not.
MarkPredictions(s) ==
  /\ SettlerGoto(s, "marked", "predicted")
  /\ predictions' = [k \in Prediction |->
       IF predictions[k] # "open" THEN predictions[k]
       ELSE IF Correct(Predicted[k], Asks[s]) THEN "right" ELSE "wrong"]
  /\ UNCHANGED <<chain, database, bets, score, graded, now, crashes>>

\* The agents of those who have bet, as the rows say.
ListBettors(s) ==
  /\ SettlerGoto(s, "predicted",
       IF \E side \in Side : rows[<<Owner, side>>] > 0 THEN "bettors" ELSE "done")
  /\ UNCHANGED <<chain, database, bets, agents, now, crashes>>

\* score_agent, of outcomes listed from the newest
Score(outcomes) ==
  LET accuracy(n) == (Cardinality({k \in 1 .. n : outcomes[k]}) * 10000) \div n
      total  == Len(outcomes)
      recent == IF total < RecentWindow THEN total ELSE RecentWindow
  IN  IF total = 0 THEN 0 ELSE (accuracy(total) * 6 + accuracy(recent) * 4) \div 10

GradedPredictions ==
  LET grades == Keep(Reverse(predictions), {"right", "wrong"})
  IN  [k \in DOMAIN grades |-> grades[k] = "right"]

\* list_settled_bet_correctness_by_user, by the time of the last update
BetOutcomes ==
  {[k \in DOMAIN sides |-> Correct(sides[k], dbOutcome)] :
     sides \in SetToSeqs({side \in Side : dbSettled /\ rows[<<Owner, side>>] > 0})}

\* recompute_score: graded predictions if there are any.
GradePredictions(s) ==
  /\ IF GradedPredictions # <<>>
     THEN /\ SettlerGoto(s, "bettors", "graded")
          /\ graded' = [graded EXCEPT ![s] = Score(GradedPredictions)]
     ELSE SettlerGoto(s, "bettors", "bets") /\ UNCHANGED graded
  /\ UNCHANGED <<chain, database, bets, predictions, score, now, crashes>>

GradeBets(s) ==
  /\ SettlerGoto(s, "bets", "graded")
  /\ \E outcomes \in BetOutcomes : graded' = [graded EXCEPT ![s] = Score(outcomes)]
  /\ UNCHANGED <<chain, database, bets, predictions, score, now, crashes>>

UpdateScore(s) ==
  /\ SettlerGoto(s, "graded", "done")
  /\ score' = graded[s]
  /\ graded' = [graded EXCEPT ![s] = 0]
  /\ UNCHANGED <<chain, database, bets, predictions, now, crashes>>

\* A failure of these is logged, and the settlement is answered all the same.
PassOver(s) ==
  /\ SettlerGoto(s, "marked", "predicted")
     \/ \E from \in {"predicted", "bettors", "bets", "graded"} : SettlerGoto(s, from, "done")
  /\ graded' = [graded EXCEPT ![s] = 0]
  /\ UNCHANGED <<chain, database, bets, predictions, score, now, crashes>>

RefreshScores(s) ==
  \/ MarkPredictions(s) \/ ListBettors(s) \/ GradePredictions(s) \/ GradeBets(s)
  \/ UpdateScore(s) \/ PassOver(s)

-----------------------------------------------------------------------------
Crash ==
  /\ crashes < MaxCrashes
  /\ crashes' = crashes + 1
  /\ pc' = [r \in Request |-> IF pc[r] \in {"new", "done"} THEN pc[r] ELSE "failed"]
  /\ settlerPc' = [s \in Settler |-> IF settlerPc[s] \in {"new", "done"} THEN settlerPc[s] ELSE "failed"]
  /\ graded' = [s \in Settler |-> 0]
  /\ UNCHANGED <<chain, database, seen, predictions, score, now>>

PlaceBet(r) == CheckMarket(r) \/ CheckExposure(r) \/ VerifyBet(r) \/ ReadRow(r) \/ WriteRow(r)

SettleMarket(s) ==
  \/ RefuseSettlement(s) \/ CheckSettlement(s) \/ SendSettlement(s)
  \/ FailSettlement(s) \/ ReceiveSettlement(s) \/ MarkSettled(s) \/ RefreshScores(s)

Next ==
  \/ \E t \in Tx : MineBet(t) \/ RevertBet(t)
  \/ \E s \in Settler :
       MineSettlement(s) \/ SettleMarket(s) \/ ConfirmSettlement(s) \/ SettlementCallFails(s)
  \/ \E outcome \in BOOLEAN : SettleElsewhere(outcome)
  \/ \E r \in Request : PlaceBet(r) \/ ConfirmBet(r) \/ BetCallFails(r)
  \/ \E k \in Prediction : Predict(k)
  \/ HandleSettled \/ Crash \/ Tick

Spec == Init /\ [][Next]_vars

\* The event loop keeps running every request it has accepted, and the chain keeps
\* producing the blocks they wait for: with one confirmation, the default, none.
FairSpec ==
  /\ Spec
  /\ \A r \in Request : WF_vars(PlaceBet(r)) /\ WF_vars(ConfirmBet(r))
  /\ \A s \in Settler : WF_vars(SettleMarket(s)) /\ WF_vars(ConfirmSettlement(s))

-----------------------------------------------------------------------------
(* Properties. *)

\* The tables and what requests hold of them: in particular no row is ever negative.
TablesOK ==
  /\ betTx \in [Tx -> {"pending", "success", "reverted"}]
  /\ settleTx \in [Settler -> {"none", "pending", "success", "reverted"}]
  /\ chainSettled \in BOOLEAN /\ chainOutcome \in BOOLEAN
  /\ rows \in [Position -> Nat]
  /\ dbSettled \in BOOLEAN /\ dbOutcome \in BOOLEAN
  /\ pc \in [Request -> {"new", "open", "sized", "receipt", "verified", "read", "done", "failed"}]
  /\ seen \in [Request -> Nat]
  /\ settlerPc \in [Settler -> {"new", "send", "wait", "receipt", "mark", "marked", "predicted",
                                "bettors", "bets", "graded", "done", "failed"}]
  /\ predictions \in [Prediction -> {"absent", "open", "right", "wrong"}]

\* Basis points.
Grade == 0 .. 10000

\* Types: a score is a share.
TypeOK ==
  /\ TablesOK
  /\ score \in Grade /\ graded \in [Settler -> Grade]
  /\ now \in Nat /\ crashes \in Nat

\* The database never claims a settlement the chain does not have, nor another
\* outcome: with two requests that ask for different outcomes, a settlement sent
\* by somebody else, timeouts, crashes and events replayed late.
SettlementMirrorsChain == dbSettled => chainSettled /\ dbOutcome = chainOutcome

\* The pools shown to users never contain money that is not in the market,
\* whatever requests run at the same time or are cut short, as long as each
\* transaction is reported by one request.
MirrorNeverExceedsChain ==
  IsInjective(TxOf) => \A p \in Position : rows[p] <= OnChain(p)

Winner == IF chainOutcome THEN "YES" ELSE "NO"

\* An agent's grades are those the chain's outcome gives, and nobody scores who
\* has not won there: with a prediction, or with a bet of the owner's that was
\* mined, whatever settles the market, crashes, or is recorded late meanwhile.
ScoreIsEarned ==
  /\ TypeOK
  /\ \A k \in Prediction : predictions[k] \in {"right", "wrong"} =>
       chainSettled /\ (predictions[k] = "right" <=> Predicted[k] = Winner)
  /\ score > 0 =>
       chainSettled /\ ((\E k \in Prediction : predictions[k] = "right") \/ OnChain(<<Owner, Winner>>) > 0)

Ended == {"done", "failed"}

\* Every request is answered: if its transaction is never mined, and, as long as there
\* are blocks, if more than its own have to confirm it.
RequestsEnd ==
  <>[](/\ \A r \in Request : pc[r] \in Ended
       /\ \A s \in Settler : settlerPc[s] \in Ended)
=============================================================================
