------------------------- MODULE MarketMirrorProofs -------------------------
(***************************************************************************)
(* The safety properties of MarketMirror, for any number of users, bets,   *)
(* requests and settlements, and any crashes; and, at the end, that of     *)
(* Realtime, for any publishers, streams and processes.                    *)
(***************************************************************************)
EXTENDS MarketMirror, Realtime, SumTheorems

-----------------------------------------------------------------------------
(* The inductive invariant *)

\* A prediction that is graded has the grade of the chain's outcome.
GradesAreTheChains ==
  \A k \in Prediction : predictions[k] \in {"right", "wrong"} =>
    chainSettled /\ (predictions[k] = "right" <=> Predicted[k] = Winner)

\* A transaction that succeeded made its request's outcome the chain's, and a
\* request gets past its wait only with such a transaction.
Confirmed ==
  /\ \A s \in Settler : settleTx[s] = "success" => chainSettled /\ chainOutcome = Asks[s]
  /\ \A s \in Settler : settlerPc[s] \in {"receipt", "mark", "marked"} => settleTx[s] = "success"

Settlements == SettlementMirrorsChain /\ Confirmed /\ GradesAreTheChains

\* The bets of p that a request has recorded.
Named(t) == \E r \in Request : TxOf[r] = t /\ pc[r] = "done"
Recorded(p) ==
  [t \in Tx |-> IF Named(t) /\ <<Bet[t].user, Bet[t].side>> = p THEN Bet[t].amount ELSE 0]

\* Only mined bets are verified.  Lost updates make a row smaller than what was
\* recorded, and so does what a request has read of it.
Verified == \A r \in Request : pc[r] \in {"receipt", "verified", "read", "done"} => betTx[TxOf[r]] = "success"

RowsBacked ==
  /\ \A p \in Position : rows[p] <= Total(Recorded(p), Len(Bet))
  /\ \A r \in Request : pc[r] = "read" => seen[r] <= Total(Recorded(RowOf(r)), Len(Bet))

IInv == TablesOK /\ Settlements /\ Verified /\ (IsInjective(TxOf) => RowsBacked)

\* The steps of one request, whether they are fair or not.
BetRequest(r) == PlaceBet(r) \/ ConfirmBet(r) \/ BetCallFails(r)
SettlerRequest(s) == SettleMarket(s) \/ ConfirmSettlement(s) \/ SettlementCallFails(s)

-----------------------------------------------------------------------------
(* The constants *)

LEMMA BetTypes ==
  /\ Len(Bet) \in Nat /\ Tx = 1 .. Len(Bet)
  /\ \A t \in Tx : Bet[t].user \in User /\ Bet[t].side \in Side /\ Bet[t].amount \in Nat
  /\ \A r \in Request : TxOf[r] \in Tx
  /\ \A s \in Settler : Asks[s] \in BOOLEAN
  /\ Request = DOMAIN TxOf
<1>1. Len(Bet) \in Nat /\ \A t \in 1 .. Len(Bet) : Bet[t] \in [user : User, side : Side, amount : Nat \ {0}]
  <2> DEFINE S == [user : User, side : Side, amount : Nat \ {0}]
  <2>1. Bet \in Seq(S)
    BY MirrorAssumption
  <2> HIDE DEF S
  <2>2. Len(Bet) \in Nat /\ \A t \in 1 .. Len(Bet) : Bet[t] \in S
    BY <2>1
  <2> QED BY <2>2 DEF S
<1>2. \A r \in 1 .. Len(TxOf) : TxOf[r] \in 1 .. Len(Bet)
  BY MirrorAssumption
<1>3. \A s \in 1 .. Len(Asks) : Asks[s] \in BOOLEAN
  BY MirrorAssumption
<1>4. DOMAIN TxOf = 1 .. Len(TxOf)
  BY MirrorAssumption
<1> QED BY <1>1, <1>2, <1>3, <1>4 DEF Tx, Request, Settler

LEMMA OfTypes ==
  ASSUME NEW r \in Request
  PROVE  RowOf(r) \in Position /\ Of(r).amount \in Nat
BY BetTypes DEF RowOf, Of, Position

LEMMA RecordedType ==
  ASSUME NEW p
  PROVE  Recorded(p) \in [1 .. Len(Bet) -> Nat]
BY BetTypes DEF Recorded

LEMMA RecordedTypeNext ==
  ASSUME NEW p
  PROVE  Recorded(p)' \in [1 .. Len(Bet) -> Nat]
BY BetTypes DEF Recorded

-----------------------------------------------------------------------------
(* The steps that touch the tables, named by what they leave alone *)

LEMMA InitInv == Init => IInv
<1>1. SUFFICES ASSUME Init PROVE IInv
  OBVIOUS
<1>2. TablesOK
  BY <1>1 DEF Init, TablesOK
<1>3. Settlements /\ Verified
  BY <1>1 DEF Init, Settlements, SettlementMirrorsChain, Confirmed, GradesAreTheChains, Verified
<1>4. RowsBacked
  <2>1. ASSUME NEW p \in Position PROVE rows[p] <= Total(Recorded(p), Len(Bet))
    <3>1. Total(Recorded(p), Len(Bet)) \in Nat
      BY RecordedType, TotalNat, BetTypes
    <3>2. rows[p] = 0
      BY <1>1 DEF Init
    <3> QED BY <3>1, <3>2
  <2> QED BY <1>1, <2>1 DEF Init, RowsBacked
<1> QED BY <1>2, <1>3, <1>4 DEF IInv

\* A request that has marked the market passes on, whatever fails.
LEMMA PassesOn ==
  ASSUME NEW s \in Settler,
         ListBettors(s) \/ GradePredictions(s) \/ GradeBets(s) \/ UpdateScore(s) \/ PassOver(s)
  PROVE  \E to \in {"predicted", "bettors", "bets", "graded", "done"} :
           settlerPc' = [settlerPc EXCEPT ![s] = to]
BY DEF ListBettors, GradePredictions, GradeBets, UpdateScore, PassOver, SettlerGoto

\* What place_bet does to the tables.
LEMMA BetSteps ==
  ASSUME TablesOK, NEW r \in Request, BetRequest(r)
  PROVE  TablesOK' /\ UNCHANGED <<chain, dbSettled, dbOutcome, settlerPc, agents>>
<1> USE DEF Step, Goto, chain, database, agents
<1>1. CASE CheckMarket(r)
  BY <1>1 DEF CheckMarket, TablesOK
<1>2. CASE CheckExposure(r)
  BY <1>2 DEF CheckExposure, TablesOK
<1>3. CASE VerifyBet(r)
  BY <1>3 DEF VerifyBet, TablesOK
<1>4. CASE ReadRow(r)
  BY <1>4, OfTypes DEF ReadRow, TablesOK
<1>5. CASE WriteRow(r)
  <2>1. CASE UNCHANGED <<chain, dbSettled, dbOutcome, seen, settlerPc, agents>> /\ Goto(r, "read", "done")
             /\ rows' = [rows EXCEPT ![RowOf(r)] = seen[r] + Of(r).amount]
    <3>1. seen[r] + Of(r).amount \in Nat /\ RowOf(r) \in Position
      BY OfTypes DEF TablesOK
    <3> QED BY <2>1, <3>1 DEF TablesOK
  <2>2. CASE Step(r, "read", "failed")
    BY <2>2 DEF TablesOK
  <2> QED BY <1>5, <2>1, <2>2 DEF WriteRow
<1>6. CASE ConfirmBet(r) \/ BetCallFails(r)
  BY <1>6 DEF ConfirmBet, BetCallFails, TablesOK
<1> QED BY <1>1, <1>2, <1>3, <1>4, <1>5, <1>6 DEF BetRequest, PlaceBet

\* What the steps of the chain do to the tables.
LEMMA ChainSteps ==
  ASSUME TablesOK,
         \/ \E t \in Tx : MineBet(t) \/ RevertBet(t)
         \/ \E s \in Settler : MineSettlement(s)
         \/ \E outcome \in BOOLEAN : SettleElsewhere(outcome)
  PROVE  /\ TablesOK'
         /\ UNCHANGED <<database, bets, settlerPc, agents>>
         /\ \A t \in Tx : betTx[t] = "success" => betTx'[t] = "success"
<1>1. ASSUME NEW t \in Tx, MineBet(t) \/ RevertBet(t)
      PROVE  /\ TablesOK'
             /\ UNCHANGED <<database, bets, settlerPc, agents>>
             /\ \A u \in Tx : betTx[u] = "success" => betTx'[u] = "success"
  BY <1>1 DEF MineBet, RevertBet, TablesOK, database, bets, agents
<1>2. ASSUME NEW s \in Settler, MineSettlement(s)
      PROVE  TablesOK' /\ UNCHANGED <<betTx, database, bets, settlerPc, agents>>
  BY <1>2, BetTypes DEF MineSettlement, SettleOnChain, TablesOK, database, bets, agents
<1>3. ASSUME NEW outcome \in BOOLEAN, SettleElsewhere(outcome)
      PROVE  TablesOK' /\ UNCHANGED <<betTx, database, bets, settlerPc, agents>>
  BY <1>3 DEF SettleElsewhere, SettleOnChain, TablesOK, database, bets, agents
<1> QED BY <1>1, <1>2, <1>3

\* What settle_market, and what follows it, does to the tables.
LEMMA SettlerSteps ==
  ASSUME TablesOK, NEW s \in Settler, SettlerRequest(s)
  PROVE  TablesOK' /\ UNCHANGED <<betTx, rows, bets>>
<1>1. CASE RefuseSettlement(s) \/ CheckSettlement(s)
  BY <1>1 DEF RefuseSettlement, CheckSettlement, SettlerGoto, TablesOK, chain, database, bets, agents
<1>2. CASE SendSettlement(s)
  BY <1>2 DEF SendSettlement, SettlerGoto, TablesOK, database, bets, agents
<1>3. CASE \/ FailSettlement(s) \/ ReceiveSettlement(s) \/ ConfirmSettlement(s)
           \/ SettlementCallFails(s)
  BY <1>3 DEF FailSettlement, ReceiveSettlement, ConfirmSettlement, SettlementCallFails,
       SettlerGoto, TablesOK, chain, database, bets, agents
<1>4. CASE MarkSettled(s)
  BY <1>4, BetTypes DEF MarkSettled, SettlerGoto, TablesOK, chain, bets, agents
<1>5. CASE MarkPredictions(s)
  <2>1. predictions' \in [Prediction -> {"absent", "open", "right", "wrong"}]
    BY <1>5 DEF MarkPredictions, TablesOK
  <2> QED BY <1>5, <2>1 DEF MarkPredictions, SettlerGoto, TablesOK, chain, database, bets
<1>6. CASE ListBettors(s) \/ GradePredictions(s) \/ GradeBets(s) \/ UpdateScore(s) \/ PassOver(s)
  <2>1. UNCHANGED <<chain, database, bets, predictions>>
    BY <1>6 DEF ListBettors, GradePredictions, GradeBets, UpdateScore, PassOver, agents
  <2>2. \E to \in {"predicted", "bettors", "bets", "graded", "done"} :
          settlerPc' = [settlerPc EXCEPT ![s] = to]
    BY <1>6, PassesOn
  <2> QED BY <2>1, <2>2 DEF TablesOK, chain, database, bets
<1> QED BY <1>1, <1>2, <1>3, <1>4, <1>5, <1>6 DEF SettlerRequest, SettleMarket, RefreshScores

\* Every other step leaves the rows and the bets' requests alone, but for a crash,
\* which fails requests that have not recorded anything.
LEMMA OtherSteps ==
  ASSUME TablesOK, [Next]_vars, ~ \E r \in Request : BetRequest(r)
  PROVE  /\ TablesOK'
         /\ UNCHANGED <<rows, seen>>
         /\ \A r \in Request : pc'[r] = pc[r] \/ (pc[r] # "done" /\ pc'[r] = "failed")
         /\ \A t \in Tx : betTx[t] = "success" => betTx'[t] = "success"
<1>1. CASE UNCHANGED vars
  BY <1>1 DEF vars, TablesOK, chain, database, bets, agents
<1>2. CASE \/ \E t \in Tx : MineBet(t) \/ RevertBet(t)
           \/ \E s \in Settler : MineSettlement(s)
           \/ \E outcome \in BOOLEAN : SettleElsewhere(outcome)
  BY <1>2, ChainSteps DEF database, bets
<1>3. CASE \E s \in Settler : SettlerRequest(s)
  BY <1>3, SettlerSteps DEF bets
<1>4. CASE \E k \in Prediction : Predict(k)
  BY <1>4 DEF Predict, TablesOK, chain, database, bets
<1>5. CASE HandleSettled
  BY <1>5 DEF HandleSettled, TablesOK, chain, bets, agents
<1>6. CASE Tick
  BY <1>6 DEF Tick, TablesOK, chain, database, bets, agents
<1>7. CASE Crash
  <2>1. pc' \in [Request -> {"new", "open", "sized", "receipt", "verified", "read", "done", "failed"}]
    BY <1>7 DEF Crash, TablesOK
  <2>2. settlerPc' \in [Settler -> {"new", "send", "wait", "receipt", "mark", "marked", "predicted",
                                    "bettors", "bets", "graded", "done", "failed"}]
    BY <1>7 DEF Crash, TablesOK
  <2>3. \A r \in Request : pc'[r] = pc[r] \/ (pc[r] # "done" /\ pc'[r] = "failed")
    BY <1>7 DEF Crash
  <2>4. UNCHANGED <<chain, database, seen, predictions>>
    BY <1>7 DEF Crash
  <2> QED BY <2>1, <2>2, <2>3, <2>4 DEF TablesOK, chain, database
<1> QED BY <1>1, <1>2, <1>3, <1>4, <1>5, <1>6, <1>7 DEF Next, BetRequest, SettlerRequest

-----------------------------------------------------------------------------
(* Settlements *)

\* A step that settles nothing, marks nothing and grades nothing.
Elsewhere ==
  /\ chainSettled' = chainSettled /\ chainOutcome' = chainOutcome
  /\ dbSettled' = dbSettled /\ dbOutcome' = dbOutcome
  /\ \A s \in Settler : settleTx'[s] = "success" => settleTx[s] = "success"
  /\ \A s \in Settler : settlerPc'[s] \in {"receipt", "mark", "marked"} =>
       settlerPc'[s] = settlerPc[s] /\ settleTx'[s] = settleTx[s]
  /\ \A k \in Prediction : predictions'[k] \in {"right", "wrong"} => predictions'[k] = predictions[k]

LEMMA ElsewhereStays ==
  ASSUME Settlements, Elsewhere
  PROVE  Settlements'
BY DEF Settlements, Elsewhere, SettlementMirrorsChain, Confirmed, GradesAreTheChains, Winner

\* The chain is settled once, and then whatever it says stays.
LEMMA OnChainStays ==
  ASSUME TablesOK, Settlements, NEW outcome \in BOOLEAN, SettleOnChain(outcome),
         UNCHANGED <<dbSettled, dbOutcome, settlerPc, predictions>>,
         \A s \in Settler : settleTx'[s] = settleTx[s] \/ (settleTx'[s] = "success" /\ Asks[s] = outcome)
  PROVE  Settlements'
BY DEF TablesOK, Settlements, SettleOnChain, SettlementMirrorsChain, Confirmed, GradesAreTheChains, Winner

LEMMA SettlementsStay ==
  ASSUME TablesOK, Settlements, [Next]_vars
  PROVE  Settlements'
<1> USE DEF TablesOK, chain, database, bets, agents
<1>1. CASE UNCHANGED vars
  BY <1>1, ElsewhereStays DEF vars, Elsewhere
<1>2. CASE \E t \in Tx : MineBet(t) \/ RevertBet(t)
  BY <1>2, ElsewhereStays DEF MineBet, RevertBet, Elsewhere
<1>3. ASSUME NEW s \in Settler, MineSettlement(s) PROVE Settlements'
  <2>1. CASE SettleOnChain(Asks[s]) /\ settleTx' = [settleTx EXCEPT ![s] = "success"]
    <3>1. Asks[s] \in BOOLEAN
      BY BetTypes
    <3>2. UNCHANGED <<dbSettled, dbOutcome, settlerPc, predictions>>
      BY <1>3 DEF MineSettlement
    <3>3. \A q \in Settler : settleTx'[q] = settleTx[q] \/ (settleTx'[q] = "success" /\ Asks[q] = Asks[s])
      BY <2>1
    <3> QED BY <2>1, <3>1, <3>2, <3>3, OnChainStays
  <2>2. CASE settleTx' = [settleTx EXCEPT ![s] = "reverted"] /\ UNCHANGED <<chainSettled, chainOutcome>>
    <3>1. settleTx[s] # "success"
      BY <1>3 DEF MineSettlement
    <3>2. Elsewhere
      BY <1>3, <2>2, <3>1 DEF MineSettlement, Elsewhere, Settlements, Confirmed
    <3> QED BY <3>2, ElsewhereStays
  <2> QED BY <1>3, <2>1, <2>2 DEF MineSettlement
<1>4. ASSUME NEW s \in Settler, SettlerRequest(s) PROVE Settlements'
  <2>1. CASE RefuseSettlement(s) \/ CheckSettlement(s) \/ FailSettlement(s) \/ SettlementCallFails(s)
    BY <2>1, ElsewhereStays DEF RefuseSettlement, CheckSettlement, FailSettlement, SettlementCallFails,
         SettlerGoto, Elsewhere
  <2>2. CASE SendSettlement(s)
    BY <2>2, ElsewhereStays DEF SendSettlement, SettlerGoto, Elsewhere
  <2>3. CASE ReceiveSettlement(s) \/ ConfirmSettlement(s)
    BY <2>3 DEF ReceiveSettlement, ConfirmSettlement, SettlerGoto, Settlements, SettlementMirrorsChain, Confirmed,
                GradesAreTheChains, Winner
  <2>4. CASE MarkSettled(s)
    BY <2>4 DEF MarkSettled, SettlerGoto, Settlements, SettlementMirrorsChain, Confirmed,
                GradesAreTheChains, Winner
  <2>5. CASE MarkPredictions(s)
    <3>1. chainSettled /\ chainOutcome = Asks[s]
      BY <2>5 DEF MarkPredictions, SettlerGoto, Settlements, Confirmed
    <3>2. GradesAreTheChains'
      BY <2>5, <3>1 DEF MarkPredictions, Settlements, GradesAreTheChains, Winner, Correct
    <3> QED BY <2>5, <3>2 DEF MarkPredictions, SettlerGoto, Settlements, SettlementMirrorsChain, Confirmed
  <2>6. CASE ListBettors(s) \/ GradePredictions(s) \/ GradeBets(s) \/ UpdateScore(s) \/ PassOver(s)
    <3>1. UNCHANGED <<chain, database, predictions>>
      BY <2>6 DEF ListBettors, GradePredictions, GradeBets, UpdateScore, PassOver
    <3>2. \E to \in {"predicted", "bettors", "bets", "graded", "done"} :
            settlerPc' = [settlerPc EXCEPT ![s] = to]
      BY <2>6, PassesOn
    <3> QED BY <3>1, <3>2, ElsewhereStays DEF Elsewhere
  <2> QED BY <1>4, <2>1, <2>2, <2>3, <2>4, <2>5, <2>6 DEF SettlerRequest, SettleMarket, RefreshScores
<1>5. ASSUME NEW outcome \in BOOLEAN, SettleElsewhere(outcome) PROVE Settlements'
  <2>1. SettleOnChain(outcome) /\ UNCHANGED <<settleTx, dbSettled, dbOutcome, settlerPc, predictions>>
    BY <1>5 DEF SettleElsewhere
  <2> QED BY <2>1, OnChainStays
<1>6. ASSUME NEW r \in Request, BetRequest(r) PROVE Settlements'
  BY <1>6, BetSteps, ElsewhereStays DEF Elsewhere
<1>7. ASSUME NEW k \in Prediction, Predict(k) PROVE Settlements'
  BY <1>7, ElsewhereStays DEF Predict, Elsewhere
<1>8. CASE HandleSettled
  BY <1>8 DEF HandleSettled, Settlements, SettlementMirrorsChain, Confirmed, GradesAreTheChains, Winner
<1>9. CASE Crash \/ Tick
  BY <1>9, ElsewhereStays DEF Crash, Tick, Elsewhere
<1> QED BY <1>1, <1>2, <1>3, <1>4, <1>5, <1>6, <1>7, <1>8, <1>9 DEF Next, BetRequest, SettlerRequest

-----------------------------------------------------------------------------
(* Bets *)

LEMMA VerifiedStays ==
  ASSUME TablesOK, Verified, [Next]_vars
  PROVE  Verified'
<1>1. CASE \E r \in Request : BetRequest(r)
  BY <1>1, BetTypes DEF TablesOK, Verified, BetRequest, PlaceBet, ConfirmBet, BetCallFails,
       CheckMarket, CheckExposure, VerifyBet, ReadRow, WriteRow,
       Step, Goto, chain, database
<1>2. CASE ~ \E r \in Request : BetRequest(r)
  BY <1>2, OtherSteps, BetTypes DEF Verified
<1> QED BY <1>1, <1>2

\* What has been recorded stays recorded.
LEMMA RecordedGrows ==
  ASSUME \A r \in Request : pc[r] = "done" => pc'[r] = "done", NEW p
  PROVE  Total(Recorded(p), Len(Bet)) <= Total(Recorded(p)', Len(Bet))
<1>1. \A t \in Tx : Named(t) => Named(t)'
  BY DEF Named
<1>2. \A t \in 1 .. Len(Bet) : Recorded(p)[t] <= Recorded(p)'[t]
  BY <1>1, BetTypes DEF Recorded
<1> QED BY <1>2, RecordedType, RecordedTypeNext, TotalMonotone, BetTypes

\* A request that is done adds its bet, which no other request has named.
LEMMA RecordedByDone ==
  ASSUME TablesOK, IsInjective(TxOf), NEW r \in Request, Goto(r, "read", "done")
  PROVE  Total(Recorded(RowOf(r))', Len(Bet)) = Total(Recorded(RowOf(r)), Len(Bet)) + Of(r).amount
<1> DEFINE f == Recorded(RowOf(r))
           g == Recorded(RowOf(r))'
           t == TxOf[r]
<1>1. t \in 1 .. Len(Bet) /\ Len(Bet) \in Nat
  BY BetTypes
<1>2. ~Named(t)
  BY BetTypes DEF Named, IsInjective, Goto
<1>3. Named(t)'
  BY DEF Named, Goto, TablesOK
<1>4. \A u \in Tx : u # t => (Named(u)' <=> Named(u))
  BY DEF Named, Goto, TablesOK
<1>5. f \in [1 .. Len(Bet) -> Nat] /\ g \in [1 .. Len(Bet) -> Nat]
  BY RecordedType, RecordedTypeNext
<1>6. f[t] = 0 /\ g[t] = Of(r).amount
  BY <1>1, <1>2, <1>3, BetTypes DEF Recorded, RowOf, Of
<1>7. \A u \in 1 .. Len(Bet) : u # t => g[u] = f[u]
  BY <1>4, BetTypes DEF Recorded
<1>8. Total(g, Len(Bet)) + f[t] = Total(f, Len(Bet)) + g[t]
  <2> HIDE DEF f, g, t
  <2> QED BY <1>1, <1>5, <1>7, TotalUpdate
<1>9. Total(f, Len(Bet)) \in Nat /\ Total(g, Len(Bet)) \in Nat
  <2> HIDE DEF f, g
  <2> QED BY <1>1, <1>5, TotalNat
<1> QED BY <1>6, <1>8, <1>9, OfTypes

LEMMA RowsStay ==
  ASSUME TablesOK, RowsBacked, IsInjective(TxOf), [Next]_vars
  PROVE  RowsBacked'
<1> DEFINE Sum(p) == Total(Recorded(p), Len(Bet))
           SumNext(p) == Total(Recorded(p)', Len(Bet))
<1>1. \A p : Sum(p) \in Nat /\ SumNext(p) \in Nat
  BY RecordedType, RecordedTypeNext, TotalNat, BetTypes
<1>2. TablesOK' /\ \A r \in Request : pc[r] = "done" => pc'[r] = "done"
  <2>1. CASE \E r \in Request : BetRequest(r)
    BY <2>1, BetSteps DEF BetRequest, PlaceBet, ConfirmBet, BetCallFails,
         CheckMarket, CheckExposure, VerifyBet, ReadRow, WriteRow, Step, Goto, TablesOK
  <2>2. CASE ~ \E r \in Request : BetRequest(r)
    BY <2>2, OtherSteps
  <2> QED BY <2>1, <2>2
<1>3. \A p : Sum(p) <= SumNext(p)
  BY <1>2, RecordedGrows
<1>4. \A p \in Position : rows[p] \in Nat /\ rows[p] <= Sum(p)
  BY DEF RowsBacked, TablesOK
<1>5. \A r \in Request : seen[r] \in Nat /\ (pc[r] = "read" => seen[r] <= Sum(RowOf(r)))
  BY DEF RowsBacked, TablesOK
<1>6. SUFFICES /\ \A p \in Position : rows'[p] <= SumNext(p)
               /\ \A r \in Request : pc'[r] = "read" => seen'[r] <= SumNext(RowOf(r))
  BY DEF RowsBacked, RowOf, Of
<1> HIDE DEF Sum, SumNext
<1>7. ASSUME UNCHANGED rows PROVE \A p \in Position : rows'[p] <= SumNext(p)
  BY <1>1, <1>3, <1>4, <1>7
<1>8. ASSUME UNCHANGED seen, \A r \in Request : pc'[r] = "read" => pc[r] = "read"
      PROVE  \A r \in Request : pc'[r] = "read" => seen'[r] <= SumNext(RowOf(r))
  BY <1>1, <1>3, <1>5, <1>8
<1>9. CASE ~ \E r \in Request : BetRequest(r)
  BY <1>7, <1>8, <1>9, OtherSteps
<1>10. ASSUME NEW r \in Request, CheckMarket(r) \/ CheckExposure(r) \/ VerifyBet(r) \/ ConfirmBet(r) \/ BetCallFails(r)
       PROVE  UNCHANGED <<rows, seen>> /\ \A q \in Request : pc'[q] = "read" => pc[q] = "read"
  BY <1>10 DEF CheckMarket, CheckExposure, VerifyBet, ConfirmBet, BetCallFails, Step, Goto, database, TablesOK
<1>11. ASSUME NEW r \in Request, ReadRow(r)
       PROVE  \A q \in Request : pc'[q] = "read" => seen'[q] <= SumNext(RowOf(q))
  <2>1. RowOf(r) \in Position
    BY OfTypes
  <2>2. seen'[r] = rows[RowOf(r)]
    BY <1>11 DEF ReadRow, TablesOK
  <2>3. \A q \in Request : q # r => pc'[q] = pc[q] /\ seen'[q] = seen[q]
    BY <1>11 DEF ReadRow, Goto, TablesOK
  <2>4. \A x \in Nat : \A q \in Request : x <= Sum(RowOf(q)) => x <= SumNext(RowOf(q))
    BY <1>1, <1>3
  <2> QED BY <1>4, <1>5, <2>1, <2>2, <2>3, <2>4
<1>12. ASSUME NEW r \in Request, WriteRow(r)
       PROVE  /\ \A p \in Position : rows'[p] <= SumNext(p)
              /\ \A q \in Request : pc'[q] = "read" => seen'[q] <= SumNext(RowOf(q))
  <2>1. UNCHANGED seen /\ \A q \in Request : pc'[q] = "read" => pc[q] = "read"
    BY <1>12 DEF WriteRow, Step, Goto, TablesOK
  <2>2. CASE UNCHANGED rows
    BY <1>7, <1>8, <2>1, <2>2
  <2>3. CASE Goto(r, "read", "done") /\ rows' = [rows EXCEPT ![RowOf(r)] = seen[r] + Of(r).amount]
    <3>1. SumNext(RowOf(r)) = Sum(RowOf(r)) + Of(r).amount
      BY <2>3, RecordedByDone DEF Sum, SumNext
    <3>2. seen[r] <= Sum(RowOf(r))
      BY <1>5, <2>3 DEF Goto
    <3>3. seen[r] + Of(r).amount <= SumNext(RowOf(r))
      BY <1>1, <1>5, <3>1, <3>2, OfTypes
    <3>4. ASSUME NEW p \in Position PROVE rows'[p] <= SumNext(p)
      <4>1. CASE p = RowOf(r)
        BY <2>3, <3>3, <4>1 DEF TablesOK
      <4>2. CASE p # RowOf(r)
        <5>1. rows'[p] = rows[p]
          BY <2>3, <4>2 DEF TablesOK
        <5> QED BY <1>1, <1>3, <1>4, <5>1
      <4> QED BY <4>1, <4>2
    <3> QED BY <1>8, <2>1, <3>4
  <2> QED BY <1>12, <2>2, <2>3 DEF WriteRow, Step, database
<1>13. ASSUME NEW r \in Request, ReadRow(r) PROVE UNCHANGED rows
  BY <1>13 DEF ReadRow, database
<1>14. CASE \E r \in Request : BetRequest(r)
  BY <1>7, <1>8, <1>10, <1>11, <1>12, <1>13, <1>14 DEF BetRequest, PlaceBet
<1> QED BY <1>9, <1>14

-----------------------------------------------------------------------------
(* The theorems *)

LEMMA NextInv == IInv /\ [Next]_vars => IInv'
<1>1. SUFFICES ASSUME IInv, [Next]_vars PROVE IInv'
  OBVIOUS
<1>2. TablesOK'
  BY <1>1, BetSteps, OtherSteps DEF IInv
<1>3. Settlements' /\ Verified'
  BY <1>1, SettlementsStay, VerifiedStays DEF IInv
<1>4. (IsInjective(TxOf) => RowsBacked)'
  BY <1>1, RowsStay DEF IInv, IsInjective
<1> QED BY <1>2, <1>3, <1>4 DEF IInv

LEMMA Invariance == Spec => []IInv
BY InitInv, NextInv, PTL DEF Spec

\* However settlement requests, settlements from elsewhere, replayed events, timeouts
\* and crashes interleave, the market's row has the chain's outcome or none.
THEOREM SettlementsMirrored == Spec => []SettlementMirrorsChain
<1>1. IInv => SettlementMirrorsChain
  BY DEF IInv, Settlements
<1> QED BY Invariance, <1>1, PTL

\* mark_market_settled grades every prediction as the chain decided the market.
THEOREM GradesMirrored == Spec => []GradesAreTheChains
<1>1. IInv => GradesAreTheChains
  BY DEF IInv, Settlements
<1> QED BY Invariance, <1>1, PTL

\* Requests that read and write one row at the same time lose money of the mirror,
\* and never make any.
THEOREM MirrorBacked == Spec => []MirrorNeverExceedsChain
<1>1. ASSUME IInv, IsInjective(TxOf), NEW p \in Position
      PROVE  rows[p] <= OnChain(p)
  <2> DEFINE mined == [t \in Tx |-> IF betTx[t] = "success" /\ <<Bet[t].user, Bet[t].side>> = p
                                    THEN Bet[t].amount ELSE 0]
             f == Recorded(p)
  <2>1. Len(Bet) \in Nat /\ mined \in [1 .. Len(Bet) -> Nat] /\ f \in [1 .. Len(Bet) -> Nat]
    BY BetTypes, RecordedType
  <2>2. \A t \in Tx : Named(t) => betTx[t] = "success"
    BY <1>1 DEF Named, IInv, Verified
  <2>3. \A t \in 1 .. Len(Bet) : f[t] <= mined[t]
    BY <2>2, BetTypes DEF Recorded
  <2>4. Total(f, Len(Bet)) <= Total(mined, Len(Bet))
    <3> HIDE DEF f, mined
    <3> QED BY <2>1, <2>3, TotalMonotone
  <2>5. Total(f, Len(Bet)) \in Nat /\ Total(mined, Len(Bet)) \in Nat
    <3> HIDE DEF f, mined
    <3> QED BY <2>1, TotalNat
  <2>6. rows[p] \in Nat /\ rows[p] <= Total(f, Len(Bet))
    BY <1>1 DEF IInv, RowsBacked, TablesOK
  <2>7. OnChain(p) = Total(mined, Len(Bet))
    BY DEF OnChain
  <2> HIDE DEF f, mined
  <2> QED BY <2>4, <2>5, <2>6, <2>7
<1>2. IInv => MirrorNeverExceedsChain
  BY <1>1 DEF MirrorNeverExceedsChain
<1> QED BY Invariance, <1>2, PTL

-----------------------------------------------------------------------------
(* Scores: a second inductive invariant on top of the first *)

\* Somebody has won: a prediction that is graded right, or a mined bet of the owner's.
Winning ==
  chainSettled /\ ((\E k \in Prediction : predictions[k] = "right") \/ OnChain(<<Owner, Winner>>) > 0)

\* A row is only filled by requests that are done.
Filled == \A p \in Position : rows[p] > 0 => \E r \in Request : RowOf(r) = p /\ pc[r] = "done"

Earned(x) == x \in Grade /\ (x > 0 => Winning)

ScoreInv ==
  /\ IInv /\ Filled /\ Earned(score)
  /\ graded = [s \in Settler |-> graded[s]] /\ \A s \in Settler : Earned(graded[s])
  /\ now \in Nat /\ crashes \in Nat

LEMMA GradeIs == \A x : x \in Grade <=> x \in Int /\ 0 <= x /\ x <= 10000
<1>1. PICK top \in Nat : top = 10000
  OBVIOUS
<1>2. \A x : x \in 0 .. top <=> x \in Int /\ 0 <= x /\ x <= top
  OBVIOUS
<1> QED BY <1>1, <1>2 DEF Grade

\* The share of the true outcomes among the first n, in basis points.
LEMMA AccuracyFits ==
  ASSUME NEW n \in Nat \ {0}, NEW outcomes
  PROVE  LET a == (Cardinality({k \in 1 .. n : outcomes[k]}) * 10000) \div n
         IN  a \in Grade /\ (a > 0 => \E k \in 1 .. n : outcomes[k])
<1> DEFINE H == {k \in 1 .. n : outcomes[k]}
<1>1. IsFiniteSet(1 .. n) /\ Cardinality(1 .. n) = n
  <2>1. IsFiniteSet(1 .. n) /\ Cardinality(1 .. n) = IF 1 > n THEN 0 ELSE n - 1 + 1
    <3>1. \A a, b \in Int : IsFiniteSet(a .. b) /\ Cardinality(a .. b) = IF a > b THEN 0 ELSE b - a + 1
      BY FS_Interval
    <3> QED BY <3>1
  <2> QED BY <2>1
<1>2. IsFiniteSet(H) /\ Cardinality(H) <= n /\ Cardinality(H) \in Nat
  <2>1. H \in SUBSET (1 .. n)
    OBVIOUS
  <2> HIDE DEF H
  <2> QED BY <1>1, <2>1, FS_Subset, FS_CardinalityType
<1>3. H = {} => Cardinality(H) = 0
  BY FS_EmptySet
<1>4. H # {} => \E k \in 1 .. n : outcomes[k]
  OBVIOUS
<1>5. PICK h \in Nat : h = Cardinality(H) /\ h <= n
  BY <1>2
<1>6. (h * 10000) \div n \in Int /\ 0 <= (h * 10000) \div n /\ (h * 10000) \div n <= 10000
      /\ (h = 0 => (h * 10000) \div n = 0)
  <2>1. PICK a \in Nat : a = h * 10000
    OBVIOUS
  <2>2. a <= 10000 * n
    BY <1>5, <2>1
  <2>3. a \div n \in Nat /\ (a \div n) * n <= a
    BY FloorBounds
  <2>4. PICK q \in Nat : q = a \div n
    BY <2>3
  <2>5. q <= 10000
    <3>1. SUFFICES ASSUME q > 10000 PROVE FALSE
      BY <2>4
    <3>2. q * n >= 10001 * n
      BY <3>1
    <3> QED BY <2>2, <2>3, <2>4, <3>2
  <2>6. h = 0 => q = 0
    BY <2>1, <2>4
  <2> QED BY <2>1, <2>4, <2>5, <2>6
<1> HIDE DEF H
<1>7. (Cardinality(H) * 10000) \div n \in Grade /\ ((Cardinality(H) * 10000) \div n > 0 => \E k \in 1 .. n : outcomes[k])
  BY <1>3, <1>4, <1>5, <1>6, GradeIs
<1> QED BY <1>7 DEF H

LEMMA ScoreFits ==
  ASSUME NEW outcomes, Len(outcomes) \in Nat
  PROVE  Score(outcomes) \in Grade /\ (Score(outcomes) > 0 => \E k \in 1 .. Len(outcomes) : outcomes[k])
<1> DEFINE Share(n) == (Cardinality({k \in 1 .. n : outcomes[k]}) * 10000) \div n
<1>1. ASSUME NEW n \in Nat \ {0} PROVE Share(n) \in Grade /\ (Share(n) > 0 => \E k \in 1 .. n : outcomes[k])
  BY AccuracyFits
<1>2. PICK t \in Nat : t = Len(outcomes)
  OBVIOUS
<1>3. PICK m : m = IF t < RecentWindow THEN t ELSE RecentWindow
  OBVIOUS
<1>4. Score(outcomes) = IF t = 0 THEN 0 ELSE (Share(t) * 6 + Share(m) * 4) \div 10
  BY <1>2, <1>3 DEF Score
<1> HIDE DEF Share
<1>5. CASE t = 0
  BY <1>4, <1>5, GradeIs
<1>6. CASE t # 0
  <2>1. m \in Nat \ {0} /\ m <= t
    <3>1. RecentWindow \in Nat \ {0}
      BY MirrorAssumption
    <3> QED BY <1>2, <1>3, <1>6, <3>1
  <2>2. PICK a \in Int, b \in Int : a = Share(t) /\ b = Share(m) /\ 0 <= a /\ a <= 10000 /\ 0 <= b /\ b <= 10000
    BY <1>1, <1>6, <2>1, GradeIs
  <2>3. a > 0 \/ b > 0 => \E k \in 1 .. t : outcomes[k]
    <3>1. a > 0 => \E k \in 1 .. t : outcomes[k]
      BY <1>1, <1>6, <2>2
    <3>2. b > 0 => \E k \in 1 .. m : outcomes[k]
      BY <1>1, <2>1, <2>2
    <3>3. 1 .. m \subseteq 1 .. t
      BY <2>1
    <3> QED BY <3>1, <3>2, <3>3
  <2>4. PICK s \in Nat : s = a * 6 + b * 4 /\ s <= 100000
    BY <2>2
  <2>5. s \div 10 \in Int /\ 0 <= s \div 10 /\ s \div 10 <= 10000 /\ (s = 0 => s \div 10 = 0)
    BY <2>4
  <2>6. Score(outcomes) = s \div 10
    BY <1>4, <1>6, <2>2, <2>4
  <2>7. s # 0 => a > 0 \/ b > 0
    BY <2>2, <2>4
  <2> QED BY <1>2, <2>3, <2>5, <2>6, <2>7, GradeIs
<1> QED BY <1>5, <1>6

\* A right prediction is behind every score that predictions give.
LEMMA PredictionsEarn ==
  ASSUME IInv
  PROVE  Earned(Score(GradedPredictions))
<1>1. predictions \in Seq({"absent", "open", "right", "wrong"}) /\ Len(predictions) = Len(Predicted)
      /\ Len(Predicted) \in Nat
  <2>1. Len(Predicted) \in Nat
    BY MirrorAssumption
  <2>2. predictions \in [1 .. Len(Predicted) -> {"absent", "open", "right", "wrong"}]
    BY DEF IInv, TablesOK, Prediction
  <2> QED BY <2>1, <2>2
<1>2. PICK back : back = Reverse(predictions)
  OBVIOUS
<1>3. /\ back \in Seq({"absent", "open", "right", "wrong"}) /\ Len(back) = Len(predictions)
      /\ \A k \in 1 .. Len(back) : \E j \in Prediction : back[k] = predictions[j]
  <2>1. PICK n \in Nat : n = Len(predictions) /\ Prediction = 1 .. n
    BY <1>1 DEF Prediction
  <2>2. back = [i \in 1 .. n |-> predictions[(n - i) + 1]]
    BY <1>2, <2>1 DEF Reverse
  <2>3. \A i \in 1 .. n : (n - i) + 1 \in 1 .. n
    BY <2>1
  <2>4. \A i \in 1 .. n : predictions[(n - i) + 1] \in {"absent", "open", "right", "wrong"}
    BY <1>1, <2>1, <2>3
  <2>5. back \in [1 .. n -> {"absent", "open", "right", "wrong"}]
    BY <2>2, <2>4
  <2>6. back \in Seq({"absent", "open", "right", "wrong"}) /\ Len(back) = n
    BY <2>5
  <2> QED BY <2>1, <2>2, <2>3, <2>6
<1>4. PICK grades : grades = Keep(back, {"right", "wrong"})
  OBVIOUS
<1>5. /\ grades \in Seq({"absent", "open", "right", "wrong"})
      /\ \A k \in 1 .. Len(grades) : \E i \in 1 .. Len(back) : grades[k] = back[i]
  BY <1>3, <1>4, KeepIs
<1>6. PICK outcomes : outcomes = [k \in DOMAIN grades |-> grades[k] = "right"]
  OBVIOUS
<1>7. GradedPredictions = outcomes
  BY <1>2, <1>4, <1>6 DEF GradedPredictions
<1>8. Len(outcomes) = Len(grades) /\ Len(outcomes) \in Nat /\ DOMAIN grades = 1 .. Len(grades)
  <2>1. PICK n \in Nat : n = Len(grades) /\ DOMAIN grades = 1 .. n
    BY <1>5
  <2>2. outcomes \in [1 .. n -> BOOLEAN]
    BY <1>6, <2>1
  <2> QED BY <2>1, <2>2
<1>9. (\E k \in 1 .. Len(outcomes) : outcomes[k]) => \E j \in Prediction : predictions[j] = "right"
  <2> SUFFICES ASSUME NEW k \in 1 .. Len(outcomes), outcomes[k]
               PROVE  \E j \in Prediction : predictions[j] = "right"
    OBVIOUS
  <2>1. k \in 1 .. Len(grades) /\ k \in DOMAIN grades
    BY <1>8
  <2>2. grades[k] = "right"
    BY <1>6, <2>1
  <2>3. PICK i \in 1 .. Len(back) : back[i] = "right"
    BY <1>5, <2>1, <2>2
  <2> QED BY <1>3, <2>3
<1>10. (\E j \in Prediction : predictions[j] = "right") => Winning
  BY DEF IInv, Settlements, GradesAreTheChains, Winning
<1> QED BY <1>7, <1>8, <1>9, <1>10, ScoreFits DEF Earned

\* A mined bet on the winning side is behind every score that bets give.
LEMMA FilledIsMined ==
  ASSUME IInv, Filled, NEW p \in Position, rows[p] > 0
  PROVE  OnChain(p) > 0
<1>1. PICK r \in Request : RowOf(r) = p /\ pc[r] = "done"
  BY DEF Filled
<1>2. PICK t \in Tx : t = TxOf[r]
  BY BetTypes
<1>3. betTx[t] = "success"
  BY <1>1, <1>2 DEF IInv, Verified
<1> DEFINE f == [u \in Tx |-> IF betTx[u] = "success" /\ <<Bet[u].user, Bet[u].side>> = p THEN Bet[u].amount ELSE 0]
<1>4. Len(Bet) \in Nat /\ f \in [1 .. Len(Bet) -> Nat] /\ t \in 1 .. Len(Bet)
  BY BetTypes
<1>5. f[t] = Bet[t].amount
  BY <1>1, <1>2, <1>3 DEF RowOf, Of
<1>6. Bet[t].amount > 0
  <2>1. \A S : \A q \in Seq(S) : \A k \in 1 .. Len(q) : q[k] \in S
    OBVIOUS
  <2>2. Bet[t] \in [user : User, side : Side, amount : Nat \ {0}]
    BY <1>4, <2>1, MirrorAssumption
  <2> QED BY <2>2
<1>7. OnChain(p) = Total(f, Len(Bet))
  BY DEF OnChain
<1> HIDE DEF f
<1>8. f[t] <= Total(f, Len(Bet)) /\ Total(f, Len(Bet)) \in Nat
  BY <1>4, TotalAtLeast, TotalNat
<1> QED BY <1>4, <1>5, <1>6, <1>7, <1>8

LEMMA BetsEarn ==
  ASSUME IInv, Filled, NEW outcomes \in BetOutcomes
  PROVE  Earned(Score(outcomes))
<1> DEFINE S == {side \in Side : dbSettled /\ rows[<<Owner, side>>] > 0}
<1>1. PICK sides \in SetToSeqs(S) : outcomes = [k \in DOMAIN sides |-> Correct(sides[k], dbOutcome)]
  BY DEF BetOutcomes
<1>2. PICK n : n = Cardinality(S)
  OBVIOUS
<1>3. n \in Nat
  <2>1. IsFiniteSet({})
    BY FS_EmptySet
  <2>2. IsFiniteSet({} \cup {"YES"})
    BY <2>1, FS_AddElement
  <2>3. IsFiniteSet(({} \cup {"YES"}) \cup {"NO"})
    BY <2>2, FS_AddElement
  <2>4. Side = ({} \cup {"YES"}) \cup {"NO"}
    BY DEF Side
  <2>5. S \subseteq Side
    OBVIOUS
  <2> HIDE DEF S
  <2> QED BY <1>2, <2>3, <2>4, <2>5, FS_Subset, FS_CardinalityType
<1>4. sides \in [1 .. n -> S]
  <2> HIDE DEF S
  <2> QED BY <1>2 DEF SetToSeqs
<1>5. outcomes \in [1 .. n -> BOOLEAN] /\ \A k \in 1 .. n : outcomes[k] = Correct(sides[k], dbOutcome)
  <2> HIDE DEF S
  <2>1. DOMAIN sides = 1 .. n
    BY <1>4
  <2>2. outcomes = [k \in 1 .. n |-> Correct(sides[k], dbOutcome)]
    BY <1>1, <2>1
  <2> QED BY <2>2 DEF Correct
<1>6. Len(outcomes) = n
  BY <1>3, <1>5
<1>7. ASSUME NEW k \in 1 .. n, outcomes[k] PROVE Winning
  <2>1. PICK side : side = sides[k]
    OBVIOUS
  <2>2. side \in Side /\ dbSettled /\ rows[<<Owner, side>>] > 0
    BY <1>4, <2>1
  <2>3. Correct(side, dbOutcome)
    BY <1>5, <1>7, <2>1
  <2>4. chainSettled /\ dbOutcome = chainOutcome
    BY <2>2 DEF IInv, Settlements, SettlementMirrorsChain
  <2>5. side = Winner
    BY <2>3, <2>4 DEF Correct, Winner
  <2>6. <<Owner, side>> \in Position
    BY <2>2, MirrorAssumption DEF Position
  <2>7. OnChain(<<Owner, side>>) > 0
    BY <2>2, <2>6, FilledIsMined
  <2> QED BY <2>4, <2>5, <2>7 DEF Winning
<1>8. Score(outcomes) \in Grade /\ (Score(outcomes) > 0 => \E k \in 1 .. n : outcomes[k])
  BY <1>3, <1>6, ScoreFits
<1> QED BY <1>7, <1>8 DEF Earned

\* The chain takes nothing back, and neither do the grades.
LEMMA WinningStays ==
  ASSUME IInv, [Next]_vars, Winning
  PROVE  Winning'
<1>1. chainSettled' /\ chainOutcome' = chainOutcome
  <2> USE DEF Winning, chain
  <2>1. CASE \E r \in Request : BetRequest(r)
    BY <2>1, BetSteps DEF IInv
  <2>2. CASE \E s \in Settler : SettlerRequest(s)
    BY <2>2 DEF SettlerRequest, SettlementCallFails, ReceiveSettlement,
         SettleMarket, RefuseSettlement, CheckSettlement, SendSettlement, FailSettlement, ConfirmSettlement,
         MarkSettled, RefreshScores, MarkPredictions, ListBettors, GradePredictions, GradeBets, UpdateScore, PassOver
  <2>3. CASE \E s \in Settler : MineSettlement(s)
    BY <2>3 DEF MineSettlement, SettleOnChain
  <2>4. CASE \E t \in Tx : MineBet(t) \/ RevertBet(t)
    BY <2>4 DEF MineBet, RevertBet
  <2>5. CASE \E outcome \in BOOLEAN : SettleElsewhere(outcome)
    BY <2>5 DEF SettleElsewhere, SettleOnChain
  <2>6. CASE (\E k \in Prediction : Predict(k)) \/ HandleSettled \/ Crash \/ Tick
    BY <2>6 DEF Predict, HandleSettled, Crash, Tick
  <2>7. CASE UNCHANGED vars
    BY <2>7 DEF vars
  <2> QED BY <2>1, <2>2, <2>3, <2>4, <2>5, <2>6, <2>7 DEF Next, BetRequest, SettlerRequest
<1>2. \A t \in Tx : betTx[t] = "success" => betTx'[t] = "success"
  <2>1. CASE \E r \in Request : BetRequest(r)
    BY <2>1, BetSteps DEF IInv, chain
  <2>2. CASE ~ \E r \in Request : BetRequest(r)
    BY <2>2, OtherSteps DEF IInv
  <2> QED BY <2>1, <2>2
<1>3. \A k \in Prediction : predictions[k] = "right" => predictions'[k] = "right"
  <2> USE DEF agents
  <2>1. CASE \E r \in Request : BetRequest(r)
    BY <2>1, BetSteps DEF IInv
  <2>2. ASSUME NEW s \in Settler, SettlerRequest(s) PROVE predictions' = predictions \/ MarkPredictions(s)
    BY <2>2 DEF SettlerRequest, SettlementCallFails, ReceiveSettlement,
         SettleMarket, RefuseSettlement, CheckSettlement, SendSettlement, FailSettlement, ConfirmSettlement,
         MarkSettled, RefreshScores, ListBettors, GradePredictions, GradeBets, UpdateScore, PassOver
  <2>3. ASSUME NEW s \in Settler, MarkPredictions(s)
        PROVE  \A k \in Prediction : predictions[k] = "right" => predictions'[k] = "right"
    BY <2>3 DEF MarkPredictions
  <2>4. ASSUME NEW k \in Prediction, Predict(k)
        PROVE  \A j \in Prediction : predictions[j] = "right" => predictions'[j] = "right"
    BY <2>4 DEF Predict, IInv, TablesOK
  <2>5. CASE \/ \E t \in Tx : MineBet(t) \/ RevertBet(t)
             \/ \E s \in Settler : MineSettlement(s)
             \/ \E outcome \in BOOLEAN : SettleElsewhere(outcome)
    BY <2>5, ChainSteps DEF IInv
  <2>6. CASE HandleSettled \/ Crash \/ Tick
    BY <2>6 DEF HandleSettled, Crash, Tick
  <2>7. CASE UNCHANGED vars
    BY <2>7 DEF vars
  <2> QED BY <2>1, <2>2, <2>3, <2>4, <2>5, <2>6, <2>7 DEF Next, BetRequest, SettlerRequest
<1>4. OnChain(<<Owner, Winner>>) > 0 => OnChain(<<Owner, Winner>>)' > 0
  <2> DEFINE f == [t \in Tx |-> IF betTx[t] = "success" /\ <<Bet[t].user, Bet[t].side>> = <<Owner, Winner>>
                                THEN Bet[t].amount ELSE 0]
             g == [t \in Tx |-> IF betTx'[t] = "success" /\ <<Bet[t].user, Bet[t].side>> = <<Owner, Winner>>
                                THEN Bet[t].amount ELSE 0]
  <2>1. Len(Bet) \in Nat /\ f \in [1 .. Len(Bet) -> Nat] /\ g \in [1 .. Len(Bet) -> Nat]
    BY BetTypes
  <2>2. \A t \in 1 .. Len(Bet) : f[t] <= g[t]
    BY <1>2, BetTypes
  <2>3. OnChain(<<Owner, Winner>>) = Total(f, Len(Bet))
    BY DEF OnChain
  <2>4. OnChain(<<Owner, Winner>>)' = Total(g, Len(Bet))
    <3>1. Winner' = Winner
      BY <1>1 DEF Winner
    <3> QED BY <3>1 DEF OnChain
  <2> HIDE DEF f, g
  <2>5. Total(f, Len(Bet)) <= Total(g, Len(Bet)) /\ Total(f, Len(Bet)) \in Nat /\ Total(g, Len(Bet)) \in Nat
    BY <2>1, <2>2, TotalMonotone, TotalNat
  <2> QED BY <2>3, <2>4, <2>5
<1> QED BY <1>1, <1>3, <1>4 DEF Winning

LEMMA FilledStays ==
  ASSUME IInv, Filled, [Next]_vars
  PROVE  Filled'
<1>1. CASE ~ \E r \in Request : BetRequest(r)
  <2>1. rows' = rows /\ \A r \in Request : pc[r] = "done" => pc'[r] = "done"
    BY <1>1, OtherSteps DEF IInv
  <2> QED BY <2>1 DEF Filled, RowOf, Of
<1>2. ASSUME NEW r \in Request, BetRequest(r) PROVE Filled'
  <2>1. \A q \in Request : pc[q] = "done" => pc'[q] = "done"
    BY <1>2 DEF BetRequest, PlaceBet, ConfirmBet, BetCallFails,
         CheckMarket, CheckExposure, VerifyBet, ReadRow, WriteRow, Step, Goto, IInv, TablesOK
  <2>2. CASE rows' = rows
    BY <2>1, <2>2 DEF Filled, RowOf, Of
  <2>3. CASE rows' # rows
    <3>1. Goto(r, "read", "done") /\ \E x : rows' = [rows EXCEPT ![RowOf(r)] = x]
      BY <1>2, <2>3 DEF BetRequest, PlaceBet, ConfirmBet, BetCallFails,
           CheckMarket, CheckExposure, VerifyBet, ReadRow, WriteRow, Step, database
    <3>2. pc'[r] = "done"
      BY <3>1 DEF Goto, IInv, TablesOK
    <3>3. \A p \in Position : p # RowOf(r) => rows'[p] = rows[p]
      BY <3>1 DEF IInv, TablesOK
    <3> QED BY <2>1, <3>2, <3>3 DEF Filled, RowOf, Of
  <2> QED BY <2>2, <2>3
<1> QED BY <1>1, <1>2

LEMMA ScoreMoves ==
  ASSUME ScoreInv, [Next]_vars
  PROVE  /\ score' = score \/ \E s \in Settler : score' = graded[s]
         /\ graded' = [s \in Settler |-> graded'[s]]
         /\ \A s \in Settler : \/ graded'[s] = graded[s] \/ graded'[s] = 0 \/ graded'[s] = Score(GradedPredictions)
                               \/ \E outcomes \in BetOutcomes : graded'[s] = Score(outcomes)
         /\ now' \in Nat /\ crashes' \in Nat
<1>1. graded = [s \in Settler |-> graded[s]] /\ now \in Nat /\ crashes \in Nat
  BY DEF ScoreInv
<1>2. CASE UNCHANGED <<score, graded, now, crashes>>
  BY <1>1, <1>2
<1>3. CASE Crash
  BY <1>1, <1>3 DEF Crash
<1>4. CASE Tick
  BY <1>1, <1>4 DEF Tick, agents
<1>5. ASSUME NEW s \in Settler, RefreshScores(s)
      PROVE  /\ score' = score \/ \E q \in Settler : score' = graded[q]
             /\ graded' = [q \in Settler |-> graded'[q]]
             /\ \A q \in Settler : \/ graded'[q] = graded[q] \/ graded'[q] = 0 \/ graded'[q] = Score(GradedPredictions)
                                   \/ \E outcomes \in BetOutcomes : graded'[q] = Score(outcomes)
             /\ now' \in Nat /\ crashes' \in Nat
  <2>1. UNCHANGED <<now, crashes>>
    BY <1>5 DEF RefreshScores, MarkPredictions, ListBettors, GradePredictions, GradeBets, UpdateScore, PassOver
  <2>2. score' = score \/ score' = graded[s]
    BY <1>5 DEF RefreshScores, MarkPredictions, ListBettors, GradePredictions, GradeBets, UpdateScore, PassOver, agents
  <2>3. \/ graded' = graded
        \/ \E x : /\ graded' = [graded EXCEPT ![s] = x]
                  /\ \/ x = 0 \/ x = Score(GradedPredictions)
                     \/ \E outcomes \in BetOutcomes : x = Score(outcomes)
    <3>1. CASE MarkPredictions(s) \/ ListBettors(s)
      BY <3>1 DEF MarkPredictions, ListBettors, agents
    <3>2. CASE GradePredictions(s)
      BY <3>2 DEF GradePredictions
    <3>3. CASE GradeBets(s)
      BY <3>3 DEF GradeBets
    <3>4. CASE UpdateScore(s) \/ PassOver(s)
      BY <3>4 DEF UpdateScore, PassOver
    <3> QED BY <1>5, <3>1, <3>2, <3>3, <3>4 DEF RefreshScores
  <2>4. CASE graded' = graded
    BY <1>1, <2>1, <2>2, <2>4
  <2>5. ASSUME NEW x, graded' = [graded EXCEPT ![s] = x],
               x = 0 \/ x = Score(GradedPredictions) \/ \E outcomes \in BetOutcomes : x = Score(outcomes)
        PROVE  /\ graded' = [q \in Settler |-> graded'[q]]
               /\ \A q \in Settler : \/ graded'[q] = graded[q] \/ graded'[q] = 0 \/ graded'[q] = Score(GradedPredictions)
                                     \/ \E outcomes \in BetOutcomes : graded'[q] = Score(outcomes)
    <3>1. graded'[s] = x /\ \A q \in Settler : q # s => graded'[q] = graded[q]
      BY <1>1, <2>5
    <3>2. graded' = [q \in Settler |-> graded'[q]]
      BY <1>1, <2>5
    <3> QED BY <2>5, <3>1, <3>2
  <2> QED BY <1>1, <2>1, <2>2, <2>3, <2>4, <2>5
<1>6. CASE \E r \in Request : BetRequest(r)
  <2>1. UNCHANGED <<agents, now, crashes>>
    BY <1>6 DEF BetRequest, PlaceBet, ConfirmBet, BetCallFails,
         CheckMarket, CheckExposure, VerifyBet, ReadRow, WriteRow, Step
  <2> QED BY <1>2, <2>1 DEF agents
<1>7. CASE \/ \E t \in Tx : MineBet(t) \/ RevertBet(t)
           \/ \E s \in Settler : MineSettlement(s)
           \/ \E outcome \in BOOLEAN : SettleElsewhere(outcome)
           \/ HandleSettled
  <2>1. UNCHANGED <<agents, now, crashes>>
    BY <1>7 DEF MineBet, RevertBet, MineSettlement, SettleElsewhere, HandleSettled
  <2> QED BY <1>2, <2>1 DEF agents
<1>8. CASE \E k \in Prediction : Predict(k)
  BY <1>2, <1>8 DEF Predict
<1>9. ASSUME NEW s \in Settler, SettlerRequest(s), ~RefreshScores(s)
      PROVE  UNCHANGED <<score, graded, now, crashes>>
  BY <1>9 DEF SettlerRequest, SettlementCallFails, ReceiveSettlement,
         SettleMarket, RefuseSettlement, CheckSettlement, SendSettlement, FailSettlement, ConfirmSettlement,
       MarkSettled, agents
<1>10. CASE UNCHANGED vars
  BY <1>2, <1>10 DEF vars, agents
<1>11. CASE \E s \in Settler : SettlerRequest(s)
  BY <1>2, <1>5, <1>9, <1>11
<1> QED BY <1>3, <1>4, <1>6, <1>7, <1>8, <1>10, <1>11 DEF Next, BetRequest, SettlerRequest

LEMMA ScoreNext == ScoreInv /\ [Next]_vars => ScoreInv'
<1> SUFFICES ASSUME ScoreInv, [Next]_vars PROVE ScoreInv'
  OBVIOUS
<1>1. IInv' /\ Filled'
  BY NextInv, FilledStays DEF ScoreInv
<1>2. Winning => Winning'
  BY WinningStays DEF ScoreInv
<1>3. \A x : Earned(x) => x \in Grade /\ (x > 0 => Winning')
  BY <1>2 DEF Earned
<1>4. Earned(score) /\ (\A s \in Settler : Earned(graded[s])) /\ Earned(Score(GradedPredictions))
      /\ (\A outcomes \in BetOutcomes : Earned(Score(outcomes))) /\ 0 \in Grade
  BY PredictionsEarn, BetsEarn, GradeIs DEF ScoreInv
<1>5. score' \in Grade /\ (score' > 0 => Winning')
  BY <1>3, <1>4, ScoreMoves
<1>6. ASSUME NEW s \in Settler PROVE graded'[s] \in Grade /\ (graded'[s] > 0 => Winning')
  BY <1>3, <1>4, ScoreMoves
<1>7. Earned(score)' /\ \A s \in Settler : Earned(graded[s])'
  BY <1>5, <1>6 DEF Earned
<1> QED BY <1>1, <1>7, ScoreMoves DEF ScoreInv

\* Nobody scores who has not won on chain, and grades are what the chain decided.
THEOREM ScoresAreEarned == Spec => []ScoreIsEarned
<1>1. Init => ScoreInv
  <2> SUFFICES ASSUME Init PROVE ScoreInv
    OBVIOUS
  <2>1. IInv
    BY InitInv
  <2>2. Filled /\ score = 0 /\ graded = [s \in Settler |-> 0] /\ now \in Nat /\ crashes \in Nat
    BY DEF Init, Filled
  <2>3. Earned(0)
    BY GradeIs DEF Earned
  <2> QED BY <2>1, <2>2, <2>3 DEF ScoreInv
<1>2. ScoreInv => ScoreIsEarned
  <2> SUFFICES ASSUME ScoreInv PROVE ScoreIsEarned
    OBVIOUS
  <2>1. graded \in [Settler -> Grade] /\ score \in Grade
    <3>1. [s \in Settler |-> graded[s]] \in [Settler -> Grade]
      BY DEF ScoreInv, Earned
    <3> QED BY <3>1 DEF ScoreInv, Earned
  <2>2. TypeOK
    <3>1. TablesOK /\ now \in Nat /\ crashes \in Nat
      BY DEF ScoreInv, IInv
    <3> QED BY <2>1, <3>1 DEF TypeOK
  <2>3. GradesAreTheChains
    BY DEF ScoreInv, IInv, Settlements
  <2>4. score > 0 => Winning
    BY DEF ScoreInv, Earned
  <2> QED BY <2>2, <2>3, <2>4 DEF ScoreIsEarned, GradesAreTheChains, Winning
<1> QED BY <1>1, <1>2, ScoreNext, PTL DEF Spec

-----------------------------------------------------------------------------
(* The event streams of Realtime, which share no variable with the mirror. *)

Phases == {"new", "listed", "redis", "bus", "closed"}
Events(box) == {q \in Seq(Publication) : \A k \in 1 .. Len(q) : q[k] \in box}
Once(q) == \A i, j \in 1 .. Len(q) : q[i] = q[j] => i = j

\* What one stream is, box being the outbox, n the number of rows stamped and
\* off whether there is no Redis: then it is on the bus, and knows what it has
\* sent.
Fit(ph, out, kn, la, qu, so, box, n, off) ==
  /\ ph \in Phases /\ kn \in SUBSET Publication /\ la \in 0 .. n
  /\ out \in Events(box) /\ so \in Events(box)
  /\ qu \in Events(box) /\ Len(qu) <= QueueLimit
  /\ off => ph # "redis" /\ Once(out) /\ \A k \in 1 .. Len(out) : out[k] \in kn

Unset == redis = "unset"
FitStream(s) == Fit(phase[s], sent[s], known[s], last[s], queue[s], socket[s], outbox, Len(stamped), Unset)

Publishing ==
  /\ stamped \in Seq(Publication) /\ Once(stamped)
  /\ outbox \subseteq {stamped[k] : k \in 1 .. Len(stamped)}
  /\ todo \in [Publication -> Seq(Channel)] /\ done \subseteq Publication
  /\ \A r \in Publication : todo[r] # <<>> => r \in outbox
  /\ redis \in {"unset", "up", "down"} /\ flips \in 0 .. MaxFlips

Streams ==
  /\ phase = [s \in Stream |-> phase[s]] /\ sent = [s \in Stream |-> sent[s]]
  /\ known = [s \in Stream |-> known[s]] /\ last = [s \in Stream |-> last[s]]
  /\ queue = [s \in Stream |-> queue[s]] /\ socket = [s \in Stream |-> socket[s]]

StreamInv == RealtimeAssumption /\ Publishing /\ Streams /\ \A s \in Stream : FitStream(s)

LEMMA StreamInit == RealtimeInit => StreamInv
<1> SUFFICES ASSUME RealtimeAssumption, RealtimeInit PROVE StreamInv
  BY RealtimeAssumption
<1>1. <<>> \in Seq(Channel) /\ <<>> \in Seq(Publication) /\ Len(<<>>) = 0
  OBVIOUS
<1>2. Publishing
  <2>1. MaxFlips \in Nat
    BY DEF RealtimeAssumption
  <2> QED BY <1>1, <2>1 DEF RealtimeInit, Publishing, Once
<1>3. Streams
  BY DEF RealtimeInit, Streams
<1>4. ASSUME NEW s \in Stream PROVE FitStream(s)
  <2>1. phase[s] = "new" /\ sent[s] = <<>> /\ known[s] = {} /\ last[s] = 0 /\ queue[s] = <<>> /\ socket[s] = <<>>
        /\ stamped = <<>>
    BY DEF RealtimeInit
  <2>2. QueueLimit \in Nat
    BY DEF RealtimeAssumption
  <2>3. <<>> \in Events(outbox)
    BY <1>1 DEF Events
  <2>4. "new" \in Phases /\ "new" # "redis"
    BY DEF Phases
  <2>5. Once(<<>>)
    BY DEF Once
  <2> QED BY <1>1, <2>1, <2>2, <2>3, <2>4, <2>5 DEF FitStream, Fit
<1> QED BY <1>2, <1>3, <1>4 DEF StreamInv

-----------------------------------------------------------------------------
(* Realtime: the publishers *)

LEMMA FitGrows ==
  ASSUME NEW ph, NEW out, NEW kn, NEW la, NEW qu, NEW so, NEW box, NEW n \in Nat, NEW off,
         NEW more, NEW m \in Nat, NEW off2, box \subseteq more, n <= m, off2 => off,
         Fit(ph, out, kn, la, qu, so, box, n, off)
  PROVE  Fit(ph, out, kn, la, qu, so, more, m, off2)
<1>1. Events(box) \subseteq Events(more)
  BY DEF Events
<1>2. la \in 0 .. m
  BY DEF Fit
<1> QED BY <1>1, <1>2 DEF Fit

\* A step of a publisher, or of Redis, that brings the streams nothing.
LEMMA StreamsStay ==
  ASSUME StreamInv, UNCHANGED stream, outbox \subseteq outbox', Len(stamped) \in Nat, Len(stamped') \in Nat,
         Len(stamped) <= Len(stamped'), Unset' => Unset
  PROVE  Streams' /\ \A s \in Stream : FitStream(s)'
<1>1. phase' = phase /\ sent' = sent /\ known' = known /\ last' = last /\ queue' = queue /\ socket' = socket
  BY DEF stream
<1>2. Streams'
  BY <1>1 DEF StreamInv, Streams
<1>3. ASSUME NEW s \in Stream PROVE FitStream(s)'
  <2>1. Fit(phase[s], sent[s], known[s], last[s], queue[s], socket[s], outbox, Len(stamped), Unset)
    BY DEF StreamInv, FitStream
  <2>2. Fit(phase[s], sent[s], known[s], last[s], queue[s], socket[s], outbox', Len(stamped'), Unset')
    BY <2>1, FitGrows
  <2> QED BY <1>1, <2>2 DEF FitStream
<1> QED BY <1>2, <1>3

LEMMA StampedLen == StreamInv => Len(stamped) \in Nat
BY DEF StreamInv, Publishing

LEMMA AppendIs ==
  ASSUME NEW X, NEW q \in Seq(X), NEW x \in X
  PROVE  /\ Append(q, x) \in Seq(X) /\ Len(Append(q, x)) = Len(q) + 1 /\ Len(q) \in Nat
         /\ Append(q, x)[Len(q) + 1] = x
         /\ \A k \in 1 .. Len(q) : Append(q, x)[k] = q[k]
OBVIOUS

LEMMA AppendEvents ==
  ASSUME NEW box, NEW q \in Events(box), NEW x \in Publication, x \in box
  PROVE  Append(q, x) \in Events(box)
<1>1. PICK a : a = Append(q, x)
  OBVIOUS
<1>2. q \in Seq(Publication) /\ \A k \in 1 .. Len(q) : q[k] \in box
  BY DEF Events
<1>3. /\ a \in Seq(Publication) /\ Len(a) = Len(q) + 1 /\ Len(q) \in Nat
      /\ a[Len(q) + 1] = x /\ \A k \in 1 .. Len(q) : a[k] = q[k]
  BY <1>1, <1>2, AppendIs
<1>4. ASSUME NEW k \in 1 .. Len(a) PROVE a[k] \in box
  <2>1. k = Len(q) + 1 \/ k \in 1 .. Len(q)
    BY <1>3
  <2> QED BY <1>2, <1>3, <2>1
<1> QED BY <1>1, <1>3, <1>4 DEF Events

LEMMA TailEvents ==
  ASSUME NEW box, NEW q \in Events(box), q # <<>>
  PROVE  /\ Tail(q) \in Events(box) /\ Len(q) \in Nat \ {0} /\ Len(Tail(q)) = Len(q) - 1
         /\ Head(q) \in Publication /\ Head(q) \in box
<1>1. q \in Seq(Publication) /\ \A k \in 1 .. Len(q) : q[k] \in box
  BY DEF Events
<1>2. PICK t : t = Tail(q)
  OBVIOUS
<1>3. /\ t \in Seq(Publication) /\ Len(t) = Len(q) - 1 /\ Len(q) \in Nat \ {0}
      /\ Head(q) = q[1] /\ \A k \in 1 .. Len(t) : t[k] = q[k + 1]
  BY <1>1, <1>2
<1>4. ASSUME NEW k \in 1 .. Len(t) PROVE t[k] \in box
  <2>1. k + 1 \in 1 .. Len(q) /\ t[k] = q[k + 1]
    BY <1>3
  <2> QED BY <1>1, <2>1
<1>5. q[1] \in Publication /\ q[1] \in box
  BY <1>1, <1>3
<1> QED BY <1>2, <1>3, <1>4, <1>5 DEF Events

LEMMA PutIs ==
  ASSUME NEW box, NEW q \in Events(box), Len(q) <= QueueLimit, QueueLimit \in Nat \ {0},
         NEW x \in Publication, x \in box
  PROVE  Put(q, x) \in Events(box) /\ Len(Put(q, x)) <= QueueLimit
<1>0. q \in Seq(Publication) /\ Len(q) \in Nat
  BY DEF Events
<1>1. CASE Len(q) < QueueLimit
  <2>1. Put(q, x) = Append(q, x)
    BY <1>1 DEF Put
  <2> QED BY <1>0, <1>1, <2>1, AppendEvents, AppendIs
<1>2. CASE ~(Len(q) < QueueLimit)
  <2>1. PICK t : t = Tail(q)
    OBVIOUS
  <2>2. q # <<>>
    BY <1>0, <1>2
  <2>3. t \in Events(box) /\ Len(t) = Len(q) - 1
    BY <2>1, <2>2, TailEvents
  <2>4. t \in Seq(Publication)
    BY <2>3 DEF Events
  <2>5. Put(q, x) = Append(t, x)
    BY <1>2, <2>1 DEF Put
  <2>6. Append(t, x) \in Events(box)
    BY <2>3, AppendEvents
  <2>7. Len(Append(t, x)) = Len(t) + 1
    BY <2>4, AppendIs
  <2> QED BY <1>0, <2>3, <2>5, <2>6, <2>7
<1> QED BY <1>1, <1>2

LEMMA PublisherKeeps ==
  ASSUME StreamInv, NEW r \in Publication, Stamp(r) \/ Store(r) \/ Abandon(r)
  PROVE  StreamInv'
<1>0. RealtimeAssumption'
  BY DEF StreamInv, RealtimeAssumption
<1>1. Publishing /\ stamped \in Seq(Publication) /\ Once(stamped) /\ Len(stamped) \in Nat
      /\ outbox \subseteq {stamped[k] : k \in 1 .. Len(stamped)}
  BY DEF StreamInv, Publishing
<1>2. CASE Stamp(r)
  <2>1. /\ r \notin {stamped[k] : k \in DOMAIN stamped} /\ stamped' = Append(stamped, r)
        /\ outbox' = outbox /\ todo' = todo /\ done' = done /\ redis' = redis /\ flips' = flips /\ UNCHANGED stream
    BY <1>2 DEF Stamp, Range
  <2>2. /\ stamped' \in Seq(Publication) /\ Len(stamped') = Len(stamped) + 1
        /\ stamped'[Len(stamped) + 1] = r /\ \A k \in 1 .. Len(stamped) : stamped'[k] = stamped[k]
    BY <1>1, <2>1, AppendIs
  <2>3. Once(stamped')
    <3>1. SUFFICES ASSUME NEW i \in 1 .. Len(stamped'), NEW j \in 1 .. Len(stamped'), stamped'[i] = stamped'[j] PROVE i = j
      BY DEF Once
    <3>2. (i = Len(stamped) + 1 \/ i \in 1 .. Len(stamped)) /\ (j = Len(stamped) + 1 \/ j \in 1 .. Len(stamped))
      BY <1>1, <2>2
    <3>3. \A k \in 1 .. Len(stamped) : stamped[k] # r
      BY <1>1, <2>1
    <3> QED BY <1>1, <2>2, <3>1, <3>2, <3>3 DEF Once
  <2>4. outbox' \subseteq {stamped'[k] : k \in 1 .. Len(stamped')}
    <3>1. SUFFICES ASSUME NEW e \in outbox PROVE \E k \in 1 .. Len(stamped') : e = stamped'[k]
      BY <2>1
    <3>2. PICK k \in 1 .. Len(stamped) : e = stamped[k]
      BY <1>1
    <3>3. k \in 1 .. Len(stamped')
      BY <1>1, <2>2
    <3> QED BY <2>2, <3>2, <3>3
  <2>5. Publishing'
    BY <1>1, <2>1, <2>2, <2>3, <2>4 DEF Publishing
  <2>6. Streams' /\ \A s \in Stream : FitStream(s)'
    BY <1>1, <2>1, <2>2, StreamsStay DEF Unset
  <2> QED BY <1>0, <2>5, <2>6 DEF StreamInv
<1>3. CASE Store(r)
  <2>1. /\ r \in {stamped[k] : k \in DOMAIN stamped} /\ stamped' = stamped
        /\ outbox' = outbox \cup {r} /\ todo' = [todo EXCEPT ![r] = Channels(r)]
        /\ done' = done /\ redis' = redis /\ flips' = flips /\ UNCHANGED stream
    BY <1>3 DEF Store, Range
  <2>2. Channels(r) \in Seq(Channel)
    <3>1. KeyOf[r] \in Key
      BY DEF StreamInv, RealtimeAssumption
    <3> DEFINE c(b, t) == [bus |-> b, topic |-> t]
    <3>2. c(TRUE, All) \in Channel /\ c(TRUE, KeyOf[r]) \in Channel
          /\ c(FALSE, All) \in Channel /\ c(FALSE, KeyOf[r]) \in Channel
      BY <3>1 DEF Channel
    <3>3. Channels(r) = <<c(TRUE, All), c(TRUE, KeyOf[r])>> \o
            (IF Unset THEN <<>> ELSE <<c(FALSE, All), c(FALSE, KeyOf[r])>>)
      BY DEF Channels, Unset
    <3> HIDE DEF c
    <3>4. <<c(TRUE, All), c(TRUE, KeyOf[r])>> \in Seq(Channel) /\ <<c(FALSE, All), c(FALSE, KeyOf[r])>> \in Seq(Channel)
      <4>1. \A X : \A a, b \in X : <<a, b>> \in Seq(X)
        OBVIOUS
      <4> QED BY <3>2, <4>1
    <3>5. \A p, q \in Seq(Channel) : p \o q \in Seq(Channel)
      OBVIOUS
    <3>6. <<>> \in Seq(Channel)
      OBVIOUS
    <3>7. PICK first, second : /\ first = <<c(TRUE, All), c(TRUE, KeyOf[r])>>
                               /\ second = (IF Unset THEN <<>> ELSE <<c(FALSE, All), c(FALSE, KeyOf[r])>>)
      OBVIOUS
    <3>8. first \in Seq(Channel) /\ second \in Seq(Channel)
      BY <3>4, <3>6, <3>7
    <3> QED BY <3>3, <3>5, <3>7, <3>8
  <2>3. Publishing'
    <3>1. todo' \in [Publication -> Seq(Channel)]
      BY <1>1, <2>1, <2>2 DEF Publishing
    <3>2. \A e \in Publication : todo'[e] # <<>> => e \in outbox'
      BY <1>1, <2>1 DEF Publishing
    <3>3. outbox' \subseteq {stamped'[k] : k \in 1 .. Len(stamped')}
      <4>1. DOMAIN stamped = 1 .. Len(stamped)
        BY <1>1
      <4> QED BY <1>1, <2>1, <4>1
    <3> QED BY <1>1, <2>1, <3>1, <3>2, <3>3 DEF Publishing
  <2>4. Streams' /\ \A s \in Stream : FitStream(s)'
    BY <1>1, <2>1, StreamsStay DEF Unset
  <2> QED BY <1>0, <2>3, <2>4 DEF StreamInv
<1>4. CASE Abandon(r)
  <2>1. /\ stamped' = stamped /\ outbox' = outbox /\ todo' = [todo EXCEPT ![r] = <<>>]
        /\ done' = done \cup {r} /\ redis' = redis /\ flips' = flips /\ UNCHANGED stream
    BY <1>4 DEF Abandon
  <2>2. Publishing'
    <3>1. todo' \in [Publication -> Seq(Channel)] /\ \A e \in Publication : todo'[e] # <<>> => e \in outbox'
      BY <1>1, <2>1 DEF Publishing
    <3> QED BY <1>1, <2>1, <3>1 DEF Publishing
  <2>3. Streams' /\ \A s \in Stream : FitStream(s)'
    BY <1>1, <2>1, StreamsStay DEF Unset
  <2> QED BY <1>0, <2>2, <2>3 DEF StreamInv
<1> QED BY <1>2, <1>3, <1>4

LEMMA PublishKeeps ==
  ASSUME StreamInv, NEW r \in Publication, Publish(r)
  PROVE  StreamInv'
<1>0. RealtimeAssumption'
  BY DEF StreamInv, RealtimeAssumption
<1>1. PICK to, lost : to = Head(todo[r]) /\ lost = (~to.bus /\ redis = "down")
  OBVIOUS
<1>2. /\ todo[r] # <<>> /\ todo' = [todo EXCEPT ![r] = IF lost THEN <<>> ELSE Tail(@)]
      /\ queue' = [s \in Stream |->
           IF to.bus /\ phase[s] = "bus" /\ TopicOf[s] = to.topic /\ Home[s] = Home[r]
           THEN Put(queue[s], r) ELSE queue[s]]
      /\ socket' = [s \in Stream |->
           IF ~to.bus /\ ~lost /\ phase[s] = "redis" /\ TopicOf[s] = to.topic
           THEN Append(socket[s], r) ELSE socket[s]]
      /\ done' = (IF todo'[r] = <<>> THEN done \cup {r} ELSE done)
      /\ stamped' = stamped /\ outbox' = outbox /\ phase' = phase /\ sent' = sent /\ known' = known /\ last' = last
      /\ redis' = redis /\ flips' = flips
  BY <1>1 DEF Publish
<1>3. Publishing /\ r \in outbox /\ todo[r] \in Seq(Channel)
  BY <1>2 DEF StreamInv, Publishing
<1>4. Publishing'
  <2>1. Tail(todo[r]) \in Seq(Channel) /\ <<>> \in Seq(Channel)
    BY <1>2, <1>3
  <2>2. PICK t : t = (IF lost THEN <<>> ELSE Tail(todo[r]))
    OBVIOUS
  <2>3. t \in Seq(Channel) /\ todo' = [todo EXCEPT ![r] = t]
    BY <1>2, <2>1, <2>2
  <2>4. todo' \in [Publication -> Seq(Channel)] /\ \A e \in Publication : todo'[e] # <<>> => e \in outbox'
    BY <1>2, <1>3, <2>3 DEF Publishing
  <2>5. done' \subseteq Publication
    BY <1>2, <1>3 DEF Publishing
  <2> QED BY <1>2, <1>3, <2>4, <2>5 DEF Publishing
<1>5. Streams'
  BY <1>2 DEF StreamInv, Streams
<1>6. ASSUME NEW s \in Stream PROVE FitStream(s)'
  <2>1. Fit(phase[s], sent[s], known[s], last[s], queue[s], socket[s], outbox, Len(stamped), Unset)
    BY DEF StreamInv, FitStream
  <2>2. QueueLimit \in Nat \ {0}
    BY DEF StreamInv, RealtimeAssumption
  <2>3. queue[s] \in Events(outbox) /\ Len(queue[s]) <= QueueLimit /\ socket[s] \in Events(outbox)
    BY <2>1 DEF Fit
  <2>4. queue'[s] \in {queue[s], Put(queue[s], r)} /\ socket'[s] \in {socket[s], Append(socket[s], r)}
    BY <1>2
  <2>5. queue'[s] \in Events(outbox) /\ Len(queue'[s]) <= QueueLimit
    BY <1>3, <2>2, <2>3, <2>4, PutIs
  <2>6. socket'[s] \in Events(outbox)
    BY <1>3, <2>3, <2>4, AppendEvents
  <2>7. Fit(phase[s], sent[s], known[s], last[s], queue'[s], socket'[s], outbox, Len(stamped), Unset)
    BY <2>1, <2>5, <2>6 DEF Fit
  <2> QED BY <1>2, <2>7 DEF FitStream, Unset
<1> QED BY <1>0, <1>4, <1>5, <1>6 DEF StreamInv

-----------------------------------------------------------------------------
(* Realtime: the streams *)

\* A step of one stream leaves the others and the publishers as they were.
LEMMA OneStream ==
  ASSUME StreamInv, NEW s \in Stream, NEW ph, NEW out, NEW kn, NEW la, NEW qu, NEW so,
         phase' = [phase EXCEPT ![s] = ph], sent' = [sent EXCEPT ![s] = out], known' = [known EXCEPT ![s] = kn],
         last' = [last EXCEPT ![s] = la], queue' = [queue EXCEPT ![s] = qu], socket' = [socket EXCEPT ![s] = so],
         UNCHANGED publisher, redis' = redis, flips' = flips,
         Fit(ph, out, kn, la, qu, so, outbox, Len(stamped), Unset)
  PROVE  StreamInv'
<1>0. RealtimeAssumption'
  BY DEF StreamInv, RealtimeAssumption
<1>1. Streams
  BY DEF StreamInv
<1>2. /\ phase'[s] = ph /\ sent'[s] = out /\ known'[s] = kn /\ last'[s] = la /\ queue'[s] = qu /\ socket'[s] = so
      /\ \A t \in Stream : t # s => /\ phase'[t] = phase[t] /\ sent'[t] = sent[t] /\ known'[t] = known[t]
                                    /\ last'[t] = last[t] /\ queue'[t] = queue[t] /\ socket'[t] = socket[t]
  BY <1>1 DEF Streams
<1>3. Streams'
  BY <1>1 DEF Streams
<1>4. stamped' = stamped /\ outbox' = outbox /\ todo' = todo /\ done' = done
  BY DEF publisher
<1>5. Publishing'
  BY <1>4 DEF StreamInv, Publishing
<1>6. ASSUME NEW t \in Stream PROVE FitStream(t)'
  <2>1. CASE t = s
    BY <1>2, <1>4, <2>1 DEF FitStream, Unset
  <2>2. CASE t # s
    BY <1>2, <1>4, <2>2 DEF StreamInv, FitStream, Unset
  <2> QED BY <2>1, <2>2
<1> QED BY <1>0, <1>3, <1>5, <1>6 DEF StreamInv

LEMMA Same ==
  ASSUME StreamInv, NEW s \in Stream
  PROVE  /\ phase = [phase EXCEPT ![s] = phase[s]] /\ sent = [sent EXCEPT ![s] = sent[s]]
         /\ known = [known EXCEPT ![s] = known[s]] /\ last = [last EXCEPT ![s] = last[s]]
         /\ queue = [queue EXCEPT ![s] = queue[s]] /\ socket = [socket EXCEPT ![s] = socket[s]]
<1>1. Streams
  BY DEF StreamInv
<1> QED BY <1>1 DEF Streams

\* The rows a stream forwards are in the outbox and new to it.
LEMMA ForwardIs ==
  ASSUME StreamInv, NEW s \in Stream, NEW E \in SUBSET outbox, Forward(s, E)
  PROVE  \E out, kn, la :
           /\ sent' = [sent EXCEPT ![s] = out] /\ known' = [known EXCEPT ![s] = kn] /\ last' = [last EXCEPT ![s] = la]
           /\ kn \in SUBSET Publication /\ la \in 0 .. Len(stamped) /\ out \in Events(outbox)
           /\ Unset => Once(out) /\ \A k \in 1 .. Len(out) : out[k] \in kn
<1>1. PICK new : new = InOrder(E \ known[s])
  OBVIOUS
<1>2. /\ sent' = [sent EXCEPT ![s] = @ \o new] /\ known' = [known EXCEPT ![s] = @ \cup Range(new)]
      /\ last' = [last EXCEPT ![s] = IF new = <<>> THEN @ ELSE At(new[Len(new)])]
  BY <1>1 DEF Forward
<1>3. /\ stamped \in Seq(Publication) /\ Once(stamped) /\ outbox \subseteq {stamped[k] : k \in 1 .. Len(stamped)}
      /\ Len(stamped) \in Nat /\ DOMAIN stamped = 1 .. Len(stamped)
  BY DEF StreamInv, Publishing
<1>4. new = Keep(stamped, E \ known[s])
  BY <1>1 DEF InOrder, Keep, Keep, Picked, Picked
<1>5. /\ new \in Seq(Publication) /\ Len(new) \in Nat /\ DOMAIN new = 1 .. Len(new)
      /\ \A k \in 1 .. Len(new) : new[k] \in E \ known[s]
      /\ Once(new)
  <2>1. /\ new \in Seq(Publication)
        /\ \A k \in 1 .. Len(new) : new[k] \in E \ known[s] /\ \E i \in 1 .. Len(stamped) : new[k] = stamped[i]
        /\ Once(stamped) => Once(new)
    <3>1. PICK S : S = E \ known[s]
      OBVIOUS
    <3>2. /\ Keep(stamped, S) \in Seq(Publication)
          /\ \A k \in 1 .. Len(Keep(stamped, S)) : Keep(stamped, S)[k] \in S /\ \E i \in 1 .. Len(stamped) : Keep(stamped, S)[k] = stamped[i]
          /\ (\A i, j \in 1 .. Len(stamped) : stamped[i] = stamped[j] => i = j)
             => \A i, j \in 1 .. Len(Keep(stamped, S)) : Keep(stamped, S)[i] = Keep(stamped, S)[j] => i = j
      BY <1>3, KeepIs
    <3> QED BY <1>4, <3>1, <3>2 DEF Once
  <2> QED BY <1>3, <2>1
<1>6. Fit(phase[s], sent[s], known[s], last[s], queue[s], socket[s], outbox, Len(stamped), Unset)
  BY DEF StreamInv, FitStream
<1>7. /\ known[s] \in SUBSET Publication /\ last[s] \in 0 .. Len(stamped) /\ sent[s] \in Seq(Publication)
      /\ Len(sent[s]) \in Nat /\ \A k \in 1 .. Len(sent[s]) : sent[s][k] \in outbox
      /\ Unset => Once(sent[s]) /\ \A k \in 1 .. Len(sent[s]) : sent[s][k] \in known[s]
  BY <1>6 DEF Fit, Events
<1>8. PICK out, kn, la : /\ out = sent[s] \o new /\ kn = known[s] \cup {new[k] : k \in 1 .. Len(new)}
                         /\ la = IF new = <<>> THEN last[s] ELSE At(new[Len(new)])
  OBVIOUS
<1>9. sent' = [sent EXCEPT ![s] = out] /\ known' = [known EXCEPT ![s] = kn] /\ last' = [last EXCEPT ![s] = la]
  <2>1. Range(new) = {new[k] : k \in 1 .. Len(new)}
    BY <1>5 DEF Range
  <2> QED BY <1>2, <1>8, <2>1
<1>10. kn \in SUBSET Publication
  <2>1. \A k \in 1 .. Len(new) : new[k] \in Publication
    BY <1>5
  <2> QED BY <1>7, <1>8, <2>1
<1>11. la \in 0 .. Len(stamped)
  <2>1. CASE new = <<>>
    BY <1>7, <1>8, <2>1
  <2>2. CASE new # <<>>
    <3>1. PICK e : e = new[Len(new)]
      OBVIOUS
    <3>2. e \in outbox
      BY <1>5, <2>2, <3>1
    <3>3. PICK i \in 1 .. Len(stamped) : stamped[i] = e
      BY <1>3, <3>2
    <3>4. At(e) \in 1 .. Len(stamped)
      BY <1>3, <3>3 DEF At
    <3> QED BY <1>3, <1>8, <2>2, <3>1, <3>4
  <2> QED BY <2>1, <2>2
<1>12. /\ out \in Seq(Publication) /\ Len(out) = Len(sent[s]) + Len(new)
       /\ \A k \in 1 .. Len(out) : \/ k \in 1 .. Len(sent[s]) /\ out[k] = sent[s][k]
                                   \/ k - Len(sent[s]) \in 1 .. Len(new) /\ out[k] = new[k - Len(sent[s])]
  <2>1. PICK p \in Seq(Publication), q \in Seq(Publication) : p = sent[s] /\ q = new
    BY <1>5, <1>7
  <2>2. PICK l \in Nat, m \in Nat : l = Len(p) /\ m = Len(q)
    OBVIOUS
  <2>3. p \o q \in Seq(Publication) /\ Len(p \o q) = l + m
    BY <2>2
  <2>4. ASSUME NEW k \in 1 .. l + m
        PROVE (k \in 1 .. l /\ (p \o q)[k] = p[k]) \/ (k - l \in 1 .. m /\ (p \o q)[k] = q[k - l])
    BY <2>2
  <2> QED BY <1>8, <2>1, <2>2, <2>3, <2>4
<1>13. out \in Events(outbox)
  <2>1. ASSUME NEW k \in 1 .. Len(out) PROVE out[k] \in outbox
    BY <1>5, <1>7, <1>12
  <2> QED BY <1>12, <2>1 DEF Events
<1>14. ASSUME Unset PROVE Once(out) /\ \A k \in 1 .. Len(out) : out[k] \in kn
  <2>1. \A k \in 1 .. Len(out) : out[k] \in kn
    BY <1>7, <1>8, <1>12, <1>14
  <2>2. Once(sent[s]) /\ \A k \in 1 .. Len(sent[s]) : sent[s][k] \in known[s]
    BY <1>7, <1>14
  <2>3. SUFFICES ASSUME NEW i \in 1 .. Len(out), NEW j \in 1 .. Len(out), out[i] = out[j] PROVE i = j
    BY <2>1 DEF Once
  <2>4. CASE i \in 1 .. Len(sent[s]) /\ out[i] = sent[s][i] /\ j \in 1 .. Len(sent[s]) /\ out[j] = sent[s][j]
    BY <2>2, <2>3, <2>4 DEF Once
  <2>5. CASE i - Len(sent[s]) \in 1 .. Len(new) /\ out[i] = new[i - Len(sent[s])] /\ j \in 1 .. Len(sent[s]) /\ out[j] = sent[s][j]
    BY <1>5, <2>2, <2>3, <2>5
  <2>6. CASE i \in 1 .. Len(sent[s]) /\ out[i] = sent[s][i] /\ j - Len(sent[s]) \in 1 .. Len(new) /\ out[j] = new[j - Len(sent[s])]
    BY <1>5, <2>2, <2>3, <2>6
  <2>7. CASE /\ i - Len(sent[s]) \in 1 .. Len(new) /\ out[i] = new[i - Len(sent[s])]
             /\ j - Len(sent[s]) \in 1 .. Len(new) /\ out[j] = new[j - Len(sent[s])]
    <3>1. i - Len(sent[s]) = j - Len(sent[s])
      BY <1>5, <2>3, <2>7 DEF Once
    <3> QED BY <1>7, <1>12, <3>1
  <2> QED BY <1>12, <2>4, <2>5, <2>6, <2>7
<1> QED BY <1>9, <1>10, <1>11, <1>13, <1>14

LEMMA ForwardKeeps ==
  ASSUME StreamInv, NEW s \in Stream, NEW E \in SUBSET outbox, Forward(s, E), NEW ph \in Phases, NEW qu \in Events(outbox),
         phase' = [phase EXCEPT ![s] = ph], ph # "redis", queue' = [queue EXCEPT ![s] = qu], Len(qu) <= QueueLimit,
         UNCHANGED <<publisher, socket, redis, flips>>
  PROVE  StreamInv'
<1>1. PICK out, kn, la :
           /\ sent' = [sent EXCEPT ![s] = out] /\ known' = [known EXCEPT ![s] = kn] /\ last' = [last EXCEPT ![s] = la]
           /\ kn \in SUBSET Publication /\ la \in 0 .. Len(stamped) /\ out \in Events(outbox)
           /\ Unset => Once(out) /\ \A k \in 1 .. Len(out) : out[k] \in kn
  BY ForwardIs
<1>2. socket[s] \in Events(outbox)
  BY DEF StreamInv, FitStream, Fit
<1>3. Fit(ph, out, kn, la, qu, socket[s], outbox, Len(stamped), Unset)
  BY <1>1, <1>2 DEF Fit
<1>4. socket' = [socket EXCEPT ![s] = socket[s]]
  BY Same
<1> QED BY <1>1, <1>3, <1>4, OneStream

LEMMA StreamKeeps ==
  ASSUME StreamInv, NEW s \in Stream, Streaming(s) \/ Disconnect(s)
  PROVE  StreamInv'
<1>1. Fit(phase[s], sent[s], known[s], last[s], queue[s], socket[s], outbox, Len(stamped), Unset)
  BY DEF StreamInv, FitStream
<1>2. /\ sent[s] \in Events(outbox) /\ socket[s] \in Events(outbox) /\ queue[s] \in Events(outbox)
      /\ Len(queue[s]) <= QueueLimit /\ phase[s] \in Phases
  BY <1>1 DEF Fit
<1>3. <<>> \in Events(outbox) /\ Len(<<>>) <= QueueLimit
  BY DEF Events, StreamInv, RealtimeAssumption
<1>4. CASE Connect(s)
  <2>1. Forward(s, Recent(s)) /\ phase' = [phase EXCEPT ![s] = "listed"] /\ UNCHANGED <<publisher, queue, socket, redis, flips>>
    BY <1>4 DEF Connect
  <2>2. Recent(s) \in SUBSET outbox
    BY DEF Recent, Latest
  <2>3. queue' = [queue EXCEPT ![s] = queue[s]]
    BY <2>1, Same
  <2>4. "listed" \in Phases /\ "listed" # "redis"
    BY DEF Phases
  <2> QED BY <1>2, <2>1, <2>2, <2>3, <2>4, ForwardKeeps
<1>5. CASE Subscribe(s)
  <2>1. PICK ph : ph = IF redis = "up" THEN "redis" ELSE "bus"
    OBVIOUS
  <2>2. phase' = [phase EXCEPT ![s] = ph] /\ UNCHANGED <<publisher, sent, known, last, queue, socket, redis, flips>>
    BY <1>5, <2>1 DEF Subscribe
  <2>3. Fit(ph, sent[s], known[s], last[s], queue[s], socket[s], outbox, Len(stamped), Unset)
    BY <1>1, <2>1 DEF Fit, Phases, Unset
  <2>4. /\ sent' = [sent EXCEPT ![s] = sent[s]] /\ known' = [known EXCEPT ![s] = known[s]]
        /\ last' = [last EXCEPT ![s] = last[s]] /\ queue' = [queue EXCEPT ![s] = queue[s]]
        /\ socket' = [socket EXCEPT ![s] = socket[s]]
    BY <2>2, Same
  <2>5. UNCHANGED publisher /\ redis' = redis /\ flips' = flips /\ phase' = [phase EXCEPT ![s] = ph]
    BY <2>2
  <2> QED BY <2>3, <2>4, <2>5, OneStream
<1>6. CASE TakeRedis(s)
  <2>1. /\ phase[s] = "redis" /\ redis = "up" /\ socket[s] # <<>>
        /\ sent' = [sent EXCEPT ![s] = Append(sent[s], Head(socket[s]))]
        /\ socket' = [socket EXCEPT ![s] = Tail(socket[s])]
        /\ UNCHANGED <<publisher, phase, known, last, queue, redis, flips>>
    BY <1>6 DEF TakeRedis
  <2>2. PICK e, t : e = Head(socket[s]) /\ t = Tail(socket[s])
    OBVIOUS
  <2>3. e \in Publication /\ e \in outbox /\ t \in Events(outbox)
    BY <1>2, <2>1, <2>2, TailEvents
  <2>4. Append(sent[s], e) \in Events(outbox)
    BY <1>2, <2>3, AppendEvents
  <2>5. Fit(phase[s], Append(sent[s], e), known[s], last[s], queue[s], t, outbox, Len(stamped), Unset)
    BY <1>1, <2>1, <2>3, <2>4 DEF Fit, Unset
  <2>7. /\ phase' = [phase EXCEPT ![s] = phase[s]] /\ known' = [known EXCEPT ![s] = known[s]]
        /\ last' = [last EXCEPT ![s] = last[s]] /\ queue' = [queue EXCEPT ![s] = queue[s]]
    BY <2>1, Same
  <2>6. PICK out : out = Append(sent[s], e)
    OBVIOUS
  <2>8. /\ UNCHANGED publisher /\ redis' = redis /\ flips' = flips
        /\ sent' = [sent EXCEPT ![s] = out] /\ socket' = [socket EXCEPT ![s] = t]
    BY <2>1, <2>2, <2>6
  <2>9. Fit(phase[s], out, known[s], last[s], queue[s], t, outbox, Len(stamped), Unset)
    BY <2>5, <2>6
  <2> QED BY <2>7, <2>8, <2>9, OneStream
<1>7. CASE FallBack(s)
  <2>1. /\ phase' = [phase EXCEPT ![s] = "bus"] /\ socket' = [socket EXCEPT ![s] = <<>>]
        /\ UNCHANGED <<publisher, sent, known, last, queue, redis, flips>>
    BY <1>7 DEF FallBack
  <2>2. Fit("bus", sent[s], known[s], last[s], queue[s], <<>>, outbox, Len(stamped), Unset)
    BY <1>1, <1>3 DEF Fit, Phases
  <2>3. /\ sent' = [sent EXCEPT ![s] = sent[s]] /\ known' = [known EXCEPT ![s] = known[s]]
        /\ last' = [last EXCEPT ![s] = last[s]] /\ queue' = [queue EXCEPT ![s] = queue[s]]
    BY <2>1, Same
  <2>4. /\ UNCHANGED publisher /\ redis' = redis /\ flips' = flips
        /\ phase' = [phase EXCEPT ![s] = "bus"] /\ socket' = [socket EXCEPT ![s] = <<>>]
    BY <2>1
  <2> QED BY <2>2, <2>3, <2>4, OneStream
<1>8. CASE Take(s)
  <2>1. /\ phase[s] = "bus" /\ queue[s] # <<>> /\ Forward(s, {Head(queue[s])})
        /\ queue' = [queue EXCEPT ![s] = Tail(queue[s])]
        /\ UNCHANGED <<publisher, phase, socket, redis, flips>>
    BY <1>8 DEF Take
  <2>2. PICK e, t : e = Head(queue[s]) /\ t = Tail(queue[s])
    OBVIOUS
  <2>3. e \in outbox /\ t \in Events(outbox) /\ Len(t) = Len(queue[s]) - 1 /\ Len(queue[s]) \in Nat
    BY <1>2, <2>1, <2>2, TailEvents
  <2>4. {e} \in SUBSET outbox
    BY <2>3
  <2>5. Len(t) <= QueueLimit
    BY <1>2, <2>3 DEF StreamInv, RealtimeAssumption
  <2>6. phase' = [phase EXCEPT ![s] = "bus"] /\ "bus" \in Phases /\ "bus" # "redis"
    BY <2>1, Same DEF Phases
  <2> QED BY <2>1, <2>2, <2>3, <2>4, <2>5, <2>6, ForwardKeeps
<1>9. CASE Poll(s)
  <2>1. phase[s] = "bus" /\ Forward(s, Since(s)) /\ UNCHANGED <<publisher, phase, queue, socket, redis, flips>>
    BY <1>9 DEF Poll
  <2>2. Since(s) \in SUBSET outbox
    BY DEF Since, Earliest
  <2>3. phase' = [phase EXCEPT ![s] = "bus"] /\ "bus" \in Phases /\ "bus" # "redis" /\ queue' = [queue EXCEPT ![s] = queue[s]]
    BY <2>1, Same DEF Phases
  <2> QED BY <1>2, <2>1, <2>2, <2>3, ForwardKeeps
<1>10. CASE Disconnect(s)
  <2>1. /\ phase' = [phase EXCEPT ![s] = "closed"] /\ queue' = [queue EXCEPT ![s] = <<>>]
        /\ socket' = [socket EXCEPT ![s] = <<>>]
        /\ UNCHANGED <<publisher, sent, known, last, redis, flips>>
    BY <1>10 DEF Disconnect
  <2>2. Fit("closed", sent[s], known[s], last[s], <<>>, <<>>, outbox, Len(stamped), Unset)
    BY <1>1, <1>3 DEF Fit, Phases
  <2>3. sent' = [sent EXCEPT ![s] = sent[s]] /\ known' = [known EXCEPT ![s] = known[s]] /\ last' = [last EXCEPT ![s] = last[s]]
    BY <2>1, Same
  <2> QED BY <2>1, <2>2, <2>3, OneStream
<1> QED BY <1>4, <1>5, <1>6, <1>7, <1>8, <1>9, <1>10 DEF Streaming

LEMMA FlipKeeps ==
  ASSUME StreamInv, Flip
  PROVE  StreamInv'
<1>0. RealtimeAssumption'
  BY DEF StreamInv, RealtimeAssumption
<1>1. /\ redis # "unset" /\ flips < MaxFlips /\ flips' = flips + 1 /\ redis' \in {"up", "down"}
      /\ UNCHANGED publisher /\ UNCHANGED stream
  BY DEF Flip
<1>2. stamped' = stamped /\ outbox' = outbox /\ todo' = todo /\ done' = done
  BY <1>1 DEF publisher
<1>3. flips' \in 0 .. MaxFlips
  BY <1>1 DEF StreamInv, Publishing, RealtimeAssumption
<1>4. Publishing'
  BY <1>1, <1>2, <1>3 DEF StreamInv, Publishing
<1>5. Streams' /\ \A s \in Stream : FitStream(s)'
  <2>1. ~Unset'
    BY <1>1 DEF Unset
  <2> QED BY <1>1, <1>2, <2>1, StampedLen, StreamsStay
<1> QED BY <1>0, <1>4, <1>5 DEF StreamInv

LEMMA StreamStep == StreamInv /\ [RealtimeNext]_realtimeVars => StreamInv'
<1> SUFFICES ASSUME StreamInv, [RealtimeNext]_realtimeVars PROVE StreamInv'
  OBVIOUS
<1>1. ASSUME NEW r \in Publication, Stamp(r) \/ Store(r) \/ Publish(r) \/ Abandon(r) PROVE StreamInv'
  BY <1>1, PublisherKeeps, PublishKeeps
<1>2. CASE UNCHANGED realtimeVars
  <2>1. UNCHANGED publisher /\ UNCHANGED stream /\ redis' = redis /\ flips' = flips
    BY <1>2 DEF realtimeVars
  <2>2. stamped' = stamped /\ outbox' = outbox /\ todo' = todo /\ done' = done
    BY <2>1 DEF publisher
  <2>3. RealtimeAssumption' /\ Publishing'
    BY <2>1, <2>2 DEF StreamInv, Publishing, RealtimeAssumption
  <2>4. Streams' /\ \A s \in Stream : FitStream(s)'
    BY <2>1, <2>2, StampedLen, StreamsStay DEF Unset
  <2> QED BY <2>3, <2>4 DEF StreamInv
<1> QED BY <1>1, <1>2, StreamKeeps, FlipKeeps DEF RealtimeNext

LEMMA StreamSafe == StreamInv => StreamIsSound
<1> SUFFICES ASSUME StreamInv PROVE StreamIsSound
  OBVIOUS
<1>1. /\ stamped \in Seq(Publication) /\ DOMAIN stamped = 1 .. Len(stamped) /\ Once(stamped)
      /\ Publishing
  <2>1. Publishing
    BY DEF StreamInv
  <2>2. stamped \in Seq(Publication) /\ Once(stamped)
    BY <2>1 DEF Publishing
  <2>3. \A S : \A q \in Seq(S) : DOMAIN q = 1 .. Len(q)
    OBVIOUS
  <2> QED BY <2>1, <2>2, <2>3
<1>2. ASSUME NEW s \in Stream
      PROVE  /\ phase[s] \in Phases /\ sent[s] \in Seq(Publication) /\ known[s] \subseteq Publication
             /\ last[s] \in 0 .. Len(stamped) /\ queue[s] \in Seq(Publication) /\ Len(queue[s]) <= QueueLimit
             /\ socket[s] \in Seq(Publication)
             /\ Range(sent[s]) \subseteq outbox
             /\ Unset => IsInjective(sent[s])
  <2>1. Fit(phase[s], sent[s], known[s], last[s], queue[s], socket[s], outbox, Len(stamped), Unset)
    BY DEF StreamInv, FitStream
  <2>2. sent[s] \in Seq(Publication) /\ \A k \in 1 .. Len(sent[s]) : sent[s][k] \in outbox
    BY <2>1 DEF Fit, Events
  <2>3. DOMAIN sent[s] = 1 .. Len(sent[s])
    BY <2>2
  <2>4. Range(sent[s]) \subseteq outbox
    BY <2>2, <2>3 DEF Range
  <2>5. Unset => IsInjective(sent[s])
    BY <2>1, <2>3 DEF Fit, Once, IsInjective
  <2> QED BY <2>1, <2>4, <2>5 DEF Fit, Events
<1>3. RealtimeTypeOK
  <2>1. IsInjective(stamped) /\ outbox \subseteq Range(stamped)
    BY <1>1 DEF Publishing, Once, IsInjective, Range
  <2>2. phase \in [Stream -> Phases]
    <3>1. [s \in Stream |-> phase[s]] \in [Stream -> Phases]
      BY <1>2
    <3> QED BY <3>1 DEF StreamInv, Streams
  <2> QED BY <1>1, <1>2, <2>1, <2>2 DEF Publishing, RealtimeTypeOK, Phases
<1>4. SentIsStored
  BY <1>2 DEF SentIsStored
<1>5. NoRepeats
  BY <1>2 DEF NoRepeats, Unset
<1> QED BY <1>3, <1>4, <1>5 DEF StreamIsSound

\* However publishers, streams, crashes and Redis interleave, a client is shown
\* nothing that the outbox does not hold, and without Redis nothing twice.
THEOREM StreamIsSoundHolds == RealtimeSpec => []StreamIsSound
<1>1. RealtimeInit => StreamInv
  BY StreamInit
<1>2. StreamInv /\ [RealtimeNext]_realtimeVars => StreamInv'
  BY StreamStep
<1>3. StreamInv => StreamIsSound
  BY StreamSafe
<1> QED BY <1>1, <1>2, <1>3, PTL DEF RealtimeSpec
=============================================================================
