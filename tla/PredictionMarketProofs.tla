----------------------- MODULE PredictionMarketProofs -----------------------
(***************************************************************************)
(* Proofs about PredictionMarket, for any number of bettors, any amounts,  *)
(* any exposure limit, window and fee the constructor accepts.             *)
(***************************************************************************)
EXTENDS PredictionMarket, SumTheorems

\* What each bettor is owed, as the table that Outstanding adds up.
OwedTable == [u \in Bettor |-> Owed(u)]

OwedTableOK == OwedTable \in [Bettor -> Nat]

-----------------------------------------------------------------------------
(* Arithmetic of one payout. *)

\* A share of a pool that is no smaller than the winning side is at least the stake.
LEMMA ShareCoversStake ==
  ASSUME NEW s \in Nat, NEW w \in Nat \ {0}, NEW x \in Nat, w <= x
  PROVE  (s * x) \div w \in Nat /\ (s * x) \div w >= s
<1>1. s * x \in Nat /\ s * w \in Nat /\ s * w <= s * x
  OBVIOUS
<1>2. PICK gross \in Nat : gross = (s * x) \div w /\ s * x <= gross * w + (w - 1)
  BY <1>1, FloorBounds
<1>3. s * w <= gross * w + (w - 1)
  BY <1>1, <1>2
<1>4. gross >= s
  <2>1. SUFFICES ASSUME gross + 1 <= s PROVE FALSE
    OBVIOUS
  <2>2. (gross + 1) * w <= s * w
    BY <2>1
  <2> QED BY <1>3, <2>2
<1> QED BY <1>2, <1>4

\* A fee of at most 10% is never more than the profit it is taken from.
LEMMA FeeWithinProfit ==
  ASSUME NEW profit \in Nat, NEW bps \in 0 .. 1000
  PROVE  (profit * bps) \div 10000 \in Nat /\ (profit * bps) \div 10000 <= profit
<1>1. profit * bps \in Nat /\ profit * bps <= profit * 10000
  OBVIOUS
<1>2. PICK fee \in Nat : fee = (profit * bps) \div 10000 /\ fee * 10000 <= profit * bps
  BY <1>1, FloorBounds
<1>3. fee <= profit
  BY <1>1, <1>2
<1> QED BY <1>2, <1>3

\* The same for the operators of the model, while winners are being paid.
LEMMA PayoutBounds ==
  ASSUME TypeOK, PayingOut, NEW s \in Nat
  PROVE  /\ Payout(s) \in Nat /\ Payout(s) >= s
         /\ Profit(s) = Payout(s) - s
         /\ Fee(s) \in Nat /\ Fee(s) <= Profit(s)
         /\ Payout(s) - Fee(s) >= s
<1>1. WinningPool \in Nat \ {0} /\ Pool \in Nat /\ WinningPool <= Pool
  BY DEF TypeOK, PayingOut, WinningPool, Pool
<1>2. FeeBps \in 0 .. 1000
  BY ConstantsAssumption
<1>3. Payout(s) \in Nat /\ Payout(s) >= s
  BY <1>1, ShareCoversStake DEF Payout
<1>4. Profit(s) = Payout(s) - s /\ Profit(s) \in Nat
  <2>1. PICK gross : gross = Payout(s)
    OBVIOUS
  <2>2. Profit(s) = IF gross > s THEN gross - s ELSE 0
    BY <2>1 DEF Profit
  <2> QED BY <1>3, <2>1, <2>2
<1>5. Fee(s) \in Nat /\ Fee(s) <= Profit(s)
  BY <1>2, <1>4, FeeWithinProfit DEF Fee, BpsDenominator
<1> QED BY <1>3, <1>4, <1>5

LEMMA OwedNat == TypeOK => OwedTableOK
<1>1. SUFFICES ASSUME TypeOK, NEW u \in Bettor PROVE Owed(u) \in Nat
  BY DEF OwedTable, OwedTableOK
<1>2. yesBets[u] \in Nat /\ noBets[u] \in Nat /\ WinningBet(u) \in Nat
  BY <1>1 DEF TypeOK, WinningBet
<1>3. CASE PayingOut
  BY <1>1, <1>2, <1>3, PayoutBounds DEF Owed
<1>4. CASE ~PayingOut
  BY <1>2, <1>4 DEF Owed
<1> QED BY <1>3, <1>4

LEMMA OwedNatNext ==
  TypeOK' => OwedTable' \in [Bettor -> Nat]
<1>1. TypeOK' => OwedTableOK'
  BY OwedNat, PTL
<1> QED BY <1>1 DEF OwedTableOK

-----------------------------------------------------------------------------
(* Types. *)

LEMMA InitTypeOK == Init => TypeOK
<1>1. SUFFICES ASSUME Init PROVE TypeOK
  OBVIOUS
<1> QED BY <1>1 DEF Init, TypeOK

LEMMA NextTypeOK == TypeOK /\ [Next]_vars => TypeOK'
<1>1. SUFFICES ASSUME TypeOK, [Next]_vars PROVE TypeOK'
  OBVIOUS
<1> USE DEF TypeOK
<1>2. CASE Tick
  BY <1>1, <1>2 DEF Tick, flags, book
<1>3. ASSUME NEW u \in Bettor, NEW amount \in BetAmounts, BetYes(u, amount)
      PROVE  TypeOK'
  <2>1. amount \in Nat
    BY ConstantsAssumption
  <2> QED BY <1>1, <1>3, <2>1 DEF BetYes, flags
<1>4. ASSUME NEW u \in Bettor, NEW amount \in BetAmounts, BetNo(u, amount)
      PROVE  TypeOK'
  <2>1. amount \in Nat
    BY ConstantsAssumption
  <2> QED BY <1>1, <1>4, <2>1 DEF BetNo, flags
<1>5. ASSUME NEW outcome \in BOOLEAN, Settle(outcome) PROVE TypeOK'
  BY <1>1, <1>5 DEF Settle, book
<1>6. CASE CancelMarket
  BY <1>1, <1>6 DEF CancelMarket, book
<1>7. ASSUME NEW p \in BOOLEAN, SetPaused(p) PROVE TypeOK'
  BY <1>1, <1>7 DEF SetPaused, book
<1>8. ASSUME NEW u \in Bettor, ClaimRefund(u) PROVE TypeOK'
  BY <1>1, <1>8 DEF ClaimRefund, flags
<1>9. ASSUME NEW u \in Bettor, ClaimPayout(u) PROVE TypeOK'
  <2> DEFINE stake == WinningBet(u)
             fee == Fee(stake)
             net == Payout(stake) - Fee(stake)
  <2>1. stake \in Nat /\ PayingOut
    BY <1>1, <1>9 DEF ClaimPayout, WinningBet
  <2>2. fee \in Nat /\ net \in Nat
    BY <1>1, <2>1, PayoutBounds
  <2>3. /\ net <= balance /\ balance' = balance - net
        /\ accruedFees' = accruedFees + fee
        /\ received' = [received EXCEPT ![u] = @ + net]
        /\ yesBets' = yesBets \/ yesBets' = [yesBets EXCEPT ![u] = 0]
        /\ noBets' = noBets \/ noBets' = [noBets EXCEPT ![u] = 0]
        /\ UNCHANGED <<now, flags, totalYes, totalNo, stakedYes, stakedNo>>
    BY <1>9 DEF ClaimPayout
  <2> HIDE DEF fee, net, stake
  <2> QED BY <1>1, <2>2, <2>3 DEF flags
<1>10. CASE WithdrawFees
  BY <1>1, <1>10 DEF WithdrawFees, flags, book
<1>11. CASE UNCHANGED vars
  BY <1>1, <1>11 DEF vars, flags, book
<1> QED BY <1>1, <1>2, <1>3, <1>4, <1>5, <1>6, <1>7, <1>8, <1>9, <1>10, <1>11
        DEF Next, Claim

\* Every amount the contract keeps stays a natural number: no subtraction of
\* claim() or withdrawFees() underflows.
THEOREM TypeCorrect == Spec => []TypeOK
BY InitTypeOK, NextTypeOK, PTL DEF Spec

-----------------------------------------------------------------------------
(* The ledger. *)

LEMMA InitLedger == Init => Ledger
<1>1. SUFFICES ASSUME Init PROVE Ledger
  OBVIOUS
<1>2. NumBettors \in Nat \ {0} /\ Bettor = 1 .. NumBettors
  BY ConstantsAssumption DEF Bettor
<1>3. Totals
  <2> DEFINE none == [u \in Bettor |-> 0]
  <2>1. none \in [1 .. NumBettors -> Nat] /\ \A v \in 1 .. NumBettors : none[v] = 0
    BY <1>2
  <2>2. stakedYes = none /\ stakedNo = none /\ totalYes = 0 /\ totalNo = 0
    BY <1>1 DEF Init
  <2> HIDE DEF none
  <2>3. Total(none, NumBettors) = 0
    BY <1>2, <2>1, TotalZero
  <2> QED BY <2>2, <2>3 DEF Totals
<1>4. Positions /\ ~(settled /\ canceled) /\ accruedFees = 0
  BY <1>1 DEF Init, Positions
<1> QED BY <1>3, <1>4 DEF Ledger

\* Before the verdict nobody has been paid and no fee has been taken.
LEMMA Undecided ==
  ASSUME TypeOK, Ledger, ~settled, ~canceled
  PROVE  /\ accruedFees = 0
         /\ \A u \in Bettor :
              received[u] = 0 /\ yesBets[u] = stakedYes[u] /\ noBets[u] = stakedNo[u]
BY DEF Ledger, Positions, PayingOut, Refunding

\* Adding to one bettor's stake adds as much to the total.
LEMMA TotalRaise ==
  ASSUME NEW f \in [Bettor -> Nat], NEW u \in Bettor, NEW amount \in Nat
  PROVE  Total([f EXCEPT ![u] = @ + amount], NumBettors) = Total(f, NumBettors) + amount
<1> DEFINE g == [f EXCEPT ![u] = @ + amount]
<1>1. /\ f \in [1 .. NumBettors -> Nat] /\ g \in [1 .. NumBettors -> Nat]
      /\ NumBettors \in Nat /\ u \in 1 .. NumBettors
      /\ \A v \in 1 .. NumBettors : v # u => g[v] = f[v]
  BY ConstantsAssumption DEF Bettor
<1>2. g[u] = f[u] + amount /\ f[u] \in Nat
  OBVIOUS
<1> HIDE DEF g
<1>3. Total(g, NumBettors) + f[u] = Total(f, NumBettors) + g[u]
  BY <1>1, TotalUpdate
<1>4. Total(f, NumBettors) \in Nat /\ Total(g, NumBettors) \in Nat
  BY <1>1, TotalNat
<1>5. Total(g, NumBettors) = Total(f, NumBettors) + amount
  BY <1>2, <1>3, <1>4
<1> QED BY <1>5 DEF g

LEMMA NextTotals == TypeOK /\ Totals /\ [Next]_vars => Totals'
<1>1. SUFFICES ASSUME TypeOK, Totals, [Next]_vars PROVE Totals'
  OBVIOUS
<1> USE DEF Totals
<1>2. ASSUME NEW u \in Bettor, NEW amount \in BetAmounts, BetYes(u, amount)
      PROVE  Totals'
  <2>1. amount \in Nat
    BY ConstantsAssumption
  <2>2. Total(stakedYes', NumBettors) = Total(stakedYes, NumBettors) + amount
    BY <1>1, <1>2, <2>1, TotalRaise DEF BetYes, TypeOK
  <2> QED BY <1>1, <1>2, <2>2 DEF BetYes
<1>3. ASSUME NEW u \in Bettor, NEW amount \in BetAmounts, BetNo(u, amount)
      PROVE  Totals'
  <2>1. amount \in Nat
    BY ConstantsAssumption
  <2>2. Total(stakedNo', NumBettors) = Total(stakedNo, NumBettors) + amount
    BY <1>1, <1>3, <2>1, TotalRaise DEF BetNo, TypeOK
  <2> QED BY <1>1, <1>3, <2>2 DEF BetNo
<1>4. CASE UNCHANGED <<totalYes, totalNo, stakedYes, stakedNo>>
  BY <1>1, <1>4
<1> QED BY <1>1, <1>2, <1>3, <1>4
        DEF Next, Tick, Settle, CancelMarket, SetPaused, Claim, ClaimRefund,
            ClaimPayout, WithdrawFees, vars, book

\* A step that leaves the verdict and the totals alone leaves every view of them alone.
LEMMA SameViews ==
  ASSUME UNCHANGED <<settled, canceled, finalOutcome, totalYes, totalNo>>
  PROVE  /\ PayingOut' = PayingOut /\ Refunding' = Refunding
         /\ WinningPool' = WinningPool /\ Pool' = Pool
BY DEF PayingOut, Refunding, WinningPool, Pool

LEMMA NextLedger == TypeOK /\ Ledger /\ [Next]_vars => Ledger'
<1>1. SUFFICES ASSUME TypeOK, Ledger, [Next]_vars PROVE Ledger'
  OBVIOUS
<1>2. Totals' /\ TypeOK'
  BY <1>1, NextTotals, NextTypeOK DEF Ledger
<1>3. SUFFICES /\ ~(settled /\ canceled)'
               /\ ~PayingOut' => accruedFees' = 0
               /\ Positions'
  BY <1>2 DEF Ledger
<1>4. ASSUME NEW u \in Bettor, NEW amount \in BetAmounts,
             BetYes(u, amount) \/ BetNo(u, amount)
      PROVE  ~(settled /\ canceled)' /\ accruedFees' = 0 /\ Positions'
  <2>1. ~settled /\ ~canceled /\ UNCHANGED <<settled, canceled, accruedFees, received>>
    BY <1>4 DEF BetYes, BetNo, MayBet, flags
  <2>2. accruedFees = 0 /\ \A v \in Bettor :
          received[v] = 0 /\ yesBets[v] = stakedYes[v] /\ noBets[v] = stakedNo[v]
    BY <1>1, <2>1, Undecided
  <2>3. \A v \in Bettor : yesBets'[v] = stakedYes'[v] /\ noBets'[v] = stakedNo'[v]
    BY <1>1, <1>4, <2>2 DEF BetYes, BetNo, TypeOK
  <2> QED BY <2>1, <2>2, <2>3 DEF Positions
<1>5. CASE (\E outcome \in BOOLEAN : Settle(outcome)) \/ CancelMarket
  <2>1. /\ ~settled /\ ~canceled /\ (~settled' \/ ~canceled')
        /\ UNCHANGED <<accruedFees, received, yesBets, noBets, stakedYes, stakedNo>>
    BY <1>1, <1>5 DEF Settle, CancelMarket, book, TypeOK
  <2>2. accruedFees = 0 /\ \A v \in Bettor :
          received[v] = 0 /\ yesBets[v] = stakedYes[v] /\ noBets[v] = stakedNo[v]
    BY <1>1, <2>1, Undecided
  <2> QED BY <2>1, <2>2 DEF Positions
<1>6. ASSUME NEW u \in Bettor, ClaimRefund(u)
      PROVE  ~(settled /\ canceled)' /\ (~PayingOut' => accruedFees' = 0) /\ Positions'
  <2>1. /\ Refunding
        /\ UNCHANGED <<settled, canceled, finalOutcome, totalYes, totalNo, accruedFees>>
        /\ UNCHANGED <<stakedYes, stakedNo>>
    BY <1>6 DEF ClaimRefund, flags
  <2>2. PayingOut' = PayingOut /\ Refunding' = Refunding
    BY <2>1, SameViews
  <2>3. received'[u] > 0 /\ yesBets'[u] = 0 /\ noBets'[u] = 0
    BY <1>1, <1>6 DEF ClaimRefund, TypeOK
  <2>4. \A v \in Bettor : v # u =>
          /\ received'[v] = received[v]
          /\ yesBets'[v] = yesBets[v] /\ noBets'[v] = noBets[v]
          /\ WinningBet(v)' = WinningBet(v)
    BY <1>1, <1>6, <2>1 DEF ClaimRefund, TypeOK, WinningBet
  <2>5. Positions'
    BY <1>1, <2>1, <2>2, <2>3, <2>4 DEF Positions, Ledger
  <2> QED BY <1>1, <2>1, <2>2, <2>5 DEF Ledger
<1>7. ASSUME NEW u \in Bettor, ClaimPayout(u)
      PROVE  ~(settled /\ canceled)' /\ (~PayingOut' => accruedFees' = 0) /\ Positions'
  <2>1. /\ PayingOut
        /\ UNCHANGED <<settled, canceled, finalOutcome, totalYes, totalNo>>
        /\ UNCHANGED <<stakedYes, stakedNo>>
    BY <1>7 DEF ClaimPayout, flags
  <2>2. PayingOut' = PayingOut /\ Refunding' = Refunding
    BY <2>1, SameViews
  <2>3. WinningBet(u)' = 0
    BY <1>1, <1>7, <2>1 DEF ClaimPayout, TypeOK, WinningBet
  <2>4. received'[u] > 0
    <3>1. WinningBet(u) \in Nat /\ WinningBet(u) > 0
      BY <1>1, <1>7 DEF ClaimPayout, TypeOK, WinningBet
    <3> DEFINE net == Payout(WinningBet(u)) - Fee(WinningBet(u))
    <3>2. net >= WinningBet(u) /\ net \in Int
      BY <1>1, <2>1, <3>1, PayoutBounds
    <3>3. received'[u] = received[u] + net
      BY <1>1, <1>7 DEF ClaimPayout, TypeOK
    <3> HIDE DEF net
    <3> QED BY <1>1, <3>1, <3>2, <3>3 DEF TypeOK
  <2>5. \A v \in Bettor : v # u =>
          /\ received'[v] = received[v]
          /\ yesBets'[v] = yesBets[v] /\ noBets'[v] = noBets[v]
          /\ WinningBet(v)' = WinningBet(v)
    BY <1>1, <1>7, <2>1 DEF ClaimPayout, TypeOK, WinningBet
  <2>6. Positions'
    BY <1>1, <2>1, <2>2, <2>3, <2>4, <2>5 DEF Positions, Ledger
  <2> QED BY <1>1, <2>1, <2>2, <2>6 DEF Ledger
<1>8. CASE WithdrawFees
  <2>1. /\ UNCHANGED <<settled, canceled, finalOutcome, totalYes, totalNo>>
        /\ UNCHANGED <<received, yesBets, noBets, stakedYes, stakedNo>>
        /\ accruedFees' = 0
    BY <1>8 DEF WithdrawFees, flags, book
  <2>2. /\ PayingOut' = PayingOut /\ Refunding' = Refunding
        /\ \A v \in Bettor : WinningBet(v)' = WinningBet(v)
    BY <2>1, SameViews DEF WinningBet
  <2> QED BY <1>1, <2>1, <2>2 DEF Ledger, Positions
<1>9. CASE Tick \/ (\E p \in BOOLEAN : SetPaused(p)) \/ UNCHANGED vars
  <2>1. /\ UNCHANGED <<settled, canceled, finalOutcome, totalYes, totalNo, accruedFees>>
        /\ UNCHANGED <<received, yesBets, noBets, stakedYes, stakedNo>>
    BY <1>9 DEF Tick, SetPaused, vars, flags, book
  <2>2. /\ PayingOut' = PayingOut /\ Refunding' = Refunding
        /\ \A v \in Bettor : WinningBet(v)' = WinningBet(v)
    BY <2>1, SameViews DEF WinningBet
  <2> QED BY <1>1, <2>1, <2>2 DEF Ledger, Positions
<1> QED BY <1>1, <1>4, <1>5, <1>6, <1>7, <1>8, <1>9 DEF Next, Claim

\* No position is paid twice or left half paid, and the totals that fix the
\* payouts are the sums of the stakes, in every reachable state.
THEOREM LedgerHolds == Spec => []Ledger
<1>1. Init => TypeOK /\ Ledger
  BY InitTypeOK, InitLedger
<1>2. TypeOK /\ Ledger /\ [Next]_vars => (TypeOK /\ Ledger)'
  BY NextTypeOK, NextLedger
<1> QED BY <1>1, <1>2, PTL DEF Spec

-----------------------------------------------------------------------------
(* Custody. *)

\* Solvent and OnlyDust speak of the same three amounts and are preserved together.
Custody == Solvent /\ OnlyDust

LEMMA OutstandingNat == TypeOK => Outstanding \in Nat
<1>1. SUFFICES ASSUME TypeOK PROVE Outstanding \in Nat
  OBVIOUS
<1>2. NumBettors \in Nat /\ OwedTable \in [1 .. NumBettors -> Nat]
  BY <1>1, OwedNat, ConstantsAssumption DEF OwedTableOK, Bettor
<1>3. Total(OwedTable, NumBettors) \in Nat
  BY <1>2, TotalNat
<1> QED BY <1>3 DEF Outstanding, OwedTable

\* When only u's claim changes, the sum of all claims changes by as much.
LEMMA OutstandingUpdate ==
  ASSUME TypeOK, TypeOK', NEW u \in Bettor,
         \A v \in Bettor : v # u => Owed(v)' = Owed(v)
  PROVE  /\ Outstanding' + Owed(u) = Outstanding + Owed(u)'
         /\ Outstanding \in Nat /\ Outstanding' \in Nat
         /\ Owed(u) \in Nat /\ Owed(u)' \in Nat
<1>1. /\ OwedTable \in [1 .. NumBettors -> Nat]
      /\ OwedTable' \in [1 .. NumBettors -> Nat]
      /\ NumBettors \in Nat /\ u \in 1 .. NumBettors
  BY OwedNat, OwedNatNext, ConstantsAssumption DEF OwedTableOK, Bettor
<1>2. \A v \in Bettor : OwedTable[v] = Owed(v) /\ OwedTable'[v] = Owed(v)'
  BY DEF OwedTable
<1>3. \A v \in 1 .. NumBettors : v # u => OwedTable'[v] = OwedTable[v]
  BY <1>2 DEF Bettor
<1>4. PICK f, g : f = OwedTable /\ g = OwedTable'
  OBVIOUS
<1>5. Total(g, NumBettors) + f[u] = Total(f, NumBettors) + g[u]
  BY <1>1, <1>3, <1>4, TotalUpdate
<1>6. Total(f, NumBettors) \in Nat /\ Total(g, NumBettors) \in Nat
  BY <1>1, <1>4, TotalNat
<1>7. f[u] \in Nat /\ g[u] \in Nat /\ f[u] = Owed(u) /\ g[u] = Owed(u)'
  BY <1>1, <1>2, <1>4
<1>8. Outstanding = Total(f, NumBettors) /\ Outstanding' = Total(g, NumBettors)
  BY <1>4 DEF Outstanding, OwedTable
<1> QED BY <1>5, <1>6, <1>7, <1>8

\* A step that changes nothing Owed reads leaves the sum of all claims alone.
LEMMA OutstandingSame ==
  ASSUME UNCHANGED <<settled, canceled, finalOutcome, totalYes, totalNo, yesBets, noBets>>
  PROVE  Outstanding' = Outstanding
<1>1. PayingOut' = PayingOut /\ WinningPool' = WinningPool /\ Pool' = Pool
  BY SameViews
<1>2. \A u \in Bettor : Owed(u)' = Owed(u)
  BY <1>1 DEF Owed, Payout, WinningBet
<1> QED BY <1>2 DEF Outstanding

LEMMA InitCustody == Init => Custody
<1>1. SUFFICES ASSUME Init PROVE Custody
  OBVIOUS
<1>2. NumBettors \in Nat \ {0} /\ Bettor = 1 .. NumBettors
  BY ConstantsAssumption DEF Bettor
<1>3. OwedTable \in [1 .. NumBettors -> Nat] /\ \A u \in 1 .. NumBettors : OwedTable[u] = 0
  BY <1>1, <1>2 DEF OwedTable, Owed, PayingOut, Init
<1>4. Total(OwedTable, NumBettors) = 0
  BY <1>2, <1>3, TotalZero
<1>5. Outstanding = 0
  BY <1>4 DEF Outstanding, OwedTable
<1> QED BY <1>1, <1>2, <1>5 DEF Init, Custody, Solvent, OnlyDust

\* The table of winning shares adds up to the pool but for the rounding.
LEMMA SharesFitPool ==
  ASSUME TypeOK, Ledger, PayingOut,
         \A u \in Bettor : yesBets[u] = stakedYes[u] /\ noBets[u] = stakedNo[u]
  PROVE  Outstanding <= Pool /\ Pool < Outstanding + NumBettors
<1>1. NumBettors \in Nat \ {0} /\ Bettor = 1 .. NumBettors
  BY ConstantsAssumption DEF Bettor
<1> DEFINE f == IF finalOutcome THEN stakedYes ELSE stakedNo
<1>2. f \in [1 .. NumBettors -> Nat] /\ OwedTable \in [1 .. NumBettors -> Nat]
  BY <1>1, OwedNat DEF TypeOK, OwedTableOK
<1>3. Total(f, NumBettors) = WinningPool /\ WinningPool > 0
  BY DEF Ledger, Totals, WinningPool, PayingOut
<1>4. \A u \in 1 .. NumBettors : OwedTable[u] = (f[u] * Pool) \div Total(f, NumBettors)
  BY <1>1, <1>3 DEF OwedTable, Owed, Payout, WinningBet
<1>5. Pool \in Nat
  BY DEF TypeOK, Pool
<1> HIDE DEF f
<1>6. Total(OwedTable, NumBettors) <= Pool /\ Pool < Total(OwedTable, NumBettors) + NumBettors
  BY <1>1, <1>2, <1>3, <1>4, <1>5, TotalShare
<1> QED BY <1>6 DEF Outstanding, OwedTable

\* While every position is untouched and nobody is being paid, the claims add up to the pool.
LEMMA RefundsArePool ==
  ASSUME TypeOK, Ledger, ~PayingOut,
         \A u \in Bettor : yesBets[u] = stakedYes[u] /\ noBets[u] = stakedNo[u]
  PROVE  Outstanding = Pool
<1>1. /\ NumBettors \in Nat /\ Bettor = 1 .. NumBettors
      /\ stakedYes \in [1 .. NumBettors -> Nat] /\ stakedNo \in [1 .. NumBettors -> Nat]
      /\ OwedTable \in [1 .. NumBettors -> Nat]
  BY OwedNat, ConstantsAssumption DEF TypeOK, OwedTableOK, Bettor
<1>2. \A u \in 1 .. NumBettors : OwedTable[u] = stakedYes[u] + stakedNo[u]
  BY <1>1 DEF OwedTable, Owed
<1>3. Total(OwedTable, NumBettors) = Total(stakedYes, NumBettors) + Total(stakedNo, NumBettors)
  BY <1>1, <1>2, TotalPlus
<1> QED BY <1>3 DEF Outstanding, OwedTable, Pool, Ledger, Totals

Untouched == \A u \in Bettor : yesBets[u] = stakedYes[u] /\ noBets[u] = stakedNo[u]

PoolIsOwed ==
  /\ Outstanding <= Pool /\ Pool < Outstanding + NumBettors
  /\ ~PayingOut => Outstanding = Pool

LEMMA UntouchedPool == TypeOK /\ Ledger /\ Untouched => PoolIsOwed
<1>1. SUFFICES ASSUME TypeOK, Ledger, Untouched PROVE PoolIsOwed
  OBVIOUS
<1>2. CASE PayingOut
  BY <1>1, <1>2, SharesFitPool DEF Untouched, PoolIsOwed
<1>3. CASE ~PayingOut
  <2>1. Outstanding = Pool
    BY <1>1, <1>3, RefundsArePool DEF Untouched
  <2>2. Pool \in Nat /\ NumBettors \in Nat \ {0}
    BY <1>1, ConstantsAssumption DEF TypeOK, Pool
  <2> QED BY <1>3, <2>1, <2>2 DEF PoolIsOwed
<1> QED BY <1>2, <1>3

LEMMA NextCustody == TypeOK /\ Ledger /\ Custody /\ [Next]_vars => Custody'
<1>1. SUFFICES ASSUME TypeOK, Ledger, Custody, [Next]_vars PROVE Custody'
  OBVIOUS
<1>2. TypeOK' /\ Ledger'
  BY <1>1, NextTypeOK, NextLedger
<1>3. /\ NumBettors \in Nat \ {0}
      /\ balance \in Nat /\ accruedFees \in Nat /\ Outstanding \in Nat
  BY <1>1, ConstantsAssumption, OutstandingNat DEF TypeOK
<1>4. ASSUME NEW u \in Bettor, NEW amount \in BetAmounts,
             BetYes(u, amount) \/ BetNo(u, amount)
      PROVE  Custody'
  <2>1. amount \in Nat /\ balance' = balance + amount
    BY <1>4, ConstantsAssumption DEF BetYes, BetNo
  <2>2. ~PayingOut /\ ~PayingOut' /\ accruedFees' = accruedFees
    BY <1>4 DEF BetYes, BetNo, MayBet, PayingOut, flags
  <2>3. \A v \in Bettor : v # u => Owed(v)' = Owed(v)
    BY <1>1, <1>4, <2>2 DEF BetYes, BetNo, TypeOK, Owed
  <2>4. Owed(u)' = Owed(u) + amount
    BY <1>1, <1>4, <2>1, <2>2 DEF BetYes, BetNo, TypeOK, Owed
  <2>5. /\ Outstanding' + Owed(u) = Outstanding + Owed(u)'
        /\ Outstanding' \in Nat /\ Owed(u) \in Nat /\ Owed(u)' \in Nat
    BY <1>1, <1>2, <2>3, OutstandingUpdate
  <2>6. Outstanding' = Outstanding + amount
    BY <1>3, <2>1, <2>4, <2>5
  <2> QED BY <1>1, <1>3, <2>1, <2>2, <2>6 DEF Custody, Solvent, OnlyDust
<1>5. CASE (\E outcome \in BOOLEAN : Settle(outcome)) \/ CancelMarket
  <2>1. /\ ~settled /\ ~canceled
        /\ UNCHANGED <<accruedFees, balance>>
        /\ UNCHANGED <<totalYes, totalNo, yesBets, noBets, stakedYes, stakedNo>>
    BY <1>5 DEF Settle, CancelMarket, book
  <2>2. accruedFees = 0 /\ Untouched
    BY <1>1, <2>1, Undecided DEF Untouched
  <2>3. Untouched' /\ Pool' = Pool
    BY <2>1, <2>2 DEF Untouched, Pool
  <2>4. PoolIsOwed /\ PoolIsOwed'
    <3>1. TypeOK' /\ Ledger' /\ Untouched' => PoolIsOwed'
      BY UntouchedPool, PTL
    <3> QED BY <1>1, <1>2, <2>2, <2>3, <3>1, UntouchedPool
  <2>5. ~PayingOut
    BY <2>1 DEF PayingOut
  <2>6. balance = Pool
    BY <1>1, <1>3, <2>2, <2>4, <2>5 DEF Custody, OnlyDust, PoolIsOwed
  <2>7. Outstanding' \in Nat
    <3>1. TypeOK' => (Outstanding \in Nat)'
      BY OutstandingNat, PTL
    <3> QED BY <1>2, <3>1
  <2>8. balance' = Pool' /\ accruedFees' = 0 /\ Pool' \in Nat
    BY <1>3, <2>1, <2>2, <2>3, <2>6
  <2>9. /\ Outstanding' <= Pool' /\ Pool' < Outstanding' + NumBettors
        /\ ~PayingOut' => Outstanding' = Pool'
    BY <2>4 DEF PoolIsOwed
  <2>10. PICK o \in Nat : o = Outstanding'
    BY <2>7
  <2>11. /\ o <= Pool' /\ Pool' < o + NumBettors
         /\ ~PayingOut' => o = Pool'
    BY <2>9, <2>10
  <2>12. /\ balance' >= accruedFees' + o
         /\ balance' < accruedFees' + o + NumBettors
         /\ ~PayingOut' => balance' = accruedFees' + o
    BY <1>3, <2>8, <2>11
  <2> QED BY <2>10, <2>12 DEF Custody, Solvent, OnlyDust
<1>6. ASSUME NEW u \in Bettor, ClaimRefund(u) PROVE Custody'
  <2>1. /\ Refunding
        /\ UNCHANGED <<settled, canceled, finalOutcome, totalYes, totalNo, accruedFees>>
    BY <1>6 DEF ClaimRefund, flags
  <2>2. ~PayingOut /\ ~PayingOut'
    BY <2>1 DEF Refunding, PayingOut, WinningPool
  <2>3. /\ Owed(u) = yesBets[u] + noBets[u] /\ Owed(u)' = 0
        /\ balance' = balance - Owed(u)
        /\ Owed(u) <= balance
    BY <1>1, <1>6, <2>2 DEF ClaimRefund, TypeOK, Owed
  <2>4. \A v \in Bettor : v # u => Owed(v)' = Owed(v)
    BY <1>1, <1>6, <2>2 DEF ClaimRefund, TypeOK, Owed
  <2>5. /\ Outstanding' + Owed(u) = Outstanding + Owed(u)'
        /\ Outstanding' \in Nat /\ Owed(u) \in Nat
    BY <1>1, <1>2, <2>4, OutstandingUpdate
  <2> QED BY <1>1, <1>3, <2>1, <2>2, <2>3, <2>5 DEF Custody, Solvent, OnlyDust
<1>7. ASSUME NEW u \in Bettor, ClaimPayout(u) PROVE Custody'
  <2>0. PICK fee, gross : fee = Fee(WinningBet(u)) /\ gross = Payout(WinningBet(u))
    OBVIOUS
  <2>1. /\ PayingOut /\ WinningBet(u) \in Nat
        /\ UNCHANGED <<settled, canceled, finalOutcome, totalYes, totalNo>>
    BY <1>1, <1>7 DEF ClaimPayout, flags, TypeOK, WinningBet
  <2>2. PayingOut' = PayingOut /\ WinningPool' = WinningPool /\ Pool' = Pool
    BY <2>1, SameViews
  <2>3. fee \in Nat /\ gross \in Nat /\ fee <= gross
    BY <1>1, <2>0, <2>1, PayoutBounds
  <2>4. /\ accruedFees' = accruedFees + fee
        /\ balance' = balance - (gross - fee)
        /\ gross - fee <= balance
    BY <1>7, <2>0 DEF ClaimPayout
  <2>5. Owed(u) = gross
    BY <2>0, <2>1 DEF Owed
  <2>6. Owed(u)' = 0
    <3>1. WinningBet(u)' = 0
      BY <1>1, <1>7, <2>1 DEF ClaimPayout, TypeOK, WinningBet
    <3>2. Pool \in Nat /\ WinningPool \in Nat \ {0}
      BY <1>1, <2>1 DEF TypeOK, Pool, WinningPool, PayingOut
    <3>3. (0 * Pool) \div WinningPool = 0
      BY <3>2
    <3> QED BY <2>1, <2>2, <3>1, <3>3 DEF Owed, Payout
  <2>7. \A v \in Bettor : v # u => Owed(v)' = Owed(v)
    <3>1. \A v \in Bettor : v # u => WinningBet(v)' = WinningBet(v)
      BY <1>1, <1>7, <2>1 DEF ClaimPayout, TypeOK, WinningBet
    <3> QED BY <2>1, <2>2, <3>1 DEF Owed, Payout
  <2>8. /\ Outstanding' + Owed(u) = Outstanding + Owed(u)'
        /\ Outstanding' \in Nat
    BY <1>1, <1>2, <2>7, OutstandingUpdate
  <2>9. PICK o \in Nat, q \in Nat : o = Outstanding' /\ q = Outstanding
    BY <1>3, <2>8
  <2>10. o + gross = q
    <3>1. o + gross = q + 0
      BY <2>5, <2>6, <2>8, <2>9
    <3> QED BY <3>1
  <2>11. balance >= accruedFees + q /\ balance < accruedFees + q + NumBettors
    BY <1>1, <2>9 DEF Custody, Solvent, OnlyDust
  <2>12. balance' = balance - gross + fee /\ accruedFees' = accruedFees + fee
    BY <1>3, <2>3, <2>4
  <2>13. balance' >= accruedFees' + o /\ balance' < accruedFees' + o + NumBettors
    BY <1>3, <2>3, <2>10, <2>11, <2>12
  <2> QED BY <2>1, <2>2, <2>9, <2>13 DEF Custody, Solvent, OnlyDust
<1>8. CASE WithdrawFees
  <2>1. /\ UNCHANGED <<settled, canceled, finalOutcome, totalYes, totalNo, yesBets, noBets>>
        /\ accruedFees' = 0 /\ balance' = balance - accruedFees
        /\ accruedFees > 0
    BY <1>8 DEF WithdrawFees, flags, book
  <2>2. Outstanding' = Outstanding /\ PayingOut' = PayingOut
    BY <2>1, OutstandingSame, SameViews
  <2>3. PayingOut
    BY <1>1, <1>3, <2>1 DEF Ledger
  <2> QED BY <1>1, <1>3, <2>1, <2>2, <2>3 DEF Custody, Solvent, OnlyDust
<1>9. CASE Tick \/ (\E p \in BOOLEAN : SetPaused(p)) \/ UNCHANGED vars
  <2>1. /\ UNCHANGED <<settled, canceled, finalOutcome, totalYes, totalNo, yesBets, noBets>>
        /\ UNCHANGED <<accruedFees, balance>>
    BY <1>9 DEF Tick, SetPaused, vars, flags, book
  <2>2. Outstanding' = Outstanding /\ PayingOut' = PayingOut
    BY <2>1, OutstandingSame, SameViews
  <2> QED BY <1>1, <2>1, <2>2 DEF Custody, Solvent, OnlyDust
<1> QED BY <1>1, <1>4, <1>5, <1>6, <1>7, <1>8, <1>9 DEF Next, Claim

IInv == TypeOK /\ Ledger /\ Custody

LEMMA IInvInductive == Spec => []IInv
<1>1. Init => IInv
  BY InitTypeOK, InitLedger, InitCustody DEF IInv
<1>2. IInv /\ [Next]_vars => IInv'
  BY NextTypeOK, NextLedger, NextCustody DEF IInv
<1> QED BY <1>1, <1>2, PTL DEF Spec

\* The contract can always honour every open claim and the fees it has booked,
\* whatever the order of claims and fee withdrawals.
THEOREM MarketSolvent == Spec => []Solvent
<1>1. IInv => Solvent
  BY DEF IInv, Custody
<1> QED BY <1>1, IInvInductive, PTL

\* Less than one token unit per bettor is ever locked in the contract by rounding.
THEOREM MarketOnlyDust == Spec => []OnlyDust
<1>1. IInv => OnlyDust
  BY DEF IInv, Custody
<1> QED BY <1>1, IInvInductive, PTL

\* The books of a market and the tokens it holds agree in every reachable state.
THEOREM AccountsHold == Spec => []Accounts
BY TypeCorrect, LedgerHolds, MarketSolvent, MarketOnlyDust, PTL DEF Accounts

-----------------------------------------------------------------------------
(* What a winner receives. *)

\* claim() never takes any part of a winning stake: the invariant adds to Positions
\* that a paid winner got at least the stake.
LEMMA NextWinners ==
  TypeOK /\ Ledger /\ WinnersKeepTheirStake /\ [Next]_vars => WinnersKeepTheirStake'
<1>1. SUFFICES ASSUME TypeOK, Ledger, WinnersKeepTheirStake, [Next]_vars
               PROVE  WinnersKeepTheirStake'
  OBVIOUS
<1>2. ASSUME ~PayingOut' PROVE WinnersKeepTheirStake'
  BY <1>2 DEF WinnersKeepTheirStake
<1>3. CASE \E u \in Bettor, amount \in BetAmounts : BetYes(u, amount) \/ BetNo(u, amount)
  BY <1>2, <1>3 DEF BetYes, BetNo, MayBet, PayingOut, flags
<1>4. CASE (\E outcome \in BOOLEAN : Settle(outcome)) \/ CancelMarket
  <2>1. ~settled /\ ~canceled /\ UNCHANGED received
    BY <1>4 DEF Settle, CancelMarket
  <2>2. \A u \in Bettor : received'[u] = 0
    BY <1>1, <2>1, Undecided
  <2> QED BY <2>2 DEF WinnersKeepTheirStake
<1>5. ASSUME NEW u \in Bettor, ClaimPayout(u) PROVE WinnersKeepTheirStake'
  <2>1. /\ PayingOut /\ WinningBet(u) > 0 /\ WinningBet(u) \in Nat
        /\ UNCHANGED <<settled, canceled, finalOutcome, totalYes, totalNo, stakedYes, stakedNo>>
    BY <1>1, <1>5 DEF ClaimPayout, flags, TypeOK, WinningBet
  <2>2. PayingOut' = PayingOut
    BY <2>1, SameViews
  <2>3. received[u] = 0 /\ yesBets[u] = stakedYes[u] /\ noBets[u] = stakedNo[u]
    BY <1>1, <2>1 DEF Ledger, Positions, Refunding, PayingOut
  <2>4. PICK net : /\ net = Payout(WinningBet(u)) - Fee(WinningBet(u))
                   /\ received' = [received EXCEPT ![u] = @ + net]
    BY <1>5 DEF ClaimPayout
  <2>5. net >= WinningBet(u) /\ net \in Int
    BY <1>1, <2>1, <2>4, PayoutBounds
  <2>6. received'[u] = net
    BY <1>1, <2>3, <2>4, <2>5 DEF TypeOK
  <2>7. received'[u] >= IF finalOutcome THEN stakedYes[u] ELSE stakedNo[u]
    BY <2>3, <2>5, <2>6 DEF WinningBet
  <2>8. \A v \in Bettor : v # u => received'[v] = received[v]
    BY <1>1, <2>4 DEF TypeOK
  <2> QED BY <1>1, <2>1, <2>2, <2>7, <2>8 DEF WinnersKeepTheirStake
<1>6. ASSUME NEW u \in Bettor, ClaimRefund(u) PROVE ~PayingOut'
  <2>1. Refunding /\ UNCHANGED <<settled, canceled, finalOutcome, totalYes, totalNo>>
    BY <1>6 DEF ClaimRefund, flags
  <2>2. PayingOut' = PayingOut
    BY <2>1, SameViews
  <2> QED BY <2>1, <2>2 DEF Refunding, PayingOut
<1>7. CASE Tick \/ (\E p \in BOOLEAN : SetPaused(p)) \/ WithdrawFees \/ UNCHANGED vars
  <2>1. /\ UNCHANGED <<settled, canceled, finalOutcome, totalYes, totalNo>>
        /\ UNCHANGED <<received, stakedYes, stakedNo>>
    BY <1>7 DEF Tick, SetPaused, WithdrawFees, vars, flags, book
  <2>2. PayingOut' = PayingOut
    BY <2>1, SameViews
  <2> QED BY <1>1, <2>1, <2>2 DEF WinnersKeepTheirStake
<1> QED BY <1>1, <1>2, <1>3, <1>4, <1>5, <1>6, <1>7 DEF Next, Claim

\* Nobody who picked the winning side is paid less than they put on it.
THEOREM WinnersNeverLose == Spec => []WinnersKeepTheirStake
<1>1. Init => WinnersKeepTheirStake
  BY DEF Init, WinnersKeepTheirStake, PayingOut
<1>2. IInv /\ WinnersKeepTheirStake /\ [Next]_vars => WinnersKeepTheirStake'
  BY NextWinners DEF IInv
<1> QED BY <1>1, <1>2, IInvInductive, PTL DEF Spec

-----------------------------------------------------------------------------
(* The market implements MarketEscrow. *)

LEMMA SameTotal ==
  \A f, n : Escrow!Total(f, n) = Total(f, n)
BY DEF Total, Partial, Escrow!Total, Escrow!Partial

LEMMA PhaseOf ==
  /\ ~settled /\ ~canceled => Phase = "open"
  /\ Refunding => Phase = "refund"
  /\ PayingOut => Phase = IF finalOutcome THEN "yes" ELSE "no"
<1>1. CASE ~settled /\ ~canceled
  BY <1>1 DEF Phase, Refunding, PayingOut
<1>2. CASE Refunding
  BY <1>2 DEF Phase, Refunding, PayingOut
<1>3. CASE PayingOut
  BY <1>3 DEF Phase, Refunding, PayingOut
<1> QED BY <1>1, <1>2, <1>3

LEMMA PhaseOfNext ==
  /\ ~settled' /\ ~canceled' => Phase' = "open"
  /\ Refunding' => Phase' = "refund"
  /\ PayingOut' => Phase' = IF finalOutcome' THEN "yes" ELSE "no"
<1>1. (/\ ~settled /\ ~canceled => Phase = "open"
       /\ Refunding => Phase = "refund"
       /\ PayingOut => Phase = IF finalOutcome THEN "yes" ELSE "no")'
  BY PhaseOf, PTL
<1> QED BY <1>1

\* What claim() computes is what MarketEscrow says the bettor is entitled to.
LEMMA EntitlementOf ==
  ASSUME TypeOK, Ledger, NEW u \in Bettor, received[u] = 0
  PROVE  /\ Refunding => Escrow!Entitlement(u) = yesBets[u] + noBets[u]
         /\ PayingOut => Escrow!Entitlement(u) = Payout(WinningBet(u)) - Fee(WinningBet(u))
<1>1. yesBets[u] = stakedYes[u] /\ noBets[u] = stakedNo[u]
  BY DEF Ledger, Positions
<1>2. CASE Refunding
  <2>1. Phase = "refund"
    BY <1>2, PhaseOf
  <2>2. Escrow!Entitlement(u) = stakedYes[u] + stakedNo[u]
    BY <2>1 DEF Escrow!Entitlement
  <2> QED BY <1>1, <1>2, <2>2 DEF Refunding, PayingOut
<1>3. CASE PayingOut
  <2>1. Phase = IF finalOutcome THEN "yes" ELSE "no"
    BY <1>3, PhaseOf
  <2>2. Escrow!Pool = Pool
    BY SameTotal DEF Ledger, Totals, Pool, Escrow!Pool
  <2>3. Escrow!Entitlement(u) = Escrow!Share(WinningBet(u), WinningPool)
    <3>1. CASE finalOutcome
      <4>1. Phase = "yes"
        BY <2>1, <3>1
      <4>2. Escrow!Entitlement(u) = Escrow!Share(stakedYes[u], Total(stakedYes, NumBettors))
        BY <4>1, SameTotal DEF Escrow!Entitlement
      <4>3. WinningBet(u) = stakedYes[u] /\ WinningPool = Total(stakedYes, NumBettors)
        BY <1>1, <3>1 DEF Ledger, Totals, WinningBet, WinningPool
      <4> QED BY <4>2, <4>3
    <3>2. CASE ~finalOutcome
      <4>1. Phase = "no"
        BY <2>1, <3>2
      <4>2. Escrow!Entitlement(u) = Escrow!Share(stakedNo[u], Total(stakedNo, NumBettors))
        BY <4>1, SameTotal DEF Escrow!Entitlement
      <4>3. WinningBet(u) = stakedNo[u] /\ WinningPool = Total(stakedNo, NumBettors)
        BY <1>1, <3>2 DEF Ledger, Totals, WinningBet, WinningPool
      <4> QED BY <4>2, <4>3
    <3> QED BY <3>1, <3>2
  <2>4. WinningBet(u) \in Nat
    BY DEF TypeOK, WinningBet
  <2>5. Profit(WinningBet(u)) = Payout(WinningBet(u)) - WinningBet(u)
    BY <1>3, <2>4, PayoutBounds
  <2>6. Escrow!Share(WinningBet(u), WinningPool)
          = Payout(WinningBet(u)) - Fee(WinningBet(u))
    BY <2>2, <2>5 DEF Escrow!Share, Payout, Fee, BpsDenominator, Escrow!BpsDenominator
  <2> QED BY <1>3, <2>3, <2>6 DEF Refunding, PayingOut
<1> QED BY <1>2, <1>3

LEMMA InitEscrow == Init => Escrow!Init
<1>1. SUFFICES ASSUME Init PROVE Escrow!Init
  OBVIOUS
<1>2. Phase = "open"
  BY <1>1, PhaseOf DEF Init
<1> QED BY <1>1, <1>2 DEF Init, Escrow!Init, Bettor, Escrow!Bettor

LEMMA NextEscrow == TypeOK /\ Ledger /\ [Next]_vars => [Escrow!Next]_(Escrow!vars)
<1>1. SUFFICES ASSUME TypeOK, Ledger, [Next]_vars
               PROVE  Escrow!Next \/ UNCHANGED Escrow!vars
  OBVIOUS
<1>2. TypeOK' /\ Ledger'
  BY <1>1, NextTypeOK, NextLedger
<1>3. Bettor = Escrow!Bettor
  BY DEF Bettor, Escrow!Bettor
<1>4. ASSUME NEW u \in Bettor, NEW amount \in BetAmounts, BetYes(u, amount)
      PROVE  Escrow!Stake
  <2>1. amount \in Nat /\ amount > 0
    BY <1>4, ConstantsAssumption DEF BetYes, MayBet
  <2>2. /\ stakedYes' = [stakedYes EXCEPT ![u] = @ + amount]
        /\ UNCHANGED <<stakedNo, received>>
        /\ ~settled /\ ~canceled /\ ~settled' /\ ~canceled'
    BY <1>4 DEF BetYes, MayBet, flags
  <2>3. stakedYes[u] \in Nat /\ stakedYes'[u] = stakedYes[u] + amount
    BY <1>1, <2>2 DEF TypeOK
  <2>4. stakedYes'[u] > stakedYes[u] /\ stakedYes' = [stakedYes EXCEPT ![u] = stakedYes'[u]]
    <3>1. PICK a \in Nat, b \in Nat : a = stakedYes[u] /\ b = stakedYes'[u] /\ b = a + amount
      BY <2>1, <2>3
    <3>2. b > a
      BY <2>1, <3>1
    <3>3. stakedYes' = [stakedYes EXCEPT ![u] = b]
      BY <2>2, <2>3, <3>1
    <3> QED BY <3>1, <3>2, <3>3
  <2>5. Phase = "open" /\ Phase' = "open"
    BY <2>2, PhaseOf, PhaseOfNext
  <2> QED BY <1>3, <2>2, <2>4, <2>5 DEF Escrow!Stake
<1>5. ASSUME NEW u \in Bettor, NEW amount \in BetAmounts, BetNo(u, amount)
      PROVE  Escrow!Stake
  <2>1. amount \in Nat /\ amount > 0
    BY <1>5, ConstantsAssumption DEF BetNo, MayBet
  <2>2. /\ stakedNo' = [stakedNo EXCEPT ![u] = @ + amount]
        /\ UNCHANGED <<stakedYes, received>>
        /\ ~settled /\ ~canceled /\ ~settled' /\ ~canceled'
    BY <1>5 DEF BetNo, MayBet, flags
  <2>3. stakedNo[u] \in Nat /\ stakedNo'[u] = stakedNo[u] + amount
    BY <1>1, <2>2 DEF TypeOK
  <2>4. stakedNo'[u] > stakedNo[u] /\ stakedNo' = [stakedNo EXCEPT ![u] = stakedNo'[u]]
    <3>1. PICK a \in Nat, b \in Nat : a = stakedNo[u] /\ b = stakedNo'[u] /\ b = a + amount
      BY <2>1, <2>3
    <3>2. b > a
      BY <2>1, <3>1
    <3>3. stakedNo' = [stakedNo EXCEPT ![u] = b]
      BY <2>2, <2>3, <3>1
    <3> QED BY <3>1, <3>2, <3>3
  <2>5. Phase = "open" /\ Phase' = "open"
    BY <2>2, PhaseOf, PhaseOfNext
  <2> QED BY <1>3, <2>2, <2>4, <2>5 DEF Escrow!Stake
<1>6. ASSUME NEW outcome \in BOOLEAN, Settle(outcome) PROVE Escrow!Decide
  <2>1. /\ ~settled /\ ~canceled /\ settled' /\ ~canceled'
        /\ UNCHANGED <<stakedYes, stakedNo, received>>
    BY <1>6 DEF Settle, book
  <2>2. Phase = "open"
    BY <2>1, PhaseOf
  <2>3. CASE WinningPool' = 0
    <3>1. Phase' = "refund"
      BY <2>1, <2>3, PhaseOfNext DEF Refunding
    <3> QED BY <2>1, <2>2, <3>1 DEF Escrow!Decide
  <2>4. CASE WinningPool' > 0
    <3>1. Phase' = IF finalOutcome' THEN "yes" ELSE "no"
      BY <2>1, <2>4, PhaseOfNext DEF PayingOut
    <3>2. totalYes' = Total(stakedYes, NumBettors) /\ totalNo' = Total(stakedNo, NumBettors)
      BY <1>2, <2>1 DEF Ledger, Totals
    <3>3. CASE finalOutcome'
      BY <2>1, <2>2, <2>4, <3>1, <3>2, <3>3, SameTotal DEF Escrow!Decide, WinningPool
    <3>4. CASE ~finalOutcome'
      BY <2>1, <2>2, <2>4, <3>1, <3>2, <3>4, SameTotal DEF Escrow!Decide, WinningPool
    <3> QED BY <3>3, <3>4
  <2>5. WinningPool' \in Nat
    BY <1>2 DEF TypeOK, WinningPool
  <2> QED BY <2>3, <2>4, <2>5
<1>7. CASE CancelMarket
  <2>1. /\ ~settled /\ ~canceled /\ canceled'
        /\ UNCHANGED <<stakedYes, stakedNo, received>>
    BY <1>7 DEF CancelMarket, book
  <2>2. Phase = "open" /\ Phase' = "refund"
    BY <2>1, PhaseOf, PhaseOfNext DEF Refunding
  <2> QED BY <2>1, <2>2 DEF Escrow!Decide, Escrow!Next
<1>8. ASSUME NEW u \in Bettor, ClaimRefund(u) PROVE Escrow!Pay
  <2>1. PICK refund : refund = yesBets[u] + noBets[u]
    OBVIOUS
  <2>2. /\ Refunding /\ refund > 0
        /\ received' = [received EXCEPT ![u] = @ + refund]
        /\ UNCHANGED <<settled, canceled, finalOutcome, totalYes, totalNo>>
        /\ UNCHANGED <<stakedYes, stakedNo>>
    BY <1>8, <2>1 DEF ClaimRefund, flags
  <2>3. refund \in Nat
    BY <1>1, <2>1 DEF TypeOK
  <2>4. received[u] = 0
    BY <1>1, <2>1, <2>2 DEF Ledger, Positions, Refunding, PayingOut
  <2>5. Escrow!Entitlement(u) = refund
    BY <1>1, <2>1, <2>2, <2>4, EntitlementOf
  <2>6. received' = [received EXCEPT ![u] = refund]
    BY <1>1, <2>2, <2>3, <2>4
  <2>7. Phase' = Phase
    BY <2>2, SameViews, PhaseOf, PhaseOfNext
  <2> QED BY <1>3, <2>2, <2>4, <2>5, <2>6, <2>7 DEF Escrow!Pay
<1>9. ASSUME NEW u \in Bettor, ClaimPayout(u) PROVE Escrow!Pay
  <2>1. PICK net : net = Payout(WinningBet(u)) - Fee(WinningBet(u))
    OBVIOUS
  <2>2. /\ PayingOut /\ WinningBet(u) > 0
        /\ received' = [received EXCEPT ![u] = @ + net]
        /\ UNCHANGED <<settled, canceled, finalOutcome, totalYes, totalNo>>
        /\ UNCHANGED <<stakedYes, stakedNo>>
    BY <1>9, <2>1 DEF ClaimPayout, flags
  <2>3. WinningBet(u) \in Nat
    BY <1>1 DEF TypeOK, WinningBet
  <2>4. net \in Int /\ net > 0
    BY <1>1, <2>1, <2>2, <2>3, PayoutBounds
  <2>5. received[u] = 0
    BY <1>1, <2>2 DEF Ledger, Positions, Refunding, PayingOut
  <2>6. Escrow!Entitlement(u) = net
    BY <1>1, <2>1, <2>2, <2>5, EntitlementOf
  <2>7. received' = [received EXCEPT ![u] = net]
    BY <1>1, <2>2, <2>4, <2>5
  <2>8. Phase' = Phase
    BY <2>2, SameViews, PhaseOf, PhaseOfNext
  <2> QED BY <1>3, <2>2, <2>4, <2>5, <2>6, <2>7, <2>8 DEF Escrow!Pay
<1>10. CASE Tick \/ (\E p \in BOOLEAN : SetPaused(p)) \/ WithdrawFees \/ UNCHANGED vars
  <2>1. /\ UNCHANGED <<settled, canceled, finalOutcome, totalYes, totalNo>>
        /\ UNCHANGED <<received, stakedYes, stakedNo>>
    BY <1>10 DEF Tick, SetPaused, WithdrawFees, vars, flags, book
  <2>2. Phase' = Phase
    BY <2>1, SameViews DEF Phase
  <2> QED BY <2>1, <2>2 DEF Escrow!vars
<1>11. \/ Tick
       \/ \E u \in Bettor, amount \in BetAmounts : BetYes(u, amount) \/ BetNo(u, amount)
       \/ \E outcome \in BOOLEAN : Settle(outcome)
       \/ CancelMarket
       \/ \E p \in BOOLEAN : SetPaused(p)
       \/ \E u \in Bettor : ClaimRefund(u) \/ ClaimPayout(u)
       \/ WithdrawFees
       \/ UNCHANGED vars
  BY <1>1 DEF Next, Claim
<1>12. CASE \E u \in Bettor, amount \in BetAmounts : BetYes(u, amount) \/ BetNo(u, amount)
  BY <1>4, <1>5, <1>12 DEF Escrow!Next
<1>13. CASE \E outcome \in BOOLEAN : Settle(outcome)
  BY <1>6, <1>13 DEF Escrow!Next
<1>14. CASE \E u \in Bettor : ClaimRefund(u) \/ ClaimPayout(u)
  BY <1>8, <1>9, <1>14 DEF Escrow!Next
<1> QED BY <1>7, <1>10, <1>11, <1>12, <1>13, <1>14

\* The contract's bookkeeping implements the promise of MarketEscrow: stakes only
\* grow while the market is open, the verdict is final, and every payment is the
\* whole of what one bettor is entitled to, paid once.
THEOREM MarketImplementsEscrow == Spec => EscrowSpec
<1>1. Init => Escrow!Init
  BY InitEscrow
<1>2. IInv /\ [Next]_vars => [Escrow!Next]_(Escrow!vars)
  BY NextEscrow DEF IInv
<1> QED BY <1>1, <1>2, IInvInductive, PTL DEF Spec, EscrowSpec, Escrow!Spec
=============================================================================
