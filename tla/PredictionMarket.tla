-------------------------- MODULE PredictionMarket --------------------------
(***************************************************************************)
(* One market contract (contracts/core/PredictionMarket.sol): its custody  *)
(* of the collateral, from the first bet to the last claim.  A transaction *)
(* is atomic and one that reverts changes nothing, so each external        *)
(* function is one action whose guard is the conjunction of its checks.    *)
(*                                                                         *)
(* stakedYes, stakedNo and received are history variables: they record     *)
(* what crossed between a bettor's wallet and the contract and no guard of *)
(* the contract reads them.  A bettor's wallet follows from them.          *)
(***************************************************************************)
EXTENDS Sums, Integers

CONSTANTS
  NumBettors,     \* bettors are the accounts 1 .. NumBettors
  Funds,          \* collateral tokens each bettor starts with
  BetAmounts,     \* amounts a bettor may pass to betYes and betNo
  MaxExposure, FeeBps, StartTime, EndTime, DisputeWindow,  \* constructor arguments
  MaxTime         \* bound on block.timestamp

ASSUME ConstantsAssumption ==
  /\ NumBettors \in Nat \ {0}
  /\ Funds \in Nat
  /\ BetAmounts \subseteq Nat
  /\ MaxExposure \in Nat
  /\ FeeBps \in 0 .. 1000
  /\ StartTime \in Nat /\ EndTime \in Nat /\ StartTime < EndTime
  /\ DisputeWindow \in Nat
  /\ MaxTime \in Nat

Bettor == 1 .. NumBettors

VARIABLES
  now,                             \* block.timestamp
  paused, settled, canceled, finalOutcome,
  totalYes, totalNo, accruedFees,
  yesBets, noBets,
  balance,                         \* collateralToken.balanceOf(market)
  stakedYes, stakedNo, received    \* history, per bettor

flags   == <<paused, settled, canceled, finalOutcome>>
book    == <<totalYes, totalNo, yesBets, noBets, stakedYes, stakedNo>>
vars    == <<now, flags, book, accruedFees, balance, received>>

BpsDenominator == 10000

-----------------------------------------------------------------------------
(* Views of the contract's state. *)

Wallet(u) == Funds + received[u] - stakedYes[u] - stakedNo[u]

Pool == totalYes + totalNo

WinningPool == IF finalOutcome THEN totalYes ELSE totalNo

\* claim() gives back both stakes: the market was canceled, or nobody won.
Refunding == canceled \/ (settled /\ WinningPool = 0)

PayingOut == ~canceled /\ settled /\ WinningPool > 0

WinningBet(u) == IF finalOutcome THEN yesBets[u] ELSE noBets[u]

Payout(stake) == (stake * Pool) \div WinningPool

Profit(stake) == IF Payout(stake) > stake THEN Payout(stake) - stake ELSE 0

\* Mutant: the fee is taken from the stake too.
FeeOnPayout(stake) == (Payout(stake) * FeeBps) \div BpsDenominator

Fee(stake) == (Profit(stake) * FeeBps) \div BpsDenominator

-----------------------------------------------------------------------------
Init ==
  /\ now = 0
  /\ paused = FALSE /\ settled = FALSE /\ canceled = FALSE /\ finalOutcome = FALSE
  /\ totalYes = 0 /\ totalNo = 0 /\ accruedFees = 0
  /\ yesBets = [u \in Bettor |-> 0]
  /\ noBets = [u \in Bettor |-> 0]
  /\ balance = 0
  /\ stakedYes = [u \in Bettor |-> 0]
  /\ stakedNo = [u \in Bettor |-> 0]
  /\ received = [u \in Bettor |-> 0]

Tick ==
  /\ now < MaxTime
  /\ now' = now + 1
  /\ UNCHANGED <<flags, book, accruedFees, balance, received>>

\* marketOpen, notSettled, whenNotPaused, and the checks of _placeBet; the
\* token's transferFrom reverts when the bettor cannot pay.
MayBet(u, amount) ==
  /\ StartTime <= now /\ now < EndTime /\ ~canceled
  /\ ~settled
  /\ ~paused
  /\ amount > 0
  /\ totalYes + totalNo + amount <= MaxExposure
  /\ amount <= Wallet(u)

BetYes(u, amount) ==
  /\ MayBet(u, amount)
  /\ yesBets' = [yesBets EXCEPT ![u] = @ + amount]
  /\ totalYes' = totalYes + amount
  /\ balance' = balance + amount
  /\ stakedYes' = [stakedYes EXCEPT ![u] = @ + amount]
  /\ UNCHANGED <<now, flags, totalNo, noBets, stakedNo, accruedFees, received>>

BetNo(u, amount) ==
  /\ MayBet(u, amount)
  /\ noBets' = [noBets EXCEPT ![u] = @ + amount]
  /\ totalNo' = totalNo + amount
  /\ balance' = balance + amount
  /\ stakedNo' = [stakedNo EXCEPT ![u] = @ + amount]
  /\ UNCHANGED <<now, flags, totalYes, yesBets, stakedYes, accruedFees, received>>

\* Mutant: settle without notSettled.
SettleAgain(outcome) ==
  /\ ~canceled
  /\ now >= EndTime + DisputeWindow
  /\ settled' = TRUE
  /\ finalOutcome' = outcome
  /\ UNCHANGED <<now, paused, canceled, book, accruedFees, balance, received>>

\* Called by the settlement authority.  A pause does not hold it back.
Settle(outcome) ==
  /\ ~settled
  /\ ~canceled
  /\ now >= EndTime + DisputeWindow
  /\ settled' = TRUE
  /\ finalOutcome' = outcome
  /\ UNCHANGED <<now, paused, canceled, book, accruedFees, balance, received>>

\* Mutant: cancelMarket without notSettled.
CancelSettledMarket ==
  /\ ~canceled
  /\ canceled' = TRUE
  /\ UNCHANGED <<now, paused, settled, finalOutcome, book, accruedFees, balance, received>>

\* Called by governance, at any time before settlement.
CancelMarket ==
  /\ ~settled
  /\ ~canceled
  /\ canceled' = TRUE
  /\ UNCHANGED <<now, paused, settled, finalOutcome, book, accruedFees, balance, received>>

\* Called by governance; _pause and _unpause revert when there is nothing to change.
SetPaused(p) ==
  /\ p # paused
  /\ paused' = p
  /\ UNCHANGED <<now, settled, canceled, finalOutcome, book, accruedFees, balance, received>>

ClaimRefund(u) ==
  LET refund == yesBets[u] + noBets[u] IN
  /\ Refunding
  /\ refund > 0
  /\ refund <= balance
  /\ yesBets' = [yesBets EXCEPT ![u] = 0]
  /\ noBets' = [noBets EXCEPT ![u] = 0]
  /\ balance' = balance - refund
  /\ received' = [received EXCEPT ![u] = @ + refund]
  /\ UNCHANGED <<now, flags, totalYes, totalNo, stakedYes, stakedNo, accruedFees>>

ClaimPayout(u) ==
  LET stake == WinningBet(u)
      netPayout == Payout(stake) - Fee(stake)
  IN
  /\ PayingOut
  /\ stake > 0
  /\ netPayout <= balance
  /\ IF finalOutcome
       THEN yesBets' = [yesBets EXCEPT ![u] = 0] /\ UNCHANGED noBets
       ELSE noBets' = [noBets EXCEPT ![u] = 0] /\ UNCHANGED yesBets
  /\ accruedFees' = accruedFees + Fee(stake)
  /\ balance' = balance - netPayout
  /\ received' = [received EXCEPT ![u] = @ + netPayout]
  /\ UNCHANGED <<now, flags, totalYes, totalNo, stakedYes, stakedNo>>

\* Mutant: whenNotPaused on claim().
ClaimUnlessPaused(u) == ~paused /\ (ClaimRefund(u) \/ ClaimPayout(u))

Claim(u) == ClaimRefund(u) \/ ClaimPayout(u)

\* Called by the fee treasury or by governance; the fees go to the treasury.
WithdrawFees ==
  /\ accruedFees > 0
  /\ accruedFees <= balance
  /\ accruedFees' = 0
  /\ balance' = balance - accruedFees
  /\ UNCHANGED <<now, flags, book, received>>

Next ==
  \/ Tick
  \/ \E u \in Bettor, amount \in BetAmounts : BetYes(u, amount) \/ BetNo(u, amount)
  \/ \E outcome \in BOOLEAN : Settle(outcome)
  \/ CancelMarket
  \/ \E p \in BOOLEAN : SetPaused(p)
  \/ \E u \in Bettor : Claim(u)
  \/ WithdrawFees

Spec == Init /\ [][Next]_vars

\* A bettor who can claim keeps trying until the claim is mined.  Nothing obliges
\* the settlement authority or governance to act, so neither is fair.
FairSpec == Spec /\ \A u \in Bettor : WF_vars(Claim(u))

-----------------------------------------------------------------------------
(* Properties. *)

\* Types: every amount the contract keeps is a natural number, so none of its
\* checked uint256 subtractions can have underflowed.
TypeOK ==
  /\ now \in Nat
  /\ paused \in BOOLEAN /\ settled \in BOOLEAN
  /\ canceled \in BOOLEAN /\ finalOutcome \in BOOLEAN
  /\ totalYes \in Nat /\ totalNo \in Nat /\ accruedFees \in Nat
  /\ yesBets \in [Bettor -> Nat] /\ noBets \in [Bettor -> Nat]
  /\ balance \in Nat
  /\ stakedYes \in [Bettor -> Nat] /\ stakedNo \in [Bettor -> Nat]
  /\ received \in [Bettor -> Nat]

\* The gross amount claim() would take out of the contract for u, the fee it
\* books included.  Before the verdict it is what a cancellation would refund.
Owed(u) ==
  IF PayingOut THEN Payout(WinningBet(u)) ELSE yesBets[u] + noBets[u]

Outstanding == Total([u \in Bettor |-> Owed(u)], NumBettors)

\* The contract always holds enough tokens for every claim still open and for
\* the fees it has accrued, whatever the order of claims and fee withdrawals and
\* although each payout is computed from totals that never go down.
Solvent == balance >= accruedFees + Outstanding

\* Nothing but rounding stays behind: what the contract holds beyond its
\* obligations is less than one token unit per bettor, and nothing at all until
\* winners are being paid.
OnlyDust ==
  /\ balance < accruedFees + Outstanding + NumBettors
  /\ ~PayingOut => balance = accruedFees + Outstanding

\* The running totals agree with the stakes they summarise.
Totals ==
  /\ totalYes = Total(stakedYes, NumBettors)
  /\ totalNo = Total(stakedNo, NumBettors)

\* A position is as it was staked, or refunded whole, or paid on its winning side.
Positions ==
  \A u \in Bettor :
    \/ received[u] = 0 /\ yesBets[u] = stakedYes[u] /\ noBets[u] = stakedNo[u]
    \/ received[u] > 0 /\ Refunding /\ yesBets[u] = 0 /\ noBets[u] = 0
    \/ received[u] > 0 /\ PayingOut /\ WinningBet(u) = 0

\* The totals that fix the payouts agree with the stakes, the verdict is one of
\* the two, fees exist only where winners are paid, and no position is ever left
\* half paid or paid twice.
Ledger ==
  /\ ~(settled /\ canceled)
  /\ ~PayingOut => accruedFees = 0
  /\ Totals
  /\ Positions

\* The books agree with the custody, from the first bet to the last claim, whoever
\* claims, withdraws fees, cancels or settles first.
Accounts == TypeOK /\ Ledger /\ Solvent /\ OnlyDust

\* The market keeps the promise of MarketEscrow.
Phase ==
  CASE ~settled /\ ~canceled -> "open"
    [] Refunding             -> "refund"
    [] OTHER                 -> IF finalOutcome THEN "yes" ELSE "no"

Escrow == INSTANCE MarketEscrow WITH phase <- Phase

EscrowSpec == Escrow!Spec

\* Whoever is paid as a winner gets at least their winning stake back: the fee is
\* taken from the profit and never from the stake.
WinnersKeepTheirStake ==
  \A u \in Bettor : PayingOut /\ received[u] > 0 =>
    received[u] >= IF finalOutcome THEN stakedYes[u] ELSE stakedNo[u]

\* A decided market pays everybody it owes: no pause, no other claim, no fee
\* withdrawal and no rounding can block a claim for ever.
EveryClaimIsPaid ==
  \A u \in Bettor :
    (settled \/ canceled) /\ Escrow!Entitlement(u) > 0 ~> received[u] = Escrow!Entitlement(u)
=============================================================================
