---------------------------- MODULE MarketEscrow ----------------------------
(***************************************************************************)
(* What a prediction market promises the people who bet in it, whatever    *)
(* its bookkeeping: stakes are only added while the market is undecided,   *)
(* the verdict is given once and never changes, and each bettor receives   *)
(* what the recorded stakes entitle them to, once and in full.             *)
(***************************************************************************)
EXTENDS Sums, Integers

CONSTANTS NumBettors, FeeBps

Bettor == 1 .. NumBettors

VARIABLES
  phase,      \* "open", "yes", "no" (the winning side) or "refund"
  stakedYes,  \* what each bettor ever put on yes
  stakedNo,   \* what each bettor ever put on no
  received    \* what each bettor ever got back

vars == <<phase, stakedYes, stakedNo, received>>

BpsDenominator == 10000

Pool == Total(stakedYes, NumBettors) + Total(stakedNo, NumBettors)

\* A winner's share of the whole pool, rounded down, less the fee on the profit.
Share(stake, winningPool) ==
  LET gross == (stake * Pool) \div winningPool
      fee   == ((gross - stake) * FeeBps) \div BpsDenominator
  IN  gross - fee

Entitlement(u) ==
  CASE phase = "open"   -> 0
    [] phase = "refund" -> stakedYes[u] + stakedNo[u]
    [] phase = "yes"    -> Share(stakedYes[u], Total(stakedYes, NumBettors))
    [] phase = "no"     -> Share(stakedNo[u], Total(stakedNo, NumBettors))

Init ==
  /\ phase = "open"
  /\ stakedYes = [u \in Bettor |-> 0]
  /\ stakedNo = [u \in Bettor |-> 0]
  /\ received = [u \in Bettor |-> 0]

\* One bettor adds to one side.
Stake ==
  /\ phase = "open"
  /\ \/ /\ \E u \in Bettor : /\ stakedYes'[u] > stakedYes[u]
                             /\ stakedYes' = [stakedYes EXCEPT ![u] = stakedYes'[u]]
        /\ UNCHANGED stakedNo
     \/ /\ \E u \in Bettor : /\ stakedNo'[u] > stakedNo[u]
                             /\ stakedNo' = [stakedNo EXCEPT ![u] = stakedNo'[u]]
        /\ UNCHANGED stakedYes
  /\ UNCHANGED <<phase, received>>

\* A side can only win if somebody bet on it; otherwise everybody is refunded.
Decide ==
  /\ phase = "open"
  /\ \/ phase' = "refund"
     \/ phase' = "yes" /\ Total(stakedYes, NumBettors) > 0
     \/ phase' = "no" /\ Total(stakedNo, NumBettors) > 0
  /\ UNCHANGED <<stakedYes, stakedNo, received>>

Pay ==
  /\ \E u \in Bettor :
       /\ received[u] = 0
       /\ Entitlement(u) > 0
       /\ received' = [received EXCEPT ![u] = Entitlement(u)]
  /\ UNCHANGED <<phase, stakedYes, stakedNo>>

Next == Stake \/ Decide \/ Pay

Spec == Init /\ [][Next]_vars
=============================================================================
