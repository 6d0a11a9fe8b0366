---------------------------- MODULE MCSettlement ----------------------------
(***************************************************************************)
(* An instance of Settlement for TLC: two factories and an account that    *)
(* may take each other's place, two markets, one registration by hand, and *)
(* arguments on both sides of every limit.                                 *)
(***************************************************************************)
EXTENDS Settlement, TLC

MCParameters ==
  {[minDuration |-> 1, maxDuration |-> 2, maxExposure |-> 1, bond |-> 1],
   [minDuration |-> 1, maxDuration |-> 3, maxExposure |-> 1, bond |-> 0],
   [minDuration |-> 0, maxDuration |-> 1, maxExposure |-> 1, bond |-> 0]}

MCConfigs ==
  {[settlementAuthority |-> "engine", feeBps |-> 0, disputeWindow |-> 1],
   [settlementAuthority |-> "council", feeBps |-> 1000, disputeWindow |-> 0],
   [settlementAuthority |-> "engine", feeBps |-> 1001, disputeWindow |-> 0]}

MCRequests ==
  {[startTime |-> 0, endTime |-> 1, exposure |-> 1],
   [startTime |-> 1, endTime |-> 1, exposure |-> 1],
   [startTime |-> 0, endTime |-> 1, exposure |-> 2]}

Symmetry == Permutations(Factory)
=============================================================================
