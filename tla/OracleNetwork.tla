--------------------------- MODULE OracleNetwork ---------------------------
(***************************************************************************)
(* The oracle contracts: OracleRegistry, OracleStaking, OracleConsensus    *)
(* and OracleSlashing, which call each other and share nothing but the     *)
(* addresses given to their constructors.  Governance is one address for   *)
(* all four, except that OracleStaking's may be the slashing contract:     *)
(* only then can slashOracle move a stake, and only otherwise can          *)
(* governance slash directly.  Both wirings are initial states.            *)
(*                                                                         *)
(* ballots, deposited and withdrawn are history variables: the contracts   *)
(* emit them as events and read none of them.                              *)
(***************************************************************************)
EXTENDS Sums, Integers

CONSTANTS
  NumOracles,       \* oracles are the accounts 1 .. NumOracles
  Market,           \* markets they report on
  MaxDeposit,       \* bound: ether each oracle stakes over its life
  WeightCaps,       \* values of oracleWeightCapBps; the constructor takes any
  SlashRates,       \* values of baseSlashBps
  MinimumStakes     \* values of minimumStake

Bps == 0 .. 10000   \* shares in basis points

ASSUME OracleAssumption ==
  /\ NumOracles \in Nat \ {0}
  /\ MaxDeposit \in Nat
  /\ WeightCaps \subseteq Nat
  /\ SlashRates \subseteq Bps
  /\ MinimumStakes \subseteq Nat

Oracle == 1 .. NumOracles

VARIABLES
  exists, active,                            \* OracleRegistry
  stakes, totalStaked, minimumStake,         \* OracleStaking
  etherHeld,                                 \* its balance
  stakingGovernance,                         \* who may slash: "governance" or "slashing"
  oracleWeightCapBps, finalized, outcome,    \* OracleConsensus
  yesWeight, noWeight, submitted,
  baseSlashBps,                              \* OracleSlashing
  ballots, deposited, withdrawn              \* history

registry  == <<exists, active>>
staking   == <<stakes, totalStaked, minimumStake, etherHeld, stakingGovernance, deposited, withdrawn>>
verdicts  == <<finalized, outcome>>
tallies   == <<yesWeight, noWeight, submitted, ballots>>
consensus == <<oracleWeightCapBps, verdicts, tallies>>
vars      == <<registry, staking, consensus, baseSlashBps>>

NoBallot == [weight |-> 0, choice |-> FALSE]

Init ==
  /\ exists = [o \in Oracle |-> FALSE]
  /\ active = [o \in Oracle |-> FALSE]
  /\ stakes = [o \in Oracle |-> 0]
  /\ totalStaked = 0
  /\ minimumStake \in MinimumStakes
  /\ etherHeld = 0
  /\ stakingGovernance \in {"governance", "slashing"}
  /\ oracleWeightCapBps \in WeightCaps
  /\ finalized = [m \in Market |-> FALSE]
  /\ outcome = [m \in Market |-> FALSE]
  /\ yesWeight = [m \in Market |-> 0]
  /\ noWeight = [m \in Market |-> 0]
  /\ submitted = [m \in Market |-> [o \in Oracle |-> FALSE]]
  /\ baseSlashBps \in SlashRates
  /\ ballots = [m \in Market |-> [o \in Oracle |-> NoBallot]]
  /\ deposited = [o \in Oracle |-> 0]
  /\ withdrawn = [o \in Oracle |-> 0]

-----------------------------------------------------------------------------
(* OracleRegistry *)

RegisterOracle(o) ==
  /\ ~exists[o]
  /\ exists' = [exists EXCEPT ![o] = TRUE]
  /\ active' = [active EXCEPT ![o] = FALSE]
  /\ UNCHANGED <<staking, consensus, baseSlashBps>>

ActivateOracle(o) ==
  /\ exists[o]
  /\ active' = [active EXCEPT ![o] = TRUE]
  /\ UNCHANGED <<exists, staking, consensus, baseSlashBps>>

DeactivateOracle(o) ==
  /\ exists[o]
  /\ active' = [active EXCEPT ![o] = FALSE]
  /\ UNCHANGED <<exists, staking, consensus, baseSlashBps>>

-----------------------------------------------------------------------------
(* OracleStaking *)

Stake(o, amount) ==
  /\ active[o]
  /\ amount > 0
  /\ deposited[o] + amount <= MaxDeposit
  /\ stakes' = [stakes EXCEPT ![o] = @ + amount]
  /\ totalStaked' = totalStaked + amount
  /\ etherHeld' = etherHeld + amount
  /\ deposited' = [deposited EXCEPT ![o] = @ + amount]
  /\ UNCHANGED <<registry, minimumStake, stakingGovernance, withdrawn, consensus, baseSlashBps>>

\* Mutant: the total is not lowered.
TakeStakeOnly(o, amount) ==
  /\ amount > 0 /\ amount <= stakes[o]
  /\ stakes' = [stakes EXCEPT ![o] = @ - amount]
  /\ UNCHANGED totalStaked

\* What slash and withdraw have in common.
TakeStake(o, amount) ==
  /\ amount > 0 /\ amount <= stakes[o]
  /\ stakes' = [stakes EXCEPT ![o] = @ - amount]
  /\ totalStaked' = totalStaked - amount

\* Slashed ether stays in the staking contract, which has no way to pay it out.
Slash(o, amount) ==
  /\ TakeStake(o, amount)
  /\ UNCHANGED <<minimumStake, etherHeld, stakingGovernance, deposited, withdrawn>>

GovernanceSlash(o, amount) ==
  /\ stakingGovernance = "governance"
  /\ Slash(o, amount)
  /\ UNCHANGED <<registry, consensus, baseSlashBps>>

\* Mutant: only active oracles may withdraw.
WithdrawWhileActive(o, amount) ==
  /\ active[o]
  /\ TakeStake(o, amount)
  /\ amount <= etherHeld
  /\ etherHeld' = etherHeld - amount
  /\ withdrawn' = [withdrawn EXCEPT ![o] = @ + amount]
  /\ UNCHANGED <<registry, minimumStake, stakingGovernance, deposited, consensus, baseSlashBps>>

Withdraw(o, amount) ==
  /\ ~active[o]
  /\ TakeStake(o, amount)
  /\ amount <= etherHeld
  /\ etherHeld' = etherHeld - amount
  /\ withdrawn' = [withdrawn EXCEPT ![o] = @ + amount]
  /\ UNCHANGED <<registry, minimumStake, stakingGovernance, deposited, consensus, baseSlashBps>>

UpdateMinimumStake(newMinimumStake) ==
  /\ stakingGovernance = "governance"
  /\ minimumStake' = newMinimumStake
  /\ UNCHANGED <<registry, stakes, totalStaked, etherHeld, stakingGovernance,
                 deposited, withdrawn, consensus, baseSlashBps>>

-----------------------------------------------------------------------------
(* OracleConsensus *)

UpdateWeightCap(newCapBps) ==
  /\ newCapBps \in Bps
  /\ oracleWeightCapBps' = newCapBps
  /\ UNCHANGED <<registry, staking, verdicts, tallies, baseSlashBps>>

MaxWeight == (totalStaked * oracleWeightCapBps) \div 10000

Weight(o) == IF stakes[o] > MaxWeight THEN MaxWeight ELSE stakes[o]

MaySubmit(o, m) ==
  /\ active[o]
  /\ ~finalized[m]
  /\ ~submitted[m][o]
  /\ Weight(o) > 0

SubmitOutcome(o, m, choice) ==
  /\ MaySubmit(o, m)
  /\ submitted' = [submitted EXCEPT ![m][o] = TRUE]
  /\ IF choice
       THEN yesWeight' = [yesWeight EXCEPT ![m] = @ + Weight(o)] /\ UNCHANGED noWeight
       ELSE noWeight' = [noWeight EXCEPT ![m] = @ + Weight(o)] /\ UNCHANGED yesWeight
  /\ ballots' = [ballots EXCEPT ![m][o] = [weight |-> Weight(o), choice |-> choice]]
  /\ UNCHANGED <<registry, staking, oracleWeightCapBps, verdicts, baseSlashBps>>

\* Mutant: a tie means no.
FinalizeTieNo(m) ==
  /\ ~finalized[m]
  /\ finalized' = [finalized EXCEPT ![m] = TRUE]
  /\ outcome' = [outcome EXCEPT ![m] = yesWeight[m] > noWeight[m]]
  /\ UNCHANGED <<registry, staking, oracleWeightCapBps, tallies, baseSlashBps>>

\* Called by governance, at a time of its choosing; a tie, and silence, mean yes.
FinalizeConsensus(m) ==
  /\ ~finalized[m]
  /\ finalized' = [finalized EXCEPT ![m] = TRUE]
  /\ outcome' = [outcome EXCEPT ![m] = yesWeight[m] >= noWeight[m]]
  /\ UNCHANGED <<registry, staking, oracleWeightCapBps, tallies, baseSlashBps>>

-----------------------------------------------------------------------------
(* OracleSlashing *)

UpdateBaseSlash(newSlashBps) ==
  /\ baseSlashBps' = newSlashBps
  /\ UNCHANGED <<registry, staking, consensus>>

\* Mutant: a missing verdict counts as no.
SlashableEarly(o, m, oracleOutcome) == active[o] /\ oracleOutcome # outcome[m]

\* Past these checks slashOracle returns when oracleOutcome is the verdict.
Slashable(o, m, oracleOutcome) ==
  /\ finalized[m]
  /\ active[o]
  /\ oracleOutcome # outcome[m]

\* oracleOutcome is governance's word for what the oracle submitted.  In the other
\* wiring the call to OracleStaking reverts, and everything with it.
SlashOracle(o, m, oracleOutcome) ==
  /\ stakingGovernance = "slashing"
  /\ Slashable(o, m, oracleOutcome)
  /\ Slash(o, (stakes[o] * baseSlashBps) \div 10000)
  /\ UNCHANGED <<registry, consensus, baseSlashBps>>

-----------------------------------------------------------------------------
Next ==
  \/ \E o \in Oracle : RegisterOracle(o) \/ ActivateOracle(o) \/ DeactivateOracle(o)
  \/ \E o \in Oracle, amount \in 1 .. MaxDeposit :
       Stake(o, amount) \/ Withdraw(o, amount) \/ GovernanceSlash(o, amount)
  \/ \E newMinimumStake \in MinimumStakes : UpdateMinimumStake(newMinimumStake)
  \/ \E newCapBps \in WeightCaps : UpdateWeightCap(newCapBps)
  \/ \E o \in Oracle, m \in Market, choice \in BOOLEAN : SubmitOutcome(o, m, choice)
  \/ \E m \in Market : FinalizeConsensus(m)
  \/ \E newSlashBps \in SlashRates : UpdateBaseSlash(newSlashBps)
  \/ \E o \in Oracle, m \in Market, oracleOutcome \in BOOLEAN : SlashOracle(o, m, oracleOutcome)

Spec == Init /\ [][Next]_vars

\* An oracle that may withdraw everything it still has keeps trying to.
FairSpec == Spec /\ \A o \in Oracle : WF_vars(Withdraw(o, stakes[o]))

-----------------------------------------------------------------------------
(* Properties. *)

\* Types: every amount is a natural number, so no checked subtraction underflowed.
TypeOK ==
  /\ exists \in [Oracle -> BOOLEAN] /\ active \in [Oracle -> BOOLEAN]
  /\ stakes \in [Oracle -> Nat] /\ totalStaked \in Nat /\ minimumStake \in Nat
  /\ etherHeld \in Nat /\ stakingGovernance \in {"governance", "slashing"}
  /\ oracleWeightCapBps \in Nat /\ baseSlashBps \in Bps
  /\ finalized \in [Market -> BOOLEAN] /\ outcome \in [Market -> BOOLEAN]
  /\ yesWeight \in [Market -> Nat] /\ noWeight \in [Market -> Nat]
  /\ submitted \in [Market -> [Oracle -> BOOLEAN]]
  /\ ballots \in [Market -> [Oracle -> [weight : Nat, choice : BOOLEAN]]]
  /\ deposited \in [Oracle -> Nat] /\ withdrawn \in [Oracle -> Nat]

Slashed(o) == deposited[o] - withdrawn[o] - stakes[o]

\* The total that caps every weight is the sum of the stakes, and the contract
\* holds the ether of every stake and of every slash: deposits, slashes and
\* withdrawals of all oracles, in any order, never lend out each other's ether.
StakeBooked ==
  /\ totalStaked = Total(stakes, NumOracles)
  /\ etherHeld + Total(withdrawn, NumOracles) = Total(deposited, NumOracles)
  /\ \A o \in Oracle : Slashed(o) >= 0

\* The weight o's ballot on m gave to the given side.
Given(m, side) ==
  [o \in Oracle |-> IF submitted[m][o] /\ ballots[m][o].choice = side THEN ballots[m][o].weight ELSE 0]

\* The tallies are the oracles' ballots, one each, whatever happened to stakes,
\* caps and activity since, and a verdict is the heavier side of them.
TalliesAreBallots ==
  \A m \in Market :
    /\ yesWeight[m] = Total(Given(m, TRUE), NumOracles)
    /\ noWeight[m] = Total(Given(m, FALSE), NumOracles)
    /\ finalized[m] => outcome[m] = (yesWeight[m] >= noWeight[m])

\* Stakes and ballots are booked as they were given: of four contracts that read
\* each other's state, none changes what another has already counted.
BookedAsGiven == TypeOK /\ StakeBooked /\ TalliesAreBallots

\* "Exposes a single, canonical outcome": once finalized, neither the verdict nor
\* the ballots it rests on change.
VerdictIsFinal ==
  [][\A m \in Market : finalized[m] =>
       /\ finalized'[m] /\ outcome'[m] = outcome[m]
       /\ yesWeight'[m] = yesWeight[m] /\ noWeight'[m] = noWeight[m]
       /\ submitted'[m] = submitted[m]]_vars

Polls == INSTANCE Poll WITH
  NumVoters <- NumOracles, Question <- Market, cast <- ballots,
  verdict <- [m \in Market |-> IF ~finalized[m] THEN "none" ELSE IF outcome[m] THEN "yes" ELSE "no"]

\* The contracts implement the poll: though stakes and the cap move between ballots,
\* and tallies are only ever added to, the verdict is the one a recount of one
\* ballot for each oracle gives at that moment.
PollSpec == Polls!Spec

\* Where stakes are slashed through OracleSlashing, nobody loses stake before there
\* is a verdict.
SafeBeforeVerdict ==
  \A o \in Oracle :
    stakingGovernance = "slashing" /\ Slashed(o) > 0 => \E m \in Market : finalized[m]

\* An oracle that is out for good gets back all it still has at stake.
StakeReturned == \A o \in Oracle : <>[](~active[o]) => <>[](stakes[o] = 0)

=============================================================================
