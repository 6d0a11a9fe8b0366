------------------------ MODULE OracleNetworkProofs ------------------------
(***************************************************************************)
(* The safety properties of OracleNetwork, for any oracles, markets,       *)
(* deposits, caps and slashes, in both wirings of the staking contract.    *)
(* They support each other: that no subtraction underflows (TypeOK) rests  *)
(* on the books (StakeBooked), and the books on the types.                 *)
(***************************************************************************)
EXTENDS OracleNetwork, SumTheorems

Books == TypeOK /\ StakeBooked

-----------------------------------------------------------------------------
(* Totals when one account moves. *)

\* g is f with x more, or x less, for u.
Raised(f, g, u, x)  == g = [f EXCEPT ![u] = f[u] + x]
Lowered(f, g, u, x) == x <= f[u] /\ g = [f EXCEPT ![u] = f[u] - x]

LEMMA TotalAdd ==
  ASSUME NEW n \in Nat, NEW f \in [1 .. n -> Nat], NEW u \in 1 .. n, NEW x \in Nat,
         NEW g, Raised(f, g, u, x)
  PROVE  g \in [1 .. n -> Nat] /\ Total(g, n) = Total(f, n) + x
<1>1. PICK y \in Nat : y = f[u]
  OBVIOUS
<1>2. g \in [1 .. n -> Nat]
  BY <1>1 DEF Raised
<1>3. g[u] = y + x
  BY <1>1 DEF Raised
<1>4. \A v \in 1 .. n : v # u => g[v] = f[v]
  BY DEF Raised
<1>5. Total(g, n) + f[u] = Total(f, n) + g[u]
  BY <1>2, <1>4, TotalUpdate
<1>6. PICK a \in Nat, b \in Nat : a = Total(f, n) /\ b = Total(g, n)
  BY <1>2, TotalNat
<1>7. b + y = a + (y + x)
  BY <1>1, <1>3, <1>5, <1>6
<1>8. b = a + x
  BY <1>7
<1> QED BY <1>2, <1>6, <1>8

LEMMA TotalTake ==
  ASSUME NEW n \in Nat, NEW f \in [1 .. n -> Nat], NEW u \in 1 .. n, NEW x \in Nat,
         NEW g, Lowered(f, g, u, x)
  PROVE  g \in [1 .. n -> Nat] /\ x <= Total(f, n) /\ Total(g, n) = Total(f, n) - x
<1>1. PICK y \in Nat, z \in Nat : y = f[u] /\ z = y - x /\ x <= y
  BY DEF Lowered
<1>2. g \in [1 .. n -> Nat]
  BY <1>1 DEF Lowered
<1>3. g[u] = z
  BY <1>1 DEF Lowered
<1>4. \A v \in 1 .. n : v # u => g[v] = f[v]
  BY DEF Lowered
<1>5. Total(g, n) + f[u] = Total(f, n) + g[u]
  BY <1>2, <1>4, TotalUpdate
<1>6. PICK a \in Nat, b \in Nat : a = Total(f, n) /\ b = Total(g, n)
  BY <1>2, TotalNat
<1>7. b + y = a + z
  BY <1>1, <1>3, <1>5, <1>6
<1>8. y <= a
  BY <1>1, <1>6, TotalAtLeast
<1>9. b = a - x /\ x <= a
  BY <1>1, <1>7, <1>8
<1> QED BY <1>2, <1>6, <1>9

LEMMA ZeroTotal ==
  ASSUME NEW f, f = [o \in Oracle |-> 0]
  PROVE  Total(f, NumOracles) = 0
<1>1. NumOracles \in Nat \ {0}
  BY OracleAssumption
<1>2. f \in [1 .. NumOracles -> Nat] /\ \A o \in 1 .. NumOracles : f[o] = 0
  BY DEF Oracle
<1> QED BY <1>1, <1>2, TotalZero

LEMMA BpsNat == \A x \in Bps : x \in Nat
BY DEF Bps

LEMMA AccountTypes ==
  ASSUME TypeOK
  PROVE  /\ NumOracles \in Nat /\ Oracle = 1 .. NumOracles
         /\ stakes \in [1 .. NumOracles -> Nat]
         /\ deposited \in [1 .. NumOracles -> Nat]
         /\ withdrawn \in [1 .. NumOracles -> Nat]
         /\ totalStaked \in Nat /\ etherHeld \in Nat /\ baseSlashBps \in Nat
<1>1. NumOracles \in Nat /\ Oracle = 1 .. NumOracles
  BY OracleAssumption DEF Oracle
<1>2. /\ stakes \in [Oracle -> Nat] /\ deposited \in [Oracle -> Nat] /\ withdrawn \in [Oracle -> Nat]
      /\ totalStaked \in Nat /\ etherHeld \in Nat /\ baseSlashBps \in Nat
  BY BpsNat DEF TypeOK
<1> QED BY <1>1, <1>2

-----------------------------------------------------------------------------
(* Stakes. *)

\* What a step of OracleStaking may touch.
accounts == <<stakes, totalStaked, etherHeld, deposited, withdrawn>>

\* What a slash does, whoever asks for it.
Slashes(o, amount) ==
  /\ TakeStake(o, amount)
  /\ UNCHANGED <<etherHeld, deposited, withdrawn>>

\* The steps, by what they do to the accounts.
LEMMA StakingCases ==
  ASSUME TypeOK, [Next]_vars
  PROVE  \/ \E o \in Oracle, amount \in Nat : Stake(o, amount) \/ Withdraw(o, amount)
         \/ \E o \in Oracle, amount \in Nat :
              /\ Slashes(o, amount)
              /\ stakingGovernance = "slashing" => \E m \in Market : finalized[m]
         \/ UNCHANGED accounts
<1>1. ASSUME NEW o \in Oracle, NEW amount \in 1 .. MaxDeposit, GovernanceSlash(o, amount)
      PROVE  Slashes(o, amount) /\ amount \in Nat /\ stakingGovernance # "slashing"
  BY <1>1, OracleAssumption DEF GovernanceSlash, Slash, Slashes
<1>2. ASSUME NEW o \in Oracle, NEW m \in Market, NEW oracleOutcome \in BOOLEAN,
             SlashOracle(o, m, oracleOutcome)
      PROVE  \E amount \in Nat : Slashes(o, amount) /\ finalized[m]
  <2>1. PICK x \in Nat, y \in Nat : x = stakes[o] /\ y = baseSlashBps
    BY AccountTypes
  <2>2. (x * y) \div 10000 \in Nat
    OBVIOUS
  <2>3. (stakes[o] * baseSlashBps) \div 10000 \in Nat
    BY <2>1, <2>2
  <2> QED BY <1>2, <2>3 DEF SlashOracle, Slashable, Slash, Slashes
<1>3. CASE \E o \in Oracle, m \in Market, oracleOutcome \in BOOLEAN : SlashOracle(o, m, oracleOutcome)
  BY <1>2, <1>3
<1>4. CASE \E o \in Oracle, amount \in 1 .. MaxDeposit : GovernanceSlash(o, amount)
  BY <1>1, <1>4
<1>5. CASE UNCHANGED <<stakes, totalStaked, etherHeld, deposited, withdrawn>>
  BY <1>5 DEF accounts
<1>6. CASE \E o \in Oracle, amount \in 1 .. MaxDeposit : Stake(o, amount) \/ Withdraw(o, amount)
  <2>1. \A amount \in 1 .. MaxDeposit : amount \in Nat
    BY OracleAssumption
  <2> QED BY <1>6, <2>1
<1> QED BY <1>3, <1>4, <1>5, <1>6 DEF Next, vars, staking, RegisterOracle, ActivateOracle,
      DeactivateOracle, UpdateMinimumStake, UpdateWeightCap, SubmitOutcome, FinalizeConsensus,
      UpdateBaseSlash

\* A slash and a withdrawal take what is there.
LEMMA TakeStakeBooked ==
  ASSUME TypeOK, StakeBooked, NEW o \in Oracle, NEW amount \in Nat, TakeStake(o, amount)
  PROVE  /\ stakes' \in [Oracle -> Nat] /\ totalStaked' \in Nat
         /\ totalStaked' = Total(stakes', NumOracles)
         /\ stakes'[o] = stakes[o] - amount
         /\ \A v \in Oracle : v # o => stakes'[v] = stakes[v]
<1>1. /\ NumOracles \in Nat /\ Oracle = 1 .. NumOracles /\ o \in 1 .. NumOracles
      /\ stakes \in [1 .. NumOracles -> Nat]
  BY AccountTypes
<1>2. PICK taken : taken = stakes'
  OBVIOUS
<1>3. Lowered(stakes, taken, o, amount)
  BY <1>2 DEF TakeStake, Lowered
<1>4. /\ taken \in [1 .. NumOracles -> Nat] /\ amount <= Total(stakes, NumOracles)
      /\ Total(taken, NumOracles) = Total(stakes, NumOracles) - amount
  BY <1>1, <1>3, TotalTake
<1>5. PICK a \in Nat : a = Total(stakes, NumOracles) /\ totalStaked = a /\ totalStaked' = a - amount
  BY AccountTypes DEF StakeBooked, TakeStake
<1>6. totalStaked' \in Nat /\ totalStaked' = Total(taken, NumOracles)
  BY <1>4, <1>5
<1>7. taken[o] = stakes[o] - amount /\ \A v \in Oracle : v # o => taken[v] = stakes[v]
  BY <1>1, <1>3 DEF Lowered
<1> QED BY <1>1, <1>2, <1>4, <1>6, <1>7

AccountsOK ==
  /\ stakes \in [Oracle -> Nat] /\ totalStaked \in Nat /\ etherHeld \in Nat
  /\ deposited \in [Oracle -> Nat] /\ withdrawn \in [Oracle -> Nat]
  /\ StakeBooked

LEMMA AccountsNext == Books /\ [Next]_vars => AccountsOK'
<1> SUFFICES ASSUME TypeOK, StakeBooked, [Next]_vars PROVE AccountsOK'
  BY DEF Books
<1>1. /\ NumOracles \in Nat /\ Oracle = 1 .. NumOracles
      /\ stakes \in [1 .. NumOracles -> Nat]
      /\ deposited \in [1 .. NumOracles -> Nat]
      /\ withdrawn \in [1 .. NumOracles -> Nat]
  BY AccountTypes
<1>2. PICK s \in Nat, d \in Nat, w \in Nat, e \in Nat :
        /\ s = Total(stakes, NumOracles) /\ s = totalStaked
        /\ d = Total(deposited, NumOracles) /\ w = Total(withdrawn, NumOracles)
        /\ e = etherHeld /\ e + w = d
  BY <1>1, TotalNat, AccountTypes DEF StakeBooked
<1>3. \A v \in Oracle : deposited[v] - withdrawn[v] - stakes[v] >= 0
  BY DEF StakeBooked, Slashed
<1>4. ASSUME NEW o \in Oracle, NEW amount \in Nat, Stake(o, amount)
      PROVE  AccountsOK'
  <2>1. amount \in Nat /\ o \in 1 .. NumOracles
    BY DEF Oracle
  <2>2. /\ stakes' = [stakes EXCEPT ![o] = stakes[o] + amount]
        /\ deposited' = [deposited EXCEPT ![o] = deposited[o] + amount]
        /\ withdrawn' = withdrawn
        /\ totalStaked' = s + amount /\ etherHeld' = e + amount
    BY <1>2, <1>4 DEF Stake
  <2>3. /\ stakes' \in [1 .. NumOracles -> Nat] /\ Total(stakes', NumOracles) = s + amount
        /\ deposited' \in [1 .. NumOracles -> Nat] /\ Total(deposited', NumOracles) = d + amount
    <3>1. PICK f, g : f = stakes' /\ g = deposited'
      OBVIOUS
    <3>4. Raised(stakes, f, o, amount) /\ Raised(deposited, g, o, amount)
      BY <2>2, <3>1 DEF Raised
    <3>2. f \in [1 .. NumOracles -> Nat] /\ Total(f, NumOracles) = Total(stakes, NumOracles) + amount
      <4>1. NumOracles \in Nat /\ stakes \in [1 .. NumOracles -> Nat] /\ Raised(stakes, f, o, amount)
        BY <1>1, <3>4
      <4> QED BY <2>1, <4>1, TotalAdd
    <3>3. g \in [1 .. NumOracles -> Nat] /\ Total(g, NumOracles) = Total(deposited, NumOracles) + amount
      <4>1. NumOracles \in Nat /\ deposited \in [1 .. NumOracles -> Nat] /\ Raised(deposited, g, o, amount)
        BY <1>1, <3>4
      <4> QED BY <2>1, <4>1, TotalAdd
    <3> QED BY <1>2, <3>1, <3>2, <3>3
  <2>4. \A v \in Oracle : deposited'[v] - withdrawn'[v] - stakes'[v] >= 0
    <3>1. SUFFICES ASSUME NEW v \in Oracle PROVE deposited'[v] - withdrawn'[v] - stakes'[v] >= 0
      OBVIOUS
    <3>2. PICK x \in Nat, y \in Nat, z \in Nat : x = deposited[v] /\ y = withdrawn[v] /\ z = stakes[v]
      BY DEF TypeOK
    <3>3. \/ deposited'[v] = x /\ stakes'[v] = z
          \/ deposited'[v] = x + amount /\ stakes'[v] = z + amount
      BY <1>1, <2>2, <3>2 DEF Oracle
    <3>4. withdrawn'[v] = y /\ x - y - z >= 0
      BY <1>3, <2>2, <3>2
    <3> QED BY <2>1, <3>2, <3>3, <3>4
  <2>5. /\ totalStaked' = Total(stakes', NumOracles)
        /\ etherHeld' + Total(withdrawn', NumOracles) = Total(deposited', NumOracles)
        /\ totalStaked' \in Nat /\ etherHeld' \in Nat
    BY <1>2, <2>1, <2>2, <2>3
  <2>6. stakes' \in [Oracle -> Nat] /\ deposited' \in [Oracle -> Nat] /\ withdrawn' \in [Oracle -> Nat]
    BY <1>1, <2>2, <2>3
  <2> QED BY <2>4, <2>5, <2>6 DEF AccountsOK, StakeBooked, Slashed
<1>5. ASSUME NEW o \in Oracle, NEW amount \in Nat, Withdraw(o, amount)
      PROVE  AccountsOK'
  <2>1. amount \in Nat /\ o \in 1 .. NumOracles /\ amount <= e
    BY <1>2, <1>5 DEF Oracle, Withdraw
  <2>2. /\ withdrawn' = [withdrawn EXCEPT ![o] = withdrawn[o] + amount]
        /\ deposited' = deposited /\ etherHeld' = e - amount
    BY <1>2, <1>5 DEF Withdraw
  <2>3. /\ stakes' \in [Oracle -> Nat] /\ totalStaked' \in Nat
        /\ totalStaked' = Total(stakes', NumOracles)
        /\ stakes'[o] = stakes[o] - amount
        /\ \A v \in Oracle : v # o => stakes'[v] = stakes[v]
    BY <1>5, <2>1, TakeStakeBooked DEF Withdraw
  <2>4. withdrawn' \in [1 .. NumOracles -> Nat] /\ Total(withdrawn', NumOracles) = w + amount
    <3>1. PICK f : f = withdrawn'
      OBVIOUS
    <3>4. Raised(withdrawn, f, o, amount)
      BY <2>2, <3>1 DEF Raised
    <3>2. f \in [1 .. NumOracles -> Nat] /\ Total(f, NumOracles) = Total(withdrawn, NumOracles) + amount
      <4>1. NumOracles \in Nat /\ withdrawn \in [1 .. NumOracles -> Nat] /\ Raised(withdrawn, f, o, amount)
        BY <1>1, <3>4
      <4> QED BY <2>1, <4>1, TotalAdd
    <3> QED BY <1>2, <3>1, <3>2
  <2>5. \A v \in Oracle : deposited'[v] - withdrawn'[v] - stakes'[v] >= 0
    <3>1. SUFFICES ASSUME NEW v \in Oracle PROVE deposited'[v] - withdrawn'[v] - stakes'[v] >= 0
      OBVIOUS
    <3>2. PICK x \in Nat, y \in Nat, z \in Nat : x = deposited[v] /\ y = withdrawn[v] /\ z = stakes[v]
      BY DEF TypeOK
    <3>3. \/ withdrawn'[v] = y /\ stakes'[v] = z
          \/ withdrawn'[v] = y + amount /\ stakes'[v] = z - amount
      BY <1>1, <2>2, <2>3, <3>2 DEF Oracle
    <3>4. deposited'[v] = x /\ x - y - z >= 0
      BY <1>3, <2>2, <3>2
    <3> QED BY <2>1, <3>2, <3>3, <3>4
  <2>6. etherHeld' \in Nat /\ etherHeld' + Total(withdrawn', NumOracles) = d
    BY <1>2, <2>1, <2>2, <2>4
  <2> QED BY <1>1, <1>2, <2>2, <2>3, <2>4, <2>5, <2>6 DEF AccountsOK, StakeBooked, Slashed, Oracle
<1>6. ASSUME NEW o \in Oracle, NEW amount \in Nat, Slashes(o, amount)
      PROVE  AccountsOK'
  <2>1. UNCHANGED <<etherHeld, deposited, withdrawn>>
    BY <1>6 DEF Slashes
  <2>2. /\ stakes' \in [Oracle -> Nat] /\ totalStaked' \in Nat
        /\ totalStaked' = Total(stakes', NumOracles)
        /\ stakes'[o] = stakes[o] - amount
        /\ \A v \in Oracle : v # o => stakes'[v] = stakes[v]
    BY <1>6, TakeStakeBooked DEF Slashes
  <2>3. \A v \in Oracle : deposited'[v] - withdrawn'[v] - stakes'[v] >= 0
    <3>1. SUFFICES ASSUME NEW v \in Oracle PROVE deposited'[v] - withdrawn'[v] - stakes'[v] >= 0
      OBVIOUS
    <3>2. PICK x \in Nat, y \in Nat, z \in Nat : x = deposited[v] /\ y = withdrawn[v] /\ z = stakes[v]
      BY DEF TypeOK
    <3>3. stakes'[v] = z \/ stakes'[v] = z - amount
      BY <2>2, <3>2
    <3>4. deposited'[v] = x /\ withdrawn'[v] = y /\ x - y - z >= 0
      BY <1>3, <2>1, <3>2
    <3> QED BY <3>2, <3>3, <3>4
  <2> QED BY <1>1, <1>2, <2>1, <2>2, <2>3 DEF AccountsOK, StakeBooked, Slashed, Oracle
<1>7. ASSUME UNCHANGED accounts PROVE AccountsOK'
  BY <1>7 DEF accounts, AccountsOK, StakeBooked, Slashed, TypeOK
<1> QED BY <1>4, <1>5, <1>6, <1>7, StakingCases

LEMMA ArgumentTypes ==
  /\ \A x \in WeightCaps : x \in Nat
  /\ \A x \in SlashRates : x \in Bps
  /\ \A x \in MinimumStakes : x \in Nat
BY OracleAssumption

LEMMA BooksInit == Init => Books
<1> SUFFICES ASSUME Init PROVE Books
  OBVIOUS
<1>1. TypeOK
  <2>1. oracleWeightCapBps \in Nat /\ baseSlashBps \in Bps /\ minimumStake \in Nat
    <3>1. oracleWeightCapBps \in WeightCaps /\ baseSlashBps \in SlashRates /\ minimumStake \in MinimumStakes
      BY DEF Init
    <3> QED BY <3>1, ArgumentTypes
  <2>2. ballots \in [Market -> [Oracle -> [weight : Nat, choice : BOOLEAN]]]
    BY DEF Init, NoBallot
  <2> QED BY <2>1, <2>2 DEF Init, TypeOK
<1>2. /\ Total(stakes, NumOracles) = 0
      /\ Total(deposited, NumOracles) = 0
      /\ Total(withdrawn, NumOracles) = 0
  BY ZeroTotal DEF Init
<1>3. StakeBooked
  BY <1>2 DEF Init, StakeBooked, Slashed
<1> QED BY <1>1, <1>3 DEF Books

-----------------------------------------------------------------------------
(* The other types. *)

LEMMA WeightNat ==
  ASSUME TypeOK, NEW o \in Oracle
  PROVE  Weight(o) \in Nat
<1>1. PICK t \in Nat, c \in Nat, s \in Nat : t = totalStaked /\ c = oracleWeightCapBps /\ s = stakes[o]
  BY BpsNat DEF TypeOK
<1>2. (t * c) \div 10000 \in Nat
  OBVIOUS
<1>3. MaxWeight \in Nat
  BY <1>1, <1>2 DEF MaxWeight
<1> QED BY <1>1, <1>3 DEF Weight

LEMMA SubmitTypes ==
  ASSUME TypeOK, NEW o \in Oracle, NEW m \in Market, NEW choice \in BOOLEAN, SubmitOutcome(o, m, choice)
  PROVE  /\ yesWeight' \in [Market -> Nat] /\ noWeight' \in [Market -> Nat]
         /\ submitted' \in [Market -> [Oracle -> BOOLEAN]]
         /\ ballots' \in [Market -> [Oracle -> [weight : Nat, choice : BOOLEAN]]]
<1>1. PICK w \in Nat : w = Weight(o)
  BY WeightNat
<1>2. /\ yesWeight \in [Market -> Nat] /\ noWeight \in [Market -> Nat]
      /\ submitted \in [Market -> [Oracle -> BOOLEAN]]
      /\ ballots \in [Market -> [Oracle -> [weight : Nat, choice : BOOLEAN]]]
  BY DEF TypeOK
<1>3. yesWeight' \in [Market -> Nat]
  <2>1. yesWeight' = yesWeight \/ yesWeight' = [yesWeight EXCEPT ![m] = @ + w]
    BY <1>1 DEF SubmitOutcome
  <2> QED BY <1>2, <2>1
<1>4. noWeight' \in [Market -> Nat]
  <2>1. noWeight' = noWeight \/ noWeight' = [noWeight EXCEPT ![m] = @ + w]
    BY <1>1 DEF SubmitOutcome
  <2> QED BY <1>2, <2>1
<1>5. submitted' \in [Market -> [Oracle -> BOOLEAN]]
  BY <1>2 DEF SubmitOutcome
<1>6. ballots' \in [Market -> [Oracle -> [weight : Nat, choice : BOOLEAN]]]
  <2>1. ballots' = [ballots EXCEPT ![m][o] = [weight |-> w, choice |-> choice]]
    BY <1>1 DEF SubmitOutcome
  <2> QED BY <1>2, <2>1
<1> QED BY <1>3, <1>4, <1>5, <1>6

OthersOK ==
  /\ exists \in [Oracle -> BOOLEAN] /\ active \in [Oracle -> BOOLEAN]
  /\ minimumStake \in Nat /\ stakingGovernance \in {"governance", "slashing"}
  /\ oracleWeightCapBps \in Nat /\ baseSlashBps \in Bps
  /\ finalized \in [Market -> BOOLEAN] /\ outcome \in [Market -> BOOLEAN]
  /\ yesWeight \in [Market -> Nat] /\ noWeight \in [Market -> Nat]
  /\ submitted \in [Market -> [Oracle -> BOOLEAN]]
  /\ ballots \in [Market -> [Oracle -> [weight : Nat, choice : BOOLEAN]]]

others == <<registry, consensus, baseSlashBps, minimumStake, stakingGovernance>>

LEMMA OthersNext == TypeOK /\ [Next]_vars => OthersOK'
<1> SUFFICES ASSUME TypeOK, [Next]_vars PROVE OthersOK'
  OBVIOUS
<1>0. OthersOK
  BY DEF TypeOK, OthersOK
<1>1. ASSUME NEW o \in Oracle, RegisterOracle(o) \/ ActivateOracle(o) \/ DeactivateOracle(o)
      PROVE  OthersOK'
  BY <1>0, <1>1 DEF OthersOK, RegisterOracle, ActivateOracle, DeactivateOracle,
                    staking, consensus, verdicts, tallies
<1>2. ASSUME UNCHANGED others PROVE OthersOK'
  BY <1>0, <1>2 DEF OthersOK, others, registry, consensus, verdicts, tallies
<1>3. ASSUME NEW o \in Oracle, NEW amount \in 1 .. MaxDeposit,
             Stake(o, amount) \/ Withdraw(o, amount) \/ GovernanceSlash(o, amount)
      PROVE  OthersOK'
  BY <1>2, <1>3 DEF others, Stake, Withdraw, GovernanceSlash, Slash
<1>4. ASSUME NEW newMinimumStake \in MinimumStakes, UpdateMinimumStake(newMinimumStake)
      PROVE  OthersOK'
  BY <1>0, <1>4, ArgumentTypes DEF OthersOK, UpdateMinimumStake, registry, consensus, verdicts, tallies
<1>5. ASSUME NEW newCapBps \in WeightCaps, UpdateWeightCap(newCapBps)
      PROVE  OthersOK'
  BY <1>0, <1>5, ArgumentTypes DEF OthersOK, UpdateWeightCap, registry, staking, verdicts, tallies
<1>6. ASSUME NEW newSlashBps \in SlashRates, UpdateBaseSlash(newSlashBps)
      PROVE  OthersOK'
  BY <1>0, <1>6, ArgumentTypes DEF OthersOK, UpdateBaseSlash, registry, staking, consensus, verdicts, tallies
<1>7. ASSUME NEW o \in Oracle, NEW m \in Market, NEW choice \in BOOLEAN, SubmitOutcome(o, m, choice)
      PROVE  OthersOK'
  <2>1. UNCHANGED <<registry, staking, oracleWeightCapBps, verdicts, baseSlashBps>>
    BY <1>7 DEF SubmitOutcome
  <2> QED BY <1>0, <1>7, <2>1, SubmitTypes DEF OthersOK, registry, staking, verdicts
<1>8. ASSUME NEW m \in Market, FinalizeConsensus(m)
      PROVE  OthersOK'
  BY <1>0, <1>8 DEF OthersOK, FinalizeConsensus, registry, staking, tallies
<1>9. ASSUME NEW o \in Oracle, NEW m \in Market, NEW oracleOutcome \in BOOLEAN,
             SlashOracle(o, m, oracleOutcome)
      PROVE  OthersOK'
  BY <1>2, <1>9 DEF others, SlashOracle, Slash
<1>10. CASE UNCHANGED vars
  BY <1>2, <1>10 DEF vars, staking, others
<1> QED BY <1>1, <1>3, <1>4, <1>5, <1>6, <1>7, <1>8, <1>9, <1>10 DEF Next

LEMMA BooksNext == Books /\ [Next]_vars => Books'
BY AccountsNext, OthersNext DEF Books, AccountsOK, OthersOK, TypeOK

-----------------------------------------------------------------------------
(* Ballots and verdicts. *)

\* The tallies of a market, and its verdict.
Counted(m) ==
  /\ yesWeight[m] = Total(Given(m, TRUE), NumOracles)
  /\ noWeight[m] = Total(Given(m, FALSE), NumOracles)
  /\ finalized[m] => outcome[m] = (yesWeight[m] >= noWeight[m])

LEMMA GivenType ==
  ASSUME TypeOK, NEW m \in Market, NEW side \in BOOLEAN
  PROVE  Given(m, side) \in [1 .. NumOracles -> Nat]
<1>1. \A o \in Oracle : ballots[m][o].weight \in Nat
  BY DEF TypeOK
<1> QED BY <1>1 DEF Given, Oracle

LEMMA TalliesInit == Init => TalliesAreBallots
<1> SUFFICES ASSUME Init, NEW m \in Market PROVE Counted(m)
  BY DEF TalliesAreBallots, Counted
<1>1. Given(m, TRUE) = [o \in Oracle |-> 0] /\ Given(m, FALSE) = [o \in Oracle |-> 0]
  BY DEF Init, Given
<1>2. Total(Given(m, TRUE), NumOracles) = 0 /\ Total(Given(m, FALSE), NumOracles) = 0
  BY <1>1, ZeroTotal
<1> QED BY <1>2 DEF Init, Counted

\* A ballot adds its weight to its side.
LEMMA BallotCounts ==
  ASSUME TypeOK, TypeOK', NEW o \in Oracle, NEW m \in Market, NEW choice \in BOOLEAN,
         SubmitOutcome(o, m, choice), NEW side \in BOOLEAN, NEW w \in Nat, w = Weight(o)
  PROVE  Total(Given(m, side)', NumOracles) =
           Total(Given(m, side), NumOracles) + (IF choice = side THEN w ELSE 0)
<1>1. PICK before, after : before = Given(m, side) /\ after = Given(m, side)'
  OBVIOUS
<1>2. before \in [1 .. NumOracles -> Nat]
  BY <1>1, GivenType
<1>3. after \in [1 .. NumOracles -> Nat]
  <2>1. (Given(m, side) \in [1 .. NumOracles -> Nat])'
    BY GivenType, PTL
  <2> QED BY <1>1, <2>1
<1>4. /\ ~submitted[m][o] /\ submitted'[m][o]
      /\ ballots'[m][o] = [weight |-> w, choice |-> choice]
      /\ \A v \in Oracle : v # o =>
           (submitted'[m][v] <=> submitted[m][v]) /\ ballots'[m][v] = ballots[m][v]
  BY DEF TypeOK, SubmitOutcome, MaySubmit
<1>5. before[o] = 0 /\ after[o] = (IF choice = side THEN w ELSE 0)
  BY <1>1, <1>4 DEF Given
<1>6. \A v \in 1 .. NumOracles : v # o => after[v] = before[v]
  BY <1>1, <1>4 DEF Given, Oracle
<1>7. NumOracles \in Nat /\ o \in 1 .. NumOracles
  BY AccountTypes
<1>8. Total(after, NumOracles) + before[o] = Total(before, NumOracles) + after[o]
  BY <1>2, <1>3, <1>6, <1>7, TotalUpdate
<1>9. PICK a \in Nat, b \in Nat : a = Total(before, NumOracles) /\ b = Total(after, NumOracles)
  BY <1>2, <1>3, <1>7, TotalNat
<1>10. b = a + (IF choice = side THEN w ELSE 0)
  BY <1>5, <1>8, <1>9
<1> QED BY <1>1, <1>9, <1>10

LEMMA TalliesNext ==
  TypeOK /\ TypeOK' /\ TalliesAreBallots /\ [Next]_vars => TalliesAreBallots'
<1> SUFFICES ASSUME TypeOK, TypeOK', TalliesAreBallots, [Next]_vars, NEW m \in Market
             PROVE  Counted(m)'
  BY DEF TalliesAreBallots, Counted
<1>0. Counted(m)
  BY DEF TalliesAreBallots, Counted
<1>1. ASSUME UNCHANGED tallies,
             finalized'[m] => outcome'[m] = (yesWeight[m] >= noWeight[m])
      PROVE  Counted(m)'
  <2>1. Given(m, TRUE)' = Given(m, TRUE) /\ Given(m, FALSE)' = Given(m, FALSE)
    BY <1>1 DEF tallies, Given
  <2> QED BY <1>0, <1>1, <2>1 DEF Counted, tallies
<1>2. ASSUME NEW o \in Oracle, NEW n \in Market, NEW choice \in BOOLEAN, SubmitOutcome(o, n, choice)
      PROVE  Counted(m)'
  <2>1. finalized' = finalized /\ outcome' = outcome
    BY <1>2 DEF SubmitOutcome, verdicts
  <2>2. CASE n # m
    <3>1. /\ submitted'[m] = submitted[m] /\ ballots'[m] = ballots[m]
          /\ yesWeight'[m] = yesWeight[m] /\ noWeight'[m] = noWeight[m]
      BY <1>2, <2>2 DEF SubmitOutcome, TypeOK
    <3>2. Given(m, TRUE)' = Given(m, TRUE) /\ Given(m, FALSE)' = Given(m, FALSE)
      BY <3>1 DEF Given
    <3> QED BY <1>0, <2>1, <3>1, <3>2 DEF Counted
  <2>3. CASE n = m
    <3>1. PICK w \in Nat, y \in Nat, z \in Nat : w = Weight(o) /\ y = yesWeight[m] /\ z = noWeight[m]
      BY WeightNat DEF TypeOK
    <3>2. /\ yesWeight'[m] = y + (IF choice = TRUE THEN w ELSE 0)
          /\ noWeight'[m] = z + (IF choice = FALSE THEN w ELSE 0)
      BY <1>2, <2>3, <3>1 DEF SubmitOutcome, TypeOK
    <3>3. /\ Total(Given(m, TRUE)', NumOracles) = y + (IF choice = TRUE THEN w ELSE 0)
          /\ Total(Given(m, FALSE)', NumOracles) = z + (IF choice = FALSE THEN w ELSE 0)
      <4>1. SubmitOutcome(o, m, choice)
        BY <1>2, <2>3
      <4>2. /\ Total(Given(m, TRUE)', NumOracles) =
                 Total(Given(m, TRUE), NumOracles) + (IF choice = TRUE THEN w ELSE 0)
            /\ Total(Given(m, FALSE)', NumOracles) =
                 Total(Given(m, FALSE), NumOracles) + (IF choice = FALSE THEN w ELSE 0)
        BY <4>1, <3>1, BallotCounts
      <4> QED BY <1>0, <3>1, <4>2 DEF Counted
    <3>4. ~finalized[m]
      BY <1>2, <2>3 DEF SubmitOutcome, MaySubmit
    <3> QED BY <2>1, <3>2, <3>3, <3>4 DEF Counted
  <2> QED BY <2>2, <2>3
<1>3. ASSUME NEW n \in Market, FinalizeConsensus(n)
      PROVE  Counted(m)'
  <2>1. finalized'[m] => outcome'[m] = (yesWeight[m] >= noWeight[m])
    BY <1>0, <1>3 DEF FinalizeConsensus, Counted, TypeOK
  <2> QED BY <1>1, <1>3, <2>1 DEF FinalizeConsensus
<1>4. ASSUME UNCHANGED <<verdicts, tallies>>
      PROVE  Counted(m)'
  BY <1>0, <1>1, <1>4 DEF verdicts, Counted
<1> QED BY <1>2, <1>3, <1>4 DEF Next, vars, consensus, RegisterOracle, ActivateOracle,
      DeactivateOracle, Stake, Withdraw, GovernanceSlash, UpdateMinimumStake, UpdateWeightCap,
      UpdateBaseSlash, SlashOracle

LEMMA SafeInit == Init => SafeBeforeVerdict
BY DEF Init, SafeBeforeVerdict, Slashed

LEMMA SafeNext ==
  TypeOK /\ SafeBeforeVerdict /\ [Next]_vars => SafeBeforeVerdict'
<1> SUFFICES ASSUME TypeOK, SafeBeforeVerdict, [Next]_vars, NEW o \in Oracle,
                    stakingGovernance' = "slashing", Slashed(o)' > 0,
                    ~ \E m \in Market : finalized'[m]
             PROVE  FALSE
  BY DEF SafeBeforeVerdict
<1>1. \A m \in Market : finalized[m] => finalized'[m]
  BY DEF TypeOK, Next, vars, consensus, verdicts, RegisterOracle, ActivateOracle,
      DeactivateOracle, Stake, Withdraw, GovernanceSlash, UpdateMinimumStake, UpdateWeightCap,
      UpdateBaseSlash, SlashOracle, SubmitOutcome, FinalizeConsensus
<1>2. ~ \E m \in Market : finalized[m]
  BY <1>1
<1>3. stakingGovernance = "slashing"
  BY DEF Next, vars, staking, RegisterOracle, ActivateOracle, DeactivateOracle, Stake, Withdraw,
      GovernanceSlash, UpdateMinimumStake, UpdateWeightCap, UpdateBaseSlash, SlashOracle, Slash,
      SubmitOutcome, FinalizeConsensus
<1>4. ~(Slashed(o) > 0)
  BY <1>2, <1>3 DEF SafeBeforeVerdict
<1>5. PICK x \in Nat, y \in Nat, z \in Nat : x = deposited[o] /\ y = withdrawn[o] /\ z = stakes[o]
  BY DEF TypeOK
<1>6. ASSUME NEW v \in Oracle, NEW amount \in Nat, Stake(v, amount) \/ Withdraw(v, amount)
      PROVE  Slashed(o)' = Slashed(o)
  <2>1. CASE Stake(v, amount)
    <3>1. /\ withdrawn' = withdrawn
          /\ \/ deposited'[o] = x /\ stakes'[o] = z
             \/ deposited'[o] = x + amount /\ stakes'[o] = z + amount
      BY <1>5, <2>1 DEF Stake, TypeOK
    <3> QED BY <1>5, <3>1 DEF Slashed
  <2>2. CASE Withdraw(v, amount)
    <3>1. /\ deposited' = deposited
          /\ \/ withdrawn'[o] = y /\ stakes'[o] = z
             \/ withdrawn'[o] = y + amount /\ stakes'[o] = z - amount
      BY <1>5, <2>2 DEF Withdraw, TakeStake, TypeOK
    <3> QED BY <1>5, <3>1 DEF Slashed
  <2> QED BY <1>6, <2>1, <2>2
<1>7. CASE \E v \in Oracle, amount \in Nat : Stake(v, amount) \/ Withdraw(v, amount)
  BY <1>4, <1>6, <1>7
<1>8. CASE UNCHANGED accounts
  BY <1>4, <1>8 DEF accounts, Slashed
<1> QED BY <1>2, <1>3, <1>7, <1>8, StakingCases

\* The poll sees who has submitted from the weight of the ballot.
BallotsHaveWeight ==
  \A m \in Market, o \in Oracle :
    ballots[m][o].weight = 0 <=> ~submitted[m][o]

LEMMA WeightInit == Init => BallotsHaveWeight
BY DEF Init, BallotsHaveWeight, NoBallot

LEMMA WeightNext ==
  TypeOK /\ BallotsHaveWeight /\ [Next]_vars => BallotsHaveWeight'
<1> SUFFICES ASSUME TypeOK, BallotsHaveWeight, [Next]_vars, NEW m \in Market, NEW o \in Oracle
             PROVE  (ballots[m][o].weight = 0 <=> ~submitted[m][o])'
  BY DEF BallotsHaveWeight
<1>1. ballots[m][o].weight = 0 <=> ~submitted[m][o]
  BY DEF BallotsHaveWeight
<1>2. CASE UNCHANGED tallies
  BY <1>1, <1>2 DEF tallies
<1>3. ASSUME NEW v \in Oracle, NEW n \in Market, NEW choice \in BOOLEAN, SubmitOutcome(v, n, choice)
      PROVE  (ballots[m][o].weight = 0 <=> ~submitted[m][o])'
  <2>1. PICK w \in Nat : w = Weight(v) /\ w > 0
    BY <1>3, WeightNat DEF SubmitOutcome, MaySubmit
  <2>2. CASE m = n /\ o = v
    BY <1>3, <2>1, <2>2 DEF SubmitOutcome, TypeOK
  <2>3. CASE ~(m = n /\ o = v)
    <3>1. ballots'[m][o] = ballots[m][o] /\ submitted'[m][o] = submitted[m][o]
      BY <1>3, <2>3 DEF SubmitOutcome, TypeOK
    <3> QED BY <1>1, <3>1
  <2> QED BY <2>2, <2>3
<1>4. CASE \E v \in Oracle, n \in Market, choice \in BOOLEAN : SubmitOutcome(v, n, choice)
  BY <1>3, <1>4
<1> QED BY <1>2, <1>4 DEF Next, vars, consensus, RegisterOracle, ActivateOracle,
      DeactivateOracle, Stake, Withdraw, GovernanceSlash, UpdateMinimumStake, UpdateWeightCap,
      UpdateBaseSlash, SlashOracle, FinalizeConsensus

-----------------------------------------------------------------------------
(* The theorems. *)

IInv == Books /\ TalliesAreBallots /\ SafeBeforeVerdict /\ BallotsHaveWeight

LEMMA Inductive ==
  /\ Init => IInv
  /\ IInv /\ [Next]_vars => IInv'
<1>1. Init => IInv
  BY BooksInit, TalliesInit, SafeInit, WeightInit DEF IInv
<1>2. IInv /\ [Next]_vars => IInv'
  BY BooksNext, TalliesNext, SafeNext, WeightNext DEF IInv, Books
<1> QED BY <1>1, <1>2

LEMMA Invariance == Spec => []IInv
BY Inductive, PTL DEF Spec

\* No amount that OracleStaking or OracleConsensus subtracts is larger than what
\* it is subtracted from, whatever the order of stakes, slashes and withdrawals.
THEOREM TypeCorrect == Spec => []TypeOK
BY Invariance, PTL DEF IInv, Books

\* OracleStaking's total is the sum of the stakes and its ether is what was
\* deposited and not withdrawn.
THEOREM StakesBacked == Spec => []StakeBooked
BY Invariance, PTL DEF IInv, Books

\* OracleConsensus counts every ballot once, with its weight at submission, and
\* decides for the heavier side.
THEOREM BallotsCounted == Spec => []TalliesAreBallots
BY Invariance, PTL DEF IInv

\* Through OracleSlashing nobody is slashed before some market is finalized.
THEOREM NoEarlySlash == Spec => []SafeBeforeVerdict
BY Invariance, PTL DEF IInv

\* What finalizeConsensus decided, and the ballots it counted, stay.
THEOREM VerdictStays == Spec => VerdictIsFinal
<1>1. TypeOK /\ [Next]_vars =>
        [\A m \in Market : finalized[m] =>
           /\ finalized'[m] /\ outcome'[m] = outcome[m]
           /\ yesWeight'[m] = yesWeight[m] /\ noWeight'[m] = noWeight[m]
           /\ submitted'[m] = submitted[m]]_vars
  <2> SUFFICES ASSUME TypeOK, [Next]_vars, NEW m \in Market, finalized[m]
               PROVE  /\ finalized'[m] /\ outcome'[m] = outcome[m]
                      /\ yesWeight'[m] = yesWeight[m] /\ noWeight'[m] = noWeight[m]
                      /\ submitted'[m] = submitted[m]
    OBVIOUS
  <2>1. ASSUME NEW o \in Oracle, NEW n \in Market, NEW choice \in BOOLEAN, SubmitOutcome(o, n, choice)
        PROVE  /\ n # m /\ UNCHANGED verdicts
               /\ yesWeight'[m] = yesWeight[m] /\ noWeight'[m] = noWeight[m]
               /\ submitted'[m] = submitted[m]
    BY <2>1 DEF SubmitOutcome, MaySubmit, TypeOK
  <2>2. ASSUME NEW n \in Market, FinalizeConsensus(n)
        PROVE  /\ n # m /\ UNCHANGED tallies
               /\ finalized'[m] = finalized[m] /\ outcome'[m] = outcome[m]
    BY <2>2 DEF FinalizeConsensus, TypeOK
  <2>3. CASE UNCHANGED <<verdicts, tallies>>
    BY <2>3 DEF verdicts, tallies
  <2>4. CASE \E o \in Oracle, n \in Market, choice \in BOOLEAN : SubmitOutcome(o, n, choice)
    BY <2>1, <2>4 DEF verdicts
  <2>5. CASE \E n \in Market : FinalizeConsensus(n)
    BY <2>2, <2>5 DEF tallies
  <2> QED BY <2>3, <2>4, <2>5 DEF Next, vars, consensus, RegisterOracle, ActivateOracle,
        DeactivateOracle, Stake, Withdraw, GovernanceSlash, UpdateMinimumStake, UpdateWeightCap,
        UpdateBaseSlash, SlashOracle
<1> QED BY <1>1, TypeCorrect, PTL DEF Spec, VerdictIsFinal

-----------------------------------------------------------------------------
(* The poll. *)

Verdict ==
  [m \in Market |-> IF ~finalized[m] THEN "none" ELSE IF outcome[m] THEN "yes" ELSE "no"]

\* The recount of the poll and the recount of the contracts' submissions agree.
LEMMA SameCount ==
  ASSUME TypeOK, BallotsHaveWeight, NEW m \in Market, NEW side \in BOOLEAN
  PROVE  Polls!Cast(m, side) = Given(m, side)
BY DEF Polls!Cast, Polls!Voter, Given, Oracle, BallotsHaveWeight

\* The poll's sums are these sums.
LEMMA SameTotal == \A f, n : Polls!Total(f, n) = Total(f, n)
BY DEF Polls!Total, Total, Polls!Partial, Partial

LEMMA SubmitIsVote ==
  ASSUME IInv, TypeOK', BallotsHaveWeight',
         NEW o \in Oracle, NEW m \in Market, NEW choice \in BOOLEAN, SubmitOutcome(o, m, choice)
  PROVE  Polls!Vote(m, o)
<1>1. TypeOK /\ BallotsHaveWeight
  BY DEF IInv, Books
<1>2. ~finalized[m] /\ ~submitted[m][o] /\ submitted'[m][o]
  BY <1>1 DEF SubmitOutcome, MaySubmit, TypeOK
<1>3. ballots[m][o].weight = 0 /\ ballots'[m][o].weight > 0
  <2>1. ballots'[m][o].weight # 0
    BY <1>2 DEF BallotsHaveWeight
  <2>2. ballots'[m][o].weight \in Nat
    BY DEF TypeOK
  <2> QED BY <1>1, <1>2, <2>1, <2>2 DEF BallotsHaveWeight
<1>4. ballots' = [ballots EXCEPT ![m][o] = ballots'[m][o]]
  <2>1. PICK b : ballots' = [ballots EXCEPT ![m][o] = b]
    BY DEF SubmitOutcome
  <2>2. ballots'[m][o] = b
    BY <1>1, <2>1 DEF TypeOK
  <2> QED BY <2>1, <2>2
<1>5. Verdict[m] = "none" /\ Verdict' = Verdict
  BY <1>2 DEF Verdict, SubmitOutcome, verdicts
<1> QED BY <1>3, <1>4, <1>5 DEF Polls!Vote, Verdict

LEMMA FinalizeIsDecide ==
  ASSUME IInv, NEW m \in Market, FinalizeConsensus(m)
  PROVE  Polls!Decide(m)
<1>1. TypeOK /\ BallotsHaveWeight /\ Counted(m)
  BY DEF IInv, Books, TalliesAreBallots, Counted
<1>2. yesWeight[m] >= noWeight[m] <=>
        Total(Polls!Cast(m, TRUE), NumOracles) >= Total(Polls!Cast(m, FALSE), NumOracles)
  BY <1>1, SameCount DEF Counted
<1>3. Verdict[m] = "none"
  BY DEF Verdict, FinalizeConsensus
<1>4. Verdict' = [Verdict EXCEPT ![m] = IF yesWeight[m] >= noWeight[m] THEN "yes" ELSE "no"]
  BY <1>1 DEF Verdict, FinalizeConsensus, TypeOK
<1>5. ballots' = ballots
  BY DEF FinalizeConsensus, tallies
<1>6. Verdict' = [Verdict EXCEPT ![m] =
        IF Total(Polls!Cast(m, TRUE), NumOracles) >= Total(Polls!Cast(m, FALSE), NumOracles)
          THEN "yes" ELSE "no"]
  BY <1>2, <1>4
<1> QED BY <1>3, <1>5, <1>6, SameTotal DEF Polls!Decide, Verdict

\* OracleConsensus with its registry and stakes implements the poll: each step
\* casts one ballot, decides by a recount, or is none of the poll's business.
THEOREM NetworkImplementsPoll == Spec => PollSpec
<1>1. Init => Polls!Init
  BY DEF Init, Polls!Init, Polls!Voter, Oracle, NoBallot
<1>2. ASSUME IInv, IInv', [Next]_vars
      PROVE  [Polls!Next]_<<ballots, Verdict>>
  <2>1. CASE UNCHANGED <<verdicts, tallies>>
    BY <2>1 DEF verdicts, tallies, Verdict
  <2>2. CASE \E o \in Oracle, m \in Market, choice \in BOOLEAN : SubmitOutcome(o, m, choice)
    BY <1>2, <2>2, SubmitIsVote DEF IInv, Books, Polls!Next, Polls!Voter, Oracle
  <2>3. CASE \E m \in Market : FinalizeConsensus(m)
    BY <1>2, <2>3, FinalizeIsDecide DEF Polls!Next
  <2> QED BY <1>2, <2>1, <2>2, <2>3 DEF Next, vars, consensus, RegisterOracle,
        ActivateOracle, DeactivateOracle, Stake, Withdraw, GovernanceSlash, UpdateMinimumStake,
        UpdateWeightCap, UpdateBaseSlash, SlashOracle
<1> QED BY <1>1, <1>2, Invariance, PTL DEF Spec, PollSpec, Polls!Spec, Verdict

\* Neither stakes nor ballots are booked otherwise than they were given.
THEOREM Booked == Spec => []BookedAsGiven
BY TypeCorrect, StakesBacked, BallotsCounted, PTL DEF BookedAsGiven
=============================================================================
