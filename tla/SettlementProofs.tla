-------------------------- MODULE SettlementProofs --------------------------
(***************************************************************************)
(* The safety properties of Settlement, for any factories, markets,        *)
(* accounts and arguments.  The inductive invariant adds to the checked    *)
(* ones that every factory's configuration is one it would accept, which   *)
(* is what new markets inherit, and that only existing markets are         *)
(* decided, and only one way.                                              *)
(***************************************************************************)
EXTENDS Settlement, SumTheorems

ConfigsAllowed == \A f \in Factory : ConfigAllowed(config[f])

DecidedOnce ==
  \A m \in Market :
    /\ settled[m] => Exists(m) /\ ~canceled[m]
    /\ canceled[m] => Exists(m)

IInv ==
  /\ TypeOK /\ ConfigsAllowed /\ DecidedOnce
  /\ RegistryIsComplete /\ BondBuysMarket /\ MarketsAreWellFormed /\ SettledOnItsTerms

-----------------------------------------------------------------------------
(* Types. *)

LEMMA TypeInit == Init => TypeOK
<1> SUFFICES ASSUME Init PROVE TypeOK
  OBVIOUS
<1>1. /\ parameters \in [Factory -> Parameters] /\ config \in [Factory -> Configs]
      /\ engineConsensus \in Address
  BY DEF Init, Address
<1>2. deployed \in 0 .. MaxMarkets /\ \A m \in Market : ~Exists(m)
  BY SettlementAssumption DEF Init, Exists, Market
<1>3. terms \in [Market -> Terms \cup {NoTerms}]
  BY DEF Init
<1> QED BY <1>1, <1>2, <1>3 DEF Init, TypeOK

\* What a new market is created with.
LEMMA NewTerms ==
  ASSUME TypeOK, ConfigsAllowed, NEW f \in Factory, NEW request \in Requests, CreateMarket(f, request)
  PROVE  /\ TermsOf(f, request) \in Terms
         /\ deployed' \in Market /\ deployed' = deployed + 1
         /\ terms' = [terms EXCEPT ![deployed + 1] = TermsOf(f, request)]
         /\ ~Exists(deployed + 1)
<1>1. /\ config[f].settlementAuthority \in Address /\ config[f].feeBps \in Nat
      /\ config[f].disputeWindow \in Nat
  BY SettlementAssumption DEF TypeOK, ConfigsAllowed, ConfigAllowed
<1>2. parameters[f].bond \in Nat
  BY SettlementAssumption DEF TypeOK
<1>3. request.startTime \in Nat /\ request.endTime \in Nat /\ request.exposure \in Nat
  BY SettlementAssumption
<1>4. TermsOf(f, request) \in Terms
  BY <1>1, <1>2, <1>3 DEF TermsOf, Terms
<1>5. deployed' \in Market /\ deployed' = deployed + 1
  BY SettlementAssumption DEF TypeOK, CreateMarket, Market
<1>6. ~Exists(deployed + 1)
  BY DEF TypeOK, Exists
<1> QED BY <1>4, <1>5, <1>6 DEF CreateMarket

LEMMA TypeNext == TypeOK /\ ConfigsAllowed /\ [Next]_vars => TypeOK'
<1> SUFFICES ASSUME TypeOK, ConfigsAllowed, [Next]_vars PROVE TypeOK'
  OBVIOUS
<1>1. ASSUME NEW f \in Factory, NEW paused \in BOOLEAN, SetMarketCreationPaused(f, paused)
      PROVE  TypeOK'
  BY <1>1 DEF TypeOK, SetMarketCreationPaused, registry, created, decisions, Exists
<1>2. ASSUME NEW f \in Factory, NEW p \in Parameters, UpdateMarketParameters(f, p)
      PROVE  TypeOK'
  BY <1>2 DEF TypeOK, UpdateMarketParameters, registry, created, decisions, Exists
<1>3. ASSUME NEW f \in Factory, NEW c \in Configs, UpdateRuntimeConfig(f, c)
      PROVE  TypeOK'
  BY <1>3 DEF TypeOK, UpdateRuntimeConfig, registry, created, decisions, Exists
<1>4. ASSUME NEW f \in Factory, NEW request \in Requests, CreateMarket(f, request)
      PROVE  TypeOK'
  <2>1. /\ TermsOf(f, request) \in Terms
        /\ deployed' \in Market /\ deployed' = deployed + 1
        /\ terms' = [terms EXCEPT ![deployed + 1] = TermsOf(f, request)]
    BY <1>4, NewTerms
  <2>2. deployed' \in 0 .. MaxMarkets /\ terms' \in [Market -> Terms \cup {NoTerms}]
    BY <2>1, SettlementAssumption DEF TypeOK, Market
  <2>3. \A m \in Market : Exists(m)' => terms'[m] \in Terms
    <3>1. SUFFICES ASSUME NEW m \in Market, m <= deployed + 1 PROVE terms'[m] \in Terms
      BY <2>1 DEF Exists
    <3>2. CASE m = deployed + 1
      BY <2>1, <3>2 DEF TypeOK
    <3>3. CASE m # deployed + 1
      <4>1. Exists(m)
        BY <3>1, <3>3 DEF Exists, Market, TypeOK
      <4> QED BY <2>1, <3>3, <4>1 DEF TypeOK
    <3> QED BY <3>2, <3>3
  <2>4. bonds' \in Nat
    BY <1>4, SettlementAssumption DEF CreateMarket, TypeOK
  <2>5. isValidMarket' \in [Market -> BOOLEAN] /\ totalMarkets' \in Nat
    BY <1>4, <2>1 DEF CreateMarket, RegisterMarket, TypeOK
  <2>6. UNCHANGED <<factories, marketFactory, byHand, engineConsensus, decisions, now>>
    BY <1>4 DEF CreateMarket
  <2> QED BY <2>2, <2>3, <2>4, <2>5, <2>6 DEF TypeOK, factories, decisions
<1>5. ASSUME NEW f \in Factory \cup Account \cup {NoAddress}, UpdateFactory(f)
      PROVE  TypeOK'
  BY <1>5 DEF TypeOK, UpdateFactory, factories, created, decisions, Exists
<1>6. ASSUME NEW a \in Account \cup {OracleConsensus, NoAddress}, UpdateOracleConsensus(a)
      PROVE  TypeOK'
  BY <1>6 DEF TypeOK, UpdateOracleConsensus, factories, registry, created, decisions, Exists, Address
<1>7. ASSUME NEW m \in Market, InvalidateMarket(m)
      PROVE  TypeOK'
  BY <1>7 DEF TypeOK, InvalidateMarket, factories, created, decisions, Exists
<1>8. ASSUME NEW m \in Market, CancelMarket(m)
      PROVE  TypeOK'
  BY <1>8 DEF TypeOK, CancelMarket, factories, registry, created, Exists
<1>9. ASSUME NEW m \in Market, NEW outcome \in BOOLEAN, NEW caller \in Address, Settle(caller, m, outcome)
      PROVE  TypeOK'
  BY <1>9 DEF TypeOK, Settle, factories, registry, created, Exists
<1>10. ASSUME NEW m \in Market, NEW outcome \in BOOLEAN, GovernanceSettleMarket(m, outcome)
       PROVE  TypeOK'
  BY <1>9, <1>10 DEF GovernanceSettleMarket, EngineSettle, Address
<1>11. ASSUME NEW m \in Market, NEW outcome \in BOOLEAN, NEW a \in Account,
              SettleDirectly(a, m, outcome) \/ SettleMarket(a, m, outcome)
       PROVE  TypeOK'
  BY <1>9, <1>11 DEF SettleDirectly, SettleMarket, EngineSettle, Address
<1>12. ASSUME NEW a \in Account, NEW m \in Market, RegisterByHand(a, m)
       PROVE  TypeOK'
  BY <1>12 DEF TypeOK, RegisterByHand, RegisterMarket, factories, created, decisions, Exists
<1>13. CASE Tick
  BY <1>13 DEF TypeOK, Tick, factories, registry, created, decisions, Exists
<1>14. CASE UNCHANGED vars
  BY <1>14 DEF TypeOK, vars, factories, registry, created, decisions, Exists
<1> QED BY <1>1, <1>2, <1>3, <1>4, <1>5, <1>6, <1>7, <1>8, <1>10, <1>11, <1>12, <1>13, <1>14 DEF Next

-----------------------------------------------------------------------------
(* What is decided, and on which terms. *)

LEMMA ConfigsInit == Init => ConfigsAllowed
BY DEF Init, ConfigsAllowed

LEMMA ConfigsNext == TypeOK /\ ConfigsAllowed /\ [Next]_vars => ConfigsAllowed'
<1> SUFFICES ASSUME TypeOK, ConfigsAllowed, [Next]_vars, NEW f \in Factory
             PROVE  ConfigAllowed(config'[f])
  BY DEF ConfigsAllowed
<1>1. ASSUME NEW g \in Factory, NEW c \in Configs, UpdateRuntimeConfig(g, c)
      PROVE  ConfigAllowed(config'[f])
  BY <1>1 DEF UpdateRuntimeConfig, ConfigsAllowed, TypeOK
<1>2. ASSUME UNCHANGED config PROVE ConfigAllowed(config'[f])
  BY <1>2 DEF ConfigsAllowed
<1> QED BY <1>1, <1>2 DEF Next, vars, factories, SetMarketCreationPaused, UpdateMarketParameters,
      CreateMarket, UpdateFactory, UpdateOracleConsensus, InvalidateMarket, CancelMarket,
      GovernanceSettleMarket, SettleDirectly, SettleMarket, EngineSettle, Settle,
      RegisterByHand, Tick

\* The steps, by what they do to the markets and to the decisions.
LEMMA StepCases ==
  ASSUME TypeOK, [Next]_vars
  PROVE  \/ \E f \in Factory, request \in Requests : CreateMarket(f, request)
         \/ \E m \in Market, outcome \in BOOLEAN, caller \in Address :
              Settle(caller, m, outcome) /\ (caller = Engine => isValidMarket[m])
         \/ \E m \in Market : CancelMarket(m)
         \/ UNCHANGED <<created, decisions>>
<1>1. ASSUME NEW m \in Market, NEW outcome \in BOOLEAN, EngineSettle(m, outcome)
      PROVE  \E caller \in Address : Settle(caller, m, outcome) /\ (caller = Engine => isValidMarket[m])
  BY <1>1 DEF EngineSettle, Address
<1>2. ASSUME NEW m \in Market, NEW outcome \in BOOLEAN, NEW a \in Account, SettleDirectly(a, m, outcome)
      PROVE  \E caller \in Address : Settle(caller, m, outcome) /\ (caller = Engine => isValidMarket[m])
  BY <1>2, SettlementAssumption DEF SettleDirectly, Address
<1>3. CASE \E m \in Market, outcome \in BOOLEAN :
             \/ GovernanceSettleMarket(m, outcome)
             \/ \E a \in Account : SettleDirectly(a, m, outcome) \/ SettleMarket(a, m, outcome)
  BY <1>1, <1>2, <1>3 DEF GovernanceSettleMarket, SettleMarket
<1>4. CASE ~(\E m \in Market, outcome \in BOOLEAN :
             \/ GovernanceSettleMarket(m, outcome)
             \/ \E a \in Account : SettleDirectly(a, m, outcome) \/ SettleMarket(a, m, outcome))
  BY <1>4 DEF Next, vars, SetMarketCreationPaused, UpdateMarketParameters, UpdateRuntimeConfig,
              UpdateFactory, UpdateOracleConsensus, InvalidateMarket, RegisterByHand, Tick
<1> QED BY <1>3, <1>4

LEMMA DecidedInit == Init => DecidedOnce
BY DEF Init, DecidedOnce

LEMMA DecidedNext == TypeOK /\ ConfigsAllowed /\ DecidedOnce /\ [Next]_vars => DecidedOnce'
<1> SUFFICES ASSUME TypeOK, ConfigsAllowed, DecidedOnce, [Next]_vars, NEW m \in Market
             PROVE  /\ settled'[m] => Exists(m)' /\ ~canceled'[m]
                    /\ canceled'[m] => Exists(m)'
  BY DEF DecidedOnce
<1> DEFINE Goal == /\ settled'[m] => Exists(m)' /\ ~canceled'[m]
                   /\ canceled'[m] => Exists(m)'
<1>1. /\ settled[m] => Exists(m) /\ ~canceled[m]
      /\ canceled[m] => Exists(m)
  BY DEF DecidedOnce
<1>2. ASSUME NEW f \in Factory, NEW request \in Requests, CreateMarket(f, request)
      PROVE  Goal
  <2>1. settled' = settled /\ canceled' = canceled
    BY <1>2 DEF CreateMarket, decisions
  <2>2. Exists(m) => Exists(m)'
    BY <1>2 DEF CreateMarket, Exists, TypeOK, Market
  <2> QED BY <1>1, <2>1, <2>2
<1>3. ASSUME NEW n \in Market, NEW outcome \in BOOLEAN, NEW caller \in Address,
             Settle(caller, n, outcome)
      PROVE  Goal
  BY <1>1, <1>3 DEF Settle, TypeOK, Exists, created
<1>4. ASSUME NEW n \in Market, CancelMarket(n)
      PROVE  Goal
  BY <1>1, <1>4 DEF CancelMarket, TypeOK, Exists, created
<1>5. ASSUME UNCHANGED <<created, decisions>>
      PROVE  Goal
  BY <1>1, <1>5 DEF created, decisions, Exists
<1> QED BY <1>2, <1>3, <1>4, <1>5, StepCases

LEMMA OnTermsInit == Init => SettledOnItsTerms
BY DEF Init, SettledOnItsTerms

LEMMA OnTermsNext ==
  TypeOK /\ ConfigsAllowed /\ DecidedOnce /\ SettledOnItsTerms /\ [Next]_vars => SettledOnItsTerms'
<1> DEFINE OnTerms(m) ==
      settled[m] =>
        /\ settledBy[m] = terms[m].settlementAuthority
        /\ settledAt[m] >= terms[m].endTime + terms[m].disputeWindow
<1> SUFFICES ASSUME TypeOK, ConfigsAllowed, DecidedOnce, SettledOnItsTerms, [Next]_vars,
                    NEW m \in Market
             PROVE  OnTerms(m)'
  BY DEF SettledOnItsTerms
<1>1. OnTerms(m)
  BY DEF SettledOnItsTerms
<1>2. ASSUME NEW f \in Factory, NEW request \in Requests, CreateMarket(f, request)
      PROVE  OnTerms(m)'
  <2>1. UNCHANGED <<settled, settledAt, settledBy>>
    BY <1>2 DEF CreateMarket, decisions
  <2>2. settled[m] => terms'[m] = terms[m]
    <3>1. terms' = [terms EXCEPT ![deployed + 1] = TermsOf(f, request)] /\ ~Exists(deployed + 1)
      BY <1>2, NewTerms
    <3> QED BY <3>1 DEF DecidedOnce, TypeOK
  <2> QED BY <1>1, <2>1, <2>2
<1>3. ASSUME NEW n \in Market, NEW outcome \in BOOLEAN, NEW caller \in Address,
             Settle(caller, n, outcome)
      PROVE  OnTerms(m)'
  BY <1>1, <1>3 DEF Settle, TypeOK, created
<1>4. ASSUME NEW n \in Market, CancelMarket(n)
      PROVE  OnTerms(m)'
  BY <1>1, <1>4 DEF CancelMarket, created
<1>5. ASSUME UNCHANGED <<created, decisions>>
      PROVE  OnTerms(m)'
  BY <1>1, <1>5 DEF created, decisions
<1> QED BY <1>2, <1>3, <1>4, <1>5, StepCases

LEMMA WellFormedInit == Init => MarketsAreWellFormed
<1> SUFFICES ASSUME Init, NEW m \in Market PROVE ~Exists(m)
  BY DEF MarketsAreWellFormed
<1> QED BY SettlementAssumption DEF Init, Exists, Market

LEMMA WellFormedNext ==
  TypeOK /\ ConfigsAllowed /\ MarketsAreWellFormed /\ [Next]_vars => MarketsAreWellFormed'
<1> DEFINE WellFormed(t) == t.startTime < t.endTime /\ t.exposure > 0 /\ t.feeBps <= 1000
<1> SUFFICES ASSUME TypeOK, ConfigsAllowed, MarketsAreWellFormed, [Next]_vars,
                    NEW m \in Market, Exists(m)'
             PROVE  WellFormed(terms'[m])
  BY DEF MarketsAreWellFormed
<1>1. Exists(m) => WellFormed(terms[m])
  BY DEF MarketsAreWellFormed
<1>2. ASSUME NEW f \in Factory, NEW request \in Requests, CreateMarket(f, request)
      PROVE  WellFormed(terms'[m])
  <2>1. /\ terms' = [terms EXCEPT ![deployed + 1] = TermsOf(f, request)]
        /\ deployed' = deployed + 1 /\ deployed \in Nat
    BY <1>2, NewTerms DEF TypeOK
  <2>2. WellFormed(TermsOf(f, request))
    BY <1>2, SettlementAssumption
       DEF CreateMarket, DurationAllowed, ExposureAllowed, TermsOf, ConfigsAllowed, ConfigAllowed
  <2>3. CASE m = deployed + 1
    BY <2>1, <2>2, <2>3 DEF TypeOK
  <2>4. CASE m # deployed + 1
    <3>1. Exists(m)
      BY <2>1, <2>4 DEF Exists, Market
    <3> QED BY <1>1, <2>1, <2>4, <3>1 DEF TypeOK
  <2> HIDE DEF WellFormed
  <2> QED BY <2>3, <2>4
<1>3. ASSUME UNCHANGED created PROVE WellFormed(terms'[m])
  BY <1>1, <1>3 DEF created, Exists
<1> QED BY <1>2, <1>3, StepCases DEF Settle, CancelMarket

-----------------------------------------------------------------------------
(* The registry and the treasury. *)

LEMMA RegistryInit == Init => RegistryIsComplete
BY DEF Init, RegistryIsComplete

LEMMA RegistryNext ==
  TypeOK /\ ConfigsAllowed /\ RegistryIsComplete /\ [Next]_vars => RegistryIsComplete'
<1> SUFFICES ASSUME TypeOK, ConfigsAllowed, RegistryIsComplete, [Next]_vars
             PROVE  RegistryIsComplete'
  OBVIOUS
<1>1. ASSUME NEW f \in Factory, NEW request \in Requests, CreateMarket(f, request)
      PROVE  RegistryIsComplete'
  <2>1. deployed' = deployed + 1 /\ deployed \in Nat
    BY <1>1, NewTerms DEF TypeOK
  <2>2. /\ totalMarkets' = totalMarkets + 1 /\ byHand' = byHand
        /\ totalMarkets \in Nat /\ byHand \in Nat
        /\ \A m \in Market : isValidMarket'[m] => isValidMarket[m] \/ m = deployed'
    BY <1>1 DEF CreateMarket, RegisterMarket, TypeOK
  <2> QED BY <2>1, <2>2 DEF RegistryIsComplete, Exists, Market
<1>2. ASSUME NEW m \in Market, InvalidateMarket(m)
      PROVE  RegistryIsComplete'
  BY <1>2 DEF InvalidateMarket, RegistryIsComplete, TypeOK, created, Exists
<1>3. ASSUME NEW a \in Account, NEW m \in Market, RegisterByHand(a, m)
      PROVE  RegistryIsComplete'
  BY <1>3 DEF RegisterByHand, RegisterMarket, RegistryIsComplete, TypeOK, created, Exists
<1>4. ASSUME UNCHANGED <<isValidMarket, totalMarkets, byHand, deployed>>
      PROVE  RegistryIsComplete'
  BY <1>4 DEF RegistryIsComplete, Exists
<1> QED BY <1>1, <1>2, <1>3, <1>4 DEF Next, vars, registry, created, SetMarketCreationPaused,
      UpdateMarketParameters, UpdateRuntimeConfig, UpdateFactory, UpdateOracleConsensus, CancelMarket,
      GovernanceSettleMarket, SettleDirectly, SettleMarket, EngineSettle, Settle,
      Tick

LEMMA OwedType == TypeOK => BondsOwed \in [1 .. MaxMarkets -> Nat]
BY DEF TypeOK, BondsOwed, Market, Terms

LEMMA BondsInit == Init => BondBuysMarket
<1> SUFFICES ASSUME Init PROVE bonds = Total(BondsOwed, MaxMarkets)
  BY DEF BondBuysMarket
<1>1. BondsOwed \in [1 .. MaxMarkets -> Nat] /\ \A m \in 1 .. MaxMarkets : BondsOwed[m] = 0
  BY SettlementAssumption DEF Init, BondsOwed, Exists, Market
<1>2. Total(BondsOwed, MaxMarkets) = 0
  <2>1. CASE MaxMarkets = 0
    BY <1>1, <2>1, PartialStep DEF Total
  <2>2. CASE MaxMarkets # 0
    BY <1>1, <2>2, TotalZero, SettlementAssumption
  <2> QED BY <2>1, <2>2
<1> QED BY <1>2 DEF Init

LEMMA BondsNext ==
  TypeOK /\ ConfigsAllowed /\ BondBuysMarket /\ [Next]_vars => BondBuysMarket'
<1> SUFFICES ASSUME TypeOK, ConfigsAllowed, BondBuysMarket, [Next]_vars
             PROVE  bonds' = Total(BondsOwed', MaxMarkets)
  BY DEF BondBuysMarket
<1>1. ASSUME NEW f \in Factory, NEW request \in Requests, CreateMarket(f, request)
      PROVE  bonds' = Total(BondsOwed', MaxMarkets)
  <2>1. PICK before, after : before = BondsOwed /\ after = BondsOwed'
    OBVIOUS
  <2>2. before \in [1 .. MaxMarkets -> Nat] /\ after \in [1 .. MaxMarkets -> Nat]
    <3>1. TypeOK'
      BY TypeNext
    <3>2. (BondsOwed \in [1 .. MaxMarkets -> Nat])'
      BY <3>1, OwedType, PTL
    <3> QED BY <2>1, <3>2, OwedType
  <2>3. PICK m \in 1 .. MaxMarkets, bond \in Nat : m = deployed + 1 /\ bond = parameters[f].bond
    <3>1. deployed' \in Market /\ deployed' = deployed + 1
      BY <1>1, NewTerms
    <3>2. deployed + 1 \in 1 .. MaxMarkets
      BY <3>1 DEF Market
    <3>3. parameters[f].bond \in Nat
      BY SettlementAssumption DEF TypeOK
    <3> QED BY <3>2, <3>3
  <2>4. /\ terms' = [terms EXCEPT ![m] = TermsOf(f, request)] /\ deployed' = m
        /\ ~Exists(m) /\ bonds' = bonds + bond /\ deployed \in Nat /\ m = deployed + 1
    <3>1. /\ deployed' = deployed + 1 /\ ~Exists(deployed + 1)
          /\ terms' = [terms EXCEPT ![deployed + 1] = TermsOf(f, request)]
      BY <1>1, NewTerms
    <3>2. bonds' = bonds + bond /\ deployed \in Nat
      BY <1>1, <2>3 DEF CreateMarket, TypeOK
    <3> QED BY <2>3, <3>1, <3>2
  <2>5. before[m] = 0 /\ after[m] = bond
    <3>1. before[m] = 0
      BY <2>1, <2>4 DEF BondsOwed, Market
    <3>2. after[m] = bond
      BY <2>1, <2>3, <2>4 DEF BondsOwed, Market, Exists, TermsOf, TypeOK
    <3> QED BY <3>1, <3>2
  <2>6. \A n \in 1 .. MaxMarkets : n # m => after[n] = before[n]
    BY <2>1, <2>4 DEF BondsOwed, Market, Exists, TypeOK
  <2>7. Total(after, MaxMarkets) + before[m] = Total(before, MaxMarkets) + after[m]
    <3>1. MaxMarkets \in Nat
      BY SettlementAssumption
    <3> QED BY <2>2, <2>6, <3>1, TotalUpdate
  <2>8. PICK a \in Nat, b \in Nat : a = Total(before, MaxMarkets) /\ b = Total(after, MaxMarkets)
    BY <2>2, TotalNat, SettlementAssumption
  <2>9. bonds = a
    BY <2>1, <2>8 DEF BondBuysMarket
  <2>10. bonds' = b
    BY <2>4, <2>5, <2>7, <2>8, <2>9
  <2> QED BY <2>1, <2>8, <2>10
<1>2. ASSUME UNCHANGED created
      PROVE  bonds' = Total(BondsOwed', MaxMarkets)
  <2>1. BondsOwed' = BondsOwed /\ bonds' = bonds
    BY <1>2 DEF created, BondsOwed, Exists
  <2> QED BY <2>1 DEF BondBuysMarket
<1> QED BY <1>1, <1>2, StepCases DEF Settle, CancelMarket

-----------------------------------------------------------------------------
(* The theorems. *)

LEMMA Inductive ==
  /\ Init => IInv
  /\ IInv /\ [Next]_vars => IInv'
<1>1. Init => IInv
  BY TypeInit, ConfigsInit, DecidedInit, RegistryInit, BondsInit, WellFormedInit, OnTermsInit DEF IInv
<1>2. IInv /\ [Next]_vars => IInv'
  BY TypeNext, ConfigsNext, DecidedNext, RegistryNext, BondsNext, WellFormedNext, OnTermsNext DEF IInv
<1> QED BY <1>1, <1>2

LEMMA Invariance == Spec => []IInv
BY Inductive, PTL DEF Spec

\* Every value the three contracts and the markets hold is of its type.
THEOREM TypeCorrect == Spec => []TypeOK
BY Invariance, PTL DEF IInv

\* MarketRegistry counts and knows exactly the markets that MarketFactory
\* deployed, across any number of factory replacements and invalidations, and counts
\* again what an account in the factory's place registered again.
THEOREM Completeness == Spec => []RegistryIsComplete
BY Invariance, PTL DEF IInv

\* createMarket takes a bond exactly for the markets it deploys, and the bond
\* that governance asked for at the time.
THEOREM BondsPaid == Spec => []BondBuysMarket
BY Invariance, PTL DEF IInv

\* No reconfiguration lets createMarket deploy a market with an empty period, no
\* exposure or a fee above a tenth.
THEOREM NewMarketsWellFormed == Spec => []MarketsAreWellFormed
BY Invariance, PTL DEF IInv

\* However config changes afterwards, a market is settled by the authority and
\* after the dispute window it was created with.
THEOREM OnTerms == Spec => []SettledOnItsTerms
BY Invariance, PTL DEF IInv

\* An existing market that is not valid becomes valid by the hand of an account only.
LEMMA OnlyByHand ==
  ASSUME IInv, [Next]_vars, NEW m \in Market, Exists(m), ~isValidMarket[m], isValidMarket'[m]
  PROVE  marketFactory \in Account
<1>1. ASSUME NEW f \in Factory, NEW request \in Requests, CreateMarket(f, request) PROVE FALSE
  BY <1>1 DEF CreateMarket, RegisterMarket, Exists, IInv, TypeOK, Market
<1>2. ASSUME NEW a \in Account, NEW n \in Market, RegisterByHand(a, n)
      PROVE  marketFactory \in Account
  BY <1>2 DEF RegisterByHand, RegisterMarket
<1>3. ASSUME NEW n \in Market, InvalidateMarket(n) PROVE FALSE
  BY <1>3 DEF InvalidateMarket, IInv, TypeOK
<1>4. ASSUME UNCHANGED isValidMarket PROVE FALSE
  BY <1>4
<1> QED BY <1>1, <1>2, <1>3, <1>4 DEF Next, vars, registry, SetMarketCreationPaused,
      UpdateMarketParameters, UpdateRuntimeConfig, UpdateFactory, UpdateOracleConsensus, CancelMarket,
      GovernanceSettleMarket, SettleDirectly, SettleMarket, EngineSettle, Settle, Tick

LEMMA DecisionsStay ==
  ASSUME IInv, [Next]_vars, NEW m \in Market
  PROVE  /\ settled[m] => settled'[m] /\ finalOutcome'[m] = finalOutcome[m] /\ ~canceled'[m]
         /\ canceled[m] => canceled'[m] /\ ~settled'[m]
         /\ Stranded(m) => ~settled'[m] /\ (isValidMarket'[m] => marketFactory \in Account)
<1> DEFINE Goal == /\ settled[m] => settled'[m] /\ finalOutcome'[m] = finalOutcome[m] /\ ~canceled'[m]
                   /\ canceled[m] => canceled'[m] /\ ~settled'[m]
                   /\ Stranded(m) => ~settled'[m]
<1>1. TypeOK /\ (settled[m] => ~canceled[m])
  BY DEF IInv, DecidedOnce
<1>2. ASSUME UNCHANGED decisions PROVE Goal
  BY <1>1, <1>2 DEF decisions, Stranded
<1>3. ASSUME NEW n \in Market, NEW outcome \in BOOLEAN, NEW caller \in Address,
             Settle(caller, n, outcome), caller = Engine => isValidMarket[n]
      PROVE  Goal
  BY <1>1, <1>3 DEF Settle, Stranded, TypeOK
<1>4. ASSUME NEW n \in Market, CancelMarket(n)
      PROVE  Goal
  BY <1>1, <1>4 DEF CancelMarket, Stranded, TypeOK
<1>5. Goal
  BY <1>1, <1>2, <1>3, <1>4, StepCases DEF CreateMarket
<1>6. Stranded(m) => (isValidMarket'[m] => marketFactory \in Account)
  BY OnlyByHand DEF Stranded
<1> QED BY <1>5, <1>6

\* Settlements and cancellations are final and exclude each other, no caller settles a
\* market of the engine that governance has invalidated, and no MarketFactory makes it
\* valid again: that takes an account which governance installed as the factory.
THEOREM Finality == Spec => NoRetroactiveSettlement
<1>1. IInv /\ [Next]_vars =>
        [\A m \in Market :
           /\ settled[m] => settled'[m] /\ finalOutcome'[m] = finalOutcome[m] /\ ~canceled'[m]
           /\ canceled[m] => canceled'[m] /\ ~settled'[m]
           /\ Stranded(m) => ~settled'[m] /\ (isValidMarket'[m] => marketFactory \in Account)]_vars
  BY DecisionsStay
<1> QED BY <1>1, Invariance, PTL DEF Spec, NoRetroactiveSettlement

\* createMarket takes the bond, deploys and registers, or does nothing at all.
THEOREM CreationComplete == Spec => []CreationIsComplete
BY TypeCorrect, Completeness, BondsPaid, NewMarketsWellFormed, PTL DEF CreationIsComplete
=============================================================================
