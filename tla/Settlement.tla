----------------------------- MODULE Settlement -----------------------------
(***************************************************************************)
(* How markets come to exist and to be decided: MarketFactory creates and  *)
(* registers them, MarketRegistry says which are valid, SettlementEngine   *)
(* settles valid ones, and governance can reconfigure each of the three    *)
(* while markets are running.  Of a market only what these contracts touch *)
(* is here; PredictionMarket has its bets and claims.  The registry's      *)
(* factory can be replaced, by another contract with the code of           *)
(* MarketFactory and its own parameters, and by any other address.  Of the *)
(* addresses that may be registered only the factories' markets are here.  *)
(*                                                                         *)
(* settledAt, settledBy, byHand and the bond in a market's terms are       *)
(* history variables.                                                      *)
(***************************************************************************)
EXTENDS Sums, Integers

CONSTANTS
  Factory,
  Engine, OracleConsensus,  \* the addresses of these contracts
  Account,                  \* other addresses that may be made an authority
  NoAddress,                \* the zero address
  Parameters,               \* arguments of updateMarketParameters
  Configs,                  \* arguments of updateRuntimeConfig
  Requests,                 \* arguments of createMarket
  NoTerms,                  \* of a market that does not exist
  MaxMarkets,               \* bound: markets created
  MaxByHand,                \* bound: registrations not made by a MarketFactory
  MaxTime                   \* bound: the clock

Address == Account \cup {Engine, OracleConsensus}

ASSUME SettlementAssumption ==
  /\ Factory # {}
  /\ NoAddress \notin Address
  /\ Engine \notin Account
  /\ Parameters \subseteq [minDuration : Nat, maxDuration : Nat, maxExposure : Nat, bond : Nat]
  /\ Configs \subseteq [settlementAuthority : Address \cup {NoAddress}, feeBps : Nat, disputeWindow : Nat]
  /\ Requests \subseteq [startTime : Nat, endTime : Nat, exposure : Nat]
  /\ MaxMarkets \in Nat /\ MaxTime \in Nat /\ MaxByHand \in Nat
  /\ Factory \cap (Address \cup {NoAddress}) = {}

Market == 1 .. MaxMarkets

VARIABLES
  creationPaused, parameters, config,                \* each MarketFactory
  marketFactory, isValidMarket, totalMarkets,        \* MarketRegistry
  engineConsensus,                                   \* SettlementEngine.oracleConsensus
  deployed, terms, settled, finalOutcome, canceled,  \* the markets, numbered as they are deployed
  bonds,                                             \* what the treasury received
  now,
  settledAt, settledBy, byHand                       \* history

factories == <<creationPaused, parameters, config>>
registry  == <<marketFactory, isValidMarket, totalMarkets, byHand>>
created   == <<deployed, terms, bonds>>
decisions == <<settled, finalOutcome, canceled, settledAt, settledBy>>
vars      == <<factories, registry, engineConsensus, created, decisions, now>>

\* What the factory's constructor, and updateMarketParameters, accept.
ParametersAllowed(p) == p.minDuration > 0 /\ p.maxDuration > p.minDuration

\* What the factory's constructor, and updateRuntimeConfig, accept.
ConfigAllowed(c) == c.settlementAuthority # NoAddress /\ c.feeBps <= 1000

Init ==
  /\ creationPaused = [f \in Factory |-> FALSE]
  /\ parameters \in [Factory -> {p \in Parameters : ParametersAllowed(p)}]
  /\ config \in [Factory -> {c \in Configs : ConfigAllowed(c)}]
  /\ marketFactory \in Factory \cup Account
  /\ byHand = 0
  /\ isValidMarket = [m \in Market |-> FALSE]
  /\ totalMarkets = 0
  /\ engineConsensus \in Account \cup {OracleConsensus}
  /\ deployed = 0
  /\ terms = [m \in Market |-> NoTerms]
  /\ settled = [m \in Market |-> FALSE]
  /\ finalOutcome = [m \in Market |-> FALSE]
  /\ canceled = [m \in Market |-> FALSE]
  /\ bonds = 0
  /\ now = 0
  /\ settledAt = [m \in Market |-> 0]
  /\ settledBy = [m \in Market |-> NoAddress]

Exists(m) == m <= deployed

-----------------------------------------------------------------------------
(* MarketFactory *)

SetMarketCreationPaused(f, paused) ==
  /\ creationPaused' = [creationPaused EXCEPT ![f] = paused]
  /\ UNCHANGED <<parameters, config, registry, engineConsensus, created, decisions, now>>

UpdateMarketParameters(f, p) ==
  /\ ParametersAllowed(p)
  /\ parameters' = [parameters EXCEPT ![f] = p]
  /\ UNCHANGED <<creationPaused, config, registry, engineConsensus, created, decisions, now>>

UpdateRuntimeConfig(f, c) ==
  /\ ConfigAllowed(c)
  /\ config' = [config EXCEPT ![f] = c]
  /\ UNCHANGED <<creationPaused, parameters, registry, engineConsensus, created, decisions, now>>

DurationAllowed(f, request) ==
  /\ request.endTime > request.startTime
  /\ request.endTime - request.startTime >= parameters[f].minDuration
  /\ request.endTime - request.startTime <= parameters[f].maxDuration

ExposureAllowed(f, request) ==
  /\ request.exposure > 0
  /\ request.exposure <= parameters[f].maxExposure

\* The constructor of the new market copies the configuration of this moment.
TermsOf(f, request) ==
  [startTime |-> request.startTime, endTime |-> request.endTime, exposure |-> request.exposure,
   settlementAuthority |-> config[f].settlementAuthority, feeBps |-> config[f].feeBps,
   disputeWindow |-> config[f].disputeWindow, bond |-> parameters[f].bond]

\* A MarketFactory calls it on the market it just deployed: a failed check undoes both.
RegisterMarket(f, m) ==
  /\ marketFactory = f
  /\ ~isValidMarket[m]
  /\ isValidMarket' = [isValidMarket EXCEPT ![m] = TRUE]
  /\ totalMarkets' = totalMarkets + 1

\* Mutant: the bond is kept when the request is refused.
CreateMarketOrKeepBond(f, request) ==
  /\ ~creationPaused[f]
  /\ deployed < MaxMarkets
  /\ bonds' = bonds + parameters[f].bond
  /\ IF DurationAllowed(f, request) /\ ExposureAllowed(f, request)
       THEN /\ deployed' = deployed + 1
            /\ terms' = [terms EXCEPT ![deployed'] = TermsOf(f, request)]
            /\ RegisterMarket(f, deployed')
       ELSE UNCHANGED <<deployed, terms, isValidMarket, totalMarkets>>
  /\ UNCHANGED <<factories, marketFactory, byHand, engineConsensus, decisions, now>>

CreateMarket(f, request) ==
  /\ ~creationPaused[f]
  /\ DurationAllowed(f, request)
  /\ ExposureAllowed(f, request)
  /\ deployed < MaxMarkets
  /\ deployed' = deployed + 1
  /\ terms' = [terms EXCEPT ![deployed'] = TermsOf(f, request)]
  /\ bonds' = bonds + parameters[f].bond
  /\ RegisterMarket(f, deployed')
  /\ UNCHANGED <<factories, marketFactory, byHand, engineConsensus, decisions, now>>

-----------------------------------------------------------------------------
(* MarketRegistry *)

\* Any address but zero will do, whatever its code.  (One that never calls the registry
\* is like a factory whose creation is paused.)
UpdateFactory(newFactory) ==
  /\ newFactory # NoAddress
  /\ marketFactory' = newFactory
  /\ UNCHANGED <<factories, isValidMarket, totalMarkets, byHand, engineConsensus, created,
                 decisions, now>>

\* An account in the factory's place registers a market that is not valid (any more).
RegisterByHand(a, m) ==
  /\ byHand < MaxByHand
  /\ Exists(m)
  /\ RegisterMarket(a, m)
  /\ byHand' = byHand + 1
  /\ UNCHANGED <<factories, marketFactory, engineConsensus, created, decisions, now>>

InvalidateMarket(m) ==
  /\ isValidMarket[m]
  /\ isValidMarket' = [isValidMarket EXCEPT ![m] = FALSE]
  /\ UNCHANGED <<factories, marketFactory, totalMarkets, byHand, engineConsensus, created,
                 decisions, now>>

-----------------------------------------------------------------------------
(* PredictionMarket, as the engine and governance use it *)

\* Mutant: the rules of the factory in use now instead of the market's own.
SettleOnCurrentConfig(caller, m, outcome) ==
  /\ Exists(m)
  /\ marketFactory \in Factory /\ caller = config[marketFactory].settlementAuthority
  /\ ~settled[m] /\ ~canceled[m]
  /\ now >= terms[m].endTime + config[marketFactory].disputeWindow
  /\ settled' = [settled EXCEPT ![m] = TRUE]
  /\ finalOutcome' = [finalOutcome EXCEPT ![m] = outcome]
  /\ settledAt' = [settledAt EXCEPT ![m] = now]
  /\ settledBy' = [settledBy EXCEPT ![m] = caller]
  /\ UNCHANGED <<factories, registry, engineConsensus, created, canceled, now>>

Settle(caller, m, outcome) ==
  /\ Exists(m)
  /\ caller = terms[m].settlementAuthority
  /\ ~settled[m] /\ ~canceled[m]
  /\ now >= terms[m].endTime + terms[m].disputeWindow
  /\ settled' = [settled EXCEPT ![m] = TRUE]
  /\ finalOutcome' = [finalOutcome EXCEPT ![m] = outcome]
  /\ settledAt' = [settledAt EXCEPT ![m] = now]
  /\ settledBy' = [settledBy EXCEPT ![m] = caller]
  /\ UNCHANGED <<factories, registry, engineConsensus, created, canceled, now>>

CancelMarket(m) ==
  /\ Exists(m)
  /\ ~settled[m] /\ ~canceled[m]
  /\ canceled' = [canceled EXCEPT ![m] = TRUE]
  /\ UNCHANGED <<factories, registry, engineConsensus, created, settled, finalOutcome,
                 settledAt, settledBy, now>>

\* An authority that is an account settles its markets without the engine.
SettleDirectly(caller, m, outcome) == Settle(caller, m, outcome)

-----------------------------------------------------------------------------
(* SettlementEngine *)

UpdateOracleConsensus(newOracleConsensus) ==
  /\ newOracleConsensus # NoAddress
  /\ engineConsensus' = newOracleConsensus
  /\ UNCHANGED <<factories, registry, created, decisions, now>>

\* Mutant: the registry is not asked.
EngineSettleAny(m, outcome) == Settle(Engine, m, outcome)

\* What settleMarket and governanceSettleMarket do after their access check.
EngineSettle(m, outcome) ==
  /\ isValidMarket[m]
  /\ Settle(Engine, m, outcome)

\* The caller is an account: the contract OracleConsensus has no call of settleMarket.
SettleMarket(caller, m, outcome) ==
  /\ caller = engineConsensus
  /\ EngineSettle(m, outcome)

GovernanceSettleMarket(m, outcome) == EngineSettle(m, outcome)

Tick ==
  /\ now < MaxTime
  /\ now' = now + 1
  /\ UNCHANGED <<factories, registry, engineConsensus, created, decisions>>

-----------------------------------------------------------------------------
Next ==
  \/ \E f \in Factory :
       \/ \E paused \in BOOLEAN : SetMarketCreationPaused(f, paused)
       \/ \E p \in Parameters : UpdateMarketParameters(f, p)
       \/ \E c \in Configs : UpdateRuntimeConfig(f, c)
       \/ \E request \in Requests : CreateMarket(f, request)
  \/ \E f \in Factory \cup Account \cup {NoAddress} : UpdateFactory(f)
  \/ \E a \in Account, m \in Market : RegisterByHand(a, m)
  \/ \E a \in Account \cup {OracleConsensus, NoAddress} : UpdateOracleConsensus(a)
  \/ \E m \in Market :
       \/ InvalidateMarket(m)
       \/ CancelMarket(m)
       \/ \E outcome \in BOOLEAN :
            \/ GovernanceSettleMarket(m, outcome)
            \/ \E a \in Account : SettleDirectly(a, m, outcome) \/ SettleMarket(a, m, outcome)
  \/ Tick

Spec == Init /\ [][Next]_vars

-----------------------------------------------------------------------------
(* Properties. *)

Terms ==
  [startTime : Nat, endTime : Nat, exposure : Nat, settlementAuthority : Address,
   feeBps : Nat, disputeWindow : Nat, bond : Nat]

\* Types.
TypeOK ==
  /\ creationPaused \in [Factory -> BOOLEAN]
  /\ parameters \in [Factory -> Parameters]
  /\ config \in [Factory -> Configs]
  /\ marketFactory \in Factory \cup Account /\ byHand \in Nat
  /\ isValidMarket \in [Market -> BOOLEAN] /\ totalMarkets \in Nat
  /\ engineConsensus \in Address
  /\ deployed \in 0 .. MaxMarkets
  /\ terms \in [Market -> Terms \cup {NoTerms}]
  /\ \A m \in Market : Exists(m) => terms[m] \in Terms
  /\ settled \in [Market -> BOOLEAN] /\ finalOutcome \in [Market -> BOOLEAN]
  /\ canceled \in [Market -> BOOLEAN]
  /\ bonds \in Nat /\ now \in Nat
  /\ settledAt \in [Market -> Nat]
  /\ settledBy \in [Market -> Address \cup {NoAddress}]

\* The registry is complete: whichever factory is authorized, and whenever it is
\* replaced, every market that exists was registered, once by the MarketFactory that
\* deployed it and else only by hand, and nothing that does not exist was.
RegistryIsComplete ==
  /\ totalMarkets = deployed + byHand
  /\ \A m \in Market : isValidMarket[m] => Exists(m)

BondsOwed == [m \in Market |-> IF Exists(m) THEN terms[m].bond ELSE 0]

\* A bond buys a market: the treasury received the bond of every market that
\* exists, as it was when it was created, and nothing for refused requests.
BondBuysMarket == bonds = Total(BondsOwed, MaxMarkets)

\* Every market satisfies what PredictionMarket assumes of its parameters, whatever
\* governance did to the limits and the fee before it was created.
MarketsAreWellFormed ==
  \A m \in Market : Exists(m) =>
    /\ terms[m].startTime < terms[m].endTime
    /\ terms[m].exposure > 0
    /\ terms[m].feeBps <= 1000

\* A creation happens whole or not at all: the bond paid, the market well formed
\* and registered once, across replaced factories and changed limits.
CreationIsComplete == TypeOK /\ RegistryIsComplete /\ BondBuysMarket /\ MarketsAreWellFormed

\* A market is settled by the authority, and after the dispute window, of the
\* moment of its creation: reconfigurations are for later markets.
SettledOnItsTerms ==
  \A m \in Market : settled[m] =>
    /\ settledBy[m] = terms[m].settlementAuthority
    /\ settledAt[m] >= terms[m].endTime + terms[m].disputeWindow

\* A market of the engine that was invalidated before it was settled.
Stranded(m) ==
  Exists(m) /\ terms[m].settlementAuthority = Engine /\ ~isValidMarket[m] /\ ~settled[m]

\* Governance may not "retroactively change settlements": a settlement and a
\* cancellation are final and exclude each other.  A market that was invalidated while
\* undecided is not settled unless it becomes valid again first, and only an account
\* that governance put in the factory's place can make it so: no MarketFactory can.
NoRetroactiveSettlement ==
  [][\A m \in Market :
       /\ settled[m] => settled'[m] /\ finalOutcome'[m] = finalOutcome[m] /\ ~canceled'[m]
       /\ canceled[m] => canceled'[m] /\ ~settled'[m]
       /\ Stranded(m) => ~settled'[m] /\ (isValidMarket'[m] => marketFactory \in Account)]_vars

=============================================================================
