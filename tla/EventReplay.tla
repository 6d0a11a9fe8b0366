---------------------------- MODULE EventReplay ----------------------------
(***************************************************************************)
(* Rebuilding the database from the protocol's events: ReplayEngine, the   *)
(* Kafka consumer, the event handlers and the repositories they write.     *)
(* The chain's events are one ordered log.  A replay is given the events   *)
(* from some place of the log on, never beyond the first one still to be   *)
(* applied, and dispatches them one by one; it may end early, because a    *)
(* handler refuses an event or because the process dies, and be started    *)
(* again.  A consumer reads on from its committed offset, and goes on when *)
(* a handler fails.  A database is fed by one of the two.                  *)
(*                                                                         *)
(* A step is the handling of one event: only one feeder runs, so the reads *)
(* and the writes of a handler are not interleaved with others'.           *)
(***************************************************************************)
EXTENDS Integers, Sequences, FiniteSets, Sums

CONSTANTS
  Market, Agent, Oracle, User, Vault,
  LoggedAmount, \* bound: stakes and deposits
  MaxColumn,   \* the largest value of a BigInteger column, 2^63 - 1; the chain's are of 256 bits
  MaxEvents,   \* bound: length of the log
  MaxReplays,  \* bound: replays, and starts of the consumer
  MaxFailures  \* bound: handlers that fail for want of the database

ASSUME ReplayAssumption ==
  /\ LoggedAmount \subseteq Nat \ {0} /\ MaxColumn \in Nat
  /\ MaxEvents \in Nat /\ MaxReplays \in Nat /\ MaxFailures \in Nat

VARIABLES
  log,         \* the events of the chain, in order
  feeder,      \* "replay" or "consumer"
  cursor,      \* the last event given to a handler by the current or latest run
  high,        \* the last event ever applied
  running, replays, failures,
  committed,   \* the consumer group's offset
  missed,      \* events given to a handler that failed, and not applied again since
  repeated,    \* some event was applied twice, or after a later one
  markets, agents, oracles,   \* tables: a row per identity, or none
  submissions,                \* oracle_submissions: how often each was recorded
  positions, deposited        \* yield_positions and the total of each vault

yields == <<positions, deposited>>
tables == <<markets, agents, oracles, submissions, yields>>
engine == <<feeder, cursor, high, running, replays, failures, committed, missed, repeated>>
replayVars == <<log, engine, tables>>

NoRow == [kind |-> "none"]

\* The events the handlers know, and those of the contracts that none of them reads:
\* "reduced" stands for a slash or a withdrawal of stake.  The stake an event carries
\* is the amount added or taken, as the staking contracts emit it.
Event ==
  [type : {"market.created"}, id : Market] \cup
  [type : {"market.settled"}, id : Market, outcome : BOOLEAN] \cup
  [type : {"agent.registered", "agent.activated", "agent.deactivated"}, id : Agent] \cup
  [type : {"agent.staked", "agent.reduced"}, id : Agent, stake : LoggedAmount] \cup
  [type : {"oracle.registered", "oracle.activated", "oracle.deactivated"}, id : Oracle] \cup
  [type : {"oracle.staked", "oracle.reduced"}, id : Oracle, stake : LoggedAmount] \cup
  [type : {"oracle.submitted"}, id : Oracle, market : Market, outcome : BOOLEAN] \cup
  [type : {"yield.deposited", "yield.withdrawn"}, user : User, vault : Vault, amount : LoggedAmount] \cup
  [type : {"yield.rebalanced"}, user : User, to : [Vault -> LoggedAmount \cup {0}]] \cup
  [type : {"other"}]

-----------------------------------------------------------------------------
(* What the log says, event by event.  These definitions are the meaning   *)
(* that the contracts give to the events, not the handlers'.               *)

Said(n, P(_)) == {i \in 1 .. n : P(log[i])}
Latest(s)     == IF s = {} THEN 0 ELSE CHOOSE i \in s : \A j \in s : j <= i
About(type, id, n) == Said(n, LAMBDA e : e.type = type /\ e.id = id)

MarketLogged(m, n) ==
  IF About("market.created", m, n) = {} THEN NoRow
  ELSE LET s == Latest(About("market.settled", m, n))
       IN  [kind |-> "market", settled |-> s # 0, outcome |-> s # 0 /\ log[s].outcome]

Registered(type, id, n)   == About(type, id, n) # {}
ActiveLogged(on, off, id, n) == Latest(About(on, id, n)) > Latest(About(off, id, n))
AgentActive(a, n)  == ActiveLogged("agent.activated", "agent.deactivated", a, n)
OracleActive(o, n) == ActiveLogged("oracle.activated", "oracle.deactivated", o, n)

\* The amounts of the events of one type, added up, and the stake that the deposits
\* and the losses leave.
AmountLogged(type, id, n) ==
  Total([i \in 1 .. n |-> IF log[i].type = type /\ log[i].id = id THEN log[i].stake ELSE 0], n)
StakeLogged(deposit, loss, id, n) == AmountLogged(deposit, id, n) - AmountLogged(loss, id, n)

SubmissionsLogged(o, m, b, n) ==
  Said(n, LAMBDA e : e.type = "oracle.submitted" /\ e.id = o /\ e.market = m /\ e.outcome = b)

\* A user's position in a vault after the first n events.
Position(u, v, n) ==
  LET held[i \in 0 .. n] ==
        IF i = 0 THEN 0
        ELSE LET e == log[i] IN
          IF e.type = "yield.rebalanced" /\ e.user = u THEN e.to[v]
          ELSE IF e.type \in {"yield.deposited", "yield.withdrawn"} /\ e.user = u /\ e.vault = v
               THEN held[i - 1] + (IF e.type = "yield.deposited" THEN e.amount ELSE -e.amount)
               ELSE held[i - 1]
  IN  held[n]

\* External: the chain emits only what its contracts allow.
Allowed(e) ==
  LET n == Len(log) IN
  CASE e.type = "market.created"    -> MarketLogged(e.id, n) = NoRow
    [] e.type = "market.settled"    -> MarketLogged(e.id, n) = [kind |-> "market", settled |-> FALSE, outcome |-> FALSE]
    [] e.type = "agent.registered"  -> ~Registered("agent.registered", e.id, n)
    [] e.type = "agent.activated"   -> Registered("agent.registered", e.id, n) /\ ~AgentActive(e.id, n)
    [] e.type \in {"agent.deactivated", "agent.staked"} -> AgentActive(e.id, n)
    [] e.type = "agent.reduced"     -> StakeLogged("agent.staked", "agent.reduced", e.id, n) >= e.stake
    [] e.type = "oracle.registered" -> ~Registered("oracle.registered", e.id, n)
    [] e.type \in {"oracle.activated", "oracle.deactivated"} -> Registered("oracle.registered", e.id, n)
    [] e.type \in {"oracle.staked", "oracle.submitted"} -> OracleActive(e.id, n)
    [] e.type = "oracle.reduced"    -> StakeLogged("oracle.staked", "oracle.reduced", e.id, n) >= e.stake
    [] e.type = "yield.withdrawn"   -> Position(e.user, e.vault, n) >= e.amount
    [] OTHER -> TRUE

\* A replay's list is fixed when it starts: what the chain emits meanwhile
\* belongs to the next one, so it is enough to let it emit between replays.
Emit(e) ==
  /\ ~running /\ Len(log) < MaxEvents /\ Allowed(e)
  /\ log' = Append(log, e)
  /\ UNCHANGED <<engine, tables>>

-----------------------------------------------------------------------------
(* The repositories.                                                       *)

MarketRowFromEvent(m) ==
  markets' = [markets EXCEPT ![m] = IF @ # NoRow THEN @ ELSE [kind |-> "market", settled |-> FALSE, outcome |-> FALSE]]
MarkSettled(m, outcome) == markets' = [markets EXCEPT ![m] = [@ EXCEPT !.settled = TRUE, !.outcome = outcome]]

AgentRowFromEvent(a) ==
  agents' = [agents EXCEPT ![a] = IF @ # NoRow THEN @ ELSE [kind |-> "agent", stake |-> 0, active |-> FALSE]]
\* Error: a deposit is added, also when its event is applied again.
AddStake(a, s)    == agents' = [agents EXCEPT ![a] = [@ EXCEPT !.stake = @ + s]]
Activate(a)       == agents' = [agents EXCEPT ![a] = [@ EXCEPT !.active = TRUE]]
Deactivate(a)     == agents' = [agents EXCEPT ![a] = [@ EXCEPT !.active = FALSE]]
UpdateAgentStake(a, s) == agents' = [agents EXCEPT ![a] = [@ EXCEPT !.stake = s]]

OracleRowFromEvent(o) ==
  oracles' = [oracles EXCEPT ![o] = IF @ # NoRow THEN @ ELSE [kind |-> "oracle", stake |-> 0, active |-> FALSE]]
UpdateOracleStake(o, s, active) == oracles' = [oracles EXCEPT ![o] = [@ EXCEPT !.stake = s, !.active = active]]
RecordOracleSubmission(o, m, outcome) == submissions' = [submissions EXCEPT ![<<o, m, outcome>>] = @ + 1]

\* A position is a row with its amount, or 0 for no row.
RecordDeposit(u, v, amount) ==
  /\ positions' = [positions EXCEPT ![<<u, v>>] = @ + amount]
  /\ deposited' = [deposited EXCEPT ![v] = @ + amount]
RecordWithdrawal(u, v, amount) ==
  /\ positions' = [positions EXCEPT ![<<u, v>>] = @ - amount]
  /\ deposited' = [deposited EXCEPT ![v] = IF @ > amount THEN @ - amount ELSE 0]
\* Error: vaults left out of the rebalance keep their row.
RebalanceSome(u, to) == positions' = [p \in User \X Vault |-> IF p[1] = u /\ to[p[2]] # 0 THEN to[p[2]] ELSE positions[p]]
ApplyRebalance(u, to) == positions' = [p \in User \X Vault |-> IF p[1] = u THEN to[p[2]] ELSE positions[p]]

-----------------------------------------------------------------------------
(* The handlers.                                                           *)

\* The database refuses a value that its column cannot hold.
Overflows(e) ==
  \/ e.type \in {"agent.staked", "oracle.staked"} /\ e.stake > MaxColumn
  \/ /\ e.type = "yield.deposited"
     /\ positions[<<e.user, e.vault>>] + e.amount > MaxColumn \/ deposited[e.vault] + e.amount > MaxColumn
  \/ e.type = "yield.rebalanced" /\ \E v \in Vault : e.to[v] > MaxColumn

\* A handler raises InvariantViolation, or the database's error.
Refused(e) ==
  \/ Overflows(e)
  \/ e.type = "market.settled" /\ markets[e.id] = NoRow
  \/ e.type \in {"agent.staked", "agent.activated", "agent.deactivated"} /\ agents[e.id] = NoRow
  \/ e.type \in {"oracle.staked", "oracle.submitted"} /\ oracles[e.id] = NoRow
  \/ e.type = "yield.withdrawn" /\ positions[<<e.user, e.vault>>] < e.amount

MarketCreated(e) ==
  /\ e.type = "market.created"
  /\ IF markets[e.id] # NoRow THEN UNCHANGED markets ELSE MarketRowFromEvent(e.id)
  /\ UNCHANGED <<agents, oracles, submissions, yields>>
MarketSettled(e) ==
  /\ e.type = "market.settled"
  /\ IF markets[e.id].settled THEN UNCHANGED markets ELSE MarkSettled(e.id, e.outcome)
  /\ UNCHANGED <<agents, oracles, submissions, yields>>

AgentRegistered(e) ==
  /\ e.type = "agent.registered"
  /\ IF agents[e.id] # NoRow THEN UNCHANGED agents ELSE AgentRowFromEvent(e.id)
  /\ UNCHANGED <<markets, oracles, submissions, yields>>
AgentStaked(e) ==
  /\ e.type = "agent.staked" /\ UpdateAgentStake(e.id, e.stake)
  /\ UNCHANGED <<markets, oracles, submissions, yields>>
AgentActivated(e) ==
  /\ e.type = "agent.activated"
  /\ IF agents[e.id].active THEN UNCHANGED agents ELSE Activate(e.id)
  /\ UNCHANGED <<markets, oracles, submissions, yields>>
AgentDeactivated(e) ==
  /\ e.type = "agent.deactivated"
  /\ IF ~agents[e.id].active THEN UNCHANGED agents ELSE Deactivate(e.id)
  /\ UNCHANGED <<markets, oracles, submissions, yields>>

OracleRegistered(e) ==
  /\ e.type = "oracle.registered"
  /\ IF oracles[e.id] # NoRow THEN UNCHANGED oracles ELSE OracleRowFromEvent(e.id)
  /\ UNCHANGED <<markets, agents, submissions, yields>>
OracleStaked(e) ==
  /\ e.type = "oracle.staked" /\ UpdateOracleStake(e.id, e.stake, TRUE)
  /\ UNCHANGED <<markets, agents, submissions, yields>>
OracleSubmitted(e) ==
  /\ e.type = "oracle.submitted" /\ RecordOracleSubmission(e.id, e.market, e.outcome)
  /\ UNCHANGED <<markets, agents, oracles, yields>>

YieldDeposited(e) ==
  /\ e.type = "yield.deposited" /\ RecordDeposit(e.user, e.vault, e.amount)
  /\ UNCHANGED <<markets, agents, oracles, submissions>>
YieldWithdrawn(e) ==
  /\ e.type = "yield.withdrawn" /\ RecordWithdrawal(e.user, e.vault, e.amount)
  /\ UNCHANGED <<markets, agents, oracles, submissions>>
YieldRebalanced(e) ==
  /\ e.type = "yield.rebalanced" /\ ApplyRebalance(e.user, e.to)
  /\ UNCHANGED <<markets, agents, oracles, submissions, deposited>>

\* An event of another kind is ignored.
Ignored(e) ==
  /\ e.type \in {"agent.reduced", "oracle.activated", "oracle.deactivated", "oracle.reduced", "other"}
  /\ UNCHANGED tables

Handle(e) ==
  \/ MarketCreated(e) \/ MarketSettled(e)
  \/ AgentRegistered(e) \/ AgentStaked(e) \/ AgentActivated(e) \/ AgentDeactivated(e)
  \/ OracleRegistered(e) \/ OracleStaked(e) \/ OracleSubmitted(e)
  \/ YieldDeposited(e) \/ YieldWithdrawn(e) \/ YieldRebalanced(e) \/ Ignored(e)

-----------------------------------------------------------------------------
(* The engine and the consumer.                                            *)

ReplayInit ==
  /\ log = <<>> /\ cursor = 0 /\ high = 0 /\ running = FALSE /\ replays = 0 /\ repeated = FALSE
  /\ feeder \in {"replay", "consumer"} /\ failures = 0 /\ committed = 0 /\ missed = {}
  /\ markets = [m \in Market |-> NoRow] /\ agents = [a \in Agent |-> NoRow] /\ oracles = [o \in Oracle |-> NoRow]
  /\ submissions = [s \in Oracle \X Market \X BOOLEAN |-> 0]
  /\ positions = [p \in User \X Vault |-> 0] /\ deposited = [v \in Vault |-> 0]

Begin(k) ==
  /\ ~running /\ replays < MaxReplays
  /\ running' = TRUE /\ replays' = replays + 1 /\ cursor' = k
  /\ UNCHANGED <<log, feeder, high, failures, committed, missed, repeated, tables>>

\* A replay of the events after the first k.
Replay(k) == feeder = "replay" /\ k <= cursor /\ Begin(k)

\* create_consumer: reading goes on after the committed offset.
Consume == feeder = "consumer" /\ Begin(committed)

Next1 == log[cursor + 1]
Apply ==
  /\ running /\ cursor < Len(log) /\ ~Refused(Next1)
  /\ Handle(Next1)
  /\ cursor' = cursor + 1
  /\ high' = IF cursor < high THEN high ELSE cursor + 1
  /\ missed' = missed \ {cursor + 1}
  /\ repeated' = (repeated \/ cursor < high)
  /\ UNCHANGED <<log, feeder, replays, failures>>

Dispatch == feeder = "replay" /\ Apply /\ UNCHANGED <<running, committed>>

\* Error: the offset is committed before the handler runs.
CommitFirst ==
  /\ feeder = "consumer" /\ running /\ cursor < Len(log)
  /\ cursor' = cursor + 1 /\ committed' = cursor + 1 /\ running' = FALSE
  /\ UNCHANGED <<log, feeder, high, replays, failures, missed, repeated, tables>>
\* The handler succeeds, and what was read is committed.
Deliver == feeder = "consumer" /\ Apply /\ committed' = cursor + 1 /\ UNCHANGED running

\* The process dies between the handler and the commit.
DeliverUncommitted == feeder = "consumer" /\ Apply /\ running' = FALSE /\ UNCHANGED committed

\* The handler raises: nothing is committed, and the next message is read.
Pass ==
  /\ feeder = "consumer" /\ running /\ cursor < Len(log)
  /\ Refused(Next1) \/ failures < MaxFailures
  /\ failures' = IF Refused(Next1) THEN failures ELSE failures + 1
  /\ cursor' = cursor + 1
  /\ missed' = missed \cup {cursor + 1}
  /\ UNCHANGED <<log, feeder, high, running, replays, committed, repeated, tables>>

Stop == running' = FALSE /\ UNCHANGED <<log, feeder, cursor, high, replays, failures, committed, missed, repeated, tables>>

Complete == feeder = "replay" /\ running /\ cursor = Len(log) /\ Stop
Raise    == feeder = "replay" /\ running /\ cursor < Len(log) /\ Refused(Next1) /\ Stop
Crash    == running /\ cursor < Len(log) /\ Stop

ReplayNext ==
  \/ \E e \in Event : Emit(e)
  \/ \E k \in 0 .. Len(log) : Replay(k)
  \/ Dispatch \/ Complete \/ Raise
  \/ Consume \/ Deliver \/ DeliverUncommitted \/ Pass
  \/ Crash

ReplaySpec == ReplayInit /\ [][ReplayNext]_replayVars

-----------------------------------------------------------------------------
\* The tables have their types: no position and no vault total is negative.
ReplayTypeOK ==
  /\ cursor \in 0 .. Len(log) /\ high \in 0 .. Len(log) /\ committed \in 0 .. Len(log)
  /\ \A p \in DOMAIN positions : positions[p] \in Nat
  /\ \A v \in Vault : deposited[v] \in Nat

\* The handlers store the amount of the last deposit as the stake, and hear of no
\* loss of stake: it is the stake only after a single deposit and no loss, and never
\* more than all deposits together.
StakeShown(stake, deposit, loss, id) ==
  /\ stake <= AmountLogged(deposit, id, high)
  /\ About(loss, id, high) = {} /\ (\A i, j \in About(deposit, id, high) : i = j)
       => stake = StakeLogged(deposit, loss, id, high)

AgentAsLogged(a) ==
  IF Registered("agent.registered", a, high)
  THEN /\ agents[a] # NoRow /\ agents[a].active = AgentActive(a, high)
       /\ StakeShown(agents[a].stake, "agent.staked", "agent.reduced", a)
  ELSE agents[a] = NoRow

\* An oracle that the row calls active was active when it deposited, and may have
\* been deactivated since; one that it calls inactive has never deposited.
OracleAsLogged(o) ==
  IF Registered("oracle.registered", o, high)
  THEN /\ oracles[o] # NoRow
       /\ oracles[o].active => OracleActive(o, high) \/ About("oracle.deactivated", o, high) # {}
       /\ ~oracles[o].active => About("oracle.staked", o, high) = {}
       /\ StakeShown(oracles[o].stake, "oracle.staked", "oracle.reduced", o)
  ELSE oracles[o] = NoRow

\* Whatever replays were cut short and started again from wherever, and wherever
\* the consumer died, once the last event known has been applied again the rows
\* of markets say what the log says, and those of agents and oracles as much of it
\* as their handlers take from it, unless a handler failed on an event and the
\* event was passed over.  A market that shows an outcome shows the log's, in the
\* middle of a replay too.
RowsAsLogged ==
  /\ ReplayTypeOK
  /\ \A m \in Market : markets[m] # NoRow /\ markets[m].settled => markets[m] = MarketLogged(m, high)
  /\ cursor = high /\ missed = {} =>
       /\ \A m \in Market : markets[m] = MarketLogged(m, high)
       /\ \A a \in Agent : AgentAsLogged(a)
       /\ \A o \in Oracle : OracleAsLogged(o)

\* Deposits, withdrawals and submissions are right as long as every event is
\* applied once: a replay that continues where the last one stopped.
OnceIsExact ==
  ~repeated /\ missed = {} =>
    /\ \A u \in User, v \in Vault : positions[<<u, v>>] = Position(u, v, high)
    /\ \A o \in Oracle, m \in Market, b \in BOOLEAN :
         submissions[<<o, m, b>>] = Cardinality(SubmissionsLogged(o, m, b, high))

\* The consumer's offset passes over an event only if it was applied or its
\* handler failed: no crash loses one that was not tried.
OnlyFailuresPass ==
  \A i \in 1 .. committed : i <= high \/ i \in missed

=============================================================================
