--------------------------- MODULE ServiceMirrors ---------------------------
(***************************************************************************)
(* The rows that AgentService, OracleService, GovernanceService,           *)
(* RWAService and MarketService keep of what users did on chain.  A user   *)
(* sends a transaction himself and reports its hash; the service looks at  *)
(* its row, waits for the receipt and compares the call (verify_call), for *)
(* agents and proposals reads the contract, and writes the row.  Nothing   *)
(* is locked between these steps, and a hash may be reported again.        *)
(*                                                                         *)
(* A behaviour is about one subject: an agent, an oracle, a proposal, an   *)
(* asset or a market, whose bets are in MarketMirror.  Rows of different   *)
(* subjects have nothing in common.                                        *)
(***************************************************************************)
EXTENDS Integers, Sequences, SequencesExt, Sums

CONSTANTS
  Kind,         \* the kinds of subjects of this instance
  Voter,
  Amount,       \* bound: the amounts of stakes, mints and burns
  MinStake,     \* AgentRegistry.minimumStake
  MaxSupply,    \* max_supply of the asset's row
  MaxStored,    \* the largest value of a BigInteger column, 2^63 - 1; the chain's are of 256 bits
  Request,      \* the requests that may run at once
  MaxTx,        \* bound: transactions
  MaxReports    \* bound: reports of them

ASSUME MirrorAssumption ==
  /\ Kind \subseteq {"agent", "oracle", "proposal", "asset", "market"}
  /\ Amount \subseteq Nat \ {0} /\ MinStake \in Nat /\ MaxSupply \in Nat /\ MaxStored \in Nat
  /\ MaxTx \in Nat /\ MaxReports \in Nat

VARIABLES
  kind,     \* what the subject is
  txs,      \* the successful transactions about it, in order
  chain,    \* its state on chain: chain[n + 1] after n transactions
  row,      \* its row in the database
  entries,  \* the rows of proposal_votes, or of oracle_submissions
  job,      \* per request: the report it handles, and what it has read
  reports   \* how often each transaction has been reported

vars == <<kind, txs, chain, row, entries, job, reports>>

Absent == [none |-> TRUE]
Idle   == [step |-> "idle"]

-----------------------------------------------------------------------------
(* The contracts, as far as the services read them.                        *)

AgentCall ==
  [fn : {"registerAgent", "deactivate"}] \cup [fn : {"stakeAndActivate", "unstake"}, amount : Amount]
OracleCall ==
  [fn : {"registerOracle", "submitOutcome"}] \cup [fn : {"stake"}, amount : Amount]
ProposalCall ==
  [fn : {"createProposal", "queueProposal", "executeProposal"}]
    \cup [fn : {"vote"}, voter : Voter, support : BOOLEAN]
AssetCall ==
  [fn : {"registerAsset"}] \cup [fn : {"mint", "burn"}, amount : Amount]
MarketCall == [fn : {"createMarket"}]

Call ==
  CASE kind = "agent"    -> AgentCall
    [] kind = "oracle"   -> OracleCall
    [] kind = "proposal" -> ProposalCall
    [] kind = "asset"    -> AssetCall
    [] kind = "market"   -> MarketCall

Contract ==
  CASE kind = "agent"    -> [exists |-> FALSE, stake |-> 0, active |-> FALSE]
    [] kind = "oracle"   -> [exists |-> FALSE, stake |-> 0, submitted |-> FALSE]
    [] kind = "proposal" -> [exists |-> FALSE, for |-> 0, against |-> 0, voted |-> {},
                             queued |-> FALSE, executed |-> FALSE]
    [] kind = "asset"    -> [exists |-> FALSE, supply |-> 0]
    [] kind = "market"   -> [exists |-> FALSE]

Now == chain[Len(chain)]

Creating == {"registerAgent", "registerOracle", "registerAsset", "createProposal", "createMarket"}

\* A transaction succeeds where its contract does not revert.
Succeeds(tx) ==
  \/ tx.fn \in Creating /\ ~Now.exists
  \/ tx.fn \in {"stakeAndActivate", "stake"} /\ Now.exists
  \/ tx.fn = "deactivate" /\ Now.exists /\ Now.active
  \/ tx.fn = "unstake" /\ Now.exists /\ ~Now.active /\ tx.amount <= Now.stake
  \/ tx.fn = "submitOutcome" /\ Now.exists /\ ~Now.submitted
  \/ tx.fn = "vote" /\ Now.exists /\ ~Now.queued /\ tx.voter \notin Now.voted
  \/ tx.fn = "queueProposal" /\ Now.exists /\ ~Now.queued /\ Now.for > Now.against
  \/ tx.fn = "executeProposal" /\ Now.exists /\ Now.queued /\ ~Now.executed
  \/ tx.fn = "mint"
  \/ tx.fn = "burn" /\ tx.amount <= Now.supply

\* The state it leaves; every voter has one vote, an oracle's stake is what it deposited.
After(tx) ==
  CASE tx.fn \in Creating        -> [Now EXCEPT !.exists = TRUE]
    [] tx.fn = "stakeAndActivate" ->
         [Now EXCEPT !.stake = @ + tx.amount, !.active = @ \/ Now.stake + tx.amount >= MinStake]
    [] tx.fn = "deactivate"      -> [Now EXCEPT !.active = FALSE]
    [] tx.fn = "unstake"         -> [Now EXCEPT !.stake = @ - tx.amount]
    [] tx.fn = "stake"           -> [Now EXCEPT !.stake = @ + tx.amount]
    [] tx.fn = "submitOutcome"   -> [Now EXCEPT !.submitted = TRUE]
    [] tx.fn = "vote" /\ tx.support  -> [Now EXCEPT !.voted = @ \cup {tx.voter}, !.for = @ + 1]
    [] tx.fn = "vote" /\ ~tx.support -> [Now EXCEPT !.voted = @ \cup {tx.voter}, !.against = @ + 1]
    [] tx.fn = "queueProposal"   -> [Now EXCEPT !.queued = TRUE]
    [] tx.fn = "executeProposal" -> [Now EXCEPT !.executed = TRUE]
    [] tx.fn = "mint"            -> [Now EXCEPT !.supply = @ + tx.amount]
    [] tx.fn = "burn"            -> [Now EXCEPT !.supply = @ - tx.amount]

-----------------------------------------------------------------------------
(* The services.                                                           *)

Init ==
  /\ kind \in Kind
  /\ txs = <<>> /\ chain = <<Contract>>
  /\ row = Absent /\ entries = <<>>
  /\ job = [q \in Request |-> Idle] /\ reports = [n \in 1 .. MaxTx |-> 0]

Transact(tx) ==
  /\ Len(txs) < MaxTx
  /\ Succeeds(tx)
  /\ chain' = Append(chain, After(tx))
  /\ txs' = Append(txs, tx)
  /\ UNCHANGED <<kind, row, entries, job, reports>>

HasVoted(v) == \E i \in DOMAIN entries : entries[i].voter = v

\* Error: only an agent without a stake can be staked.
AgentAdmitsUnstaked(tx) ==
  \/ tx.fn = "registerAgent" /\ row = Absent
  \/ tx.fn = "stakeAndActivate" /\ row # Absent /\ ~row.active /\ row.stake = 0
  \/ tx.fn = "deactivate" /\ row # Absent /\ row.active
  \/ tx.fn = "unstake" /\ row # Absent /\ ~row.active /\ row.stake >= tx.amount

\* What a service asks of its row before it waits for the receipt.
AgentAdmits(tx) ==
  \/ tx.fn = "registerAgent" /\ row = Absent
  \/ tx.fn = "stakeAndActivate" /\ row # Absent /\ ~row.active
  \/ tx.fn = "deactivate" /\ row # Absent /\ row.active
  \/ tx.fn = "unstake" /\ row # Absent /\ ~row.active /\ row.stake >= tx.amount

OracleAdmits(tx) ==
  \/ tx.fn = "registerOracle" /\ row = Absent
  \/ tx.fn = "stake" /\ row # Absent
  \/ tx.fn = "submitOutcome" /\ row # Absent /\ row.active

ProposalAdmits(tx) ==
  \/ tx.fn = "createProposal"
  \/ tx.fn = "vote" /\ row # Absent /\ ~row.executed /\ ~HasVoted(tx.voter)
  \/ tx.fn = "queueProposal" /\ row # Absent /\ ~row.executed
  \/ tx.fn = "executeProposal" /\ row # Absent

AssetAdmits(tx) ==
  \/ tx.fn = "registerAsset" /\ row = Absent
  \/ tx.fn \in {"mint", "burn"} /\ row # Absent

\* A report that comes after the market's start time is refused: it is as if it
\* were not made.
MarketAdmits(tx) == tx.fn = "createMarket" /\ row = Absent

Admits(tx) ==
  \/ AgentAdmits(tx) \/ OracleAdmits(tx) \/ ProposalAdmits(tx) \/ AssetAdmits(tx) \/ MarketAdmits(tx)

ReportsMade == Total(reports, MaxTx)

\* A transaction is mined before it is reported.
Report(q, n) ==
  /\ job[q] = Idle /\ n \in DOMAIN txs
  /\ ReportsMade < MaxReports
  /\ Admits(txs[n])
  /\ reports' = [reports EXCEPT ![n] = @ + 1]
  /\ job' = [job EXCEPT ![q] = [tx |-> txs[n], step |-> "checked", saw |-> row, height |-> 0]]
  /\ UNCHANGED <<kind, txs, chain, row, entries>>

\* The supply an asset's row would have.
Supply(tx, supply) == IF tx.fn = "mint" THEN supply + tx.amount ELSE supply - tx.amount

\* The receipt is there.  Agents and proposals are read on chain, assets in
\* their row, where a supply outside its bounds is refused.
Read(q) ==
  /\ job[q] # Idle /\ job[q].step = "checked"
  /\ LET j == job[q]
         moved == j.tx.fn \in {"mint", "burn"}
     IN /\ moved => Supply(j.tx, row.supply) \in 0 .. MaxSupply
        /\ job' = [job EXCEPT ![q] =
             [j EXCEPT !.step = "read", !.height = Len(chain), !.saw = IF moved THEN row ELSE j.saw]]
  /\ UNCHANGED <<kind, txs, chain, row, entries, reports>>

\* create: a row that has appeared since is a primary key error.
Create(j) ==
  /\ j.tx.fn \in {"registerAgent", "registerOracle", "registerAsset"} /\ row = Absent
  /\ row' = IF kind = "asset" THEN [supply |-> 0] ELSE [stake |-> 0, active |-> FALSE]
  /\ UNCHANGED entries

CreateMarket(j) ==
  /\ j.tx.fn = "createMarket" /\ row = Absent
  /\ row' = [settled |-> FALSE]
  /\ UNCHANGED entries

\* Error: the row follows the calls instead of the contract.
SyncCall(j) ==
  /\ j.tx.fn \in {"stakeAndActivate", "deactivate", "unstake"}
  /\ row' = [stake  |-> IF j.tx.fn = "stakeAndActivate" THEN row.stake + j.tx.amount ELSE row.stake,
             active |-> j.tx.fn = "stakeAndActivate"]
  /\ UNCHANGED entries

\* AgentRepository.sync_state: the write fails where the column cannot hold the stake.
Syncs(j) == j.tx.fn \in {"stakeAndActivate", "deactivate", "unstake"} /\ chain[j.height].stake <= MaxStored
Synced(j) == [stake |-> chain[j.height].stake, active |-> chain[j.height].active]

SyncState(j) ==
  /\ Syncs(j)
  /\ row' = Synced(j)
  /\ UNCHANGED entries

\* OracleRepository.update_stake with the stake read at first
UpdateStake(j) ==
  /\ j.tx.fn = "stake" /\ j.saw.stake + j.tx.amount <= MaxStored
  /\ row' = [stake |-> j.saw.stake + j.tx.amount, active |-> TRUE]
  /\ UNCHANGED entries

RecordSubmission(j) ==
  /\ j.tx.fn = "submitOutcome"
  /\ entries' = Append(entries, "submission")
  /\ UNCHANGED row

\* The tallies that were read fit their columns.
TallyFits(j) == chain[j.height].for <= MaxStored /\ chain[j.height].against <= MaxStored

CreateProposal(j) ==
  /\ j.tx.fn = "createProposal" /\ (row = Absent => TallyFits(j))
  /\ row' = IF row # Absent THEN row
            ELSE [for |-> chain[j.height].for, against |-> chain[j.height].against,
                  executed |-> chain[j.height].executed]
  /\ UNCHANGED entries

\* The session writes the columns whose value differs from the one it loaded.
Written(j, column) ==
  IF chain[j.height][column] = j.saw[column] THEN row[column] ELSE chain[j.height][column]

\* Error: the session writes every column it has loaded.
TalliedRow(j) ==
  [for |-> chain[j.height].for, against |-> chain[j.height].against, executed |-> j.saw.executed]

Tallied(j) ==
  [for |-> Written(j, "for"), against |-> Written(j, "against"), executed |-> row.executed]

\* Error: no uq_proposal_voter.
RecordEveryVote(j) ==
  /\ j.tx.fn = "vote"
  /\ entries' = Append(entries, [voter |-> j.tx.voter, support |-> j.tx.support])
  /\ row' = Tallied(j)

\* vote: a second row of one voter breaks uq_proposal_voter.
RecordVote(j) ==
  /\ j.tx.fn = "vote" /\ ~HasVoted(j.tx.voter) /\ TallyFits(j)
  /\ entries' = Append(entries, [voter |-> j.tx.voter, support |-> j.tx.support])
  /\ row' = Tallied(j)

RecordQueueing(j) ==
  /\ j.tx.fn = "queueProposal" /\ TallyFits(j)
  /\ row' = Tallied(j)
  /\ UNCHANGED entries

RecordExecution(j) ==
  /\ j.tx.fn = "executeProposal"
  /\ row' = [row EXCEPT !.executed = Written(j, "executed")]
  /\ UNCHANGED entries

\* RWARepository.mint, burn: the supply read in the session, changed and written back.
UpdateSupply(j) ==
  /\ j.tx.fn \in {"mint", "burn"}
  /\ row' = [supply |-> Supply(j.tx, j.saw.supply)]
  /\ UNCHANGED entries

Write(q) ==
  /\ job[q] # Idle /\ job[q].step = "read"
  /\ \/ Create(job[q]) \/ CreateMarket(job[q]) \/ SyncState(job[q]) \/ UpdateStake(job[q]) \/ RecordSubmission(job[q])
     \/ CreateProposal(job[q]) \/ RecordVote(job[q]) \/ RecordQueueing(job[q])
     \/ RecordExecution(job[q]) \/ UpdateSupply(job[q])
  /\ job' = [job EXCEPT ![q] = Idle]
  /\ UNCHANGED <<kind, txs, chain, reports>>

\* A refusal, a timeout of the chain or of the client, a restart.
Abandon(q) ==
  /\ job[q] # Idle
  /\ job' = [job EXCEPT ![q] = Idle]
  /\ UNCHANGED <<kind, txs, chain, row, entries, reports>>

Next ==
  \/ \E tx \in Call : Transact(tx)
  \/ \E q \in Request : (\E n \in 1 .. MaxTx : Report(q, n)) \/ Read(q) \/ Write(q) \/ Abandon(q)

Spec == Init /\ [][Next]_vars

-----------------------------------------------------------------------------
TypeOK ==
  /\ txs \in Seq(Call) /\ Len(chain) = Len(txs) + 1
  /\ row = Absent
     \/ CASE kind = "proposal" -> row \in [for : Nat, against : Nat, executed : BOOLEAN]
          [] kind = "asset"    -> row \in [supply : 0 .. MaxSupply]
          [] kind = "market"   -> row \in [settled : {FALSE}]
          [] OTHER             -> row \in [stake : Nat, active : BOOLEAN]
  /\ \A q \in Request : job[q] = Idle \/
       /\ job[q].tx \in Range(txs) /\ job[q].step \in {"checked", "read"}
       /\ job[q].height \in 0 .. Len(chain)
  /\ reports \in [1 .. MaxTx -> 0 .. MaxReports]

\* The database claims nothing the chain does not know, whichever of two
\* overlapping requests writes last: no subject that is not registered, no
\* supply beyond its limits, no execution, vote or submission that did not
\* happen, no vote twice, and, as long as no deposit is reported twice, no
\* deposit of an oracle that was not made (verify_call, uq_proposal_voter).
Backed ==
  /\ TypeOK
  /\ row # Absent => Now.exists
  /\ kind = "oracle" =>
       /\ row # Absent /\ row.active => Now.stake > 0
       /\ row # Absent /\ (\A n \in 1 .. MaxTx : reports[n] <= 1) => row.stake <= Now.stake
       /\ entries # <<>> => Now.submitted
  /\ kind = "proposal" =>
       /\ row # Absent /\ row.executed => Now.executed
       /\ \A i \in DOMAIN entries : \E n \in DOMAIN txs :
            txs[n] = [fn |-> "vote", voter |-> entries[i].voter, support |-> entries[i].support]
       /\ \A i, j \in DOMAIN entries : entries[i].voter = entries[j].voter => i = j

\* An agent's row is a state the agent was in, and each tally of a proposal's
\* row one it had, whichever of two overlapping requests writes last.
RowWasTrue ==
  /\ kind = "agent" /\ row # Absent =>
       \E n \in DOMAIN chain : row.stake = chain[n].stake /\ row.active = chain[n].active
  /\ kind = "proposal" /\ row # Absent =>
       /\ \E n \in DOMAIN chain : row.for = chain[n].for
       /\ \E n \in DOMAIN chain : row.against = chain[n].against

\* What a service that is given the n-th transaction again would write now.
ReportedNow(n) == [tx |-> txs[n], step |-> "read", saw |-> row, height |-> Len(chain)]
Shows(r) == r.stake = Now.stake /\ r.active = Now.active

\* As long as its stake fits the column, an agent's row that is out of date can be
\* brought up to date by reporting some transaction again: the report is admitted,
\* and what it writes is what the chain says.  Only a top-up of an agent that is
\* active, and never was anything else, has to wait.  A row that is missing can be
\* created.
CanBeRepaired ==
  kind = "agent" /\ Now.exists /\ Now.stake <= MaxStored =>
    IF row = Absent THEN \E n \in DOMAIN txs : txs[n].fn = "registerAgent" /\ Admits(txs[n])
    ELSE \/ Shows(row)
         \/ row.active /\ Now.active /\ row.stake < Now.stake
         \/ \E n \in DOMAIN txs :
              Admits(txs[n]) /\ Syncs(ReportedNow(n)) /\ Shows(Synced(ReportedNow(n)))

\* An executed proposal is never shown as open again by a late vote or queueing.
ExecutedStays ==
  [][kind = "proposal" /\ row # Absent /\ row.executed => row'.executed]_vars
=============================================================================
