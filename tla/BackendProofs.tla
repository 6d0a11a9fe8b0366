---------------------------- MODULE BackendProofs ----------------------------
(***************************************************************************)
(* Theorems about what the backend's database holds.  First, of module     *)
(* ServiceMirrors: the rows that the services keep of what users did on    *)
(* chain, for any number of transactions, requests and reports.  Then, of  *)
(* module EventReplay: the rows rebuilt from the protocol's events, for    *)
(* any log, any number of replays and any failures.                        *)
(***************************************************************************)
EXTENDS ServiceMirrors, EventReplay, SumTheorems, FiniteSets, FiniteSetTheorems

-----------------------------------------------------------------------------
(* Agents *)

AgentState == [exists : BOOLEAN, stake : Nat, active : BOOLEAN]
AgentRow   == {Absent} \cup [stake : Nat, active : BOOLEAN]
AgentJob   == {Idle} \cup [tx : AgentCall, step : {"checked", "read"}, saw : AgentRow, height : Nat]

Called(fn) == \E n \in DOMAIN txs : txs[n].fn = fn

AgentTypes ==
  /\ txs \in Seq(AgentCall) /\ chain \in Seq(AgentState) /\ Len(chain) = Len(txs) + 1
  /\ row \in AgentRow
  /\ job \in [Request -> AgentJob]

\* What the contract's history allows.  As long as nobody deactivates an active
\* agent, it stays active, and an active agent's stake cannot be withdrawn.
AgentHistory ==
  /\ chain[1] = [exists |-> FALSE, stake |-> 0, active |-> FALSE]
  /\ chain[Len(chain)].exists => Called("registerAgent")
  /\ ~Called("stakeAndActivate") => \A n \in 1 .. Len(chain) : chain[n].stake = 0 /\ ~chain[n].active
  /\ ~Called("deactivate") => \A n \in 1 .. Len(chain) : chain[n].active =>
       chain[Len(chain)].active /\ chain[n].stake <= chain[Len(chain)].stake

\* A row is a state of the past, and so is what a request is about to write.
AgentRowWasTrue ==
  row # Absent => \E n \in 1 .. Len(chain) : row.stake = chain[n].stake /\ row.active = chain[n].active
AgentJobsRead == \A q \in Request : job[q].step = "read" => job[q].height \in 1 .. Len(chain)

AgentInv == AgentTypes /\ AgentHistory /\ AgentRowWasTrue /\ AgentJobsRead

LEMMA AgentCallType ==
  ASSUME NEW tx \in AgentCall
  PROVE  /\ tx.fn \in {"registerAgent", "deactivate", "stakeAndActivate", "unstake"}
         /\ tx.fn \in {"stakeAndActivate", "unstake"} => tx.amount \in Nat
BY MirrorAssumption DEF AgentCall

\* What a transaction about an agent does to the contract.
LEMMA AgentAfter ==
  ASSUME NEW tx \in AgentCall, Succeeds(tx), Now \in AgentState
  PROVE  /\ After(tx) \in AgentState
         /\ After(tx).exists => Now.exists \/ tx.fn = "registerAgent"
         /\ tx.fn # "stakeAndActivate" => After(tx).stake <= Now.stake /\ (After(tx).active => Now.active)
         /\ tx.fn # "deactivate" /\ Now.active => After(tx).active /\ Now.stake <= After(tx).stake
<1> DEFINE s == Now
<1>0. s \in AgentState /\ s.stake \in Nat /\ s.active \in BOOLEAN /\ s.exists \in BOOLEAN
  BY DEF AgentState
<1>1. CASE tx.fn = "registerAgent"
  <2>1. After(tx) = [s EXCEPT !.exists = TRUE]
    BY <1>1 DEF After, Creating
  <2> HIDE DEF s
  <2>2. After(tx).stake = s.stake /\ After(tx).active = s.active /\ After(tx) \in AgentState
    BY <1>0, <2>1 DEF AgentState
  <2> QED BY <1>0, <1>1, <2>2 DEF s
<1>2. CASE tx.fn = "deactivate"
  <2>1. After(tx) = [s EXCEPT !.active = FALSE]
    BY <1>2 DEF After, Creating
  <2> HIDE DEF s
  <2>2. After(tx).stake = s.stake /\ ~After(tx).active /\ After(tx).exists = s.exists /\ After(tx) \in AgentState
    BY <1>0, <2>1 DEF AgentState
  <2> QED BY <1>0, <1>2, <2>2 DEF s
<1>3. CASE tx.fn = "stakeAndActivate"
  <2>1. After(tx) = [s EXCEPT !.stake = s.stake + tx.amount, !.active = s.active \/ s.stake + tx.amount >= MinStake]
    BY <1>3 DEF After, Creating
  <2>2. tx.amount \in Nat
    BY <1>3, AgentCallType
  <2> DEFINE enough == s.active \/ s.stake + tx.amount >= MinStake
  <2>3. After(tx) = [s EXCEPT !.stake = s.stake + tx.amount, !.active = enough]
    BY <2>1
  <2>4. enough \in BOOLEAN /\ (s.active => enough)
    OBVIOUS
  <2> HIDE DEF s, enough
  <2>5. After(tx) = [exists |-> s.exists, stake |-> s.stake + tx.amount, active |-> enough]
    BY <1>0, <2>3 DEF AgentState
  <2>6. /\ After(tx).stake = s.stake + tx.amount /\ After(tx).exists = s.exists /\ After(tx) \in AgentState
        /\ After(tx).active = enough
    BY <1>0, <2>2, <2>4, <2>5 DEF AgentState
  <2> QED BY <1>0, <1>3, <2>2, <2>4, <2>6 DEF s
<1>4. CASE tx.fn = "unstake"
  <2>1. After(tx) = [s EXCEPT !.stake = s.stake - tx.amount]
    BY <1>4 DEF After, Creating
  <2>2. tx.amount \in Nat /\ tx.amount <= s.stake /\ ~s.active
    BY <1>4, AgentCallType DEF Succeeds, Creating
  <2> HIDE DEF s
  <2>3. After(tx).stake = s.stake - tx.amount /\ After(tx).active = s.active /\ After(tx).exists = s.exists
        /\ After(tx) \in AgentState
    BY <1>0, <2>1, <2>2 DEF AgentState
  <2> QED BY <1>0, <1>4, <2>2, <2>3 DEF s
<1> QED BY <1>1, <1>2, <1>3, <1>4, AgentCallType

\* What a transaction adds.
LEMMA Appended ==
  ASSUME NEW S, NEW T, txs \in Seq(S), chain \in Seq(T), Len(chain) = Len(txs) + 1, NEW tx \in S, Transact(tx), After(tx) \in T
  PROVE  /\ txs' \in Seq(S) /\ chain' \in Seq(T) /\ Len(chain') = Len(txs') + 1
         /\ Len(chain) \in Nat \ {0} /\ Len(chain') = Len(chain) + 1
         /\ \A n \in 1 .. Len(chain) : chain'[n] = chain[n]
         /\ chain'[Len(chain')] = After(tx)
         /\ \A fn : Called(fn)' <=> Called(fn) \/ tx.fn = fn
         /\ UNCHANGED <<kind, row, entries, job>>
<1>1. txs' = Append(txs, tx) /\ chain' = Append(chain, After(tx)) /\ UNCHANGED <<kind, row, entries, job>>
  BY DEF Transact
<1>2. txs' \in Seq(S) /\ chain' \in Seq(T) /\ Len(txs') = Len(txs) + 1 /\ Len(chain') = Len(chain) + 1
      /\ Len(txs) \in Nat /\ chain'[Len(chain) + 1] = After(tx) /\ txs'[Len(txs) + 1] = tx
      /\ \A n \in 1 .. Len(chain) : chain'[n] = chain[n]
  BY <1>1
<1>3. DOMAIN txs = 1 .. Len(txs) /\ DOMAIN txs' = 1 .. Len(txs) + 1 /\ \A n \in 1 .. Len(txs) : txs'[n] = txs[n]
  BY <1>1
<1>4. ASSUME NEW fn PROVE Called(fn)' <=> Called(fn) \/ tx.fn = fn
  <2>1. ASSUME Called(fn)' PROVE Called(fn) \/ tx.fn = fn
    BY <1>2, <1>3, <2>1 DEF Called
  <2>2. ASSUME Called(fn) \/ tx.fn = fn PROVE Called(fn)'
    <3>1. CASE Called(fn)
      BY <1>2, <1>3, <3>1 DEF Called
    <3>2. CASE tx.fn = fn
      BY <1>2, <1>3, <3>2 DEF Called
    <3> QED BY <2>2, <3>1, <3>2
  <2> QED BY <2>1, <2>2
<1> QED BY <1>1, <1>2, <1>4

LEMMA AgentTransact ==
  ASSUME AgentInv, kind = "agent", NEW tx \in Call, Transact(tx)
  PROVE  AgentInv'
<1>1. tx \in AgentCall /\ Succeeds(tx)
  BY DEF Call, Transact
<1>2. Now \in AgentState /\ Len(chain) \in Nat \ {0}
  BY DEF AgentInv, AgentTypes, Now
<1>3. After(tx) \in AgentState
  BY <1>1, <1>2, AgentAfter
<1>4. /\ txs' \in Seq(AgentCall) /\ chain' \in Seq(AgentState) /\ Len(chain') = Len(txs') + 1
      /\ Len(chain') = Len(chain) + 1
      /\ \A n \in 1 .. Len(chain) : chain'[n] = chain[n]
      /\ chain'[Len(chain')] = After(tx)
      /\ \A fn : Called(fn)' <=> Called(fn) \/ tx.fn = fn
      /\ UNCHANGED <<kind, row, entries, job>>
  BY <1>1, <1>3, Appended DEF AgentInv, AgentTypes
<1>5. AgentTypes'
  BY <1>4 DEF AgentInv, AgentTypes
<1>6. AgentRowWasTrue' /\ AgentJobsRead'
  BY <1>2, <1>4 DEF AgentInv, AgentRowWasTrue, AgentJobsRead
<1> DEFINE last == Len(chain)
<1>7. Now = chain[last] /\ \A n \in 1 .. last : chain[n] \in AgentState /\ chain[n].stake \in Nat
  <2>1. \A n \in 1 .. last : chain[n] \in AgentState
    BY DEF AgentInv, AgentTypes
  <2> QED BY <2>1 DEF Now, AgentState
<1>8. /\ After(tx).exists => chain[last].exists \/ tx.fn = "registerAgent"
      /\ tx.fn # "stakeAndActivate" => After(tx).stake <= chain[last].stake /\ (After(tx).active => chain[last].active)
      /\ tx.fn # "deactivate" /\ chain[last].active => After(tx).active /\ chain[last].stake <= After(tx).stake
      /\ After(tx).stake \in Nat
  BY <1>1, <1>2, <1>3, <1>7, AgentAfter DEF AgentState
<1>9. AgentHistory'
  <2>1. (chain[1] = [exists |-> FALSE, stake |-> 0, active |-> FALSE])'
    BY <1>2, <1>4 DEF AgentInv, AgentHistory
  <2>2. (chain[Len(chain)].exists => Called("registerAgent"))'
    BY <1>4, <1>8 DEF AgentInv, AgentHistory
  <2>3. ASSUME ~Called("stakeAndActivate")' PROVE \A n \in 1 .. Len(chain') : chain'[n].stake = 0 /\ ~chain'[n].active
    BY <1>2, <1>4, <1>8, <2>3 DEF AgentInv, AgentHistory
  <2>4. ASSUME ~Called("deactivate")', NEW n \in 1 .. Len(chain'), chain'[n].active
        PROVE  chain'[Len(chain')].active /\ chain'[n].stake <= chain'[Len(chain')].stake
    <3>1. CASE n = Len(chain')
      BY <1>4, <1>8, <2>4, <3>1
    <3>2. CASE n # Len(chain')
      <4>1. n \in 1 .. last /\ chain'[n] = chain[n] /\ tx.fn # "deactivate" /\ ~Called("deactivate")
        BY <1>2, <1>4, <2>4, <3>2
      <4>2. chain[last].active /\ chain[n].stake <= chain[last].stake
        BY <2>4, <4>1 DEF AgentInv, AgentHistory
      <4>3. chain[n].stake \in Nat /\ chain[last].stake \in Nat
        BY <1>2, <1>7, <4>1
      <4> QED BY <1>4, <1>8, <4>1, <4>2, <4>3
    <3> QED BY <3>1, <3>2
  <2> QED BY <2>1, <2>2, <2>3, <2>4 DEF AgentHistory
<1> QED BY <1>5, <1>6, <1>9 DEF AgentInv

LEMMA AgentJobType ==
  ASSUME AgentTypes, NEW q \in Request, job[q] # Idle
  PROVE  job[q] \in [tx : AgentCall, step : {"checked", "read"}, saw : AgentRow, height : Nat]
BY DEF AgentTypes, AgentJob

LEMMA AgentRequest ==
  ASSUME AgentInv, kind = "agent", NEW q \in Request,
         (\E n \in 1 .. MaxTx : Report(q, n)) \/ Read(q) \/ Write(q) \/ Abandon(q)
  PROVE  AgentInv'
<1>1. CASE \E n \in 1 .. MaxTx : Report(q, n)
  <2>1. PICK n \in 1 .. MaxTx : Report(q, n)
    BY <1>1
  <2>2. /\ txs[n] \in AgentCall /\ row \in AgentRow
        /\ job' = [job EXCEPT ![q] = [tx |-> txs[n], step |-> "checked", saw |-> row, height |-> 0]]
        /\ UNCHANGED <<kind, txs, chain, row, entries>>
    BY <2>1 DEF Report, AgentInv, AgentTypes
  <2>3. AgentTypes'
    BY <2>2 DEF AgentInv, AgentTypes, AgentJob
  <2>4. AgentJobsRead'
    BY <2>2 DEF AgentInv, AgentTypes, AgentJobsRead
  <2> QED BY <2>2, <2>3, <2>4 DEF AgentInv, AgentHistory, AgentRowWasTrue, Called
<1>2. CASE Read(q)
  <2>1. job[q] \in [tx : AgentCall, step : {"checked", "read"}, saw : AgentRow, height : Nat]
    BY <1>2, AgentJobType DEF Read, AgentInv
  <2>2. /\ job' = [job EXCEPT ![q] = [job[q] EXCEPT !.step = "read", !.height = Len(chain), !.saw =
              IF job[q].tx.fn \in {"mint", "burn"} THEN row ELSE job[q].saw]]
        /\ UNCHANGED <<kind, txs, chain, row, entries>>
    BY <1>2 DEF Read
  <2>3. job[q].tx.fn \notin {"mint", "burn"}
    BY <2>1, AgentCallType
  <2> DEFINE j == [job[q] EXCEPT !.step = "read", !.height = Len(chain), !.saw = job[q].saw]
  <2>4. job' = [job EXCEPT ![q] = j]
    BY <2>2, <2>3
  <2>5. Len(chain) \in Nat \ {0}
    BY DEF AgentInv, AgentTypes
  <2>6. j \in AgentJob /\ j.height = Len(chain)
    BY <2>1, <2>5 DEF AgentJob
  <2> HIDE DEF j
  <2>7. AgentTypes'
    BY <2>2, <2>4, <2>6 DEF AgentInv, AgentTypes
  <2>8. AgentJobsRead'
    BY <2>2, <2>4, <2>5, <2>6 DEF AgentInv, AgentTypes, AgentJobsRead
  <2> QED BY <2>2, <2>7, <2>8 DEF AgentInv, AgentHistory, AgentRowWasTrue, Called
<1>3. CASE Write(q)
  <2> DEFINE j == job[q]
  <2>1. j \in [tx : AgentCall, step : {"checked", "read"}, saw : AgentRow, height : Nat] /\ j.step = "read"
    BY <1>3, AgentJobType DEF Write, AgentInv
  <2>2. j.height \in 1 .. Len(chain)
    BY <2>1 DEF AgentInv, AgentJobsRead
  <2>3. /\ job' = [job EXCEPT ![q] = Idle] /\ UNCHANGED <<kind, txs, chain>>
        /\ Create(j) \/ SyncState(j)
    BY <1>3, <2>1, AgentCallType DEF Write, CreateMarket, UpdateStake, RecordSubmission, CreateProposal,
         RecordVote, RecordQueueing, RecordExecution, UpdateSupply
  <2>4. ASSUME NEW n \in 1 .. Len(chain) PROVE chain[n].stake \in Nat /\ chain[n].active \in BOOLEAN
    <3>1. chain[n] \in AgentState
      BY <2>4 DEF AgentInv, AgentTypes
    <3> QED BY <3>1 DEF AgentState
  <2>5. \E n \in 1 .. Len(chain) : row' = [stake |-> chain[n].stake, active |-> chain[n].active]
    <3>1. CASE Create(j)
      <4>1. row' = [stake |-> 0, active |-> FALSE]
        BY <3>1 DEF Create
      <4>2. 1 \in 1 .. Len(chain) /\ chain[1].stake = 0 /\ chain[1].active = FALSE
        BY DEF AgentInv, AgentTypes, AgentHistory
      <4> QED BY <4>1, <4>2
    <3>2. CASE SyncState(j)
      BY <2>2, <3>2 DEF SyncState, Synced
    <3> QED BY <2>3, <3>1, <3>2
  <2>6. row' \in AgentRow /\ AgentRowWasTrue'
    BY <2>3, <2>4, <2>5 DEF AgentRow, AgentRowWasTrue
  <2>7. AgentTypes' /\ AgentJobsRead'
    BY <2>3, <2>6 DEF AgentInv, AgentTypes, AgentJobsRead, AgentJob, Idle
  <2> QED BY <2>3, <2>6, <2>7 DEF AgentInv, AgentHistory, Called
<1>4. CASE Abandon(q)
  <2>1. job' = [job EXCEPT ![q] = Idle] /\ UNCHANGED <<kind, txs, chain, row, entries>>
    BY <1>4 DEF Abandon
  <2>2. AgentTypes' /\ AgentJobsRead'
    BY <2>1 DEF AgentInv, AgentTypes, AgentJobsRead, AgentJob, Idle
  <2> QED BY <2>1, <2>2 DEF AgentInv, AgentHistory, AgentRowWasTrue, Called
<1> QED BY <1>1, <1>2, <1>3, <1>4

LEMMA AgentInit == Init /\ kind = "agent" => AgentInv
<1>1. SUFFICES ASSUME Init, kind = "agent" PROVE AgentInv
  OBVIOUS
<1> DEFINE c == [exists |-> FALSE, stake |-> 0, active |-> FALSE]
<1>2. txs = <<>> /\ chain = <<c>> /\ row = Absent /\ job = [q \in Request |-> Idle]
  BY <1>1 DEF Init, Contract
<1>3. c \in AgentState /\ ~c.exists /\ c.stake = 0 /\ c.active = FALSE
  BY DEF AgentState
<1>4. AgentTypes
  <2> HIDE DEF c
  <2> QED BY <1>2, <1>3 DEF AgentTypes, AgentRow, AgentJob
<1>5. AgentHistory
  <2>1. Len(chain) = 1 /\ chain[1] = c
    BY <1>2
  <2> QED BY <2>1, <1>3 DEF AgentHistory
<1>6. AgentRowWasTrue /\ AgentJobsRead
  BY <1>2 DEF AgentRowWasTrue, AgentJobsRead, Idle
<1> QED BY <1>4, <1>5, <1>6 DEF AgentInv

\* Some report is admitted, and brings the row up to date, unless the row is up to date, or short of a top-up.
LEMMA AgentRepair ==
  ASSUME AgentInv, kind = "agent"
  PROVE  CanBeRepaired
<1> DEFINE last == Len(chain)
           creatable == \E n \in DOMAIN txs : txs[n].fn = "registerAgent" /\ Admits(txs[n])
           reportable == \E n \in DOMAIN txs :
             Admits(txs[n]) /\ Syncs(ReportedNow(n)) /\ Shows(Synced(ReportedNow(n)))
           short == row.active /\ Now.active /\ row.stake < Now.stake
<1>1. SUFFICES ASSUME Now.exists, Now.stake <= MaxStored
               PROVE  IF row = Absent THEN creatable ELSE Shows(row) \/ short \/ reportable
  BY DEF CanBeRepaired
<1>2. Now = chain[last] /\ last \in 1 .. Len(chain)
  BY DEF Now, AgentInv, AgentTypes
<1>3. ASSUME NEW n \in DOMAIN txs, AgentAdmits(txs[n]), txs[n].fn \in {"stakeAndActivate", "deactivate"}
      PROVE  reportable
  <2>1. Syncs(ReportedNow(n)) /\ Shows(Synced(ReportedNow(n)))
    BY <1>1, <1>2, <1>3 DEF Syncs, ReportedNow, Shows, Synced
  <2> QED BY <1>3, <2>1 DEF Admits
<1>4. \A n \in 1 .. last : chain[n].stake \in Nat /\ chain[n].active \in BOOLEAN
  <2>1. \A n \in 1 .. last : chain[n] \in AgentState
    BY DEF AgentInv, AgentTypes
  <2> QED BY <2>1 DEF AgentState
<1> HIDE DEF reportable
<1>5. CASE row = Absent
  <2>1. PICK n \in DOMAIN txs : txs[n].fn = "registerAgent"
    BY <1>1, <1>2 DEF AgentInv, AgentHistory, Called
  <2> QED BY <1>5, <2>1 DEF AgentAdmits, Admits
<1>6. CASE row # Absent
  <2>1. PICK n \in 1 .. last : row.stake = chain[n].stake /\ row.active = chain[n].active
    BY <1>6 DEF AgentInv, AgentRowWasTrue
  <2>2. CASE row.active /\ Called("deactivate")
    BY <1>3, <1>6, <2>2 DEF AgentAdmits, Called
  <2>3. CASE row.active /\ ~Called("deactivate")
    <3>1. chain[n].active /\ chain[last].active /\ chain[n].stake <= chain[last].stake
      BY <2>1, <2>3 DEF AgentInv, AgentHistory
    <3> QED BY <1>2, <1>4, <1>6, <2>1, <2>3, <3>1 DEF Shows
  <2>4. CASE ~row.active /\ Called("stakeAndActivate")
    BY <1>3, <1>6, <2>4 DEF AgentAdmits, Called
  <2>5. CASE ~row.active /\ ~Called("stakeAndActivate")
    <3>1. chain[n].stake = 0 /\ chain[last].stake = 0 /\ ~chain[last].active
      BY <1>2, <2>5 DEF AgentInv, AgentHistory
    <3> QED BY <1>2, <1>4, <1>6, <2>1, <2>5, <3>1 DEF Shows
  <2> QED BY <1>6, <2>2, <2>3, <2>4, <2>5
<1> QED BY <1>5, <1>6

-----------------------------------------------------------------------------
(* Proposals *)

ProposalState ==
  [exists : BOOLEAN, for : Nat, against : Nat, voted : SUBSET Voter, queued : BOOLEAN, executed : BOOLEAN]
ProposalRow == {Absent} \cup [for : Nat, against : Nat, executed : BOOLEAN]
ProposalJob == {Idle} \cup [tx : ProposalCall, step : {"checked", "read"}, saw : ProposalRow, height : Nat]
Entry == [voter : Voter, support : BOOLEAN]

ProposalTypes ==
  /\ txs \in Seq(ProposalCall) /\ chain \in Seq(ProposalState) /\ Len(chain) = Len(txs) + 1
  /\ row \in ProposalRow /\ entries \in Seq(Entry)
  /\ job \in [Request -> ProposalJob]

Executed == chain[Len(chain)].executed
ExecutedForGood == \A n \in 1 .. Len(chain) : chain[n].executed => Executed

ProposalRowWasTrue ==
  row # Absent =>
    /\ \E n \in 1 .. Len(chain) : row.for = chain[n].for
    /\ \E n \in 1 .. Len(chain) : row.against = chain[n].against
    /\ row.executed => Executed

\* A request that changes a row has seen one; an execution it saw there is in what
\* it reads on chain later.
ProposalJobsSaw ==
  \A q \in Request : job[q] # Idle =>
    /\ \E n \in DOMAIN txs : txs[n] = job[q].tx
    /\ job[q].tx.fn # "createProposal" => job[q].saw # Absent /\ row # Absent
    /\ job[q].saw # Absent /\ job[q].saw.executed => Executed
    /\ job[q].step = "read" =>
         /\ job[q].height \in 1 .. Len(chain)
         /\ job[q].saw # Absent /\ job[q].saw.executed => chain[job[q].height].executed

VotesHappened ==
  /\ \A i \in DOMAIN entries : \E n \in DOMAIN txs :
       txs[n] = [fn |-> "vote", voter |-> entries[i].voter, support |-> entries[i].support]
  /\ \A i, j \in DOMAIN entries : entries[i].voter = entries[j].voter => i = j

ProposalInv ==
  ProposalTypes /\ ExecutedForGood /\ ProposalRowWasTrue /\ ProposalJobsSaw /\ VotesHappened

LEMMA ProposalCallType ==
  ASSUME NEW tx \in ProposalCall
  PROVE  /\ tx.fn \in {"createProposal", "queueProposal", "executeProposal", "vote"}
         /\ tx.fn = "vote" => /\ tx.voter \in Voter /\ tx.support \in BOOLEAN
                              /\ tx = [fn |-> "vote", voter |-> tx.voter, support |-> tx.support]
BY DEF ProposalCall

LEMMA ProposalAfter ==
  ASSUME NEW tx \in ProposalCall, Now \in ProposalState
  PROVE  After(tx) \in ProposalState /\ (Now.executed => After(tx).executed)
<1> DEFINE s == Now
<1>0. s \in ProposalState
  OBVIOUS
<1>1. CASE tx.fn = "createProposal"
  <2>1. After(tx) = [s EXCEPT !.exists = TRUE]
    BY <1>1 DEF After, Creating
  <2> HIDE DEF s
  <2>2. After(tx) \in ProposalState /\ After(tx).executed = s.executed
    BY <1>0, <2>1 DEF ProposalState
  <2> QED BY <2>2 DEF s
<1>2. CASE tx.fn = "queueProposal"
  <2>1. After(tx) = [s EXCEPT !.queued = TRUE]
    BY <1>2 DEF After, Creating
  <2> HIDE DEF s
  <2>2. After(tx) \in ProposalState /\ After(tx).executed = s.executed
    BY <1>0, <2>1 DEF ProposalState
  <2> QED BY <2>2 DEF s
<1>3. CASE tx.fn = "executeProposal"
  <2>1. After(tx) = [s EXCEPT !.executed = TRUE]
    BY <1>3 DEF After, Creating
  <2> HIDE DEF s
  <2>2. After(tx) \in ProposalState /\ After(tx).executed = TRUE
    BY <1>0, <2>1 DEF ProposalState
  <2> QED BY <2>2 DEF s
<1>4. CASE tx.fn = "vote"
  <2>1. tx.voter \in Voter
    BY <1>4, ProposalCallType
  <2>2. \/ After(tx) = [s EXCEPT !.voted = s.voted \cup {tx.voter}, !.for = s.for + 1]
        \/ After(tx) = [s EXCEPT !.voted = s.voted \cup {tx.voter}, !.against = s.against + 1]
    BY <1>4 DEF After, Creating
  <2> HIDE DEF s
  <2>3. s.voted \cup {tx.voter} \in SUBSET Voter /\ s.for + 1 \in Nat /\ s.against + 1 \in Nat
    BY <1>0, <2>1 DEF ProposalState
  <2>4. After(tx) \in ProposalState /\ After(tx).executed = s.executed
    BY <1>0, <2>2, <2>3 DEF ProposalState
  <2> QED BY <2>4 DEF s
<1> QED BY <1>1, <1>2, <1>3, <1>4, ProposalCallType

LEMMA ProposalTransact ==
  ASSUME ProposalInv, kind = "proposal", NEW tx \in Call, Transact(tx)
  PROVE  ProposalInv'
<1>1. tx \in ProposalCall
  BY DEF Call
<1>2. Now = chain[Len(chain)] /\ Now \in ProposalState
  BY DEF ProposalInv, ProposalTypes, Now
<1>3. After(tx) \in ProposalState /\ (Executed => After(tx).executed)
  BY <1>1, <1>2, ProposalAfter DEF Executed
<1>4. /\ txs' \in Seq(ProposalCall) /\ chain' \in Seq(ProposalState) /\ Len(chain') = Len(txs') + 1
      /\ Len(chain) \in Nat \ {0} /\ Len(chain') = Len(chain) + 1
      /\ \A n \in 1 .. Len(chain) : chain'[n] = chain[n]
      /\ chain'[Len(chain')] = After(tx)
      /\ UNCHANGED <<kind, row, entries, job>>
  BY <1>1, <1>3, Appended DEF ProposalInv, ProposalTypes
<1>5. \A n \in DOMAIN txs : n \in DOMAIN txs' /\ txs'[n] = txs[n]
  BY DEF Transact, ProposalInv, ProposalTypes
<1>6. ProposalTypes'
  BY <1>4 DEF ProposalInv, ProposalTypes
<1>7. (Executed => Executed') /\ ExecutedForGood'
  BY <1>3, <1>4 DEF ProposalInv, ExecutedForGood, Executed
<1>8. ProposalRowWasTrue'
  BY <1>4, <1>7 DEF ProposalInv, ProposalRowWasTrue
<1>9. ProposalJobsSaw'
  BY <1>4, <1>5, <1>7 DEF ProposalInv, ProposalJobsSaw
<1>10. VotesHappened'
  BY <1>4, <1>5 DEF ProposalInv, VotesHappened
<1> QED BY <1>6, <1>7, <1>8, <1>9, <1>10 DEF ProposalInv

LEMMA ProposalJobType ==
  ASSUME ProposalTypes, NEW q \in Request, job[q] # Idle
  PROVE  job[q] \in [tx : ProposalCall, step : {"checked", "read"}, saw : ProposalRow, height : Nat]
BY DEF ProposalTypes, ProposalJob

\* A column that is written was one of the chain's, or is left alone.
LEMMA WrittenColumn ==
  ASSUME NEW j
  PROVE  /\ Written(j, "for") \in {row.for, chain[j.height].for}
         /\ Written(j, "against") \in {row.against, chain[j.height].against}
         /\ \/ Written(j, "executed") = row.executed
            \/ Written(j, "executed") = chain[j.height].executed /\ chain[j.height].executed # j.saw.executed
BY DEF Written

\* What a write leaves behind, and that it forgets no execution.
LEMMA ProposalWrites ==
  ASSUME ProposalInv, kind = "proposal", NEW q \in Request, Write(q)
  PROVE  /\ row' \in ProposalRow /\ row' # Absent /\ ProposalRowWasTrue'
         /\ row # Absent /\ row.executed => row'.executed
<1> DEFINE j == job[q]
           now == chain[j.height]
<1>1. /\ j # Idle /\ j.step = "read"
      /\ j \in [tx : ProposalCall, step : {"checked", "read"}, saw : ProposalRow, height : Nat]
  BY ProposalJobType DEF Write, ProposalInv
<1>2. /\ j.tx.fn # "createProposal" => j.saw # Absent /\ row # Absent
      /\ j.height \in 1 .. Len(chain)
      /\ j.saw # Absent /\ j.saw.executed => now.executed
  BY <1>1 DEF ProposalInv, ProposalJobsSaw
<1>3. now \in ProposalState /\ (now.executed => Executed)
  BY <1>2 DEF ProposalInv, ProposalTypes, ExecutedForGood
<1>4. now.for \in Nat /\ now.against \in Nat /\ now.executed \in BOOLEAN
  BY <1>3 DEF ProposalState
<1>5. UNCHANGED <<txs, chain, kind>> /\ Executed' = Executed
  BY DEF Write, Executed
<1>6. row = Absent \/ (row.for \in Nat /\ row.against \in Nat /\ row.executed \in BOOLEAN)
  BY DEF ProposalInv, ProposalTypes, ProposalRow
<1>7. CreateProposal(j) \/ RecordVote(j) \/ RecordQueueing(j) \/ RecordExecution(j)
  BY <1>1, ProposalCallType DEF Write, Create, CreateMarket, SyncState, Syncs, UpdateStake, RecordSubmission, UpdateSupply
<1>8. \A f, a, x : [for |-> f, against |-> a, executed |-> x] # Absent
  BY DEF Absent
<1>9. CASE CreateProposal(j)
  <2>1. CASE row # Absent
    <3>1. row' = row
      BY <1>9, <2>1 DEF CreateProposal
    <3> QED BY <1>5, <2>1, <3>1 DEF ProposalInv, ProposalTypes, ProposalRowWasTrue
  <2>2. CASE row = Absent
    <3>1. row' = [for |-> now.for, against |-> now.against, executed |-> now.executed]
      BY <1>9, <2>2 DEF CreateProposal
    <3> HIDE DEF now
    <3>2. /\ row' \in ProposalRow /\ row' # Absent
          /\ row'.for = now.for /\ row'.against = now.against /\ row'.executed = now.executed
      BY <1>4, <1>8, <3>1 DEF ProposalRow
    <3> USE DEF now
    <3> QED BY <1>2, <1>3, <1>5, <2>2, <3>2 DEF ProposalRowWasTrue
  <2> QED BY <2>1, <2>2
<1>10. CASE RecordVote(j) \/ RecordQueueing(j)
  <2>1. row # Absent
    BY <1>2, <1>10 DEF RecordVote, RecordQueueing
  <2> DEFINE f == Written(j, "for")
             a == Written(j, "against")
  <2>2. f \in {row.for, now.for} /\ a \in {row.against, now.against}
    BY WrittenColumn
  <2>3. row' = [for |-> f, against |-> a, executed |-> row.executed]
    BY <1>10 DEF RecordVote, RecordQueueing, Tallied
  <2> HIDE DEF f, a, now
  <2>4. /\ row' \in ProposalRow /\ row' # Absent
        /\ row'.for = f /\ row'.against = a /\ row'.executed = row.executed
    BY <1>4, <1>6, <1>8, <2>1, <2>2, <2>3 DEF ProposalRow
  <2> USE DEF now
  <2> QED BY <1>2, <1>3, <1>5, <2>1, <2>2, <2>4 DEF ProposalInv, ProposalRowWasTrue
<1>11. CASE RecordExecution(j)
  <2>1. row # Absent /\ j.saw # Absent
    BY <1>2, <1>11 DEF RecordExecution
  <2> DEFINE x == Written(j, "executed")
  <2>2. x = row.executed \/ (x = now.executed /\ now.executed # j.saw.executed)
    BY WrittenColumn
  <2>3. row \in [for : Nat, against : Nat, executed : BOOLEAN] /\ j.saw.executed \in BOOLEAN
    BY <1>1, <2>1 DEF ProposalInv, ProposalTypes, ProposalRow
  <2>4. row' = [row EXCEPT !.executed = x]
    BY <1>11 DEF RecordExecution
  <2>5. x \in BOOLEAN /\ (row.executed => x) /\ (x => Executed)
    BY <1>2, <1>3, <1>4, <1>6, <2>1, <2>2, <2>3 DEF ProposalInv, ProposalRowWasTrue
  <2> HIDE DEF x
  <2>6. /\ row' \in [for : Nat, against : Nat, executed : BOOLEAN]
        /\ row'.for = row.for /\ row'.against = row.against /\ row'.executed = x
    BY <2>3, <2>4, <2>5
  <2>7. row' \in ProposalRow /\ row' # Absent
    BY <1>8, <2>6 DEF ProposalRow, Absent
  <2> QED BY <1>5, <2>1, <2>5, <2>6, <2>7 DEF ProposalInv, ProposalRowWasTrue
<1> QED BY <1>7, <1>9, <1>10, <1>11

\* A vote is recorded once, and only after its transaction succeeded.
LEMMA ProposalVotes ==
  ASSUME ProposalInv, kind = "proposal", NEW q \in Request, Write(q)
  PROVE  entries' \in Seq(Entry) /\ VotesHappened'
<1> DEFINE j == job[q]
<1>1. j # Idle /\ j.tx \in ProposalCall /\ UNCHANGED txs /\ \E n \in DOMAIN txs : txs[n] = j.tx
  BY ProposalJobType DEF Write, ProposalInv, ProposalJobsSaw
<1>2. CASE j.tx.fn # "vote"
  <2>1. UNCHANGED entries
    BY <1>1, <1>2, ProposalCallType DEF Write, Create, CreateMarket, SyncState, Syncs, UpdateStake, RecordSubmission,
         UpdateSupply, CreateProposal, RecordVote, RecordQueueing, RecordExecution
  <2> QED BY <1>1, <2>1 DEF ProposalInv, ProposalTypes, VotesHappened
<1>3. CASE j.tx.fn = "vote"
  <2> DEFINE e == [voter |-> j.tx.voter, support |-> j.tx.support]
  <2>1. RecordVote(j)
    BY <1>1, <1>3 DEF Write, Create, CreateMarket, SyncState, Syncs, UpdateStake, RecordSubmission,
         UpdateSupply, CreateProposal, RecordQueueing, RecordExecution
  <2>2. entries' = Append(entries, e) /\ \A i \in DOMAIN entries : entries[i].voter # e.voter
    BY <2>1 DEF RecordVote, HasVoted
  <2>3. e \in Entry /\ \E n \in DOMAIN txs : txs[n] = [fn |-> "vote", voter |-> e.voter, support |-> e.support]
    BY <1>1, <1>3, ProposalCallType DEF Entry
  <2>4. entries \in Seq(Entry)
    BY DEF ProposalInv, ProposalTypes
  <2> HIDE DEF e
  <2>5. /\ entries' \in Seq(Entry) /\ DOMAIN entries = 1 .. Len(entries) /\ DOMAIN entries' = 1 .. Len(entries) + 1
        /\ Len(entries) \in Nat
        /\ entries'[Len(entries) + 1] = e /\ \A i \in DOMAIN entries : entries'[i] = entries[i]
    BY <2>2, <2>3, <2>4
  <2>6. \A i \in DOMAIN entries' : i \in DOMAIN entries \/ i = Len(entries) + 1
    BY <2>5
  <2> QED BY <1>1, <2>2, <2>3, <2>5, <2>6 DEF ProposalInv, VotesHappened
<1> QED BY <1>2, <1>3

LEMMA ProposalRequest ==
  ASSUME ProposalInv, kind = "proposal", NEW q \in Request,
         (\E n \in 1 .. MaxTx : Report(q, n)) \/ Read(q) \/ Write(q) \/ Abandon(q)
  PROVE  ProposalInv'
<1>1. CASE \E n \in 1 .. MaxTx : Report(q, n)
  <2>1. PICK n \in 1 .. MaxTx : Report(q, n)
    BY <1>1
  <2> DEFINE j == [tx |-> txs[n], step |-> "checked", saw |-> row, height |-> 0]
  <2>2. /\ n \in DOMAIN txs /\ txs[n] \in ProposalCall /\ row \in ProposalRow
        /\ job' = [job EXCEPT ![q] = j] /\ UNCHANGED <<kind, txs, chain, row, entries>> /\ Admits(txs[n])
    BY <2>1 DEF Report, ProposalInv, ProposalTypes
  <2>3. txs[n].fn # "createProposal" => row # Absent
    BY <2>2, ProposalCallType DEF Admits, AgentAdmits, OracleAdmits, ProposalAdmits, AssetAdmits, MarketAdmits
  <2>4. j \in ProposalJob /\ j.tx = txs[n] /\ j.saw = row /\ j.step = "checked"
    BY <2>2 DEF ProposalJob
  <2> HIDE DEF j
  <2>5. ProposalTypes'
    BY <2>2, <2>4 DEF ProposalInv, ProposalTypes
  <2>6. job'[q] = j /\ \A p \in Request : p # q => job'[p] = job[p]
    BY <2>2 DEF ProposalInv, ProposalTypes
  <2>7. ProposalJobsSaw'
    BY <2>2, <2>3, <2>4, <2>6 DEF ProposalInv, ProposalJobsSaw, ProposalRowWasTrue, Executed
  <2> QED BY <2>2, <2>5, <2>7 DEF ProposalInv, ExecutedForGood, ProposalRowWasTrue, VotesHappened, Executed
<1>2. CASE Read(q)
  <2>1. /\ job[q] # Idle
        /\ job[q] \in [tx : ProposalCall, step : {"checked", "read"}, saw : ProposalRow, height : Nat]
    BY <1>2, ProposalJobType DEF Read, ProposalInv
  <2> DEFINE j == [job[q] EXCEPT !.step = "read", !.height = Len(chain), !.saw = job[q].saw]
  <2>2. job[q].tx.fn \notin {"mint", "burn"}
    BY <2>1, ProposalCallType
  <2>3. job' = [job EXCEPT ![q] = j] /\ UNCHANGED <<kind, txs, chain, row, entries>>
    BY <1>2, <2>2 DEF Read
  <2>4. Len(chain) \in Nat \ {0}
    BY DEF ProposalInv, ProposalTypes
  <2>5. j \in ProposalJob /\ j.tx = job[q].tx /\ j.saw = job[q].saw /\ j.height = Len(chain)
    BY <2>1, <2>4 DEF ProposalJob
  <2> HIDE DEF j
  <2>6. ProposalTypes'
    BY <2>3, <2>5 DEF ProposalInv, ProposalTypes
  <2>7. job'[q] = j /\ \A p \in Request : p # q => job'[p] = job[p]
    BY <2>3 DEF ProposalInv, ProposalTypes
  <2>8. ProposalJobsSaw'
    BY <2>1, <2>3, <2>4, <2>5, <2>7 DEF ProposalInv, ProposalJobsSaw, Executed
  <2> QED BY <2>3, <2>6, <2>8 DEF ProposalInv, ExecutedForGood, ProposalRowWasTrue, VotesHappened, Executed
<1>3. CASE Write(q)
  <2>1. job' = [job EXCEPT ![q] = Idle] /\ UNCHANGED <<kind, txs, chain>>
    BY <1>3 DEF Write
  <2>2. row' \in ProposalRow /\ row' # Absent /\ ProposalRowWasTrue' /\ entries' \in Seq(Entry) /\ VotesHappened'
    BY <1>3, ProposalWrites, ProposalVotes
  <2>3. ProposalTypes'
    BY <2>1, <2>2 DEF ProposalInv, ProposalTypes, ProposalJob
  <2>4. ProposalJobsSaw'
    BY <2>1, <2>2 DEF ProposalInv, ProposalTypes, ProposalJobsSaw, Executed
  <2> QED BY <2>1, <2>2, <2>3, <2>4 DEF ProposalInv, ExecutedForGood, Executed
<1>4. CASE Abandon(q)
  <2>1. job' = [job EXCEPT ![q] = Idle] /\ UNCHANGED <<kind, txs, chain, row, entries>>
    BY <1>4 DEF Abandon
  <2>2. ProposalTypes'
    BY <2>1 DEF ProposalInv, ProposalTypes, ProposalJob
  <2>3. ProposalJobsSaw'
    BY <2>1 DEF ProposalInv, ProposalTypes, ProposalJobsSaw, Executed
  <2> QED BY <2>1, <2>2, <2>3 DEF ProposalInv, ExecutedForGood, ProposalRowWasTrue, VotesHappened, Executed
<1> QED BY <1>1, <1>2, <1>3, <1>4

LEMMA ProposalInit == Init /\ kind = "proposal" => ProposalInv
<1>1. SUFFICES ASSUME Init, kind = "proposal" PROVE ProposalInv
  OBVIOUS
<1> DEFINE c == [exists |-> FALSE, for |-> 0, against |-> 0, voted |-> {}, queued |-> FALSE, executed |-> FALSE]
<1>2. txs = <<>> /\ chain = <<c>> /\ row = Absent /\ entries = <<>> /\ job = [q \in Request |-> Idle]
  BY <1>1 DEF Init, Contract
<1>3. c \in ProposalState
  BY DEF ProposalState
<1> HIDE DEF c
<1>4. ProposalTypes
  BY <1>2, <1>3 DEF ProposalTypes, ProposalRow, ProposalJob
<1>5. ExecutedForGood
  <2>1. Len(chain) = 1
    BY <1>2
  <2> QED BY <2>1 DEF ExecutedForGood, Executed
<1>6. ProposalRowWasTrue /\ ProposalJobsSaw /\ VotesHappened
  BY <1>2 DEF ProposalRowWasTrue, ProposalJobsSaw, VotesHappened
<1> QED BY <1>4, <1>5, <1>6 DEF ProposalInv

-----------------------------------------------------------------------------
(* The theorems about agents and proposals *)

IInv == (kind = "agent" => AgentInv) /\ (kind = "proposal" => ProposalInv)

LEMMA KindStays == [Next]_vars => kind' = kind
BY DEF Next, vars, Transact, Report, Read, Write, Abandon

LEMMA NextInv == IInv /\ [Next]_vars => IInv'
<1>1. SUFFICES ASSUME IInv, [Next]_vars PROVE IInv'
  OBVIOUS
<1>2. CASE UNCHANGED vars
  BY <1>1, <1>2 DEF vars, IInv, AgentInv, AgentTypes, AgentHistory, Called, AgentRowWasTrue, AgentJobsRead,
     ProposalInv, ProposalTypes, ExecutedForGood, Executed, ProposalRowWasTrue, ProposalJobsSaw, VotesHappened
<1>3. CASE \E tx \in Call : Transact(tx)
  BY <1>1, <1>3, KindStays, AgentTransact, ProposalTransact DEF IInv
<1>4. CASE \E q \in Request : (\E n \in 1 .. MaxTx : Report(q, n)) \/ Read(q) \/ Write(q) \/ Abandon(q)
  BY <1>1, <1>4, KindStays, AgentRequest, ProposalRequest DEF IInv
<1> QED BY <1>1, <1>2, <1>3, <1>4 DEF Next

LEMMA Invariance == Spec => []IInv
<1>1. Init => IInv
  BY AgentInit, ProposalInit DEF IInv
<1> QED BY <1>1, NextInv, PTL DEF Spec

\* An agent's row, and each tally of a proposal's row, is one the contract had,
\* whichever of any number of overlapping requests writes last.
THEOREM RowsWereTrue == Spec => []RowWasTrue
<1>1. ASSUME IInv, kind = "agent", row # Absent
      PROVE  \E n \in DOMAIN chain : row.stake = chain[n].stake /\ row.active = chain[n].active
  BY <1>1 DEF IInv, AgentInv, AgentTypes, AgentRowWasTrue
<1>2. ASSUME IInv, kind = "proposal", row # Absent
      PROVE  /\ \E n \in DOMAIN chain : row.for = chain[n].for
             /\ \E n \in DOMAIN chain : row.against = chain[n].against
  <2>1. ProposalTypes /\ ProposalRowWasTrue
    BY <1>2 DEF IInv, ProposalInv
  <2>2. DOMAIN chain = 1 .. Len(chain)
    BY <2>1 DEF ProposalTypes
  <2> QED BY <1>2, <2>1, <2>2 DEF ProposalRowWasTrue
<1>3. IInv => RowWasTrue
  BY <1>1, <1>2 DEF RowWasTrue
<1> QED BY Invariance, <1>3, PTL

\* However an agent's history and its reports went, another report is admitted and
\* writes what the chain says, as long as the stake fits its column, but for the
\* top-up of an agent that is active.
THEOREM Repairable == Spec => []CanBeRepaired
<1>1. IInv => CanBeRepaired
  <2>1. kind # "agent" => CanBeRepaired
    BY DEF CanBeRepaired
  <2> QED BY <2>1, AgentRepair DEF IInv
<1> QED BY Invariance, <1>1, PTL

\* A late vote or queueing does not open an executed proposal again.
THEOREM ExecutionStays == Spec => ExecutedStays
<1>1. ASSUME IInv, [Next]_vars, kind = "proposal", row # Absent, row.executed
      PROVE  row'.executed
  <2>1. CASE \E q \in Request : Write(q)
    BY <1>1, <2>1, ProposalWrites DEF IInv
  <2>2. CASE ~ \E q \in Request : Write(q)
    <3>1. UNCHANGED row
      BY <1>1, <2>2 DEF Next, vars, Transact, Report, Read, Abandon
    <3> QED BY <1>1, <3>1
  <2> QED BY <2>1, <2>2
<1>2. IInv /\ [Next]_vars => [kind = "proposal" /\ row # Absent /\ row.executed => row'.executed]_vars
  BY <1>1
<1> QED BY Invariance, <1>2, PTL DEF Spec, ExecutedStays

\* What a proposal's rows claim of votes and of its execution happened, and no vote
\* is recorded twice.
ProposalBacked ==
  kind = "proposal" => VotesHappened /\ (row # Absent /\ row.executed => Now.executed)

\* Every recorded vote succeeded on chain before, one voter has one row, and only an
\* executed proposal is shown as executed.
THEOREM ProposalsBacked == Spec => []ProposalBacked
<1>1. IInv => ProposalBacked
  BY DEF IInv, ProposalInv, ProposalRowWasTrue, ProposalBacked, Executed, Now
<1> QED BY Invariance, <1>1, PTL

-----------------------------------------------------------------------------
(* Every kind of subject *)

OracleState == [exists : BOOLEAN, stake : Nat, submitted : BOOLEAN]
AssetState  == [exists : BOOLEAN, supply : Nat]
MarketState == [exists : BOOLEAN]

State ==
  CASE kind = "agent"    -> AgentState
    [] kind = "oracle"   -> OracleState
    [] kind = "proposal" -> ProposalState
    [] kind = "asset"    -> AssetState
    [] kind = "market"   -> MarketState

OracleRow == {Absent} \cup [stake : Nat, active : BOOLEAN]
AssetRow  == {Absent} \cup [supply : 0 .. MaxSupply]
MarketRow == {Absent} \cup [settled : {FALSE}]

Rows ==
  CASE kind = "agent"    -> AgentRow
    [] kind = "oracle"   -> OracleRow
    [] kind = "proposal" -> ProposalRow
    [] kind = "asset"    -> AssetRow
    [] kind = "market"   -> MarketRow

Job == [tx : Call, step : {"checked", "read"}, saw : Rows, height : Nat]

Types ==
  /\ kind \in {"agent", "oracle", "proposal", "asset", "market"}
  /\ txs \in Seq(Call) /\ chain \in Seq(State) /\ Len(chain) = Len(txs) + 1 /\ Len(txs) <= MaxTx
  /\ row \in Rows /\ job \in [Request -> {Idle} \cup Job]
  /\ reports \in [1 .. MaxTx -> 0 .. MaxReports]

\* Only what succeeded is reported, and only a report of the creation is admitted
\* while there is no row.
KnownToChain ==
  /\ \A n \in DOMAIN txs : txs[n].fn \in Creating => Now.exists
  /\ row # Absent => Now.exists
  /\ \A n \in 1 .. MaxTx : reports[n] # 0 => n \in DOMAIN txs
  /\ \A q \in Request : job[q] # Idle =>
       /\ job[q].tx \in Range(txs) /\ job[q].height \in 0 .. Len(chain)
       /\ job[q].tx.fn \notin Creating => row # Absent /\ job[q].saw # Absent

\* A supply that is about to be written has been compared with its limits.
SupplyChecked ==
  kind = "asset" => \A q \in Request :
    job[q] # Idle /\ job[q].step = "read" /\ job[q].tx.fn \in {"mint", "burn"} =>
      Supply(job[q].tx, job[q].saw.supply) \in 0 .. MaxSupply

\* What an oracle deposited, in all and as far as it was reported.
Deposit(n)  == IF n \in DOMAIN txs /\ txs[n].fn = "stake" THEN txs[n].amount ELSE 0
Deposits    == [n \in 1 .. MaxTx |-> Deposit(n)]
Reported    == [n \in 1 .. MaxTx |-> IF reports[n] = 0 THEN 0 ELSE Deposit(n)]
ReportedOnce == \A n \in 1 .. MaxTx : reports[n] <= 1

OracleBacked ==
  kind = "oracle" =>
    /\ Now.stake = Total(Deposits, MaxTx)
    /\ Called("submitOutcome") => Now.submitted
    /\ row # Absent /\ row.active => Called("stake")
    /\ entries # <<>> => Called("submitOutcome")
    /\ ReportedOnce =>
         /\ row # Absent => row.stake <= Total(Reported, MaxTx)
         /\ \A q \in Request : job[q] # Idle /\ job[q].tx.fn = "stake" =>
              job[q].saw.stake + job[q].tx.amount <= Total(Reported, MaxTx)

BackedInv == Types /\ KnownToChain /\ SupplyChecked /\ OracleBacked

\* The functions of each contract; amounts are positive.
LEMMA CallFields ==
  ASSUME kind \in {"agent", "oracle", "proposal", "asset", "market"}, NEW tx \in Call
  PROVE  /\ kind = "agent"    => tx.fn \in {"registerAgent", "deactivate", "stakeAndActivate", "unstake"}
         /\ kind = "oracle"   => tx.fn \in {"registerOracle", "submitOutcome", "stake"}
         /\ kind = "proposal" => tx.fn \in {"createProposal", "queueProposal", "executeProposal", "vote"}
         /\ kind = "asset"    => tx.fn \in {"registerAsset", "mint", "burn"}
         /\ kind = "market"   => tx.fn = "createMarket"
         /\ tx.fn \in {"stake", "mint", "burn"} => tx.amount \in Nat \ {0}
<1>1. CASE kind = "agent"
  <2>1. tx \in AgentCall
    BY <1>1 DEF Call
  <2> QED BY <1>1, <2>1, AgentCallType
<1>2. CASE kind = "oracle"
  <2>1. tx \in OracleCall
    BY <1>2 DEF Call
  <2> QED BY <1>2, <2>1, MirrorAssumption DEF OracleCall
<1>3. CASE kind = "proposal"
  <2>1. tx \in ProposalCall
    BY <1>3 DEF Call
  <2> QED BY <1>3, <2>1, ProposalCallType
<1>4. CASE kind = "asset"
  <2>1. tx \in AssetCall
    BY <1>4 DEF Call
  <2> QED BY <1>4, <2>1, MirrorAssumption DEF AssetCall
<1>5. CASE kind = "market"
  <2>1. tx \in MarketCall
    BY <1>5 DEF Call
  <2> QED BY <1>5, <2>1 DEF MarketCall
<1> QED BY <1>1, <1>2, <1>3, <1>4, <1>5

LEMMA OracleAfter ==
  ASSUME kind = "oracle", NEW tx \in Call, NEW now \in OracleState, now = Now
  PROVE  /\ After(tx) \in OracleState
         /\ After(tx).stake = now.stake + (IF tx.fn = "stake" THEN tx.amount ELSE 0)
         /\ now.submitted \/ tx.fn = "submitOutcome" => After(tx).submitted
<1>0. now.exists \in BOOLEAN /\ now.stake \in Nat /\ now.submitted \in BOOLEAN
  BY DEF OracleState
<1>1. CASE tx.fn = "registerOracle"
  <2>1. After(tx) = [now EXCEPT !.exists = TRUE]
    BY <1>1 DEF After, Creating
  <2>2. After(tx).stake = now.stake /\ After(tx).submitted = now.submitted /\ After(tx) \in OracleState
    BY <2>1 DEF OracleState
  <2> QED BY <1>0, <1>1, <2>2
<1>2. CASE tx.fn = "submitOutcome"
  <2>1. After(tx) = [now EXCEPT !.submitted = TRUE]
    BY <1>2 DEF After, Creating
  <2>2. After(tx).stake = now.stake /\ After(tx).submitted /\ After(tx) \in OracleState
    BY <2>1 DEF OracleState
  <2> QED BY <1>0, <1>2, <2>2
<1>3. CASE tx.fn = "stake"
  <2>1. After(tx) = [now EXCEPT !.stake = now.stake + tx.amount]
    BY <1>3 DEF After, Creating
  <2>2. tx.amount \in Nat
    BY <1>3, CallFields
  <2> QED BY <1>0, <1>3, <2>1, <2>2 DEF OracleState
<1> QED BY <1>1, <1>2, <1>3, CallFields

LEMMA AssetAfter ==
  ASSUME kind = "asset", NEW tx \in Call, NEW now \in AssetState, now = Now, Succeeds(tx)
  PROVE  After(tx) \in AssetState
<1>0. now.supply \in Nat /\ now.exists \in BOOLEAN
  BY DEF AssetState
<1>1. CASE tx.fn = "registerAsset"
  <2>1. After(tx) = [now EXCEPT !.exists = TRUE]
    BY <1>1 DEF After, Creating
  <2> QED BY <2>1 DEF AssetState
<1>2. CASE tx.fn = "mint"
  <2>1. After(tx) = [now EXCEPT !.supply = now.supply + tx.amount]
    BY <1>2 DEF After, Creating
  <2>2. tx.amount \in Nat
    BY <1>2, CallFields
  <2> QED BY <1>0, <2>1, <2>2 DEF AssetState
<1>3. CASE tx.fn = "burn"
  <2>1. After(tx) = [now EXCEPT !.supply = now.supply - tx.amount]
    BY <1>3 DEF After, Creating
  <2>2. tx.amount \in Nat /\ tx.amount <= now.supply
    BY <1>3, CallFields DEF Succeeds, Creating
  <2>3. now.supply - tx.amount \in Nat
    BY <1>0, <2>2
  <2> QED BY <1>0, <2>1, <2>3 DEF AssetState
<1> QED BY <1>1, <1>2, <1>3, CallFields

\* A transaction leaves a state of the contract; what is registered stays registered.
LEMMA AfterState ==
  ASSUME kind \in {"agent", "oracle", "proposal", "asset", "market"},
         NEW tx \in Call, Succeeds(tx), Now \in State
  PROVE  /\ After(tx) \in State
         /\ Now.exists \/ tx.fn \in Creating => After(tx).exists
<1>1. After(tx) \in State
  <2>1. CASE kind = "agent"
    BY <2>1, AgentAfter DEF State, Call
  <2>2. CASE kind = "oracle"
    BY <2>2, OracleAfter DEF State
  <2>3. CASE kind = "proposal"
    BY <2>3, ProposalAfter DEF State, Call
  <2>4. CASE kind = "asset"
    BY <2>4, AssetAfter DEF State
  <2>5. CASE kind = "market"
    <3>1. After(tx) = [Now EXCEPT !.exists = TRUE] /\ Now \in MarketState
      BY <2>5, CallFields DEF After, Creating, State
    <3> QED BY <2>5, <3>1 DEF MarketState, State
  <2> QED BY <2>1, <2>2, <2>3, <2>4, <2>5
<1>2. PICK s : s = Now
  OBVIOUS
<1>3. "exists" \in DOMAIN s
  BY <1>2 DEF State, AgentState, OracleState, ProposalState, AssetState, MarketState
<1>4. ASSUME tx.fn \in Creating PROVE After(tx) = [s EXCEPT !.exists = TRUE]
  BY <1>2, <1>4 DEF After, Creating
<1>5. tx.fn \in Creating => After(tx).exists
  BY <1>3, <1>4
<1>6. tx.fn \notin Creating => After(tx).exists = s.exists
  <2>1. SUFFICES ASSUME tx.fn \notin Creating PROVE After(tx).exists = s.exists
    OBVIOUS
  <2>2. CASE tx.fn = "stakeAndActivate"
    <3>1. PICK x, y : After(tx) = [s EXCEPT !.stake = x, !.active = y]
      BY <1>2, <2>1, <2>2 DEF After
    <3> QED BY <1>3, <3>1
  <2>3. CASE tx.fn \in {"deactivate", "unstake", "stake", "submitOutcome", "queueProposal", "executeProposal", "mint", "burn"}
    <3>1. PICK x : \/ After(tx) = [s EXCEPT !.active = x]
                   \/ After(tx) = [s EXCEPT !.stake = x]
                   \/ After(tx) = [s EXCEPT !.submitted = x]
                   \/ After(tx) = [s EXCEPT !.queued = x]
                   \/ After(tx) = [s EXCEPT !.executed = x]
                   \/ After(tx) = [s EXCEPT !.supply = x]
      BY <1>2, <2>1, <2>3 DEF After
    <3> QED BY <1>3, <3>1
  <2>4. CASE tx.fn = "vote"
    <3>1. kind = "proposal"
      BY <2>4, CallFields
    <3>2. tx.support \in BOOLEAN
      BY <2>4, <3>1, ProposalCallType DEF Call
    <3>3. PICK x, y : \/ After(tx) = [s EXCEPT !.voted = x, !.for = y]
                      \/ After(tx) = [s EXCEPT !.voted = x, !.against = y]
      BY <1>2, <2>1, <2>4, <3>2 DEF After
    <3> QED BY <1>3, <3>3
  <2> QED BY <2>1, <2>2, <2>3, <2>4, CallFields DEF Creating
<1> QED BY <1>1, <1>2, <1>5, <1>6

LEMMA JobIs ==
  ASSUME Types, NEW q \in Request, job[q] # Idle
  PROVE  /\ job[q] \in Job
         /\ job[q].tx \in Call /\ job[q].saw \in Rows /\ job[q].height \in Nat
         /\ job[q].step \in {"checked", "read"}
<1>1. job[q] \in Job
  BY DEF Types
<1> HIDE DEF Rows
<1>2. \A j \in Job : j.tx \in Call /\ j.saw \in Rows /\ j.height \in Nat /\ j.step \in {"checked", "read"}
  BY DEF Job
<1> QED BY <1>1, <1>2

LEMMA RowIs ==
  ASSUME kind \in {"agent", "oracle", "proposal", "asset", "market"}, NEW r \in Rows, r # Absent
  PROVE  /\ kind = "agent"    => r \in [stake : Nat, active : BOOLEAN]
         /\ kind = "oracle"   => r \in [stake : Nat, active : BOOLEAN]
         /\ kind = "proposal" => r \in [for : Nat, against : Nat, executed : BOOLEAN]
         /\ kind = "asset"    => r \in [supply : 0 .. MaxSupply]
         /\ kind = "market"   => r \in [settled : {FALSE}]
BY DEF Rows, AgentRow, OracleRow, ProposalRow, AssetRow, MarketRow

\* No row that a service writes is the missing row.
LEMMA Present ==
  /\ \A a, b : [stake |-> a, active |-> b] # Absent
  /\ \A a, b, c : [for |-> a, against |-> b, executed |-> c] # Absent
  /\ \A a : [supply |-> a] # Absent /\ [settled |-> a] # Absent
<1>1. DOMAIN Absent = {"none"}
  BY DEF Absent
<1>2. \A a, b : DOMAIN [stake |-> a, active |-> b] = {"stake", "active"}
  OBVIOUS
<1>3. \A a, b, c : DOMAIN [for |-> a, against |-> b, executed |-> c] = {"for", "against", "executed"}
  OBVIOUS
<1>4. \A a : DOMAIN [supply |-> a] = {"supply"} /\ DOMAIN [settled |-> a] = {"settled"}
  OBVIOUS
<1> QED BY <1>1, <1>2, <1>3, <1>4

LEMMA ReportCounted ==
  ASSUME reports \in [1 .. MaxTx -> 0 .. MaxReports], NEW n \in 1 .. MaxTx, ReportsMade < MaxReports
  PROVE  reports[n] + 1 \in 0 .. MaxReports
<1>1. reports \in [1 .. MaxTx -> Nat] /\ MaxTx \in Nat /\ MaxReports \in Nat
  BY MirrorAssumption
<1>2. reports[n] <= Total(reports, MaxTx) /\ Total(reports, MaxTx) \in Nat
  BY <1>1, TotalAtLeast, TotalNat
<1> QED BY <1>1, <1>2 DEF ReportsMade

LEMMA DepositTypes ==
  ASSUME kind = "oracle", Types
  PROVE  /\ Deposits \in [1 .. MaxTx -> Nat] /\ Reported \in [1 .. MaxTx -> Nat]
         /\ MaxTx \in Nat
         /\ Total(Reported, MaxTx) \in Nat /\ Total(Deposits, MaxTx) \in Nat
         /\ Total(Reported, MaxTx) <= Total(Deposits, MaxTx)
<1>1. \A n \in DOMAIN txs : txs[n] \in Call
  BY DEF Types
<1>2. \A n \in 1 .. MaxTx : Deposit(n) \in Nat
  BY <1>1, CallFields DEF Deposit
<1>3. Deposits \in [1 .. MaxTx -> Nat] /\ Reported \in [1 .. MaxTx -> Nat] /\ MaxTx \in Nat
  BY <1>2, MirrorAssumption DEF Deposits, Reported
<1>4. \A n \in 1 .. MaxTx : Reported[n] <= Deposits[n]
  BY <1>2 DEF Deposits, Reported
<1> QED BY <1>3, <1>4, TotalMonotone, TotalNat

LEMMA BackedInit == Init => BackedInv
<1> SUFFICES ASSUME Init PROVE BackedInv
  OBVIOUS
<1>0. MaxTx \in Nat /\ MaxReports \in Nat /\ kind \in {"agent", "oracle", "proposal", "asset", "market"}
  BY MirrorAssumption DEF Init
<1>1. txs = <<>> /\ chain = <<Contract>> /\ row = Absent /\ entries = <<>> /\ job = [q \in Request |-> Idle]
      /\ reports = [n \in 1 .. MaxTx |-> 0]
  BY DEF Init
<1>2. Contract \in State /\ ~Contract.exists
  BY <1>0 DEF Contract, State, AgentState, OracleState, ProposalState, AssetState, MarketState
<1>3. Absent \in Rows
  BY <1>0 DEF Rows, AgentRow, OracleRow, ProposalRow, AssetRow, MarketRow
<1>4. Types
  <2> HIDE DEF Init
  <2> QED BY <1>0, <1>1, <1>2, <1>3 DEF Types
<1>5. Now = Contract /\ DOMAIN txs = {} /\ \A q \in Request : job[q] = Idle
  BY <1>1 DEF Now
<1>6. KnownToChain /\ SupplyChecked
  BY <1>1, <1>5 DEF KnownToChain, SupplyChecked
<1>7. OracleBacked
  <2>1. SUFFICES ASSUME kind = "oracle" PROVE OracleBacked
    BY DEF OracleBacked
  <2>2. Deposits \in [1 .. MaxTx -> Nat] /\ \A n \in 1 .. MaxTx : Deposits[n] = 0
    BY <1>5 DEF Deposits, Deposit
  <2>3. Total(Deposits, MaxTx) = 0
    BY <1>0, <2>2, TotalZero, PartialStep DEF Total
  <2>4. Now.stake = 0
    BY <1>5, <2>1 DEF Contract
  <2> QED BY <1>1, <1>5, <2>3, <2>4 DEF OracleBacked, Called
<1> QED BY <1>4, <1>6, <1>7 DEF BackedInv

LEMMA BackedTransact ==
  ASSUME BackedInv, NEW tx \in Call, Transact(tx)
  PROVE  BackedInv'
<1>0. kind \in {"agent", "oracle", "proposal", "asset", "market"} /\ Succeeds(tx) /\ Len(txs) < MaxTx
      /\ kind' = kind /\ row' = row /\ entries' = entries /\ job' = job /\ reports' = reports
  BY DEF Transact, BackedInv, Types
<1>1. txs \in Seq(Call) /\ chain \in Seq(State) /\ Len(chain) = Len(txs) + 1 /\ Len(chain) \in Nat \ {0}
  BY DEF BackedInv, Types
<1>2. Now \in State /\ Now = chain[Len(chain)]
  BY <1>1 DEF Now
<1>3. After(tx) \in State /\ (Now.exists \/ tx.fn \in Creating => After(tx).exists)
  BY <1>0, <1>2, AfterState
<1>4. /\ txs' \in Seq(Call) /\ chain' \in Seq(State) /\ Len(chain') = Len(txs') + 1
      /\ Len(chain') = Len(chain) + 1
      /\ chain'[Len(chain')] = After(tx)
      /\ \A fn : Called(fn)' <=> Called(fn) \/ tx.fn = fn
  BY <1>1, <1>3, Appended
<1>5. Call' = Call /\ Rows' = Rows /\ State' = State
  BY <1>0 DEF Call, Rows, State
<1>6. Job' = Job
  BY <1>5 DEF Job
<1> DEFINE m == Len(txs) + 1
<1>7. /\ m \in 1 .. MaxTx /\ m \notin DOMAIN txs /\ DOMAIN txs' = DOMAIN txs \cup {m}
      /\ txs'[m] = tx /\ \A n \in DOMAIN txs : txs'[n] = txs[n]
  <2>1. txs' = Append(txs, tx)
    BY DEF Transact
  <2>2. MaxTx \in Nat
    BY MirrorAssumption
  <2> QED BY <1>0, <1>1, <2>1, <2>2
<1>8. Now' = After(tx)
  BY <1>4 DEF Now
<1>9. Types'
  <2>1. Len(txs') <= MaxTx
    BY <1>0, <1>1, <1>4, MirrorAssumption
  <2> QED BY <1>0, <1>4, <1>5, <1>6, <2>1 DEF BackedInv, Types
<1>10. KnownToChain'
  <2>1. Now.exists => Now'.exists
    BY <1>3, <1>8
  <2>2. \A n \in DOMAIN txs' : txs'[n].fn \in Creating => Now'.exists
    BY <1>3, <1>7, <1>8, <2>1 DEF BackedInv, KnownToChain
  <2>3. \A t \in Range(txs) : t \in Range(txs')
    BY <1>7 DEF Range
  <2>4. \A h \in 0 .. Len(chain) : h \in 0 .. Len(chain')
    BY <1>1, <1>4
  <2> QED BY <1>0, <1>7, <2>1, <2>2, <2>3, <2>4 DEF BackedInv, KnownToChain
<1>11. SupplyChecked'
  BY <1>0 DEF BackedInv, SupplyChecked, Supply
<1>12. OracleBacked'
  <2>1. SUFFICES ASSUME kind = "oracle" PROVE OracleBacked'
    BY <1>0 DEF OracleBacked
  <2>2. Now \in OracleState
    BY <1>2, <2>1 DEF State
  <2>3. /\ After(tx).stake = Now.stake + (IF tx.fn = "stake" THEN tx.amount ELSE 0)
        /\ Now.submitted \/ tx.fn = "submitOutcome" => After(tx).submitted
    BY <2>1, <2>2, OracleAfter
  <2>4. reports[m] = 0
    BY <1>7 DEF BackedInv, KnownToChain
  <2>5. /\ Deposits' = [Deposits EXCEPT ![m] = IF tx.fn = "stake" THEN tx.amount ELSE 0]
        /\ Deposits[m] = 0
    BY <1>7 DEF Deposits, Deposit
  <2>6. Reported' = Reported
    <3>2. \A n \in 1 .. MaxTx : n # m => Deposit(n)' = Deposit(n)
      BY <1>7 DEF Deposit
    <3> QED BY <1>0, <2>4, <3>2 DEF Reported
  <2>7. Deposits \in [1 .. MaxTx -> Nat] /\ Deposits' \in [1 .. MaxTx -> Nat] /\ MaxTx \in Nat
    <3>1. tx.fn = "stake" => tx.amount \in Nat
      BY <1>0, CallFields
    <3>2. Deposits \in [1 .. MaxTx -> Nat] /\ MaxTx \in Nat
      BY <2>1, DepositTypes DEF BackedInv
    <3> QED BY <2>5, <3>1, <3>2
  <2>8. Total(Deposits', MaxTx) = Total(Deposits, MaxTx) + Deposits'[m]
    <3>1. \A v \in 1 .. MaxTx : v # m => Deposits'[v] = Deposits[v]
      BY <2>5
    <3>2. PICK f \in [1 .. MaxTx -> Nat], g \in [1 .. MaxTx -> Nat] : f = Deposits /\ g = Deposits'
      BY <2>7
    <3>3. Total(g, MaxTx) + f[m] = Total(f, MaxTx) + g[m]
      <4>1. \A v \in 1 .. MaxTx : v # m => g[v] = f[v]
        BY <3>1, <3>2
      <4>2. m \in 1 .. MaxTx /\ MaxTx \in Nat
        BY <1>7, <2>7
      <4> HIDE DEF m
      <4> QED BY <3>2, <4>1, <4>2, TotalUpdate
    <3>4. Total(g, MaxTx) \in Nat /\ Total(f, MaxTx) \in Nat /\ g[m] \in Nat
      BY <1>7, <2>7, TotalNat
    <3> QED BY <2>5, <3>2, <3>3, <3>4
  <2>9. Now'.stake = Total(Deposits', MaxTx)
    BY <1>7, <1>8, <2>1, <2>3, <2>5, <2>7, <2>8 DEF BackedInv, OracleBacked
  <2> QED BY <1>0, <1>4, <1>8, <2>3, <2>6, <2>9, <2>1 DEF BackedInv, OracleBacked, ReportedOnce
<1> QED BY <1>9, <1>10, <1>11, <1>12 DEF BackedInv

LEMMA FrameKinds ==
  ASSUME UNCHANGED <<kind, txs, chain>>
  PROVE  /\ Call' = Call /\ Rows' = Rows /\ State' = State /\ Job' = Job /\ Now' = Now
         /\ Deposits' = Deposits /\ \A fn : Called(fn)' <=> Called(fn)
<1>1. Call' = Call /\ Rows' = Rows /\ State' = State /\ Now' = Now
  BY DEF Call, Rows, State, Now
<1>2. Job' = Job
  BY <1>1 DEF Job
<1>3. Deposits' = Deposits
  BY DEF Deposits, Deposit
<1> QED BY <1>1, <1>2, <1>3 DEF Called

LEMMA BackedReport ==
  ASSUME BackedInv, NEW q \in Request, NEW n \in 1 .. MaxTx, Report(q, n)
  PROVE  BackedInv'
<1> DEFINE j == [tx |-> txs[n], step |-> "checked", saw |-> row, height |-> 0]
<1>1. /\ n \in DOMAIN txs /\ ReportsMade < MaxReports /\ Admits(txs[n])
      /\ reports' = [reports EXCEPT ![n] = @ + 1] /\ job' = [job EXCEPT ![q] = j]
      /\ UNCHANGED <<kind, txs, chain, row, entries>>
  BY DEF Report
<1>2. Types /\ KnownToChain /\ SupplyChecked /\ OracleBacked
  BY DEF BackedInv
<1>3. txs[n] \in Call /\ row \in Rows
  BY <1>1, <1>2 DEF Types
<1>4. j \in Job /\ j.tx = txs[n] /\ j.saw = row /\ j.step = "checked" /\ j.height = 0
  BY <1>3 DEF Job
<1>5. /\ Call' = Call /\ Rows' = Rows /\ State' = State /\ Job' = Job /\ Now' = Now
      /\ Deposits' = Deposits /\ \A fn : Called(fn)' <=> Called(fn)
  BY <1>1, FrameKinds
<1> HIDE DEF j
<1>6. job'[q] = j /\ \A p \in Request : p # q => job'[p] = job[p]
  BY <1>1, <1>2 DEF Types
<1>7. reports[n] + 1 \in 0 .. MaxReports
  BY <1>1, <1>2, ReportCounted DEF Types
<1>8. Types'
  <2>1. reports' \in [1 .. MaxTx -> 0 .. MaxReports]
    BY <1>1, <1>2, <1>7 DEF Types
  <2>2. job' \in [Request -> {Idle} \cup Job]
    BY <1>1, <1>2, <1>4 DEF Types
  <2> QED BY <1>1, <1>2, <1>5, <2>1, <2>2 DEF Types
<1>9. txs[n].fn \notin Creating => row # Absent
  BY <1>1 DEF Admits, AgentAdmits, OracleAdmits, ProposalAdmits, AssetAdmits, MarketAdmits, Creating
<1>10. reports'[n] = reports[n] + 1 /\ \A m \in 1 .. MaxTx : m # n => reports'[m] = reports[m]
  BY <1>1, <1>2 DEF Types
<1>11. KnownToChain'
  <2>1. j.tx \in Range(txs) /\ j.height \in 0 .. Len(chain)
    BY <1>1, <1>2, <1>4 DEF Range, Types
  <2>2. \A p \in Request : job'[p] # Idle =>
          /\ job'[p].tx \in Range(txs') /\ job'[p].height \in 0 .. Len(chain')
          /\ job'[p].tx.fn \notin Creating => row' # Absent /\ job'[p].saw # Absent
    BY <1>1, <1>2, <1>4, <1>6, <1>9, <2>1 DEF KnownToChain
  <2>3. \A m \in 1 .. MaxTx : reports'[m] # 0 => m \in DOMAIN txs'
    BY <1>1, <1>2, <1>10 DEF KnownToChain
  <2> QED BY <1>1, <1>2, <1>5, <2>2, <2>3 DEF KnownToChain
<1>12. SupplyChecked'
  BY <1>1, <1>2, <1>4, <1>6 DEF SupplyChecked, Supply
<1>13. OracleBacked'
  <2>1. SUFFICES ASSUME kind = "oracle" PROVE OracleBacked'
    BY <1>1 DEF OracleBacked
  <2>2. ASSUME ReportedOnce'
        PROVE  /\ row # Absent => row.stake <= Total(Reported', MaxTx)
               /\ \A p \in Request : job'[p] # Idle /\ job'[p].tx.fn = "stake" =>
                    job'[p].saw.stake + job'[p].tx.amount <= Total(Reported', MaxTx)
    <3>1. reports[n] = 0 /\ ReportedOnce
      <4>1. \A m \in 1 .. MaxTx : reports[m] \in Nat
        BY <1>2, MirrorAssumption DEF Types
      <4> QED BY <1>10, <2>2, <4>1 DEF ReportedOnce
    <3>2. Reported \in [1 .. MaxTx -> Nat] /\ MaxTx \in Nat /\ Total(Reported, MaxTx) \in Nat
      BY <1>2, <2>1, DepositTypes
    <3>3. Deposit(n) \in Nat /\ (txs[n].fn = "stake" => Deposit(n) = txs[n].amount)
      BY <1>1, <1>3, <1>2, CallFields DEF Deposit, Types
    <3>4. Reported' = [Reported EXCEPT ![n] = Deposit(n)] /\ Reported[n] = 0
      <4>1. \A m \in 1 .. MaxTx : Deposit(m)' = Deposit(m)
        BY <1>1 DEF Deposit
      <4>2. reports'[n] # 0
        BY <1>10, <3>1
      <4> QED BY <1>10, <3>1, <4>1, <4>2 DEF Reported
    <3>5. Total(Reported', MaxTx) = Total(Reported, MaxTx) + Deposit(n)
      <4>1. PICK f \in [1 .. MaxTx -> Nat], g \in [1 .. MaxTx -> Nat] : f = Reported /\ g = Reported'
        BY <3>2, <3>3, <3>4
      <4>2. \A v \in 1 .. MaxTx : v # n => g[v] = f[v]
        BY <3>4, <4>1
      <4>3. Total(g, MaxTx) + f[n] = Total(f, MaxTx) + g[n]
        BY <3>2, <4>2, TotalUpdate
      <4>4. f[n] = 0 /\ g[n] = Deposit(n)
        BY <3>2, <3>4, <4>1
      <4>5. Total(g, MaxTx) \in Nat
        BY <3>2, TotalNat
      <4> QED BY <3>2, <3>3, <4>1, <4>3, <4>4, <4>5
    <3>6. row # Absent => row.stake \in Nat /\ row.stake <= Total(Reported, MaxTx)
      <4>1. row # Absent => row \in [stake : Nat, active : BOOLEAN]
        BY <1>2, <1>3, <2>1, RowIs DEF Types
      <4> QED BY <1>2, <2>1, <3>1, <4>1 DEF OracleBacked
    <3>7. ASSUME NEW p \in Request, job'[p] # Idle, job'[p].tx.fn = "stake"
          PROVE  job'[p].saw.stake + job'[p].tx.amount <= Total(Reported', MaxTx)
      <4>1. CASE p = q
        <5>1. txs[n].fn = "stake" /\ job'[p].saw = row /\ job'[p].tx = txs[n]
          BY <1>4, <1>6, <3>7, <4>1
        <5>2. row # Absent
          BY <1>9, <5>1 DEF Creating
        <5> QED BY <3>2, <3>3, <3>5, <3>6, <5>1, <5>2
      <4>2. CASE p # q
        <5>1. job'[p] = job[p]
          BY <1>6, <4>2
        <5>2. job[p].saw.stake + job[p].tx.amount <= Total(Reported, MaxTx)
          BY <1>2, <2>1, <3>1, <3>7, <5>1 DEF OracleBacked
        <5>3. job[p].tx.amount \in Nat /\ job[p].saw.stake \in Nat
          <6>1. job[p].tx \in Call /\ job[p].saw \in Rows /\ job[p].saw # Absent
            BY <1>2, <3>7, <5>1, JobIs DEF KnownToChain, Creating
          <6>2. job[p].saw \in [stake : Nat, active : BOOLEAN]
            BY <1>2, <2>1, <6>1, RowIs DEF Types
          <6> QED BY <1>2, <3>7, <5>1, <6>1, <6>2, CallFields DEF Types
        <5> QED BY <3>2, <3>3, <3>5, <5>1, <5>2, <5>3
      <4> QED BY <4>1, <4>2
    <3> QED BY <3>2, <3>3, <3>5, <3>6, <3>7
  <2> QED BY <1>1, <1>2, <1>5, <2>1, <2>2 DEF OracleBacked
<1> QED BY <1>8, <1>11, <1>12, <1>13 DEF BackedInv

LEMMA JobRead ==
  ASSUME NEW C, NEW R, NEW K, NEW j \in [tx : C, step : K, saw : R, height : Nat],
         NEW h \in Nat, NEW s \in R, NEW t \in K, NEW k, k = [j EXCEPT !.step = t, !.height = h, !.saw = s]
  PROVE  /\ k = [tx |-> j.tx, step |-> t, saw |-> s, height |-> h]
         /\ k \in [tx : C, step : K, saw : R, height : Nat]
OBVIOUS

LEMMA BackedRead ==
  ASSUME BackedInv, NEW q \in Request, Read(q)
  PROVE  BackedInv'
<1> DEFINE seen == IF job[q].tx.fn \in {"mint", "burn"} THEN row ELSE job[q].saw
           j == [job[q] EXCEPT !.step = "read", !.height = Len(chain), !.saw = seen]
<1>1. /\ job[q] # Idle /\ UNCHANGED <<kind, txs, chain, row, entries, reports>>
      /\ job[q].tx.fn \in {"mint", "burn"} => Supply(job[q].tx, row.supply) \in 0 .. MaxSupply
      /\ job' = [job EXCEPT ![q] = j]
  BY DEF Read
<1>2. Types /\ KnownToChain /\ SupplyChecked /\ OracleBacked
  BY DEF BackedInv
<1>3. /\ job[q] \in Job /\ job[q].tx \in Call /\ job[q].saw \in Rows /\ row \in Rows
      /\ Len(chain) \in Nat
  BY <1>1, <1>2, JobIs DEF Types
<1>4. j \in Job /\ j.tx = job[q].tx /\ j.saw = seen /\ j.step = "read" /\ j.height = Len(chain)
  <2>1. seen \in Rows
    BY <1>3
  <2>2. PICK K : K = {"checked", "read"}
    OBVIOUS
  <2>3. PICK t \in K : t = "read"
    BY <2>2
  <2>4. PICK h \in Nat : h = Len(chain)
    BY <1>3
  <2>5. job[q] \in [tx : Call, step : K, saw : Rows, height : Nat]
    BY <1>3, <2>2 DEF Job
  <2> HIDE DEF seen
  <2>6. j = [job[q] EXCEPT !.step = t, !.height = h, !.saw = seen]
    BY <2>3, <2>4
  <2> HIDE DEF j
  <2>7. /\ j = [tx |-> job[q].tx, step |-> t, saw |-> seen, height |-> h]
        /\ j \in [tx : Call, step : K, saw : Rows, height : Nat]
    BY <2>1, <2>5, <2>6, JobRead
  <2>8. j \in Job
    BY <2>2, <2>7 DEF Job
  <2> QED BY <2>3, <2>4, <2>7, <2>8
<1>5. /\ Call' = Call /\ Rows' = Rows /\ State' = State /\ Job' = Job /\ Now' = Now
      /\ Deposits' = Deposits /\ \A fn : Called(fn)' <=> Called(fn)
  BY <1>1, FrameKinds
<1>6. Reported' = Reported
  BY <1>1 DEF Reported, Deposit
<1> HIDE DEF j
<1>7. job'[q] = j /\ \A p \in Request : p # q => job'[p] = job[p]
  BY <1>1, <1>2 DEF Types
<1>8. Types'
  BY <1>1, <1>2, <1>4, <1>5 DEF Types
<1>9. j.tx.fn \notin Creating => row # Absent /\ seen # Absent
  BY <1>1, <1>2, <1>4 DEF KnownToChain
<1>10. KnownToChain'
  <2>1. j.tx \in Range(txs) /\ j.height \in 0 .. Len(chain)
    BY <1>1, <1>2, <1>3, <1>4 DEF KnownToChain
  <2>2. \A p \in Request : job'[p] # Idle =>
          /\ job'[p].tx \in Range(txs') /\ job'[p].height \in 0 .. Len(chain')
          /\ job'[p].tx.fn \notin Creating => row' # Absent /\ job'[p].saw # Absent
    BY <1>1, <1>2, <1>4, <1>7, <1>9, <2>1 DEF KnownToChain
  <2> QED BY <1>1, <1>2, <1>5, <2>2 DEF KnownToChain
<1>11. SupplyChecked'
  <2>1. ASSUME j.tx.fn \in {"mint", "burn"} PROVE Supply(j.tx, j.saw.supply) \in 0 .. MaxSupply
    BY <1>1, <1>4, <2>1
  <2> HIDE DEF seen
  <2> QED BY <1>1, <1>2, <1>7, <2>1 DEF SupplyChecked, Supply
<1>12. OracleBacked'
  <2>1. j.tx.fn = "stake" => j.tx = job[q].tx /\ j.saw = job[q].saw /\ job[q].tx.fn = "stake"
    BY <1>4
  <2> HIDE DEF seen
  <2> QED BY <1>1, <1>2, <1>5, <1>6, <1>7, <2>1 DEF OracleBacked, ReportedOnce
<1> QED BY <1>8, <1>10, <1>11, <1>12 DEF BackedInv

LEMMA IdleIs == \A k \in Job : k # Idle
<1>1. \A k \in Job : DOMAIN k = {"tx", "step", "saw", "height"}
  BY DEF Job
<1>2. DOMAIN Idle = {"step"}
  BY DEF Idle
<1> QED BY <1>1, <1>2

\* What a write leaves in the row, and of which report.
LEMMA Writes ==
  ASSUME BackedInv, kind = "proposal" => ProposalInv, kind = "agent" => AgentTypes', NEW q \in Request, Write(q)
  PROVE  /\ row' \in Rows
         /\ row # Absent => row' # Absent
         /\ row' # Absent => Now.exists
         /\ kind = "oracle" =>
              \/ row' = row /\ entries' = entries
              \/ row' = [stake |-> 0, active |-> FALSE] /\ entries' = entries
              \/ /\ job[q].tx.fn = "stake" /\ entries' = entries
                 /\ row' = [stake |-> job[q].saw.stake + job[q].tx.amount, active |-> TRUE]
              \/ row' = row /\ job[q].tx.fn = "submitOutcome"
<1> DEFINE j == job[q]
<1>1. Types /\ KnownToChain /\ SupplyChecked /\ kind \in {"agent", "oracle", "proposal", "asset", "market"}
  BY DEF BackedInv, Types
<1>2. /\ j # Idle /\ j.step = "read" /\ UNCHANGED <<kind, txs, chain, reports>>
      /\ job' = [job EXCEPT ![q] = Idle]
      /\ \/ Create(j) \/ CreateMarket(j) \/ SyncState(j) \/ UpdateStake(j) \/ RecordSubmission(j)
         \/ CreateProposal(j) \/ RecordVote(j) \/ RecordQueueing(j)
         \/ RecordExecution(j) \/ UpdateSupply(j)
  BY DEF Write
<1>3. j \in Job /\ j.tx \in Call /\ j.saw \in Rows /\ row \in Rows /\ j.tx \in Range(txs)
      /\ (j.tx.fn \notin Creating => row # Absent /\ j.saw # Absent)
      /\ (j.tx.fn \in Creating => Now.exists)
  BY <1>1, <1>2, JobIs DEF Types, KnownToChain, Range
<1>4. row' \in Rows /\ (row # Absent => row' # Absent)
  <2>1. CASE kind = "agent"
    <3>1. row' \in AgentRow
      BY <2>1 DEF AgentTypes
    <3>2. Create(j) \/ SyncState(j)
      BY <1>1, <1>2, <1>3, <2>1, CallFields DEF CreateMarket, UpdateStake, RecordSubmission, CreateProposal,
           RecordVote, RecordQueueing, RecordExecution, UpdateSupply
    <3>3. row # Absent => row' # Absent
      BY <3>2, Present DEF Create, SyncState, Synced
    <3> QED BY <2>1, <3>1, <3>3 DEF Rows
  <2>2. CASE kind = "oracle"
    <3>1. Create(j) \/ UpdateStake(j) \/ RecordSubmission(j)
      BY <1>1, <1>2, <1>3, <2>2, CallFields DEF CreateMarket, SyncState, Syncs, CreateProposal,
           RecordVote, RecordQueueing, RecordExecution, UpdateSupply
    <3>2. CASE Create(j)
      <4>1. row' = [stake |-> 0, active |-> FALSE]
        BY <2>2, <3>2 DEF Create
      <4> QED BY <2>2, <4>1, Present DEF Rows, OracleRow
    <3>3. CASE UpdateStake(j)
      <4>1. j.tx.fn = "stake" /\ j.saw # Absent /\ row' = [stake |-> j.saw.stake + j.tx.amount, active |-> TRUE]
        BY <1>3, <3>3 DEF UpdateStake, Creating
      <4>2. j.saw \in [stake : Nat, active : BOOLEAN]
        BY <1>1, <1>3, <2>2, <4>1, RowIs
      <4>3. j.saw.stake + j.tx.amount \in Nat
        BY <1>1, <1>3, <4>1, <4>2, CallFields
      <4> QED BY <2>2, <4>1, <4>3, Present DEF Rows, OracleRow
    <3>4. CASE RecordSubmission(j)
      BY <1>3, <3>4 DEF RecordSubmission
    <3> QED BY <3>1, <3>2, <3>3, <3>4
  <2>3. CASE kind = "proposal"
    BY <2>3, ProposalWrites DEF Rows
  <2>4. CASE kind = "asset"
    <3>1. Create(j) \/ UpdateSupply(j)
      BY <1>1, <1>2, <1>3, <2>4, CallFields DEF CreateMarket, SyncState, Syncs, UpdateStake, RecordSubmission, CreateProposal,
           RecordVote, RecordQueueing, RecordExecution
    <3>2. CASE Create(j)
      <4>1. row' = [supply |-> 0] /\ MaxSupply \in Nat
        BY <2>4, <3>2, MirrorAssumption DEF Create
      <4> QED BY <2>4, <4>1, Present DEF Rows, AssetRow
    <3>3. CASE UpdateSupply(j)
      <4>1. row' = [supply |-> Supply(j.tx, j.saw.supply)] /\ Supply(j.tx, j.saw.supply) \in 0 .. MaxSupply
        BY <1>1, <1>2, <2>4, <3>3 DEF UpdateSupply, SupplyChecked
      <4> QED BY <2>4, <4>1, Present DEF Rows, AssetRow
    <3> QED BY <3>1, <3>2, <3>3
  <2>5. CASE kind = "market"
    <3>1. CreateMarket(j)
      BY <1>1, <1>2, <1>3, <2>5, CallFields DEF Create, SyncState, Syncs, UpdateStake, RecordSubmission, CreateProposal,
           RecordVote, RecordQueueing, RecordExecution, UpdateSupply
    <3>2. row' = [settled |-> FALSE]
      BY <3>1 DEF CreateMarket
    <3> QED BY <2>5, <3>2, Present DEF Rows, MarketRow
  <2> QED BY <1>1, <2>1, <2>2, <2>3, <2>4, <2>5
<1>5. row' # Absent => Now.exists
  <2>1. row # Absent => Now.exists
    BY <1>1 DEF KnownToChain
  <2> QED BY <1>3, <2>1
<1>6. kind = "oracle" =>
        \/ row' = row /\ entries' = entries
        \/ row' = [stake |-> 0, active |-> FALSE] /\ entries' = entries
        \/ /\ j.tx.fn = "stake" /\ entries' = entries
           /\ row' = [stake |-> j.saw.stake + j.tx.amount, active |-> TRUE]
        \/ row' = row /\ j.tx.fn = "submitOutcome"
  BY <1>1, <1>2, <1>3, CallFields DEF Create, UpdateStake, RecordSubmission, CreateMarket, SyncState, Syncs, CreateProposal,
       RecordVote, RecordQueueing, RecordExecution, UpdateSupply
<1> QED BY <1>4, <1>5, <1>6

LEMMA BackedWrite ==
  ASSUME BackedInv, kind = "proposal" => ProposalInv, kind = "agent" => AgentTypes', NEW q \in Request, Write(q)
  PROVE  BackedInv'
<1>1. Types /\ KnownToChain /\ SupplyChecked /\ OracleBacked
  BY DEF BackedInv
<1>2. job[q] # Idle /\ UNCHANGED <<kind, txs, chain, reports>> /\ job' = [job EXCEPT ![q] = Idle]
  BY DEF Write
<1>3. row' \in Rows /\ (row # Absent => row' # Absent) /\ (row' # Absent => Now.exists)
  BY Writes
<1>4. /\ Call' = Call /\ Rows' = Rows /\ State' = State /\ Job' = Job /\ Now' = Now
      /\ Deposits' = Deposits /\ \A fn : Called(fn)' <=> Called(fn)
  BY <1>2, FrameKinds
<1>5. Reported' = Reported
  BY <1>2 DEF Reported, Deposit
<1>6. job'[q] = Idle /\ \A p \in Request : p # q => job'[p] = job[p]
  BY <1>1, <1>2 DEF Types
<1>7. Types'
  BY <1>1, <1>2, <1>3, <1>4 DEF Types
<1>8. KnownToChain'
  BY <1>1, <1>2, <1>3, <1>4, <1>6 DEF KnownToChain
<1>9. SupplyChecked'
  BY <1>1, <1>2, <1>6 DEF SupplyChecked, Supply
<1>10. OracleBacked'
  <2>1. SUFFICES ASSUME kind = "oracle" PROVE OracleBacked'
    BY <1>2 DEF OracleBacked
  <2>2. \/ row' = row /\ entries' = entries
        \/ row' = [stake |-> 0, active |-> FALSE] /\ entries' = entries
        \/ /\ job[q].tx.fn = "stake" /\ entries' = entries
           /\ row' = [stake |-> job[q].saw.stake + job[q].tx.amount, active |-> TRUE]
        \/ row' = row /\ job[q].tx.fn = "submitOutcome"
    BY <2>1, Writes
  <2>3. Called(job[q].tx.fn)
    BY <1>1, <1>2 DEF KnownToChain, Range, Called
  <2>4. row' # Absent /\ row'.active => Called("stake")
    BY <1>1, <2>1, <2>2, <2>3 DEF OracleBacked
  <2>5. entries' # <<>> => Called("submitOutcome")
    BY <1>1, <2>1, <2>2, <2>3 DEF OracleBacked
  <2>6. ReportedOnce /\ row' # Absent => row'.stake <= Total(Reported, MaxTx)
    BY <1>1, <1>2, <2>1, <2>2, DepositTypes DEF OracleBacked
  <2> QED BY <1>1, <1>2, <1>4, <1>5, <1>6, <2>1, <2>4, <2>5, <2>6 DEF OracleBacked, ReportedOnce
<1> QED BY <1>7, <1>8, <1>9, <1>10 DEF BackedInv

LEMMA BackedAbandon ==
  ASSUME BackedInv, NEW q \in Request, Abandon(q)
  PROVE  BackedInv'
<1>1. Types /\ KnownToChain /\ SupplyChecked /\ OracleBacked
  BY DEF BackedInv
<1>2. UNCHANGED <<kind, txs, chain, row, entries, reports>> /\ job' = [job EXCEPT ![q] = Idle]
  BY DEF Abandon
<1>3. /\ Call' = Call /\ Rows' = Rows /\ State' = State /\ Job' = Job /\ Now' = Now
      /\ Deposits' = Deposits /\ \A fn : Called(fn)' <=> Called(fn)
  BY <1>2, FrameKinds
<1>4. Reported' = Reported
  BY <1>2 DEF Reported, Deposit
<1>5. job'[q] = Idle /\ \A p \in Request : p # q => job'[p] = job[p]
  BY <1>1, <1>2 DEF Types
<1>6. Types'
  BY <1>1, <1>2, <1>3 DEF Types
<1>7. KnownToChain' /\ SupplyChecked' /\ OracleBacked'
  BY <1>1, <1>2, <1>3, <1>4, <1>5 DEF KnownToChain, SupplyChecked, Supply, OracleBacked, ReportedOnce
<1> QED BY <1>6, <1>7 DEF BackedInv

\* The rows of every kind, with what is proved of agents and proposals above.
LEMMA BackedStep == IInv /\ BackedInv /\ [Next]_vars => BackedInv'
<1> SUFFICES ASSUME IInv, BackedInv, [Next]_vars PROVE BackedInv'
  OBVIOUS
<1>1. IInv' /\ kind' = kind
  BY NextInv, KindStays
<1>2. kind = "proposal" => ProposalInv
  BY DEF IInv
<1>3. kind = "agent" => AgentTypes'
  BY <1>1 DEF IInv, AgentInv
<1>4. CASE UNCHANGED vars
  <2>1. UNCHANGED <<kind, txs, chain, row, entries, job, reports>>
    BY <1>4 DEF vars
  <2>2. /\ Call' = Call /\ Rows' = Rows /\ State' = State /\ Job' = Job /\ Now' = Now
        /\ Deposits' = Deposits /\ \A fn : Called(fn)' <=> Called(fn)
    BY <2>1, FrameKinds
  <2>3. Reported' = Reported
    BY <2>1 DEF Reported, Deposit
  <2> QED BY <2>1, <2>2, <2>3 DEF BackedInv, Types, KnownToChain, SupplyChecked, Supply, OracleBacked, ReportedOnce
<1>5. CASE \E tx \in Call : Transact(tx)
  BY <1>5, BackedTransact
<1>6. ASSUME NEW q \in Request, (\E n \in 1 .. MaxTx : Report(q, n)) \/ Read(q) \/ Write(q) \/ Abandon(q)
      PROVE BackedInv'
  BY <1>2, <1>3, <1>6, BackedReport, BackedRead, BackedWrite, BackedAbandon
<1> QED BY <1>4, <1>5, <1>6 DEF Next

LEMMA BackedFollows == IInv /\ BackedInv => Backed
<1> SUFFICES ASSUME IInv, BackedInv PROVE Backed
  OBVIOUS
<1>1. Types /\ KnownToChain /\ SupplyChecked /\ OracleBacked
  BY DEF BackedInv
<1>2. TypeOK
  <2>1. row = Absent
        \/ CASE kind = "proposal" -> row \in [for : Nat, against : Nat, executed : BOOLEAN]
             [] kind = "asset"    -> row \in [supply : 0 .. MaxSupply]
             [] kind = "market"   -> row \in [settled : {FALSE}]
             [] OTHER             -> row \in [stake : Nat, active : BOOLEAN]
    BY <1>1, RowIs DEF Types
  <2>2. \A q \in Request : job[q] = Idle \/
          /\ job[q].tx \in Range(txs) /\ job[q].step \in {"checked", "read"}
          /\ job[q].height \in 0 .. Len(chain)
    BY <1>1, JobIs DEF KnownToChain
  <2> QED BY <1>1, <2>1, <2>2 DEF TypeOK, Types
<1>3. row # Absent => Now.exists
  BY <1>1 DEF KnownToChain
<1>4. ASSUME kind = "oracle"
      PROVE  /\ row # Absent /\ row.active => Now.stake > 0
             /\ row # Absent /\ ReportedOnce => row.stake <= Now.stake
             /\ entries # <<>> => Now.submitted
  <2>1. Called("stake") => Now.stake > 0
    <3>1. SUFFICES ASSUME Called("stake") PROVE Total(Deposits, MaxTx) > 0
      BY <1>1, <1>4 DEF OracleBacked
    <3>2. PICK n \in DOMAIN txs : txs[n].fn = "stake"
      BY <3>1 DEF Called
    <3>3. n \in 1 .. MaxTx /\ txs[n] \in Call
      BY <1>1, MirrorAssumption DEF Types
    <3>4. Deposits[n] = txs[n].amount /\ txs[n].amount \in Nat \ {0}
      BY <1>1, <3>2, <3>3, CallFields DEF Deposits, Deposit, Types
    <3>5. Deposits[n] <= Total(Deposits, MaxTx) /\ Total(Deposits, MaxTx) \in Nat
      BY <1>1, <1>4, <3>3, DepositTypes, TotalAtLeast
    <3> QED BY <3>4, <3>5
  <2>2. row # Absent /\ ReportedOnce => row.stake <= Now.stake
    <3>1. row # Absent => row.stake \in Nat
      <4>1. row # Absent => row \in [stake : Nat, active : BOOLEAN]
        BY <1>1, <1>4, RowIs DEF Types
      <4> QED BY <4>1
    <3> QED BY <1>1, <1>4, <3>1, DepositTypes DEF OracleBacked
  <2> QED BY <1>1, <1>4, <2>1, <2>2 DEF OracleBacked
<1>5. kind = "proposal" => VotesHappened /\ (row # Absent /\ row.executed => Now.executed)
  BY DEF IInv, ProposalInv, ProposalRowWasTrue, Executed, Now
<1> QED BY <1>2, <1>3, <1>4, <1>5 DEF Backed, ReportedOnce, VotesHappened

\* The database claims nothing that the chain does not know, of any kind of subject:
\* its registration, the limits of a supply, executions, votes, submissions, and
\* the deposits of an oracle as long as none is reported twice.
THEOREM RowsBacked == Spec => []Backed
<1>1. Init => BackedInv
  BY BackedInit
<1>2. Spec => []BackedInv
  BY <1>1, BackedStep, Invariance, PTL DEF Spec
<1> QED BY <1>2, Invariance, BackedFollows, PTL

-----------------------------------------------------------------------------
(* The event replay: what a logged event carries *)

\* What a logged event carries, by its type.
LEMMA EventFields ==
  ASSUME NEW e \in Event
  PROVE  /\ e.type \in {"market.created", "market.settled"} => e.id \in Market
         /\ e.type = "market.settled" => e.outcome \in BOOLEAN
         /\ e.type \in {"agent.registered", "agent.staked", "agent.activated", "agent.deactivated"} => e.id \in Agent
         /\ e.type \in {"oracle.registered", "oracle.staked", "oracle.submitted"} => e.id \in Oracle
         /\ e.type \in {"agent.staked", "agent.reduced", "oracle.staked", "oracle.reduced"} => e.stake \in LoggedAmount
         /\ e.type = "oracle.submitted" => e.market \in Market /\ e.outcome \in BOOLEAN
         /\ e.type \in {"yield.deposited", "yield.withdrawn"} => e.user \in User /\ e.vault \in Vault /\ e.amount \in LoggedAmount
         /\ e.type = "yield.rebalanced" => e.user \in User /\ e.to \in [Vault -> LoggedAmount \cup {0}]
<1>1. CASE e \in [type : {"market.created"}, id : Market]
  BY <1>1
<1>2. CASE e \in [type : {"market.settled"}, id : Market, outcome : BOOLEAN]
  BY <1>2
<1>3. CASE e \in [type : {"agent.registered", "agent.activated", "agent.deactivated"}, id : Agent]
  BY <1>3
<1>4. CASE e \in [type : {"agent.staked", "agent.reduced"}, id : Agent, stake : LoggedAmount]
  BY <1>4
<1>5. CASE e \in [type : {"oracle.registered", "oracle.activated", "oracle.deactivated"}, id : Oracle]
  BY <1>5
<1>6. CASE e \in [type : {"oracle.staked", "oracle.reduced"}, id : Oracle, stake : LoggedAmount]
  BY <1>6
<1>7. CASE e \in [type : {"oracle.submitted"}, id : Oracle, market : Market, outcome : BOOLEAN]
  BY <1>7
<1>8. CASE e \in [type : {"yield.deposited", "yield.withdrawn"}, user : User, vault : Vault, amount : LoggedAmount]
  BY <1>8
<1>9. CASE e \in [type : {"yield.rebalanced"}, user : User, to : [Vault -> LoggedAmount \cup {0}]]
  BY <1>9
<1>10. CASE e \in [type : {"other"}]
  BY <1>10
<1> QED
  BY <1>1, <1>2, <1>3, <1>4, <1>5, <1>6, <1>7, <1>8, <1>9, <1>10 DEF Event

-----------------------------------------------------------------------------
(* The places of the log *)

\* The four ways a step of the replay moves through the log.
Places ==
  /\ log \in Seq(Event)
  /\ cursor \in 0 .. Len(log) /\ high \in 0 .. Len(log) /\ committed \in 0 .. cursor
  /\ feeder = "replay" => committed = 0
  /\ \A i \in 1 .. cursor : i <= high \/ i \in missed

Grows(e)  == /\ e \in Event /\ log' = Append(log, e)
             /\ UNCHANGED <<engine, tables>>
Rewinds   == /\ cursor' \in committed .. cursor
             /\ UNCHANGED <<log, feeder, high, committed, missed, repeated, tables>>
Skips     == /\ cursor < Len(log) /\ cursor' = cursor + 1 /\ missed' = missed \cup {cursor + 1}
             /\ UNCHANGED <<log, feeder, high, committed, repeated, tables>>
Applies   == /\ cursor < Len(log) /\ cursor' = cursor + 1 /\ missed' = missed \ {cursor + 1}
             /\ high' = (IF cursor < high THEN high ELSE cursor + 1)
             /\ repeated' = (repeated \/ cursor < high)
             /\ committed' = committed \/ (feeder # "replay" /\ committed' = cursor + 1)
             /\ UNCHANGED <<log, feeder>>

LEMMA StepKinds ==
  ASSUME Places, [ReplayNext]_replayVars
  PROVE  \/ \E e \in Event : Grows(e) /\ Allowed(e)
         \/ Rewinds \/ Skips
         \/ Applies /\ ~Refused(log[cursor + 1]) /\ Handle(log[cursor + 1])
<1>1. ASSUME NEW e \in Event, Emit(e) PROVE Grows(e) /\ Allowed(e)
  BY <1>1 DEF Emit, Grows
<1>2. ASSUME NEW k \in 0 .. Len(log), Replay(k) PROVE Rewinds
  BY <1>2 DEF Replay, Begin, Rewinds, Places
<1>3. CASE Dispatch \/ Deliver \/ DeliverUncommitted
  BY <1>3 DEF Dispatch, Deliver, DeliverUncommitted, Apply, Next1, Applies
<1>4. CASE Complete \/ Raise \/ Crash
  BY <1>4 DEF Complete, Raise, Crash, Stop, Rewinds, Places
<1>5. CASE Consume
  BY <1>5 DEF Consume, Begin, Rewinds, Places
<1>6. CASE Pass
  BY <1>6 DEF Pass, Skips
<1>7. CASE UNCHANGED replayVars
  BY <1>7 DEF replayVars, engine, Rewinds, Places
<1> QED
  BY <1>1, <1>2, <1>3, <1>4, <1>5, <1>6, <1>7 DEF ReplayNext

LEMMA PlacesInit == ReplayInit => Places
<1> SUFFICES ASSUME ReplayInit PROVE Places
  OBVIOUS
<1>1. log \in Seq(Event) /\ Len(log) = 0
  BY DEF ReplayInit
<1>2. cursor = 0 /\ high = 0 /\ committed = 0
  BY DEF ReplayInit
<1> QED
  BY <1>1, <1>2 DEF Places

LEMMA PlacesStep == Places /\ [ReplayNext]_replayVars => Places'
<1> SUFFICES ASSUME Places, [ReplayNext]_replayVars PROVE Places'
  OBVIOUS
<1>1. ASSUME NEW e \in Event, Grows(e) PROVE Places'
  BY <1>1 DEF Places, Grows, engine
<1>2. CASE Rewinds
  BY <1>2 DEF Places, Rewinds
<1>3. CASE Skips
  BY <1>3 DEF Places, Skips
<1>4. CASE Applies
  BY <1>4 DEF Places, Applies
<1> QED
  BY <1>1, <1>2, <1>3, <1>4, StepKinds

-----------------------------------------------------------------------------
(* Settlements, amounts and what a row reflects *)

\* The places of the log that hold an event of these types about this identity.
Entries(types, id) == {i \in 1 .. Len(log) : log[i].type \in types /\ log[i].id = id}

\* w is the last of these entries that was applied, as far as the reading goes.
Reflects(w, S) == /\ w \in S \cup {0} /\ w <= high
                  /\ \A i \in S : w < i /\ i <= cursor => i \in missed

LEMMA EntriesStep ==
  ASSUME Places, NEW types, NEW id
  PROVE  /\ \A i \in Entries(types, id) : i \in 1 .. Len(log)
         /\ log' = log => Entries(types, id)' = Entries(types, id)
         /\ \A e \in Event : Grows(e) =>
              /\ Entries(types, id)' = Entries(types, id) \cup
                   (IF e.type \in types /\ e.id = id THEN {Len(log) + 1} ELSE {})
              /\ Len(log') = Len(log) + 1 /\ log'[Len(log) + 1] = e
              /\ \A i \in 1 .. Len(log) : log'[i] = log[i]
<1>1. \A i \in Entries(types, id) : i \in 1 .. Len(log)
  BY DEF Entries
<1>2. log' = log => Entries(types, id)' = Entries(types, id)
  BY DEF Entries
<1>3. ASSUME NEW e \in Event, Grows(e)
      PROVE  /\ Len(log') = Len(log) + 1 /\ log'[Len(log) + 1] = e
             /\ \A i \in 1 .. Len(log) : log'[i] = log[i]
  BY <1>3 DEF Places, Grows
<1>4. ASSUME NEW e \in Event, Grows(e)
      PROVE  Entries(types, id)' = Entries(types, id) \cup
                   (IF e.type \in types /\ e.id = id THEN {Len(log) + 1} ELSE {})
  <2>1. Len(log) \in Nat
    BY DEF Places
  <2> QED
    BY <1>3, <1>4, <2>1 DEF Entries
<1> QED
  BY <1>1, <1>2, <1>3, <1>4

LEMMA ReflectsQuiet ==
  ASSUME Places, NEW types, NEW id, NEW w, Reflects(w, Entries(types, id)),
         Rewinds \/ Skips \/ \E e \in Event : Grows(e)
  PROVE  Reflects(w, Entries(types, id))'
<1> DEFINE S == Entries(types, id)
<1>0. Reflects(w, S) /\ Len(log) \in Nat /\ cursor \in 0 .. Len(log) /\ high \in 0 .. Len(log)
  BY DEF Places
<1>1. \A i \in S : i \in 1 .. Len(log)
  BY EntriesStep
<1>2. ASSUME Rewinds PROVE Reflects(w, S)'
  <2>1. S' = S
    BY <1>2, EntriesStep DEF Rewinds
  <2> HIDE DEF S
  <2>2. cursor' \in 0 .. cursor /\ high' = high /\ missed' = missed
    BY <1>2 DEF Rewinds, Places
  <2> QED BY <1>0, <1>1, <2>1, <2>2 DEF Reflects
<1>3. ASSUME Skips PROVE Reflects(w, S)'
  <2>1. S' = S
    BY <1>3, EntriesStep DEF Skips
  <2> HIDE DEF S
  <2>2. cursor' = cursor + 1 /\ high' = high /\ missed' = missed \cup {cursor + 1}
    BY <1>3 DEF Skips
  <2> QED BY <1>0, <1>1, <2>1, <2>2 DEF Reflects
<1>4. ASSUME NEW e \in Event, Grows(e) PROVE Reflects(w, S)'
  <2>1. S' = S \cup (IF e.type \in types /\ e.id = id THEN {Len(log) + 1} ELSE {})
    BY <1>4, EntriesStep
  <2>2. cursor' = cursor /\ high' = high /\ missed' = missed
    BY <1>4 DEF Grows, engine
  <2> HIDE DEF S
  <2> QED BY <1>0, <1>1, <2>1, <2>2 DEF Reflects
<1> QED BY <1>2, <1>3, <1>4

\* The entry just applied is the last one; any other event changes nothing.
LEMMA ReflectsApplied ==
  ASSUME Places, NEW types, NEW id, Applies
  PROVE  /\ \A w : w = cursor + 1 /\ w \in Entries(types, id) => Reflects(w, Entries(types, id))'
         /\ cursor + 1 \notin Entries(types, id) =>
              \A w : Reflects(w, Entries(types, id)) => Reflects(w, Entries(types, id))'
<1> DEFINE S == Entries(types, id)
<1>1. \A i \in S : i \in 1 .. Len(log)
  BY EntriesStep
<1>2. S' = S
  BY EntriesStep DEF Applies
<1>3. /\ Len(log) \in Nat /\ cursor \in 0 .. Len(log) /\ high \in 0 .. Len(log) /\ high' \in 0 .. Len(log)
      /\ cursor' = cursor + 1 /\ high' >= cursor + 1 /\ high' >= high /\ missed' = missed \ {cursor + 1}
  BY DEF Places, Applies
<1>4. ASSUME NEW w, w = cursor + 1, w \in S PROVE Reflects(w, S)'
  <2> HIDE DEF S
  <2> QED BY <1>1, <1>2, <1>3, <1>4 DEF Reflects
<1>5. ASSUME cursor + 1 \notin S, NEW w, Reflects(w, S) PROVE Reflects(w, S)'
  <2> HIDE DEF S
  <2> QED BY <1>1, <1>2, <1>3, <1>5 DEF Reflects
<1> QED BY <1>4, <1>5

LEMMA ReflectsInit ==
  ASSUME ReplayInit, NEW types, NEW id
  PROVE  Reflects(0, Entries(types, id))
<1>1. high = 0 /\ cursor = 0 /\ Len(log) = 0
  BY DEF ReplayInit
<1> QED BY <1>1 DEF Reflects, Entries

\* The outcome of a market is logged once.
SettledOnce == \A m \in Market : \A i, j \in Entries({"market.settled"}, m) : i = j

Quiet == Rewinds \/ Skips \/ \E e \in Event : Grows(e)

\* What an entry w reflected by a row says stays what it says.
LEMMA LogKept ==
  ASSUME Places, Quiet \/ Applies, NEW types, NEW id, NEW w, Reflects(w, Entries(types, id)), w # 0
  PROVE  w \in 1 .. Len(log) /\ log'[w] = log[w]
<1>1. w \in Entries(types, id)
  BY DEF Reflects
<1>2. w \in 1 .. Len(log)
  BY <1>1, EntriesStep
<1>3. log' = log \/ \E e \in Event : Grows(e)
  BY DEF Quiet, Rewinds, Skips, Applies
<1> QED BY <1>2, <1>3, EntriesStep

\* Which handler takes an event, and which tables it may write.
LEMMA Handlers ==
  ASSUME NEW e, Handle(e)
  PROVE  /\ e.type = "market.created" => MarketCreated(e)
         /\ e.type = "market.settled" => MarketSettled(e)
         /\ e.type = "agent.registered" => AgentRegistered(e)
         /\ e.type = "agent.staked" => AgentStaked(e)
         /\ e.type = "agent.activated" => AgentActivated(e)
         /\ e.type = "agent.deactivated" => AgentDeactivated(e)
         /\ e.type = "oracle.registered" => OracleRegistered(e)
         /\ e.type = "oracle.staked" => OracleStaked(e)
         /\ e.type = "oracle.submitted" => OracleSubmitted(e)
         /\ e.type = "yield.deposited" => YieldDeposited(e)
         /\ e.type = "yield.withdrawn" => YieldWithdrawn(e)
         /\ e.type = "yield.rebalanced" => YieldRebalanced(e)
         /\ e.type \notin {"market.created", "market.settled"} => markets' = markets
         /\ e.type \notin {"agent.registered", "agent.staked", "agent.activated", "agent.deactivated"} => agents' = agents
         /\ e.type \notin {"oracle.registered", "oracle.staked"} => oracles' = oracles
         /\ e.type # "oracle.submitted" => submissions' = submissions
         /\ e.type \notin {"yield.deposited", "yield.withdrawn", "yield.rebalanced"} => yields' = yields
  BY DEF Handle, MarketCreated, MarketSettled, AgentRegistered, AgentStaked, AgentActivated,
    AgentDeactivated, OracleRegistered, OracleStaked, OracleSubmitted, YieldDeposited, YieldWithdrawn,
    YieldRebalanced, Ignored, tables, yields

-----------------------------------------------------------------------------
(* Markets *)

MarketAsLogged(s) == [kind |-> "market", settled |-> s # 0, outcome |-> s # 0 /\ log[s].outcome]
MarketAs(m, c, s) ==
  /\ Reflects(c, Entries({"market.created"}, m)) /\ Reflects(s, Entries({"market.settled"}, m))
  /\ c = 0 => s = 0
  /\ markets[m] = IF c = 0 THEN NoRow ELSE MarketAsLogged(s)
MarketRows ==
  /\ markets = [m \in Market |-> markets[m]]
  /\ \A m \in Market : \E c, s : MarketAs(m, c, s)

LEMMA MarketRowKept ==
  ASSUME Places, Quiet \/ Applies, NEW m \in Market, NEW s, Reflects(s, Entries({"market.settled"}, m))
  PROVE  MarketAsLogged(s)' = MarketAsLogged(s)
<1>1. CASE s = 0
  BY <1>1 DEF MarketAsLogged
<1>2. CASE s # 0
  BY <1>2, LogKept DEF MarketAsLogged
<1> QED BY <1>1, <1>2

LEMMA SettleRow ==
  ASSUME NEW K, NEW B, NEW r \in [kind : K, settled : B, outcome : B], NEW t \in B, NEW b \in B,
         NEW q, q = [r EXCEPT !.settled = t, !.outcome = b]
  PROVE  q = [kind |-> r.kind, settled |-> t, outcome |-> b]
  OBVIOUS

LEMMA MarketsQuiet ==
  ASSUME Places, Quiet, MarketRows PROVE MarketRows'
<1>1. markets' = markets
  BY DEF Quiet, Rewinds, Skips, Grows, tables
<1>2. ASSUME NEW m \in Market PROVE \E c, s : MarketAs(m, c, s)'
  <2>1. PICK c, s : MarketAs(m, c, s)
    BY DEF MarketRows
  <2>2. Reflects(c, Entries({"market.created"}, m))' /\ Reflects(s, Entries({"market.settled"}, m))'
    BY <2>1, ReflectsQuiet DEF MarketAs, Quiet
  <2>3. MarketAsLogged(s)' = MarketAsLogged(s)
    BY <2>1, MarketRowKept DEF MarketAs
  <2>4. MarketAs(m, c, s)'
    BY <1>1, <2>1, <2>2, <2>3 DEF MarketAs
  <2> QED BY <2>4
<1> QED BY <1>1, <1>2 DEF MarketRows

LEMMA MarketsApplied ==
  ASSUME Places, SettledOnce, MarketRows, Applies, NEW p, p = cursor + 1, NEW e, e = log[p],
         ~Refused(e), Handle(e)
  PROVE  MarketRows'
<1> DEFINE Created(m) == Entries({"market.created"}, m)
           Settled(m) == Entries({"market.settled"}, m)
<1>1. p \in 1 .. Len(log) /\ log[p] = e /\ e \in Event /\ log' = log
  BY DEF Places, Applies
<1>2. ASSUME NEW m \in Market
      PROVE  /\ p \in Created(m) <=> e.type = "market.created" /\ e.id = m
             /\ p \in Settled(m) <=> e.type = "market.settled" /\ e.id = m
  BY <1>1 DEF Entries
<1>3. markets' = [m \in Market |-> markets'[m]]
  BY Handlers DEF MarketRows, MarketCreated, MarketRowFromEvent, MarketSettled, MarkSettled
<1>4. ASSUME NEW m \in Market, ~(e.type \in {"market.created", "market.settled"} /\ e.id = m)
      PROVE  markets'[m] = markets[m]
  <2>1. CASE e.type = "market.created"
    BY <1>4, <2>1, Handlers DEF MarketRows, MarketCreated, MarketRowFromEvent
  <2>2. CASE e.type = "market.settled"
    <3>1. e.id # m /\ MarketSettled(e)
      BY <1>4, <2>2, Handlers
    <3>2. markets' = markets \/ MarkSettled(e.id, e.outcome)
      BY <3>1 DEF MarketSettled
    <3> QED BY <3>1, <3>2 DEF MarketRows, MarkSettled
  <2>3. CASE e.type \notin {"market.created", "market.settled"}
    BY <2>3, Handlers
  <2> QED BY <2>1, <2>2, <2>3
<1>5. ASSUME NEW m \in Market PROVE \E c, s : MarketAs(m, c, s)'
  <2>1. PICK c, s : MarketAs(m, c, s)
    BY DEF MarketRows
  <2>2. MarketAsLogged(s)' = MarketAsLogged(s)
    BY <2>1, MarketRowKept DEF MarketAs
  <2>3. CASE e.type = "market.created" /\ e.id = m
    <3>1. Reflects(p, Created(m))' /\ Reflects(s, Settled(m))'
      BY <1>2, <2>1, <2>3, ReflectsApplied DEF MarketAs
    <3>2. markets'[m] = MarketAsLogged(s)
      <4>1. MarketCreated(e)
        BY <2>3, Handlers
      <4>2. CASE c = 0
        <5>1. markets'[m] = [kind |-> "market", settled |-> FALSE, outcome |-> FALSE]
          BY <2>1, <2>3, <4>1, <4>2 DEF MarketAs, MarketRows, MarketCreated, MarketRowFromEvent
        <5> QED BY <2>1, <4>2, <5>1 DEF MarketAs, MarketAsLogged
      <4>3. CASE c # 0
        <5>1. markets[m] = MarketAsLogged(s)
          BY <2>1, <4>3 DEF MarketAs
        <5>2. markets[m] # NoRow
          BY <5>1 DEF MarketAsLogged, NoRow
        <5> QED BY <2>3, <4>1, <5>1, <5>2 DEF MarketCreated
      <4> QED BY <4>2, <4>3
    <3>3. p # 0
      BY <1>1
    <3>4. MarketAs(m, p, s)'
      BY <2>2, <3>1, <3>2, <3>3 DEF MarketAs
    <3> QED BY <3>4
  <2>4. CASE e.type = "market.settled" /\ e.id = m
    <3>1. Reflects(c, Created(m))'
      BY <1>2, <2>1, <2>4, ReflectsApplied DEF MarketAs
    <3>2. Reflects(p, Settled(m))'
      BY <1>2, <2>4, ReflectsApplied
    <3>3. c # 0 /\ p # 0 /\ e.outcome \in BOOLEAN
      BY <1>1, <2>1, <2>4, EventFields DEF Refused, MarketAs
    <3>4. MarketAsLogged(p) = [kind |-> "market", settled |-> TRUE, outcome |-> e.outcome]
      BY <1>1, <3>3 DEF MarketAsLogged
    <3>5. MarketSettled(e)
      BY <2>4, Handlers
    <3>6. markets[m] = MarketAsLogged(s)
      BY <2>1, <3>3 DEF MarketAs
    <3>7. markets'[m] = MarketAsLogged(p)
      <4>1. CASE s = 0
        <5>1. markets[m] = [kind |-> "market", settled |-> FALSE, outcome |-> FALSE]
          BY <3>6, <4>1 DEF MarketAsLogged
        <5>2. ~markets[m].settled
          BY <5>1
        <5>3. markets'[m] = [markets[m] EXCEPT !.settled = TRUE, !.outcome = e.outcome]
          BY <2>4, <3>5, <5>2 DEF MarketSettled, MarkSettled, MarketRows
        <5>4. markets[m] \in [kind : {"market"}, settled : BOOLEAN, outcome : BOOLEAN]
          BY <5>1
        <5>5. markets[m].kind = "market"
          BY <5>1
        <5>6. markets'[m] = [kind |-> markets[m].kind, settled |-> TRUE, outcome |-> e.outcome]
          BY <3>3, <5>3, <5>4, SettleRow
        <5> QED BY <3>4, <5>5, <5>6
      <4>2. CASE s # 0
        <5>1. s = p
          BY <1>2, <2>1, <2>4, <4>2 DEF MarketAs, Reflects, SettledOnce
        <5>2. markets[m].settled
          <6>1. MarketAsLogged(s) = [kind |-> "market", settled |-> TRUE, outcome |-> log[s].outcome]
            BY <4>2, <5>1, <3>3 DEF MarketAsLogged
          <6> QED BY <3>6, <6>1
        <5> QED BY <2>4, <3>5, <3>6, <5>1, <5>2 DEF MarketSettled
      <4> QED BY <4>1, <4>2
    <3>8. MarketAsLogged(p)' = MarketAsLogged(p)
      BY <1>1 DEF MarketAsLogged
    <3>9. MarketAs(m, c, p)'
      BY <3>1, <3>2, <3>3, <3>7, <3>8 DEF MarketAs
    <3> QED BY <3>9
  <2>5. CASE ~(e.type \in {"market.created", "market.settled"} /\ e.id = m)
    <3>1. Reflects(c, Created(m))' /\ Reflects(s, Settled(m))'
      BY <1>2, <2>1, <2>5, ReflectsApplied DEF MarketAs
    <3>2. MarketAs(m, c, s)'
      BY <1>4, <2>1, <2>2, <2>5, <3>1 DEF MarketAs
    <3> QED BY <3>2
  <2> QED BY <2>3, <2>4, <2>5
<1> QED BY <1>3, <1>5 DEF MarketRows

-----------------------------------------------------------------------------
(* Agents of the log *)

AgentRowAt(s, w) == [kind |-> "agent", stake |-> IF s = 0 THEN 0 ELSE log[s].stake,
                   active |-> w # 0 /\ log[w].type = "agent.activated"]
Switching == {"agent.activated", "agent.deactivated"}
AgentAs(a, c, s, w) ==
  /\ Reflects(c, Entries({"agent.registered"}, a)) /\ Reflects(s, Entries({"agent.staked"}, a))
  /\ Reflects(w, Entries(Switching, a))
  /\ c = 0 => s = 0 /\ w = 0
  /\ agents[a] = IF c = 0 THEN NoRow ELSE AgentRowAt(s, w)
AgentRows ==
  /\ agents = [a \in Agent |-> agents[a]]
  /\ \A a \in Agent : \E c, s, w : AgentAs(a, c, s, w)

LEMMA AgentRowKept ==
  ASSUME Places, Quiet \/ Applies, NEW a \in Agent, NEW s, NEW w,
         Reflects(s, Entries({"agent.staked"}, a)), Reflects(w, Entries(Switching, a))
  PROVE  AgentRowAt(s, w)' = AgentRowAt(s, w)
<1>1. s # 0 => log'[s] = log[s]
  BY LogKept
<1>2. w # 0 => log'[w] = log[w]
  BY LogKept
<1> QED BY <1>1, <1>2 DEF AgentRowAt

LEMMA AgentsQuiet ==
  ASSUME Places, Quiet, AgentRows PROVE AgentRows'
<1>1. agents' = agents
  BY DEF Quiet, Rewinds, Skips, Grows, tables
<1>2. ASSUME NEW a \in Agent PROVE \E c, s, w : AgentAs(a, c, s, w)'
  <2>1. PICK c, s, w : AgentAs(a, c, s, w)
    BY DEF AgentRows
  <2>2. /\ Reflects(c, Entries({"agent.registered"}, a))' /\ Reflects(s, Entries({"agent.staked"}, a))'
        /\ Reflects(w, Entries(Switching, a))'
    BY <2>1, ReflectsQuiet DEF AgentAs, Quiet
  <2>3. AgentRowAt(s, w)' = AgentRowAt(s, w)
    BY <2>1, AgentRowKept DEF AgentAs
  <2>4. AgentAs(a, c, s, w)'
    BY <1>1, <2>1, <2>2, <2>3 DEF AgentAs
  <2> QED BY <2>4
<1> QED BY <1>1, <1>2 DEF AgentRows

\* A stored row with its stake, or with its switch, changed.
LEMMA RowExcept ==
  ASSUME NEW K, NEW S, NEW A, NEW r \in [kind : K, stake : S, active : A], NEW q
  PROVE  /\ \A s : q = [r EXCEPT !.stake = s] => q = [kind |-> r.kind, stake |-> s, active |-> r.active]
         /\ \A b : q = [r EXCEPT !.active = b] => q = [kind |-> r.kind, stake |-> r.stake, active |-> b]
         /\ \A s, b : q = [r EXCEPT !.stake = s, !.active = b] => q = [kind |-> r.kind, stake |-> s, active |-> b]
  OBVIOUS

LEMMA AgentsApplied ==
  ASSUME Places, AgentRows, Applies, NEW p, p = cursor + 1, NEW e, e = log[p],
         ~Refused(e), Handle(e)
  PROVE  AgentRows'
<1> DEFINE RegisteredAt(a) == Entries({"agent.registered"}, a)
           Staked(a)       == Entries({"agent.staked"}, a)
           Switched(a)     == Entries(Switching, a)
           AgentEvents     == {"agent.registered", "agent.staked", "agent.activated", "agent.deactivated"}
<1>1. p \in 1 .. Len(log) /\ p # 0 /\ log[p] = e /\ e \in Event /\ log' = log
  BY DEF Places, Applies
<1>2. ASSUME NEW a \in Agent
      PROVE  /\ p \in RegisteredAt(a) <=> e.type = "agent.registered" /\ e.id = a
             /\ p \in Staked(a) <=> e.type = "agent.staked" /\ e.id = a
             /\ p \in Switched(a) <=> e.type \in Switching /\ e.id = a
  BY <1>1 DEF Entries
<1>3. agents' = [a \in Agent |-> agents'[a]]
  BY Handlers DEF AgentRows, AgentRegistered, AgentRowFromEvent, AgentStaked, UpdateAgentStake,
    AgentActivated, Activate, AgentDeactivated, Deactivate
<1>4. ASSUME NEW a \in Agent, ~(e.type \in AgentEvents /\ e.id = a)
      PROVE  agents'[a] = agents[a]
  <2>1. CASE e.type = "agent.registered"
    BY <1>4, <2>1, Handlers DEF AgentRows, AgentRegistered, AgentRowFromEvent
  <2>2. CASE e.type = "agent.staked"
    BY <1>4, <2>2, Handlers DEF AgentRows, AgentStaked, UpdateAgentStake
  <2>3. CASE e.type \in Switching
    BY <1>4, <2>3, Handlers DEF AgentRows, Switching, AgentActivated, Activate, AgentDeactivated, Deactivate
  <2>4. CASE e.type \notin AgentEvents
    BY <2>4, Handlers
  <2> QED BY <2>1, <2>2, <2>3, <2>4 DEF Switching
<1>5. ASSUME NEW a \in Agent PROVE \E c, s, w : AgentAs(a, c, s, w)'
  <2>1. PICK c, s, w : AgentAs(a, c, s, w)
    BY DEF AgentRows
  <2>2. AgentRowAt(s, w)' = AgentRowAt(s, w)
    BY <2>1, AgentRowKept DEF AgentAs
  <2>3. /\ p \notin RegisteredAt(a) => Reflects(c, RegisteredAt(a))'
        /\ p \notin Staked(a) => Reflects(s, Staked(a))'
        /\ p \notin Switched(a) => Reflects(w, Switched(a))'
        /\ p \in RegisteredAt(a) => Reflects(p, RegisteredAt(a))'
        /\ p \in Staked(a) => Reflects(p, Staked(a))'
        /\ p \in Switched(a) => Reflects(p, Switched(a))'
    BY <2>1, ReflectsApplied DEF AgentAs
  <2>4. AgentRowAt(s, w).kind = "agent" /\ AgentRowAt(s, w) # NoRow
    BY DEF AgentRowAt, NoRow
  <2>5. CASE e.type = "agent.registered" /\ e.id = a
    <3>1. AgentRegistered(e)
      BY <2>5, Handlers
    <3>2. agents'[a] = AgentRowAt(s, w)
      <4>1. CASE c = 0
        <5>1. agents'[a] = [kind |-> "agent", stake |-> 0, active |-> FALSE]
          BY <2>1, <2>5, <3>1, <4>1 DEF AgentAs, AgentRows, AgentRegistered, AgentRowFromEvent
        <5> QED BY <2>1, <4>1, <5>1 DEF AgentAs, AgentRowAt
      <4>2. CASE c # 0
        BY <2>1, <2>4, <2>5, <3>1, <4>2 DEF AgentAs, AgentRegistered
      <4> QED BY <4>1, <4>2
    <3>3. AgentAs(a, p, s, w)'
      BY <1>1, <1>2, <2>2, <2>3, <2>5, <3>2 DEF AgentAs, Switching
    <3> QED BY <3>3
  <2>6. CASE e.type \in AgentEvents \ {"agent.registered"} /\ e.id = a
    <3>1. c # 0 /\ agents[a] = AgentRowAt(s, w)
      BY <2>1, <2>6 DEF Refused, AgentAs
    <3>2. agents[a] \in [kind : {"agent"}, stake : {AgentRowAt(s, w).stake}, active : BOOLEAN]
      BY <3>1 DEF AgentRowAt
    <3>3. agents[a].kind = "agent"
      BY <3>2
    <3>4. CASE e.type = "agent.staked"
      <4>1. agents'[a] = [agents[a] EXCEPT !.stake = e.stake]
        BY <2>6, <3>4, Handlers DEF AgentStaked, UpdateAgentStake, AgentRows
      <4>2. agents'[a] = [kind |-> "agent", stake |-> e.stake, active |-> agents[a].active]
        BY <3>2, <3>3, <4>1, RowExcept
      <4>3. agents[a].active = AgentRowAt(p, w).active
        BY <3>1 DEF AgentRowAt
      <4>4. agents'[a] = AgentRowAt(p, w)
        BY <1>1, <4>2, <4>3 DEF AgentRowAt
      <4>5. AgentRowAt(p, w)' = AgentRowAt(p, w)
        BY <1>1 DEF AgentRowAt
      <4>6. AgentAs(a, c, p, w)'
        BY <1>1, <1>2, <2>3, <2>6, <3>1, <3>4, <4>4, <4>5 DEF AgentAs, Switching
      <4> QED BY <4>6
    <3>5. CASE e.type = "agent.activated"
      <4>1. agents'[a] = [kind |-> "agent", stake |-> agents[a].stake, active |-> TRUE]
        <5>1. CASE agents[a].active
          BY <2>6, <3>2, <3>5, <5>1, Handlers DEF AgentActivated
        <5>2. CASE ~agents[a].active
          <6>1. agents'[a] = [agents[a] EXCEPT !.active = TRUE]
            BY <2>6, <3>5, <5>2, Handlers DEF AgentActivated, Activate, AgentRows
          <6> QED BY <3>2, <3>3, <6>1, RowExcept
        <5> QED BY <5>1, <5>2
      <4>2. agents'[a] = AgentRowAt(s, p)
        <5>1. agents[a].stake = AgentRowAt(s, p).stake
          BY <3>1 DEF AgentRowAt
        <5>2. AgentRowAt(s, p) = [kind |-> "agent", stake |-> AgentRowAt(s, p).stake, active |-> TRUE]
          BY <1>1, <3>5 DEF AgentRowAt
        <5> QED BY <4>1, <5>1, <5>2
      <4>3. AgentRowAt(s, p)' = AgentRowAt(s, p)
        BY <1>1 DEF AgentRowAt
      <4>4. AgentAs(a, c, s, p)'
        BY <1>1, <1>2, <2>3, <2>6, <3>1, <3>5, <4>2, <4>3 DEF AgentAs, Switching
      <4> QED BY <4>4
    <3>6. CASE e.type = "agent.deactivated"
      <4>1. agents'[a] = [kind |-> "agent", stake |-> agents[a].stake, active |-> FALSE]
        <5>1. CASE ~agents[a].active
          BY <2>6, <3>2, <3>6, <5>1, Handlers DEF AgentDeactivated
        <5>2. CASE agents[a].active
          <6>1. agents'[a] = [agents[a] EXCEPT !.active = FALSE]
            BY <2>6, <3>6, <5>2, Handlers DEF AgentDeactivated, Deactivate, AgentRows
          <6> QED BY <3>2, <3>3, <6>1, RowExcept
        <5> QED BY <5>1, <5>2
      <4>2. agents'[a] = AgentRowAt(s, p)
        <5>1. agents[a].stake = AgentRowAt(s, p).stake
          BY <3>1 DEF AgentRowAt
        <5>2. AgentRowAt(s, p) = [kind |-> "agent", stake |-> AgentRowAt(s, p).stake, active |-> FALSE]
          BY <1>1, <3>6 DEF AgentRowAt
        <5> QED BY <4>1, <5>1, <5>2
      <4>3. AgentRowAt(s, p)' = AgentRowAt(s, p)
        BY <1>1 DEF AgentRowAt
      <4>4. AgentAs(a, c, s, p)'
        BY <1>1, <1>2, <2>3, <2>6, <3>1, <3>6, <4>2, <4>3 DEF AgentAs, Switching
      <4> QED BY <4>4
    <3> QED BY <2>6, <3>4, <3>5, <3>6
  <2>7. CASE ~(e.type \in AgentEvents /\ e.id = a)
    <3>1. AgentAs(a, c, s, w)'
      BY <1>2, <1>4, <2>1, <2>2, <2>3, <2>7 DEF AgentAs, Switching
    <3> QED BY <3>1
  <2> QED BY <2>5, <2>6, <2>7
<1> QED BY <1>3, <1>5 DEF AgentRows

-----------------------------------------------------------------------------
(* Oracles *)

OracleRowAt(s) == [kind |-> "oracle", stake |-> IF s = 0 THEN 0 ELSE log[s].stake, active |-> s # 0]
OracleAs(o, c, s) ==
  /\ Reflects(c, Entries({"oracle.registered"}, o)) /\ Reflects(s, Entries({"oracle.staked"}, o))
  /\ c = 0 => s = 0
  /\ oracles[o] = IF c = 0 THEN NoRow ELSE OracleRowAt(s)
OracleRows ==
  /\ oracles = [o \in Oracle |-> oracles[o]]
  /\ \A o \in Oracle : \E c, s : OracleAs(o, c, s)

LEMMA OracleRowKept ==
  ASSUME Places, Quiet \/ Applies, NEW o \in Oracle, NEW s, Reflects(s, Entries({"oracle.staked"}, o))
  PROVE  OracleRowAt(s)' = OracleRowAt(s)
<1>1. s # 0 => log'[s] = log[s]
  BY LogKept
<1> QED BY <1>1 DEF OracleRowAt

LEMMA OraclesQuiet ==
  ASSUME Places, Quiet, OracleRows PROVE OracleRows'
<1>1. oracles' = oracles
  BY DEF Quiet, Rewinds, Skips, Grows, tables
<1>2. ASSUME NEW o \in Oracle PROVE \E c, s : OracleAs(o, c, s)'
  <2>1. PICK c, s : OracleAs(o, c, s)
    BY DEF OracleRows
  <2>2. Reflects(c, Entries({"oracle.registered"}, o))' /\ Reflects(s, Entries({"oracle.staked"}, o))'
    BY <2>1, ReflectsQuiet DEF OracleAs, Quiet
  <2>3. OracleRowAt(s)' = OracleRowAt(s)
    BY <2>1, OracleRowKept DEF OracleAs
  <2>4. OracleAs(o, c, s)'
    BY <1>1, <2>1, <2>2, <2>3 DEF OracleAs
  <2> QED BY <2>4
<1> QED BY <1>1, <1>2 DEF OracleRows

LEMMA OraclesApplied ==
  ASSUME Places, OracleRows, Applies, NEW p, p = cursor + 1, NEW e, e = log[p],
         ~Refused(e), Handle(e)
  PROVE  OracleRows'
<1> DEFINE RegisteredAt(o) == Entries({"oracle.registered"}, o)
           Staked(o)       == Entries({"oracle.staked"}, o)
           OracleTypes     == {"oracle.registered", "oracle.staked"}
<1>1. p \in 1 .. Len(log) /\ p # 0 /\ log[p] = e /\ e \in Event /\ log' = log
  BY DEF Places, Applies
<1>2. ASSUME NEW o \in Oracle
      PROVE  /\ p \in RegisteredAt(o) <=> e.type = "oracle.registered" /\ e.id = o
             /\ p \in Staked(o) <=> e.type = "oracle.staked" /\ e.id = o
  BY <1>1 DEF Entries
<1>3. oracles' = [o \in Oracle |-> oracles'[o]]
  BY Handlers DEF OracleRows, OracleRegistered, OracleRowFromEvent, OracleStaked, UpdateOracleStake
<1>4. ASSUME NEW o \in Oracle, ~(e.type \in OracleTypes /\ e.id = o)
      PROVE  oracles'[o] = oracles[o]
  <2>1. CASE e.type = "oracle.registered"
    BY <1>4, <2>1, Handlers DEF OracleRows, OracleRegistered, OracleRowFromEvent
  <2>2. CASE e.type = "oracle.staked"
    BY <1>4, <2>2, Handlers DEF OracleRows, OracleStaked, UpdateOracleStake
  <2>3. CASE e.type \notin OracleTypes
    BY <2>3, Handlers
  <2> QED BY <2>1, <2>2, <2>3
<1>5. ASSUME NEW o \in Oracle PROVE \E c, s : OracleAs(o, c, s)'
  <2>1. PICK c, s : OracleAs(o, c, s)
    BY DEF OracleRows
  <2>2. OracleRowAt(s)' = OracleRowAt(s)
    BY <2>1, OracleRowKept DEF OracleAs
  <2>3. /\ p \notin RegisteredAt(o) => Reflects(c, RegisteredAt(o))'
        /\ p \notin Staked(o) => Reflects(s, Staked(o))'
        /\ p \in RegisteredAt(o) => Reflects(p, RegisteredAt(o))'
        /\ p \in Staked(o) => Reflects(p, Staked(o))'
    BY <2>1, ReflectsApplied DEF OracleAs
  <2>4. OracleRowAt(s).kind = "oracle" /\ OracleRowAt(s) # NoRow
    BY DEF OracleRowAt, NoRow
  <2>5. CASE e.type = "oracle.registered" /\ e.id = o
    <3>1. OracleRegistered(e)
      BY <2>5, Handlers
    <3>2. oracles'[o] = OracleRowAt(s)
      <4>1. CASE c = 0
        <5>1. oracles'[o] = [kind |-> "oracle", stake |-> 0, active |-> FALSE]
          BY <2>1, <2>5, <3>1, <4>1 DEF OracleAs, OracleRows, OracleRegistered, OracleRowFromEvent
        <5> QED BY <2>1, <4>1, <5>1 DEF OracleAs, OracleRowAt
      <4>2. CASE c # 0
        BY <2>1, <2>4, <2>5, <3>1, <4>2 DEF OracleAs, OracleRegistered
      <4> QED BY <4>1, <4>2
    <3>3. OracleAs(o, p, s)'
      BY <1>1, <1>2, <2>2, <2>3, <2>5, <3>2 DEF OracleAs
    <3> QED BY <3>3
  <2>6. CASE e.type = "oracle.staked" /\ e.id = o
    <3>1. c # 0 /\ oracles[o] = OracleRowAt(s)
      BY <2>1, <2>6 DEF Refused, OracleAs
    <3>2. oracles[o] \in [kind : {"oracle"}, stake : {OracleRowAt(s).stake}, active : BOOLEAN]
      BY <3>1 DEF OracleRowAt
    <3>3. oracles[o].kind = "oracle"
      BY <3>2
    <3>4. oracles'[o] = [oracles[o] EXCEPT !.stake = e.stake, !.active = TRUE]
      BY <2>6, Handlers DEF OracleStaked, UpdateOracleStake, OracleRows
    <3>5. oracles'[o] = [kind |-> "oracle", stake |-> e.stake, active |-> TRUE]
      BY <3>2, <3>3, <3>4, RowExcept
    <3>6. oracles'[o] = OracleRowAt(p)
      BY <1>1, <3>5 DEF OracleRowAt
    <3>7. OracleRowAt(p)' = OracleRowAt(p)
      BY <1>1 DEF OracleRowAt
    <3>8. OracleAs(o, c, p)'
      BY <1>1, <1>2, <2>3, <2>6, <3>1, <3>6, <3>7 DEF OracleAs
    <3> QED BY <3>8
  <2>7. CASE ~(e.type \in OracleTypes /\ e.id = o)
    <3>1. OracleAs(o, c, s)'
      BY <1>2, <1>4, <2>1, <2>2, <2>3, <2>7 DEF OracleAs
    <3> QED BY <3>1
  <2> QED BY <2>5, <2>6, <2>7
<1> QED BY <1>3, <1>5 DEF OracleRows

-----------------------------------------------------------------------------
(* Counting the last entries *)

\* A nonempty set of places has a last one.
LEMMA LatestIs ==
  ASSUME NEW n \in Nat, NEW S \in SUBSET (1 .. n)
  PROVE  /\ S = {} => Latest(S) = 0
         /\ S # {} => Latest(S) \in S /\ \A j \in S : j <= Latest(S)
<1> DEFINE T == {k \in Nat : \A Q \in SUBSET (1 .. k) : Q # {} => \E i \in Q : \A j \in Q : j <= i}
<1>1. 0 \in T
  <2>1. 1 .. 0 = {}
    OBVIOUS
  <2> QED BY <2>1
<1>2. ASSUME NEW k \in Nat, k \in T PROVE k + 1 \in T
  <2>1. SUFFICES ASSUME NEW Q \in SUBSET (1 .. k + 1), Q # {}
                 PROVE  \E i \in Q : \A j \in Q : j <= i
    OBVIOUS
  <2>2. CASE k + 1 \in Q
    BY <2>1, <2>2
  <2>3. CASE k + 1 \notin Q
    <3>1. Q \in SUBSET (1 .. k)
      BY <2>1, <2>3
    <3> QED BY <1>2, <2>1, <3>1
  <2> QED BY <2>2, <2>3
<1>3. \A k \in Nat : k \in T
  <2>1. T \in SUBSET Nat
    OBVIOUS
  <2> HIDE DEF T
  <2> QED BY <1>1, <1>2, <2>1, SetInduction
<1>4. S # {} => \E i \in S : \A j \in S : j <= i
  BY <1>3
<1> QED BY <1>4 DEF Latest

\* What the log says of an identity, in its first n events.
LEMMA AboutIs ==
  ASSUME Places, NEW type, NEW id, NEW n \in 0 .. Len(log)
  PROVE  /\ About(type, id, n) = {i \in Entries({type}, id) : i <= n}
         /\ About(type, id, n) \in SUBSET (1 .. n)
<1>1. Len(log) \in Nat
  BY DEF Places
<1> QED BY <1>1 DEF About, Said, Entries

\* What is switched on has been switched on by some event, and is switched on
\* when it has been and never was switched off.
LEMMA ActiveHas ==
  ASSUME Places, NEW on, NEW off, NEW id, NEW n \in 0 .. Len(log)
  PROVE  /\ ActiveLogged(on, off, id, n) => About(on, id, n) # {}
         /\ About(on, id, n) # {} /\ About(off, id, n) = {} => ActiveLogged(on, off, id, n)
<1> DEFINE Zon  == About(on, id, n)
           Zoff == About(off, id, n)
<1>1. n \in Nat /\ Zon \in SUBSET (1 .. n) /\ Zoff \in SUBSET (1 .. n)
  <2>1. Len(log) \in Nat
    BY DEF Places
  <2>2. n \in Nat
    BY <2>1
  <2> QED BY <2>2, AboutIs
<1>2. ActiveLogged(on, off, id, n) <=> Latest(Zon) > Latest(Zoff)
  BY DEF ActiveLogged
<1> HIDE DEF Zon, Zoff
<1>3. /\ Zon = {} => Latest(Zon) = 0
      /\ Zon # {} => Latest(Zon) \in Zon
      /\ Zoff = {} => Latest(Zoff) = 0
      /\ Zoff # {} => Latest(Zoff) \in Zoff
  BY <1>1, LatestIs
<1> DEFINE lon  == Latest(Zon)
           loff == Latest(Zoff)
<1>4. /\ Zon = {} => lon = 0
      /\ Zon # {} => lon \in 1 .. n
      /\ Zoff = {} => loff = 0
      /\ Zoff # {} => loff \in 1 .. n
  BY <1>1, <1>3
<1> HIDE DEF lon, loff
<1>5. /\ lon > loff => Zon # {}
      /\ Zon # {} /\ Zoff = {} => lon > loff
  BY <1>1, <1>4
<1> QED BY <1>2, <1>5 DEF Zon, Zoff, lon, loff

LEMMA SettledOnceStep ==
  ASSUME Places, SettledOnce, [ReplayNext]_replayVars
  PROVE  SettledOnce'
<1>1. CASE log' = log
  BY <1>1, EntriesStep DEF SettledOnce
<1>2. ASSUME NEW e \in Event, Grows(e), Allowed(e) PROVE SettledOnce'
  <2>1. SUFFICES ASSUME NEW m \in Market
                 PROVE  \A i, j \in Entries({"market.settled"}, m)' : i = j
    BY DEF SettledOnce
  <2>2. Entries({"market.settled"}, m)' = Entries({"market.settled"}, m) \cup
          (IF e.type \in {"market.settled"} /\ e.id = m THEN {Len(log) + 1} ELSE {})
    BY <1>2, EntriesStep
  <2>3. CASE e.type = "market.settled" /\ e.id = m
    <3>1. MarketLogged(m, Len(log)) = [kind |-> "market", settled |-> FALSE, outcome |-> FALSE]
      BY <1>2, <2>3 DEF Allowed
    <3>2. Len(log) \in Nat /\ Len(log) \in 0 .. Len(log)
      BY DEF Places
    <3>3. Latest(About("market.settled", m, Len(log))) = 0
      BY <3>1 DEF MarketLogged, NoRow
    <3>4. About("market.settled", m, Len(log)) = {}
      <4> DEFINE Z == About("market.settled", m, Len(log))
      <4>1. Z \in SUBSET (1 .. Len(log))
        BY <3>2, AboutIs
      <4> HIDE DEF Z
      <4>2. Z # {} => Latest(Z) \in Z
        BY <3>2, <4>1, LatestIs
      <4>3. Latest(Z) = 0
        BY <3>3 DEF Z
      <4>4. Z = {}
        BY <4>1, <4>2, <4>3
      <4> QED BY <4>4 DEF Z
    <3>5. Entries({"market.settled"}, m) = {}
      <4>1. {i \in Entries({"market.settled"}, m) : i <= Len(log)} = {}
        BY <3>2, <3>4, AboutIs
      <4> QED BY <4>1, EntriesStep
    <3> QED BY <2>2, <2>3, <3>5
  <2>4. CASE ~(e.type = "market.settled" /\ e.id = m)
    BY <2>2, <2>4 DEF SettledOnce
  <2> QED BY <2>3, <2>4
<1> QED BY <1>1, <1>2, StepKinds DEF Rewinds, Skips, Applies

\* No oracle has staked before it was activated.
ActivatedFirst == \A o \in Oracle : \A i \in Entries({"oracle.staked"}, o) :
  \E j \in Entries({"oracle.activated"}, o) : j < i

LEMMA ActivatedFirstStep ==
  ASSUME Places, ActivatedFirst, [ReplayNext]_replayVars
  PROVE  ActivatedFirst'
<1>1. CASE log' = log
  BY <1>1, EntriesStep DEF ActivatedFirst
<1>2. ASSUME NEW e \in Event, Grows(e), Allowed(e) PROVE ActivatedFirst'
  <2>1. SUFFICES ASSUME NEW o \in Oracle, NEW i \in Entries({"oracle.staked"}, o)'
                 PROVE  \E j \in Entries({"oracle.activated"}, o)' : j < i
    BY DEF ActivatedFirst
  <2>2. Entries({"oracle.staked"}, o)' = Entries({"oracle.staked"}, o) \cup
          (IF e.type \in {"oracle.staked"} /\ e.id = o THEN {Len(log) + 1} ELSE {})
    BY <1>2, EntriesStep
  <2>3. Entries({"oracle.activated"}, o) \subseteq Entries({"oracle.activated"}, o)'
    BY <1>2, EntriesStep
  <2>4. CASE i \in Entries({"oracle.staked"}, o)
    BY <2>3, <2>4 DEF ActivatedFirst
  <2>5. CASE i \notin Entries({"oracle.staked"}, o)
    <3>1. e.type = "oracle.staked" /\ e.id = o /\ i = Len(log) + 1
      BY <2>1, <2>2, <2>5
    <3>2. Len(log) \in Nat /\ Len(log) \in 0 .. Len(log)
      BY DEF Places
    <3>3. OracleActive(o, Len(log))
      BY <1>2, <3>1 DEF Allowed
    <3>4. About("oracle.activated", o, Len(log)) # {}
      BY <3>2, <3>3, ActiveHas DEF OracleActive
    <3>5. PICK j : j \in Entries({"oracle.activated"}, o) /\ j <= Len(log)
      BY <3>2, <3>4, AboutIs
    <3>6. j \in 1 .. Len(log) /\ j < i
      BY <3>1, <3>2, <3>5, EntriesStep
    <3> QED BY <2>3, <3>5, <3>6
  <2> QED BY <2>4, <2>5
<1> QED BY <1>1, <1>2, StepKinds DEF Rewinds, Skips, Applies

Amounts == positions \in [User \X Vault -> Nat] /\ deposited \in [Vault -> Nat]

LEMMA AmountsStep ==
  ASSUME ReplayAssumption, Places, Amounts, [ReplayNext]_replayVars
  PROVE  Amounts'
<1>1. CASE Quiet
  BY <1>1 DEF Quiet, Rewinds, Skips, Grows, tables, yields, Amounts
<1>2. ASSUME NEW e \in Event, ~Refused(e), Handle(e) PROVE Amounts'
  <2>1. CASE e.type \in {"yield.deposited", "yield.withdrawn"}
    <3>1. e.user \in User /\ e.vault \in Vault /\ e.amount \in Nat
      BY <2>1, EventFields DEF ReplayAssumption
    <3>2. CASE e.type = "yield.deposited"
      <4>1. positions' = [positions EXCEPT ![<<e.user, e.vault>>] = positions[<<e.user, e.vault>>] + e.amount]
            /\ deposited' = [deposited EXCEPT ![e.vault] = deposited[e.vault] + e.amount]
        BY <3>2, <1>2, Handlers DEF YieldDeposited, RecordDeposit
      <4>2. positions[<<e.user, e.vault>>] + e.amount \in Nat /\ deposited[e.vault] + e.amount \in Nat
        BY <3>1 DEF Amounts
      <4> QED BY <4>1, <4>2 DEF Amounts
    <3>3. CASE e.type = "yield.withdrawn"
      <4>1. positions[<<e.user, e.vault>>] >= e.amount
        BY <3>1, <3>3, <1>2 DEF Refused, Amounts
      <4>2. positions' \in [User \X Vault -> Nat]
        <5>1. positions' = [positions EXCEPT ![<<e.user, e.vault>>] = positions[<<e.user, e.vault>>] - e.amount]
          BY <3>3, <1>2, Handlers DEF YieldWithdrawn, RecordWithdrawal
        <5>2. positions[<<e.user, e.vault>>] - e.amount \in Nat
          BY <3>1, <4>1 DEF Amounts
        <5> QED BY <5>1, <5>2 DEF Amounts
      <4>3. deposited' \in [Vault -> Nat]
        <5> DEFINE left == IF deposited[e.vault] > e.amount THEN deposited[e.vault] - e.amount ELSE 0
        <5>1. deposited' = [deposited EXCEPT ![e.vault] = left]
          BY <3>3, <1>2, Handlers DEF YieldWithdrawn, RecordWithdrawal
        <5>2. left \in Nat
          BY <3>1 DEF Amounts
        <5> HIDE DEF left
        <5> QED BY <5>1, <5>2 DEF Amounts
      <4> QED BY <4>2, <4>3 DEF Amounts
    <3> QED BY <2>1, <3>2, <3>3
  <2>2. CASE e.type = "yield.rebalanced"
    <3>1. e.to \in [Vault -> Nat]
      <4>1. e.to \in [Vault -> LoggedAmount \cup {0}] /\ LoggedAmount \cup {0} \subseteq Nat
        BY <2>2, EventFields DEF ReplayAssumption
      <4> QED BY <4>1
    <3>2. positions' = [q \in User \X Vault |-> IF q[1] = e.user THEN e.to[q[2]] ELSE positions[q]] /\ deposited' = deposited
      BY <2>2, <1>2, Handlers DEF YieldRebalanced, ApplyRebalance
    <3> QED BY <3>1, <3>2 DEF Amounts
  <2>3. CASE e.type \notin {"yield.deposited", "yield.withdrawn", "yield.rebalanced"}
    BY <2>3, <1>2, Handlers DEF Amounts, yields
  <2> QED BY <2>1, <2>2, <2>3
<1>3. CASE Applies /\ ~Refused(log[cursor + 1]) /\ Handle(log[cursor + 1])
  <2>1. log[cursor + 1] \in Event
    BY <1>3 DEF Applies, Places
  <2> QED BY <1>2, <1>3, <2>1
<1> QED BY <1>1, <1>3, StepKinds DEF Quiet

-----------------------------------------------------------------------------
(* The rows together *)

RowsInv ==
  /\ ReplayAssumption /\ Places /\ SettledOnce /\ ActivatedFirst /\ Amounts
  /\ MarketRows /\ AgentRows /\ OracleRows

LEMMA RowsInit == ReplayInit => RowsInv
<1> SUFFICES ASSUME ReplayAssumption, ReplayInit PROVE RowsInv
  BY ReplayAssumption
<1>1. SettledOnce /\ ActivatedFirst
  BY DEF ReplayInit, SettledOnce, ActivatedFirst, Entries
<1>2. Amounts
  BY DEF ReplayInit, Amounts
<1>3. MarketRows
  <2>1. markets = [m \in Market |-> NoRow]
    BY DEF ReplayInit
  <2>2. ASSUME NEW m \in Market PROVE MarketAs(m, 0, 0)
    BY <2>1, ReflectsInit DEF MarketAs
  <2> QED BY <2>1, <2>2 DEF MarketRows
<1>4. AgentRows
  <2>1. agents = [a \in Agent |-> NoRow]
    BY DEF ReplayInit
  <2>2. ASSUME NEW a \in Agent PROVE AgentAs(a, 0, 0, 0)
    BY <2>1, ReflectsInit DEF AgentAs
  <2> QED BY <2>1, <2>2 DEF AgentRows
<1>5. OracleRows
  <2>1. oracles = [o \in Oracle |-> NoRow]
    BY DEF ReplayInit
  <2>2. ASSUME NEW o \in Oracle PROVE OracleAs(o, 0, 0)
    BY <2>1, ReflectsInit DEF OracleAs
  <2> QED BY <2>1, <2>2 DEF OracleRows
<1> QED BY <1>1, <1>2, <1>3, <1>4, <1>5, PlacesInit DEF RowsInv

LEMMA RowsStep == RowsInv /\ [ReplayNext]_replayVars => RowsInv'
<1> SUFFICES ASSUME RowsInv, [ReplayNext]_replayVars PROVE RowsInv'
  OBVIOUS
<1> USE DEF RowsInv
<1>1. Places' /\ SettledOnce' /\ ActivatedFirst' /\ Amounts' /\ ReplayAssumption'
  BY PlacesStep, SettledOnceStep, ActivatedFirstStep, AmountsStep DEF ReplayAssumption
<1>2. CASE Quiet
  BY <1>1, <1>2, MarketsQuiet, AgentsQuiet, OraclesQuiet
<1>3. CASE Applies /\ ~Refused(log[cursor + 1]) /\ Handle(log[cursor + 1])
  <2>1. PICK p : p = cursor + 1
    OBVIOUS
  <2>2. PICK e : e = log[p]
    OBVIOUS
  <2>3. MarketRows' /\ AgentRows' /\ OracleRows'
    BY <1>3, <2>1, <2>2, MarketsApplied, AgentsApplied, OraclesApplied
  <2> QED BY <1>1, <2>3
<1> QED BY <1>2, <1>3, StepKinds DEF Quiet

\* An entry a row reflects is the latest one, once the reading has caught up
\* and nothing was missed; and a nonzero one never lies beyond the last applied.
LEMMA ReflectsLatest ==
  ASSUME Places, NEW type, NEW id, NEW w, Reflects(w, Entries({type}, id)), cursor = high, missed = {}
  PROVE  /\ w = Latest(About(type, id, high))
         /\ w = 0 <=> About(type, id, high) = {}
<1> DEFINE Z == About(type, id, high)
           S == Entries({type}, id)
<1>0. high \in 0 .. Len(log) /\ high \in Nat /\ Len(log) \in Nat
  BY DEF Places
<1>1. Z = {i \in S : i <= high} /\ Z \in SUBSET (1 .. high)
  BY <1>0, AboutIs
<1>2. \A i \in S : i \in 1 .. Len(log)
  BY EntriesStep
<1>3. w \in S \cup {0} /\ w <= high /\ \A i \in S : ~(w < i /\ i <= high)
  BY DEF Reflects
<1> HIDE DEF Z, S
<1>4. (Z = {} => Latest(Z) = 0) /\ (Z # {} => Latest(Z) \in Z /\ \A j \in Z : j <= Latest(Z))
  BY <1>0, <1>1, LatestIs
<1>5. w \in Nat /\ (w # 0 => w \in Z)
  BY <1>0, <1>1, <1>2, <1>3
<1>6. ASSUME NEW i \in Z PROVE i \in Nat /\ i > 0 /\ i <= w
  <2>1. i \in S /\ i <= high /\ i \in 1 .. high
    BY <1>1
  <2> QED BY <1>0, <1>3, <1>5, <2>1
<1>7. CASE Z = {}
  BY <1>4, <1>5, <1>7 DEF Z
<1>8. CASE Z # {}
  <2>1. Latest(Z) \in Z /\ \A j \in Z : j <= Latest(Z)
    BY <1>4, <1>8
  <2>2. Latest(Z) <= w /\ Latest(Z) > 0 /\ Latest(Z) \in Nat
    BY <1>6, <2>1
  <2>3. w # 0
    BY <1>5, <2>2
  <2>4. w <= Latest(Z)
    BY <1>5, <2>1, <2>3
  <2>5. w = Latest(Z)
    BY <1>5, <2>2, <2>4
  <2> QED BY <1>8, <2>3, <2>5 DEF Z
<1> QED BY <1>7, <1>8

LEMMA MarketsSound ==
  ASSUME RowsInv, NEW m \in Market
  PROVE  /\ markets[m] # NoRow /\ markets[m].settled => markets[m] = MarketLogged(m, high)
         /\ cursor = high /\ missed = {} => markets[m] = MarketLogged(m, high)
<1>0. Places
  BY DEF RowsInv
<1>1. PICK c, s : MarketAs(m, c, s)
  BY DEF RowsInv, MarketRows
<1> DEFINE Zc == About("market.created", m, high)
           Zs == About("market.settled", m, high)
<1>2. MarketLogged(m, high) = IF Zc = {} THEN NoRow ELSE MarketAsLogged(Latest(Zs))
  BY DEF MarketLogged, MarketAsLogged
<1>3. ASSUME markets[m] # NoRow, markets[m].settled PROVE markets[m] = MarketLogged(m, high)
  <2>1. c # 0 /\ markets[m] = MarketAsLogged(s)
    BY <1>1, <1>3 DEF MarketAs
  <2>2. s # 0
    <3>1. ASSUME s = 0 PROVE FALSE
      <4>1. MarketAsLogged(s) = [kind |-> "market", settled |-> FALSE, outcome |-> FALSE]
        BY <3>1 DEF MarketAsLogged
      <4> QED BY <1>3, <2>1, <4>1
    <3> QED BY <3>1
  <2>3. /\ c \in Entries({"market.created"}, m) /\ c <= high
        /\ s \in Entries({"market.settled"}, m) /\ s <= high
    BY <1>1, <2>1, <2>2 DEF MarketAs, Reflects
  <2>4. high \in 0 .. Len(log) /\ high \in Nat
    BY <1>0 DEF Places
  <2>5. c \in Zc /\ s \in Zs /\ Zs \in SUBSET (1 .. high) /\ Zs \subseteq Entries({"market.settled"}, m)
    <3>1. Zc = {i \in Entries({"market.created"}, m) : i <= high}
      BY <1>0, <2>4, AboutIs
    <3>2. Zs = {i \in Entries({"market.settled"}, m) : i <= high} /\ Zs \in SUBSET (1 .. high)
      BY <1>0, <2>4, AboutIs
    <3> QED BY <2>3, <3>1, <3>2
  <2>6. Latest(Zs) = s
    <3>1. Latest(Zs) \in Zs
      <4> HIDE DEF Zs
      <4> QED BY <2>4, <2>5, LatestIs
    <3> QED BY <2>3, <2>5, <3>1 DEF RowsInv, SettledOnce
  <2> QED BY <1>2, <2>1, <2>5, <2>6
<1>4. ASSUME cursor = high, missed = {} PROVE markets[m] = MarketLogged(m, high)
  <2>1. (c = 0 <=> Zc = {}) /\ s = Latest(Zs)
    BY <1>0, <1>1, <1>4, ReflectsLatest DEF MarketAs
  <2> QED BY <1>1, <1>2, <2>1 DEF MarketAs
<1> QED BY <1>3, <1>4

\* What the events of one type add up to: each of them at most that, a single
\* one exactly that, and none nothing.
LEMMA AmountIs ==
  ASSUME ReplayAssumption, Places, NEW id,
         NEW type \in {"agent.staked", "agent.reduced", "oracle.staked", "oracle.reduced"}
  PROVE  /\ AmountLogged(type, id, high) \in Nat
         /\ About(type, id, high) = {} => AmountLogged(type, id, high) = 0
         /\ \A i \in About(type, id, high) :
              /\ log[i].stake <= AmountLogged(type, id, high)
              /\ (\A j \in About(type, id, high) : j = i) => AmountLogged(type, id, high) = log[i].stake
<1> DEFINE Z == About(type, id, high)
           f == [i \in 1 .. high |-> IF log[i].type = type /\ log[i].id = id THEN log[i].stake ELSE 0]
<1>1. high \in Nat /\ \A i \in 1 .. high : log[i] \in Event
  BY DEF Places
<1>2. \A i \in 1 .. high : log[i].type = type => log[i].stake \in Nat
  BY <1>1, EventFields DEF ReplayAssumption
<1>3. f \in [1 .. high -> Nat]
  BY <1>2
<1>4. \A i \in 1 .. high : (i \in Z => f[i] = log[i].stake) /\ (i \notin Z => f[i] = 0)
  BY <1>1 DEF About, Said
<1>5. Z \in SUBSET (1 .. high)
  BY DEF About, Said
<1>6. AmountLogged(type, id, high) = Total(f, high)
  BY DEF AmountLogged
<1> HIDE DEF Z, f
<1>7. Total(f, high) \in Nat
  BY <1>1, <1>3, TotalNat
<1>8. ASSUME Z = {} PROVE Total(f, high) = 0
  <2>1. CASE high = 0
    <3>1. Partial(f, high)[0] = 0
      BY <1>1, <1>3, PartialStep
    <3> QED BY <2>1, <3>1 DEF Total
  <2>2. CASE high # 0
    <3>1. \A i \in 1 .. high : f[i] = 0
      BY <1>4, <1>8
    <3> QED BY <1>1, <1>3, <2>2, <3>1, TotalZero
  <2> QED BY <2>1, <2>2
<1>9. ASSUME NEW i \in Z PROVE log[i].stake <= Total(f, high)
  BY <1>1, <1>3, <1>4, <1>5, <1>9, TotalAtLeast
<1>10. ASSUME NEW i \in Z, \A j \in Z : j = i PROVE Total(f, high) = log[i].stake
  <2>1. i \in 1 .. high /\ f[i] = log[i].stake
    BY <1>4, <1>5
  <2>2. \A j \in 1 .. high : j # i => f[j] = 0
    BY <1>4, <1>10
  <2>3. Total(f, high) = f[i]
    BY <1>1, <1>3, <2>1, <2>2, TotalSingle
  <2> QED BY <2>1, <2>3
<1> QED BY <1>6, <1>7, <1>8, <1>9, <1>10 DEF Z

\* A row that holds the amount of the last deposit.
LEMMA LastDepositShown ==
  ASSUME ReplayAssumption, Places, NEW id, NEW stake,
         NEW deposit \in {"agent.staked", "oracle.staked"}, NEW loss \in {"agent.reduced", "oracle.reduced"},
         NEW s, s = Latest(About(deposit, id, high)), stake = IF s = 0 THEN 0 ELSE log[s].stake
  PROVE  StakeShown(stake, deposit, loss, id)
<1> DEFINE Z   == About(deposit, id, high)
           all == AmountLogged(deposit, id, high)
<1>1. high \in Nat /\ Z \in SUBSET (1 .. high)
  <2>1. high \in Nat /\ high \in 0 .. Len(log)
    BY DEF Places
  <2> QED BY <2>1, AboutIs
<1>2. /\ all \in Nat /\ (Z = {} => all = 0)
      /\ \A i \in Z : log[i].stake <= all /\ ((\A j \in Z : j = i) => all = log[i].stake)
  BY AmountIs
<1>3. About(loss, id, high) = {} => StakeLogged(deposit, loss, id, high) = all
  <2>1. About(loss, id, high) = {} => AmountLogged(loss, id, high) = 0
    BY AmountIs
  <2> HIDE DEF Z
  <2> QED BY <1>2, <2>1 DEF StakeLogged
<1>4. StakeShown(stake, deposit, loss, id) <=>
        /\ stake <= all
        /\ About(loss, id, high) = {} /\ (\A i, j \in Z : i = j)
             => stake = StakeLogged(deposit, loss, id, high)
  BY DEF StakeShown
<1>5. s = Latest(Z)
  OBVIOUS
<1> HIDE DEF Z, all
<1>6. CASE Z = {}
  <2>1. s = 0
    BY <1>1, <1>5, <1>6, LatestIs
  <2> QED BY <1>2, <1>3, <1>4, <1>6, <2>1
<1>7. CASE Z # {}
  <2>1. s \in Z /\ s # 0
    BY <1>1, <1>5, <1>7, LatestIs
  <2>2. stake = log[s].stake
    BY <2>1
  <2>3. stake <= all /\ ((\A i, j \in Z : i = j) => all = stake)
    BY <1>2, <2>1, <2>2
  <2> QED BY <1>3, <1>4, <2>3
<1> QED BY <1>6, <1>7

LEMMA AgentsSound ==
  ASSUME RowsInv, NEW a \in Agent, cursor = high, missed = {}
  PROVE  AgentAsLogged(a)
<1>0. Places
  BY DEF RowsInv
<1>1. PICK c, s, w : AgentAs(a, c, s, w)
  BY DEF RowsInv, AgentRows
<1> DEFINE Zr == About("agent.registered", a, high)
           Zs == About("agent.staked", a, high)
           Zon == About("agent.activated", a, high)
           Zoff == About("agent.deactivated", a, high)
<1>2. (c = 0 <=> Zr = {}) /\ s = Latest(Zs)
  BY <1>0, <1>1, ReflectsLatest DEF AgentAs
<1>3. high \in Nat /\ high \in 0 .. Len(log)
  BY <1>0 DEF Places
<1>4. /\ Zon = {i \in Entries({"agent.activated"}, a) : i <= high} /\ Zon \in SUBSET (1 .. high)
      /\ Zoff = {i \in Entries({"agent.deactivated"}, a) : i <= high} /\ Zoff \in SUBSET (1 .. high)
  BY <1>0, <1>3, AboutIs
<1>5. /\ \A i \in Zon : i \in Entries(Switching, a) /\ log[i].type = "agent.activated"
      /\ \A i \in Zoff : i \in Entries(Switching, a) /\ log[i].type = "agent.deactivated"
  BY <1>4 DEF Entries, Switching
<1>6. w # 0 => w \in Zon \cup Zoff
  <2>1. w # 0 => w \in Entries(Switching, a) /\ w <= high
    BY <1>1 DEF AgentAs, Reflects
  <2> QED BY <1>4, <2>1 DEF Entries, Switching
<1>7. w \in Nat /\ \A i \in Zon \cup Zoff : i <= w
  <2>1. \A i \in Entries(Switching, a) : i \in 1 .. Len(log)
    BY <1>0, EntriesStep
  <2>2. w \in Entries(Switching, a) \cup {0} /\ \A i \in Entries(Switching, a) : ~(w < i /\ i <= high)
    BY <1>1 DEF AgentAs, Reflects
  <2>3. w \in Nat
    BY <2>1, <2>2
  <2>4. ASSUME NEW i \in Zon \cup Zoff PROVE i <= w
    <3>1. i \in Entries(Switching, a) /\ i \in 1 .. high
      BY <1>4, <1>5
    <3> QED BY <1>3, <2>2, <2>3, <3>1
  <2> QED BY <2>3, <2>4
<1>8. /\ Zon = {} => Latest(Zon) = 0
      /\ Zon # {} => Latest(Zon) \in Zon /\ \A j \in Zon : j <= Latest(Zon)
  <2> HIDE DEF Zon, Zoff
  <2> QED BY <1>3, <1>4, LatestIs
<1>9. /\ Zoff = {} => Latest(Zoff) = 0
      /\ Zoff # {} => Latest(Zoff) \in Zoff /\ \A j \in Zoff : j <= Latest(Zoff)
  <2> HIDE DEF Zon, Zoff
  <2> QED BY <1>3, <1>4, LatestIs
<1>10. (w # 0 /\ log[w].type = "agent.activated") <=> Latest(Zon) > Latest(Zoff)
  <2>0. Zon \in SUBSET (1 .. high) /\ Zoff \in SUBSET (1 .. high)
    BY <1>4
  <2> HIDE DEF Zon, Zoff
  <2> DEFINE lon == Latest(Zon)
             loff == Latest(Zoff)
  <2>1. lon \in Nat /\ loff \in Nat
    <3>1. \A i \in Zon \cup Zoff : i \in Nat
      BY <1>3, <2>0
    <3>2. lon \in Zon \cup {0}
      BY <1>8
    <3>3. loff \in Zoff \cup {0}
      BY <1>9
    <3> HIDE DEF lon, loff
    <3> QED BY <3>1, <3>2, <3>3
  <2>2. (lon # 0 => lon \in Zon) /\ (loff # 0 => loff \in Zoff)
    BY <1>8, <1>9
  <2>3. \A i \in Zon : i <= lon /\ i > 0
    BY <1>3, <1>8, <2>0
  <2>4. \A i \in Zoff : i <= loff /\ i > 0
    BY <1>3, <1>9, <2>0
  <2> HIDE DEF lon, loff
  <2>5. lon <= w /\ loff <= w
    BY <1>7, <2>1, <2>2
  <2>6. CASE w = 0
    <3>1. lon = 0 /\ loff = 0
      BY <2>1, <2>5, <2>6
    <3> QED BY <2>6, <3>1 DEF lon, loff
  <2>7. CASE w \in Zon
    <3>1. lon = w /\ w # 0
      BY <1>7, <2>1, <2>3, <2>5, <2>7
    <3>2. loff # w
      BY <1>5, <2>2, <2>7, <3>1
    <3>3. lon > loff
      BY <1>7, <2>1, <2>5, <3>1, <3>2
    <3> QED BY <1>5, <2>7, <3>1, <3>3 DEF lon, loff
  <2>8. CASE w \in Zoff
    <3>1. loff = w
      BY <1>7, <2>1, <2>4, <2>5, <2>8
    <3>2. ~(lon > loff)
      BY <1>7, <2>1, <2>5, <3>1
    <3> QED BY <1>5, <2>8, <3>2 DEF lon, loff
  <2> QED BY <1>6, <2>6, <2>7, <2>8
<1>11. StakeShown(AgentRowAt(s, w).stake, "agent.staked", "agent.reduced", a)
  <2>1. AgentRowAt(s, w).stake = IF s = 0 THEN 0 ELSE log[s].stake
    BY DEF AgentRowAt
  <2> QED BY <1>0, <1>2, <2>1, LastDepositShown DEF RowsInv
<1>12. AgentRowAt(s, w).active = AgentActive(a, high)
  <2>1. AgentRowAt(s, w).active = (w # 0 /\ log[w].type = "agent.activated")
    BY DEF AgentRowAt
  <2>2. AgentActive(a, high) = (Latest(Zon) > Latest(Zoff))
    BY DEF AgentActive, ActiveLogged
  <2> HIDE DEF Zon, Zoff
  <2> QED BY <1>10, <2>1, <2>2
<1>13. AgentRowAt(s, w) # NoRow
  BY DEF AgentRowAt, NoRow
<1>14. Registered("agent.registered", a, high) <=> c # 0
  BY <1>2 DEF Registered
<1>15. agents[a] = IF c = 0 THEN NoRow ELSE AgentRowAt(s, w)
  BY <1>1 DEF AgentAs
<1> QED BY <1>11, <1>12, <1>13, <1>14, <1>15 DEF AgentAsLogged

LEMMA OraclesSound ==
  ASSUME RowsInv, NEW o \in Oracle, cursor = high, missed = {}
  PROVE  OracleAsLogged(o)
<1>0. Places
  BY DEF RowsInv
<1>1. PICK c, s : OracleAs(o, c, s)
  BY DEF RowsInv, OracleRows
<1> DEFINE Zr == About("oracle.registered", o, high)
           Zs == About("oracle.staked", o, high)
<1>2. (c = 0 <=> Zr = {}) /\ s = Latest(Zs) /\ (s = 0 <=> Zs = {})
  BY <1>0, <1>1, ReflectsLatest DEF OracleAs
<1>3. high \in Nat /\ high \in 0 .. Len(log)
  BY <1>0 DEF Places
<1>4. StakeShown(OracleRowAt(s).stake, "oracle.staked", "oracle.reduced", o)
  <2>1. OracleRowAt(s).stake = IF s = 0 THEN 0 ELSE log[s].stake
    BY DEF OracleRowAt
  <2> QED BY <1>0, <1>2, <2>1, LastDepositShown DEF RowsInv
<1>5. OracleRowAt(s).active <=> Zs # {}
  BY <1>2 DEF OracleRowAt
<1>6. ASSUME Zs # {} PROVE OracleActive(o, high) \/ About("oracle.deactivated", o, high) # {}
  <2>1. PICK i : i \in Entries({"oracle.staked"}, o) /\ i \in 1 .. high
    <3>1. Zs = {i \in Entries({"oracle.staked"}, o) : i <= high} /\ Zs \in SUBSET (1 .. high)
      BY <1>0, <1>3, AboutIs
    <3> QED BY <1>6, <3>1
  <2>2. PICK j : j \in Entries({"oracle.activated"}, o) /\ j < i
    BY <2>1 DEF RowsInv, ActivatedFirst
  <2>3. j \in 1 .. Len(log) /\ j <= high
    BY <1>0, <1>3, <2>1, <2>2, EntriesStep
  <2>4. About("oracle.activated", o, high) # {}
    <3>1. About("oracle.activated", o, high) = {k \in Entries({"oracle.activated"}, o) : k <= high}
      BY <1>0, <1>3, AboutIs
    <3> QED BY <2>2, <2>3, <3>1
  <2> QED BY <1>0, <1>3, <2>4, ActiveHas DEF OracleActive
<1>7. OracleRowAt(s) # NoRow
  BY DEF OracleRowAt, NoRow
<1>8. Registered("oracle.registered", o, high) <=> c # 0
  BY <1>2 DEF Registered
<1>9. oracles[o] = IF c = 0 THEN NoRow ELSE OracleRowAt(s)
  BY <1>1 DEF OracleAs
<1> QED BY <1>4, <1>5, <1>6, <1>7, <1>8, <1>9 DEF OracleAsLogged

LEMMA RowsSound == RowsInv => RowsAsLogged
<1> SUFFICES ASSUME RowsInv PROVE RowsAsLogged
  OBVIOUS
<1>1. ReplayTypeOK
  BY DEF RowsInv, Places, Amounts, ReplayTypeOK
<1> QED BY <1>1, MarketsSound, AgentsSound, OraclesSound DEF RowsAsLogged

\* Wherever replays were cut short and started again, and wherever the consumer
\* died: when the last event known has been applied again and none was passed over,
\* markets say what the log says, and agents and oracles what their handlers take from
\* it: the last deposit for the stake, which is the stake if there was one deposit and
\* no loss.  A shown outcome is the log's at any time.
THEOREM RowsAsLoggedHolds == ReplaySpec => []RowsAsLogged
BY RowsInit, RowsStep, RowsSound, PTL DEF ReplaySpec

-----------------------------------------------------------------------------
(* Positions *)

\* What an event makes of a position, and the positions after each event.
Moved(x, e, u, v) ==
  IF e.type = "yield.rebalanced" /\ e.user = u THEN e.to[v]
  ELSE IF e.type \in {"yield.deposited", "yield.withdrawn"} /\ e.user = u /\ e.vault = v
       THEN x + (IF e.type = "yield.deposited" THEN e.amount ELSE -e.amount)
       ELSE x
Held(s, u, v, n) == LET held[i \in 0 .. n] == IF i = 0 THEN 0 ELSE Moved(held[i - 1], s[i], u, v) IN held

LEMMA PositionIsHeld ==
  ASSUME NEW u, NEW v, NEW n
  PROVE  Position(u, v, n) = Held(log, u, v, n)[n]
  BY DEF Position, Held, Moved

\* The recursive definition has a solution, so Held satisfies it.
LEMMA HeldDef ==
  ASSUME NEW s, NEW u, NEW v, NEW n \in Nat
  PROVE  Held(s, u, v, n) = [i \in 0 .. n |-> IF i = 0 THEN 0 ELSE Moved(Held(s, u, v, n)[i - 1], s[i], u, v)]
<1> DEFINE Solves(g, m) == g = [i \in 0 .. m |-> IF i = 0 THEN 0 ELSE Moved(g[i - 1], s[i], u, v)]
           T == {m \in Nat : \E g : Solves(g, m)}
<1>1. 0 \in T
  <2>1. Solves([i \in 0 .. 0 |-> 0], 0)
    OBVIOUS
  <2> QED BY <2>1
<1>2. ASSUME NEW m \in Nat, m \in T PROVE m + 1 \in T
  <2>1. PICK g : Solves(g, m)
    BY <1>2
  <2> DEFINE h == [i \in 0 .. m + 1 |-> IF i = m + 1 THEN Moved(g[m], s[m + 1], u, v) ELSE g[i]]
  <2>2. ASSUME NEW i \in 0 .. m + 1 PROVE h[i] = IF i = 0 THEN 0 ELSE Moved(h[i - 1], s[i], u, v)
    <3>1. CASE i = 0
      BY <2>1, <3>1
    <3>2. CASE i = m + 1
      BY <3>2
    <3>3. CASE i \in 1 .. m
      BY <2>1, <3>3
    <3> QED BY <3>1, <3>2, <3>3
  <2>3. h = [i \in 0 .. m + 1 |-> h[i]]
    OBVIOUS
  <2> HIDE DEF h
  <2>4. Solves(h, m + 1)
    BY <2>2, <2>3
  <2> QED BY <2>4
<1>3. \A m \in Nat : m \in T
  <2>1. T \in SUBSET Nat
    OBVIOUS
  <2> HIDE DEF T
  <2> QED BY <1>1, <1>2, <2>1, SetInduction
<1>4. PICK g : Solves(g, n)
  BY <1>3
<1> QED BY <1>4 DEF Held

\* The positions after k events depend on those events alone.
LEMMA HeldAgree ==
  ASSUME NEW s, NEW t, NEW u, NEW v, NEW n \in Nat, NEW m \in Nat, NEW k \in Nat, k <= n, k <= m,
         \A i \in 1 .. k : s[i] = t[i]
  PROVE  Held(s, u, v, n)[k] = Held(t, u, v, m)[k]
<1> DEFINE f == Held(s, u, v, n)
           g == Held(t, u, v, m)
           T == {i \in Nat : i <= k => f[i] = g[i]}
<1>1. /\ f = [i \in 0 .. n |-> IF i = 0 THEN 0 ELSE Moved(f[i - 1], s[i], u, v)]
      /\ g = [i \in 0 .. m |-> IF i = 0 THEN 0 ELSE Moved(g[i - 1], t[i], u, v)]
  BY HeldDef
<1> HIDE DEF f, g
<1>2. 0 \in T
  BY <1>1
<1>3. ASSUME NEW i \in Nat, i \in T PROVE i + 1 \in T
  <2>1. SUFFICES ASSUME i + 1 <= k PROVE f[i + 1] = g[i + 1]
    OBVIOUS
  <2>2. f[i] = g[i] /\ s[i + 1] = t[i + 1]
    BY <1>3, <2>1
  <2>3. f[i + 1] = Moved(f[i], s[i + 1], u, v) /\ g[i + 1] = Moved(g[i], t[i + 1], u, v)
    BY <1>1, <2>1
  <2> QED BY <2>2, <2>3
<1>4. \A i \in Nat : i \in T
  <2>1. T \in SUBSET Nat
    OBVIOUS
  <2> HIDE DEF T
  <2> QED BY <1>2, <1>3, <2>1, SetInduction
<1> QED BY <1>4 DEF f, g

\* A position after one event more.
LEMMA HeldStep ==
  ASSUME NEW s, NEW u, NEW v, NEW n \in Nat
  PROVE  Held(s, u, v, n + 1)[n + 1] = Moved(Held(s, u, v, n)[n], s[n + 1], u, v)
<1>1. Held(s, u, v, n + 1)[n + 1] = Moved(Held(s, u, v, n + 1)[n], s[n + 1], u, v)
  <2> DEFINE f == Held(s, u, v, n + 1)
  <2>1. f = [i \in 0 .. n + 1 |-> IF i = 0 THEN 0 ELSE Moved(f[i - 1], s[i], u, v)]
    BY HeldDef
  <2> HIDE DEF f
  <2>2. f[n + 1] = Moved(f[n + 1 - 1], s[n + 1], u, v)
    BY <2>1
  <2> QED BY <2>2 DEF f
<1>2. Held(s, u, v, n + 1)[n] = Held(s, u, v, n)[n]
  BY HeldAgree
<1> QED BY <1>1, <1>2

LEMMA HeldZero ==
  ASSUME NEW s, NEW u, NEW v, NEW n \in Nat
  PROVE  Held(s, u, v, n)[0] = 0
<1> DEFINE f == Held(s, u, v, n)
<1>1. f = [i \in 0 .. n |-> IF i = 0 THEN 0 ELSE Moved(f[i - 1], s[i], u, v)]
  BY HeldDef
<1> HIDE DEF f
<1>2. f[0] = 0
  BY <1>1
<1> QED BY <1>2 DEF f

\* The submissions among the first n events of the log.
Submitting(e, o, m, b) == e.type = "oracle.submitted" /\ e.id = o /\ e.market = m /\ e.outcome = b
Submitted(s, o, m, b, n) == {i \in 1 .. n : Submitting(s[i], o, m, b)}

LEMMA SubmittedCount ==
  ASSUME NEW s, NEW o, NEW m, NEW b, NEW n \in Nat
  PROVE  /\ Cardinality(Submitted(s, o, m, b, n)) \in Nat
         /\ Cardinality(Submitted(s, o, m, b, n + 1)) =
              Cardinality(Submitted(s, o, m, b, n)) + (IF Submitting(s[n + 1], o, m, b) THEN 1 ELSE 0)
<1>1. IsFiniteSet(Submitted(s, o, m, b, n))
  <2>1. IsFiniteSet(1 .. n) /\ Submitted(s, o, m, b, n) \subseteq 1 .. n
    BY FS_Interval DEF Submitted
  <2> QED BY <2>1, FS_Subset
<1>2. n + 1 \notin Submitted(s, o, m, b, n)
  BY DEF Submitted
<1>3. CASE Submitting(s[n + 1], o, m, b)
  <2>1. Submitted(s, o, m, b, n + 1) = Submitted(s, o, m, b, n) \cup {n + 1}
    BY <1>3 DEF Submitted
  <2> QED BY <1>1, <1>2, <1>3, <2>1, FS_AddElement, FS_CardinalityType
<1>4. CASE ~Submitting(s[n + 1], o, m, b)
  <2>1. Submitted(s, o, m, b, n + 1) = Submitted(s, o, m, b, n)
    BY <1>4 DEF Submitted
  <2> QED BY <1>1, <1>4, <2>1, FS_CardinalityType
<1> QED BY <1>3, <1>4

\* As long as every event is applied once, and in order, the positions and the
\* submissions are those of the events applied, if none of these was missed.
Once == ~repeated /\ \A i \in 1 .. high : i \notin missed
PositionsExact   == \A u \in User, v \in Vault : positions[<<u, v>>] = Held(log, u, v, high)[high]
SubmissionsExact == \A o \in Oracle, m \in Market, b \in BOOLEAN :
                      submissions[<<o, m, b>>] = Cardinality(Submitted(log, o, m, b, high))
OnceInv ==
  /\ ReplayAssumption /\ Places /\ Amounts /\ submissions \in [Oracle \X Market \X BOOLEAN -> Nat]
  /\ Once => PositionsExact /\ SubmissionsExact

LEMMA OnceInit == ReplayInit => OnceInv
<1> SUFFICES ASSUME ReplayAssumption, ReplayInit PROVE OnceInv
  BY ReplayAssumption
<1>1. high = 0 /\ positions = [p \in User \X Vault |-> 0] /\ submissions = [q \in Oracle \X Market \X BOOLEAN |-> 0]
      /\ deposited = [v \in Vault |-> 0]
  BY DEF ReplayInit
<1>2. PositionsExact
  <2>1. \A u \in User, v \in Vault : Held(log, u, v, high)[0] = 0
    BY <1>1, HeldZero
  <2> QED BY <1>1, <2>1 DEF PositionsExact
<1>3. SubmissionsExact
  <2>1. \A o \in Oracle, m \in Market, b \in BOOLEAN : Submitted(log, o, m, b, 0) = {}
    BY DEF Submitted
  <2> QED BY <1>1, <2>1, FS_EmptySet DEF SubmissionsExact
<1> QED BY <1>1, <1>2, <1>3, PlacesInit DEF OnceInv, Amounts

LEMMA OnceQuiet ==
  ASSUME OnceInv, Quiet, Places' PROVE OnceInv'
<1>1. /\ positions' = positions /\ deposited' = deposited /\ submissions' = submissions
      /\ high' = high /\ (Once' => Once)
  BY DEF Quiet, Rewinds, Skips, Grows, tables, yields, engine, Once
<1>2. high \in Nat /\ high <= Len(log) /\ \A i \in 1 .. high : log'[i] = log[i]
  <2>1. high \in Nat /\ high <= Len(log) /\ high \in 0 .. Len(log) /\ Len(log) \in Nat
    BY DEF OnceInv, Places
  <2>2. log' = log \/ \E e \in Event : Grows(e)
    BY DEF Quiet, Rewinds, Skips
  <2>3. \A i \in 1 .. Len(log) : log'[i] = log[i]
    BY <2>2, EntriesStep DEF OnceInv
  <2> QED BY <2>1, <2>3
<1>3. PositionsExact => PositionsExact'
  <2>1. \A u \in User, v \in Vault : Held(log', u, v, high)[high] = Held(log, u, v, high)[high]
    BY <1>2, HeldAgree
  <2> QED BY <1>1, <2>1 DEF PositionsExact
<1>4. SubmissionsExact => SubmissionsExact'
  <2>1. \A o, m, b : Submitted(log', o, m, b, high) = Submitted(log, o, m, b, high)
    BY <1>2 DEF Submitted
  <2> QED BY <1>1, <2>1 DEF SubmissionsExact
<1> QED BY <1>1, <1>3, <1>4 DEF OnceInv, Amounts, ReplayAssumption

\* What a handler makes of a position, and of the submissions.
LEMMA HandledPosition ==
  ASSUME Amounts, NEW e \in Event, Handle(e), NEW u \in User, NEW v \in Vault
  PROVE  positions'[<<u, v>>] = Moved(positions[<<u, v>>], e, u, v)
<1>1. CASE e.type = "yield.deposited"
  <2>1. positions' = [positions EXCEPT ![<<e.user, e.vault>>] = positions[<<e.user, e.vault>>] + e.amount]
    BY <1>1, Handlers DEF YieldDeposited, RecordDeposit
  <2> QED BY <1>1, <2>1 DEF Amounts, Moved
<1>2. CASE e.type = "yield.withdrawn"
  <2>1. positions' = [positions EXCEPT ![<<e.user, e.vault>>] = positions[<<e.user, e.vault>>] - e.amount]
    BY <1>2, Handlers DEF YieldWithdrawn, RecordWithdrawal
  <2>2. \A x, y \in Int : x - y = x + (-y)
    OBVIOUS
  <2> QED BY <1>2, <2>1, <2>2 DEF Amounts, Moved
<1>3. CASE e.type = "yield.rebalanced"
  <2>1. positions' = [q \in User \X Vault |-> IF q[1] = e.user THEN e.to[q[2]] ELSE positions[q]]
    BY <1>3, Handlers DEF YieldRebalanced, ApplyRebalance
  <2> QED BY <1>3, <2>1 DEF Moved
<1>4. CASE e.type \notin {"yield.deposited", "yield.withdrawn", "yield.rebalanced"}
  BY <1>4, Handlers DEF yields, Moved
<1> QED BY <1>1, <1>2, <1>3, <1>4

LEMMA HandledSubmission ==
  ASSUME submissions \in [Oracle \X Market \X BOOLEAN -> Nat], NEW e \in Event, Handle(e)
  PROVE  /\ submissions' \in [Oracle \X Market \X BOOLEAN -> Nat]
         /\ \A o \in Oracle, m \in Market, b \in BOOLEAN : submissions'[<<o, m, b>>] =
              submissions[<<o, m, b>>] + (IF Submitting(e, o, m, b) THEN 1 ELSE 0)
<1>1. CASE e.type = "oracle.submitted"
  <2>1. submissions' = [submissions EXCEPT ![<<e.id, e.market, e.outcome>>] = submissions[<<e.id, e.market, e.outcome>>] + 1]
    BY <1>1, Handlers DEF OracleSubmitted, RecordOracleSubmission
  <2>2. e.id \in Oracle /\ e.market \in Market /\ e.outcome \in BOOLEAN
    BY <1>1, EventFields
  <2> QED BY <1>1, <2>1, <2>2 DEF Submitting
<1>2. CASE e.type # "oracle.submitted"
  BY <1>2, Handlers DEF Submitting
<1> QED BY <1>1, <1>2

LEMMA OnceApplied ==
  ASSUME OnceInv, Applies, Places', Amounts', ~Refused(log[cursor + 1]), Handle(log[cursor + 1])
  PROVE  OnceInv'
<1>1. log[cursor + 1] \in Event /\ log' = log /\ cursor \in Nat /\ high \in Nat
  BY DEF OnceInv, Places, Applies
<1>2. submissions' \in [Oracle \X Market \X BOOLEAN -> Nat]
  BY <1>1, HandledSubmission DEF OnceInv
<1>3. ASSUME Once' PROVE PositionsExact' /\ SubmissionsExact'
  <2>1. ~repeated /\ high <= cursor /\ high' = cursor + 1
    <3>1. ~repeated /\ ~(cursor < high)
      BY <1>3, Zenon DEF Once, Applies
    <3> QED BY <1>1, <3>1 DEF Applies
  <2>2. \A i \in 1 .. cursor : i \notin missed /\ i <= high
    BY <1>1, <1>3, <2>1 DEF Once, Applies, OnceInv, Places
  <2>3. cursor = high
    BY <1>1, <2>1, <2>2
  <2>4. PositionsExact /\ SubmissionsExact
    BY <2>1, <2>2, <2>3 DEF Once, OnceInv
  <2>5. high' = high + 1
    BY <2>1, <2>3
  <2>6. PositionsExact'
    <3>1. ASSUME NEW u \in User, NEW v \in Vault
          PROVE  positions'[<<u, v>>] = Held(log, u, v, high + 1)[high + 1]
      <4>1. positions'[<<u, v>>] = Moved(positions[<<u, v>>], log[high + 1], u, v)
        BY <1>1, <2>3, HandledPosition DEF OnceInv
      <4>2. positions[<<u, v>>] = Held(log, u, v, high)[high]
        BY <2>4 DEF PositionsExact
      <4> QED BY <1>1, <4>1, <4>2, HeldStep
    <3> QED BY <1>1, <2>5, <3>1 DEF PositionsExact
  <2>7. SubmissionsExact'
    <3>1. ASSUME NEW o \in Oracle, NEW m \in Market, NEW b \in BOOLEAN
          PROVE  submissions'[<<o, m, b>>] = Cardinality(Submitted(log, o, m, b, high + 1))
      <4>1. submissions'[<<o, m, b>>] = submissions[<<o, m, b>>] + (IF Submitting(log[high + 1], o, m, b) THEN 1 ELSE 0)
        BY <1>1, <2>3, HandledSubmission DEF OnceInv
      <4>2. submissions[<<o, m, b>>] = Cardinality(Submitted(log, o, m, b, high))
        BY <2>4 DEF SubmissionsExact
      <4> QED BY <1>1, <4>1, <4>2, SubmittedCount
    <3> QED BY <1>1, <2>5, <3>1 DEF SubmissionsExact
  <2> QED BY <2>6, <2>7
<1> QED BY <1>2, <1>3 DEF OnceInv, ReplayAssumption

LEMMA OnceStep == OnceInv /\ [ReplayNext]_replayVars => OnceInv'
<1> SUFFICES ASSUME OnceInv, [ReplayNext]_replayVars PROVE OnceInv'
  OBVIOUS
<1>1. Places' /\ Amounts'
  BY PlacesStep, AmountsStep DEF OnceInv
<1> QED BY <1>1, OnceQuiet, OnceApplied, StepKinds DEF Quiet, OnceInv

LEMMA SameCardinality == \A S : Cardinality(S) = Cardinality(S)
  BY DEF Cardinality, Cardinality

LEMMA OnceSound == OnceInv => OnceIsExact
<1> SUFFICES ASSUME OnceInv PROVE OnceIsExact
  OBVIOUS
<1>1. ~repeated /\ missed = {} => PositionsExact /\ SubmissionsExact
  BY DEF OnceInv, Once
<1>2. PositionsExact => \A u \in User, v \in Vault : positions[<<u, v>>] = Position(u, v, high)
  BY PositionIsHeld DEF PositionsExact
<1>3. ASSUME NEW o \in Oracle, NEW m \in Market, NEW b \in BOOLEAN
      PROVE  Submitted(log, o, m, b, high) = SubmissionsLogged(o, m, b, high)
  BY DEF Submitted, Submitting, SubmissionsLogged, Said
<1>4. SubmissionsExact => \A o \in Oracle, m \in Market, b \in BOOLEAN :
        submissions[<<o, m, b>>] = Cardinality(SubmissionsLogged(o, m, b, high))
  BY <1>3, SameCardinality DEF SubmissionsExact
<1> HIDE DEF PositionsExact, SubmissionsExact
<1> QED BY <1>1, <1>2, <1>4, SameCardinality DEF OnceIsExact

\* As long as every event is applied once, the yield positions and the
\* submissions are those of the log, for any log.
THEOREM OnceIsExactHolds == ReplaySpec => []OnceIsExact
BY OnceInit, OnceStep, OnceSound, PTL DEF ReplaySpec

\* The committed offset passes over an event only if its handler failed.
THEOREM OnlyFailuresPassHolds == ReplaySpec => []OnlyFailuresPass
<1>1. Places => OnlyFailuresPass
  BY DEF Places, OnlyFailuresPass
<1>2. QED BY PlacesInit, PlacesStep, <1>1, PTL DEF ReplaySpec
=============================================================================
