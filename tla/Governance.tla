---------------------------- MODULE Governance ----------------------------
(***************************************************************************)
(* The DAO (governance/DAO.sol) and its timelock (governance/Timelock.sol),*)
(* wired to each other, governing a ParameterController.  The voting token *)
(* is external: the DAO reads it only through getPastVotes.                *)
(*                                                                         *)
(* Every block has a later timestamp than the one before it.  The DAO      *)
(* compares block numbers with block numbers and timestamps with           *)
(* timestamps, so one clock, now, stands for both.                         *)
(***************************************************************************)
EXTENDS Sums, ParameterController, FiniteSets

CONSTANTS
  NumVoters,          \* token holders are the accounts 1 .. NumVoters
  InitialVotes,       \* voting power at genesis
  VotingDelay, VotingPeriod, Quorum, ProposalThreshold,  \* DAO constructor
  MinDelay,           \* Timelock constructor
  Calls,              \* calls a proposal may carry, and anybody may hand to the timelock
  NoCall,             \* the call of a proposal that does not exist
  Delays,             \* delays a caller of queueProposal may ask for
  MaxProposals, MaxTime,  \* bounds of the model
  LastTransfer            \* bound: power moves up to this block

Voter == 1 .. NumVoters
ProposalId == 1 .. MaxProposals
Time == 0 .. MaxTime

ASSUME GovernanceAssumption ==
  /\ NumVoters \in Nat \ {0}
  /\ InitialVotes \in [1 .. NumVoters -> Nat]
  /\ VotingDelay \in Nat
  /\ VotingPeriod \in Nat \ {0}
  /\ Quorum \in Nat /\ ProposalThreshold \in Nat
  /\ MinDelay \in Nat /\ Delays \subseteq Nat
  /\ \A call \in Calls :
       \/ call \in [fn : {"setBounds"}, key : Key, min : Nat, max : Nat]
       \/ call \in [fn : {"setUint"}, key : Key, value : Nat]
       \/ call \in [fn : {"setBool"}, key : Key, value : BOOLEAN]
       \/ call \in [fn : {"setAddress"}, key : Key, value : Address]
       \/ call \in [fn : {"noop"}]
  /\ MaxProposals \in Nat /\ MaxTime \in Nat /\ LastTransfer \in Nat

VARIABLES
  now,              \* block.number and block.timestamp
  votes,            \* token: voting power of each holder
  pastVotes,        \* token: voting power at the end of the block before
  snapshot,         \* token: voting power at the end of each proposal's startBlock
  nextProposalId, proposals, hasVoted,     \* DAO
  queuedActions, executed,                 \* Timelock, per action id
  performed                                \* history: every call the timelock made

token    == <<votes, pastVotes, snapshot>>
dao      == <<nextProposalId, proposals, hasVoted>>
timelock == <<queuedActions, executed, performed>>
vars     == <<now, token, dao, timelock, paramVars>>

Supply == Total(InitialVotes, NumVoters)

\* The id of an action is keccak256(target, data, block.timestamp) at its queueing.
ActionId == Calls \X Time

\* The zero value every storage slot of a mapping starts with.
EmptyProposal ==
  [call |-> NoCall, startBlock |-> 0, forVotes |-> 0, againstVotes |-> 0,
   queued |-> FALSE, executed |-> FALSE, executeAfter |-> 0, queuedAt |-> 0]

Exists(p) == p < nextProposalId

EndBlock(p) == proposals[p].startBlock + VotingPeriod

Action(p) == <<proposals[p].call, proposals[p].queuedAt>>

\* A call that the timelock made: under which id, what it called, and when.
Performed == [id : ActionId, call : Calls, at : Time]

-----------------------------------------------------------------------------
GovInit ==
  /\ now = 0
  /\ votes = InitialVotes
  /\ pastVotes = InitialVotes
  /\ snapshot = [p \in ProposalId |-> InitialVotes]
  /\ nextProposalId = 1
  /\ proposals = [p \in ProposalId |-> EmptyProposal]
  /\ hasVoted = [p \in ProposalId |-> [v \in Voter |-> FALSE]]
  /\ queuedActions = [a \in ActionId |-> 0]
  /\ executed = [a \in ActionId |-> FALSE]
  /\ performed = {}
  /\ ParamInit

\* The next block.  The token checkpoints the power every holder ends this one with.
Tick ==
  /\ now < MaxTime
  /\ now' = now + 1
  /\ pastVotes' = votes
  /\ snapshot' = [p \in ProposalId |->
       IF Exists(p) /\ proposals[p].startBlock = now THEN votes ELSE snapshot[p]]
  /\ UNCHANGED <<votes, dao, timelock, paramVars>>

\* Voting power moves between holders: a transfer or a change of delegate.
Transfer(v, w, n) ==
  /\ v # w /\ n > 0 /\ n <= votes[v]
  /\ now <= LastTransfer
  /\ votes' = [votes EXCEPT ![v] = @ - n, ![w] = @ + n]
  /\ UNCHANGED <<now, pastVotes, snapshot, dao, timelock, paramVars>>

CreateProposal(v, call) ==
  /\ nextProposalId <= MaxProposals
  /\ now + VotingDelay + VotingPeriod + MinDelay < MaxTime   \* bound: time to execute it
  /\ pastVotes[v] >= ProposalThreshold
  /\ nextProposalId' = nextProposalId + 1
  /\ proposals' = [proposals EXCEPT ![nextProposalId] =
       [EmptyProposal EXCEPT !.call = call, !.startBlock = now + VotingDelay]]
  /\ UNCHANGED <<now, token, hasVoted, timelock, paramVars>>

\* Mutant: the weight is what the voter holds now.
CurrentPower(v, p) == votes[v]

\* getPastVotes(v, startBlock): the token answers for past blocks only.
PowerAtStart(v, p) == snapshot[p][v]

\* The DAO accepts a vote from startBlock on, the token from the block after it.
Vote(v, p, support) ==
  /\ Exists(p)
  /\ proposals[p].startBlock < now /\ now <= EndBlock(p)
  /\ ~hasVoted[p][v]
  /\ PowerAtStart(v, p) > 0
  /\ hasVoted' = [hasVoted EXCEPT ![p][v] = TRUE]
  /\ IF support
       THEN proposals' = [proposals EXCEPT ![p].forVotes = @ + PowerAtStart(v, p)]
       ELSE proposals' = [proposals EXCEPT ![p].againstVotes = @ + PowerAtStart(v, p)]
  /\ UNCHANGED <<now, token, nextProposalId, timelock, paramVars>>

\* Timelock.queue, called by the DAO.  Mutants: no minimum; a queued id is replaced.
TimelockQueueAny(a, delay) ==
  /\ queuedActions[a] = 0
  /\ queuedActions' = [queuedActions EXCEPT ![a] = now + delay]
  /\ UNCHANGED <<executed, performed>>

TimelockRequeue(a, delay) ==
  /\ delay >= MinDelay
  /\ queuedActions' = [queuedActions EXCEPT ![a] = now + delay]
  /\ UNCHANGED <<executed, performed>>

TimelockQueue(a, delay) ==
  /\ delay >= MinDelay
  /\ queuedActions[a] = 0
  /\ queuedActions' = [queuedActions EXCEPT ![a] = now + delay]
  /\ UNCHANGED <<executed, performed>>

\* Anybody may queue a proposal that won, with any delay the timelock accepts.
QueueProposal(p, delay) ==
  /\ Exists(p)
  /\ now > EndBlock(p)
  /\ ~proposals[p].queued
  /\ ~proposals[p].executed
  /\ proposals[p].forVotes >= Quorum
  /\ proposals[p].forVotes > proposals[p].againstVotes
  /\ now + delay <= MaxTime   \* bound: the delay ends within the model's time
  /\ proposals' = [proposals EXCEPT ![p].queued = TRUE, ![p].queuedAt = now,
                                    ![p].executeAfter = now + delay]
  /\ TimelockQueue(<<proposals[p].call, now>>, delay)
  /\ UNCHANGED <<now, token, nextProposalId, hasVoted, paramVars>>

\* What the timelock can call: a setter of the parameter store, which may revert, or
\* a function that changes nothing here, such as the DAO's noop or another contract's.
Perform(call) ==
  \/ call.fn = "noop" /\ UNCHANGED paramVars
  \/ Call(call)

\* Mutant: an action that is not executed when its delay ends expires.
TimelockExecuteOnTheDot(call, a) ==
  /\ queuedActions[a] >= 1
  /\ ~executed[a]
  /\ now = queuedActions[a]
  /\ executed' = [executed EXCEPT ![a] = TRUE]
  /\ performed' = performed \cup {[id |-> a, call |-> call, at |-> now]}
  /\ Perform(call)
  /\ UNCHANGED queuedActions

\* Timelock.execute(target, data, actionId).  The id decides whether and when, the
\* caller's target and data decide what: the two are not compared.
TimelockExecute(call, a) ==
  /\ queuedActions[a] >= 1
  /\ ~executed[a]
  /\ now >= queuedActions[a]
  /\ executed' = [executed EXCEPT ![a] = TRUE]
  /\ performed' = performed \cup {[id |-> a, call |-> call, at |-> now]}
  /\ Perform(call)
  /\ UNCHANGED queuedActions

\* The DAO hands over the proposal's own call with its id.
ExecuteProposal(p) ==
  /\ Exists(p)
  /\ proposals[p].queued
  /\ ~proposals[p].executed
  /\ now >= proposals[p].executeAfter
  /\ proposals' = [proposals EXCEPT ![p].executed = TRUE]
  /\ TimelockExecute(proposals[p].call, Action(p))
  /\ UNCHANGED <<now, token, nextProposalId, hasVoted>>

\* Timelock.execute is open to any caller, who may name any call and any id, with no
\* word to the DAO.  (A call of the DAO or of the timelock itself, made from within
\* execute, does what the noop followed by that call does.)
ExecuteDirectly(call, a) ==
  /\ TimelockExecute(call, a)
  /\ UNCHANGED <<now, token, dao>>

Next ==
  \/ Tick
  \/ \E v, w \in Voter : \E n \in 1 .. votes[v] : Transfer(v, w, n)
  \/ \E v \in Voter, call \in Calls : CreateProposal(v, call)
  \/ \E v \in Voter, p \in ProposalId, support \in BOOLEAN : Vote(v, p, support)
  \/ \E p \in ProposalId, delay \in Delays : QueueProposal(p, delay)
  \/ \E p \in ProposalId : ExecuteProposal(p)
  \/ \E call \in Calls, a \in ActionId : ExecuteDirectly(call, a)

Spec == GovInit /\ [][Next]_vars

\* Time passes, and somebody keeps executing what the timelock has released.
FairSpec == Spec /\ WF_vars(Tick) /\ \A p \in ProposalId : WF_vars(ExecuteProposal(p))

-----------------------------------------------------------------------------
(* Properties. *)

Proposal ==
  [call : Calls \cup {NoCall}, startBlock : Nat, forVotes : Nat, againstVotes : Nat,
   queued : BOOLEAN, executed : BOOLEAN, executeAfter : Nat, queuedAt : Time]

\* Types.
TypeOK ==
  /\ now \in Time
  /\ votes \in [Voter -> Nat] /\ pastVotes \in [Voter -> Nat]
  /\ snapshot \in [ProposalId -> [Voter -> Nat]]
  /\ nextProposalId \in 1 .. MaxProposals + 1
  /\ proposals \in [ProposalId -> Proposal]
  /\ hasVoted \in [ProposalId -> [Voter -> BOOLEAN]]
  /\ queuedActions \in [ActionId -> Nat]
  /\ executed \in [ActionId -> BOOLEAN]
  /\ performed \subseteq Performed
  /\ ParamTypeOK

\* The power that has been cast on p, voter by voter.
Cast(p) == [v \in Voter |-> IF hasVoted[p][v] THEN snapshot[p][v] ELSE 0]

\* However power moves while the vote is open, a proposal's tallies add up to the
\* power its voters had at startBlock, and so to no more than there is.
TallyBacked ==
  \A p \in ProposalId : Exists(p) =>
    /\ proposals[p].forVotes + proposals[p].againstVotes = Total(Cast(p), NumVoters)
    /\ proposals[p].forVotes + proposals[p].againstVotes <= Supply

\* No vote is counted twice or for more than it weighed, in a state of the right types.
VotesCounted == TypeOK /\ TallyBacked

\* p was approved, and its voting period was over when it was queued.
Approved(p) ==
  /\ Exists(p) /\ proposals[p].queued
  /\ proposals[p].queuedAt > EndBlock(p)
  /\ proposals[p].forVotes >= Quorum
  /\ proposals[p].forVotes > proposals[p].againstVotes

\* Whoever makes the timelock call something, and whatever it calls, uses up an
\* approval: there are never more calls than approved proposals, and each was made
\* under the id of one, when the minimum delay had passed since its queueing.  (That
\* the call is the approved one is not promised: execute does not compare them.)
EachSpendsAnApproval ==
  /\ Cardinality(performed) <= Cardinality({p \in ProposalId : Approved(p)})
  /\ \A c \in performed :
       \E p \in ProposalId :
         /\ Approved(p)
         /\ Action(p) = c.id
         /\ c.at >= proposals[p].queuedAt + MinDelay

\* p's own call was made under its id, and nothing else was.
OwnCallMade(p) ==
  /\ \E c \in performed : c.id = Action(p)
  /\ \A c \in performed : c.id = Action(p) => c.call = proposals[p].call

\* Two approvals are never two names of one timelock action, and the DAO calls a
\* proposal executed only if the proposal's own call was made under its id: an id
\* that somebody spent on another call leaves it unexecuted.
OneActionEach ==
  /\ \A p, q \in ProposalId :
       proposals[p].queued /\ proposals[q].queued /\ p # q => Action(p) # Action(q)
  /\ \A p \in ProposalId : proposals[p].executed => OwnCallMade(p)

\* "Votes are immutable once cast": once the voting period is over the tallies, and
\* so the verdict that queueProposal reads, never change.
VotesFinal ==
  [][\A p \in ProposalId : Exists(p) /\ now > EndBlock(p) =>
       /\ proposals'[p].forVotes = proposals[p].forVotes
       /\ proposals'[p].againstVotes = proposals[p].againstVotes
       /\ hasVoted'[p] = hasVoted[p]]_vars

\* A call the parameter store accepts as it stands.  (Where limits can be narrowed
\* while a value waits in the timelock, it may come to refuse it.)
Infallible(call) ==
  \/ call.fn \in {"setBool", "setAddress", "noop"}
  \/ /\ call.fn = "setUint"
     /\ bounds[call.key].exists
     /\ bounds[call.key].min <= call.value /\ call.value <= bounds[call.key].max

\* No approval of a call that can take effect stays pending for good: the call is
\* made, unless somebody spends the approval's id on another call.
ApprovedIsUsed ==
  \A p \in ProposalId :
    (proposals[p].queued /\ Infallible(proposals[p].call)) ~>
      \/ proposals[p].executed
      \/ \E c \in performed : c.id = Action(p)
=============================================================================
