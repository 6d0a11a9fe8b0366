-------------------------- MODULE GovernanceProofs --------------------------
(***************************************************************************)
(* Proofs about Governance, for any holders, powers, quorum, periods and   *)
(* delays, and any set of well typed calls.                                *)
(***************************************************************************)
EXTENDS Governance, SumTheorems, FiniteSetTheorems

\* Power only moves: at the end of every block the holders' power adds up to the
\* supply, and so does every snapshot.
PowerConserved ==
  /\ Total(votes, NumVoters) = Supply
  /\ Total(pastVotes, NumVoters) = Supply
  /\ \A p \in ProposalId : Total(snapshot[p], NumVoters) = Supply

\* Proposals are made in order and carry a call each.
Made ==
  \A p \in ProposalId :
    IF Exists(p) THEN proposals[p].call \in Calls ELSE proposals[p] = EmptyProposal

\* Nobody votes on a proposal before its snapshot is final.
BallotsOpen ==
  \A p \in ProposalId, v \in Voter :
    hasVoted[p][v] => Exists(p) /\ proposals[p].startBlock < now

Tallied(p) ==
  proposals[p].forVotes + proposals[p].againstVotes = Total(Cast(p), NumVoters)

Tallies == \A p \in ProposalId : Tallied(p)

\* What the timelock holds is what the DAO approved, and when.
ApprovedQueue ==
  \A p \in ProposalId : proposals[p].queued =>
    /\ Approved(p)
    /\ proposals[p].queuedAt <= now
    /\ queuedActions[Action(p)] >= 1

QueueApproved ==
  \A a \in ActionId : queuedActions[a] >= 1 =>
    \E p \in ProposalId :
      /\ proposals[p].queued /\ Action(p) = a
      /\ queuedActions[a] >= proposals[p].queuedAt + MinDelay

PerformedOnTime ==
  /\ \A a \in ActionId : executed[a] => queuedActions[a] >= 1
  /\ \A c \in performed : executed[c.id] /\ c.at >= queuedActions[c.id]

ExecutedWasQueued ==
  \A p \in ProposalId : proposals[p].executed => proposals[p].queued

Decisions ==
  ApprovedQueue /\ QueueApproved /\ PerformedOnTime /\ ExecutedWasQueued /\ OneActionEach

\* The approvals whose id was spent: one for every call that was made.
Spent == {p \in ProposalId : proposals[p].queued /\ executed[Action(p)]}

SpentEach == IsFiniteSet(performed) /\ Cardinality(performed) = Cardinality(Spent)

-----------------------------------------------------------------------------
(* Types. *)

LEMMA CallTypes ==
  ASSUME ParamTypeOK, NEW call \in Calls, Perform(call)
  PROVE  ParamTypeOK'
<1>0. CASE UNCHANGED paramVars
  BY <1>0 DEF paramVars, ParamTypeOK
<1>1. CASE call.fn = "setBounds" /\ SetBounds(call.key, call.min, call.max)
  <2>1. call \in [fn : {"setBounds"}, key : Key, min : Nat, max : Nat]
    BY <1>1, GovernanceAssumption
  <2> QED BY <1>1, <2>1 DEF SetBounds, ParamTypeOK
<1>2. CASE call.fn = "setUint" /\ SetUint(call.key, call.value)
  <2>1. call \in [fn : {"setUint"}, key : Key, value : Nat]
    BY <1>2, GovernanceAssumption
  <2> QED BY <1>2, <2>1 DEF SetUint, ParamTypeOK
<1>3. CASE call.fn = "setBool" /\ SetBool(call.key, call.value)
  <2>1. call \in [fn : {"setBool"}, key : Key, value : BOOLEAN]
    BY <1>3, GovernanceAssumption
  <2> QED BY <1>3, <2>1 DEF SetBool, ParamTypeOK
<1>4. CASE call.fn = "setAddress" /\ SetAddress(call.key, call.value)
  <2>1. call \in [fn : {"setAddress"}, key : Key, value : Address]
    BY <1>4, GovernanceAssumption
  <2> QED BY <1>4, <2>1 DEF SetAddress, ParamTypeOK
<1> QED BY <1>0, <1>1, <1>2, <1>3, <1>4 DEF Perform, Call

LEMMA EmptyProposalType == EmptyProposal \in Proposal
<1>1. 0 \in Time
  BY GovernanceAssumption DEF Time
<1> QED BY <1>1 DEF EmptyProposal, Proposal

LEMMA TypeInit == GovInit => TypeOK
<1>1. SUFFICES ASSUME GovInit PROVE TypeOK
  OBVIOUS
<1>2. EmptyProposal \in Proposal
  BY EmptyProposalType
<1>3. ParamTypeOK
  BY <1>1 DEF GovInit, ParamInit, ParamTypeOK, NoBounds
<1> QED BY <1>1, <1>2, <1>3, GovernanceAssumption
      DEF GovInit, TypeOK, Time, Voter, ProposalId, ActionId

LEMMA QueuedAction ==
  ASSUME TypeOK, Made, NEW p \in ProposalId, Exists(p)
  PROVE  Action(p) \in ActionId /\ proposals[p].call \in Calls
<1>1. proposals[p] \in Proposal
  BY DEF TypeOK
<1> QED BY <1>1 DEF Made, Action, ActionId, Proposal

LEMMA TypeNext == TypeOK /\ Made /\ [Next]_vars => TypeOK'
<1>1. SUFFICES ASSUME TypeOK, Made, [Next]_vars PROVE TypeOK'
  OBVIOUS
<1> USE <1>1
<1>2. CASE Tick
  BY <1>2, GovernanceAssumption DEF Tick, TypeOK, Time, dao, timelock, paramVars, ParamTypeOK
<1>3. ASSUME NEW v \in Voter, NEW w \in Voter, NEW n \in 1 .. votes[v], Transfer(v, w, n)
      PROVE  TypeOK'
  <2>1. votes[v] - n \in Nat /\ votes[w] + n \in Nat
    BY <1>3 DEF Transfer, TypeOK
  <2>2. votes' \in [Voter -> Nat]
    BY <1>3, <2>1 DEF Transfer, TypeOK
  <2> QED BY <1>3, <2>2 DEF Transfer, TypeOK, dao, timelock, paramVars, ParamTypeOK
<1>4. ASSUME NEW v \in Voter, NEW call \in Calls, CreateProposal(v, call)
      PROVE  TypeOK'
  <2>1. [EmptyProposal EXCEPT !.call = call, !.startBlock = now + VotingDelay] \in Proposal
    <3>1. now + VotingDelay \in Nat
      BY GovernanceAssumption DEF TypeOK, Time
    <3> QED BY <3>1, EmptyProposalType DEF Proposal
  <2>2. /\ proposals' \in [ProposalId -> Proposal]
        /\ nextProposalId' \in 1 .. MaxProposals + 1
    BY <1>4, <2>1, GovernanceAssumption DEF CreateProposal, TypeOK, ProposalId
  <2> QED BY <1>4, <2>2 DEF CreateProposal, TypeOK, token, timelock, paramVars, ParamTypeOK
<1>5. ASSUME NEW v \in Voter, NEW p \in ProposalId, NEW support \in BOOLEAN,
             Vote(v, p, support)
      PROVE  TypeOK'
  <2>1. PowerAtStart(v, p) \in Nat /\ proposals[p] \in Proposal
    BY DEF PowerAtStart, TypeOK
  <2>2. /\ [proposals[p] EXCEPT !.forVotes = @ + PowerAtStart(v, p)] \in Proposal
        /\ [proposals[p] EXCEPT !.againstVotes = @ + PowerAtStart(v, p)] \in Proposal
    BY <2>1 DEF Proposal
  <2>3. proposals' \in [ProposalId -> Proposal]
    BY <1>5, <2>2 DEF Vote, TypeOK
  <2>4. hasVoted' \in [ProposalId -> [Voter -> BOOLEAN]]
    BY <1>5 DEF Vote, TypeOK
  <2> QED BY <1>5, <2>3, <2>4 DEF Vote, TypeOK, token, timelock, paramVars, ParamTypeOK
<1>6. ASSUME NEW p \in ProposalId, NEW delay \in Delays, QueueProposal(p, delay)
      PROVE  TypeOK'
  <2>1. now \in Time /\ now + delay \in Nat /\ proposals[p] \in Proposal
    BY GovernanceAssumption DEF TypeOK, Time
  <2>2. [proposals[p] EXCEPT !.queued = TRUE, !.queuedAt = now, !.executeAfter = now + delay]
          \in Proposal
    BY <2>1 DEF Proposal
  <2>3. proposals' \in [ProposalId -> Proposal]
    BY <1>6, <2>2 DEF QueueProposal, TypeOK
  <2>4. queuedActions' \in [ActionId -> Nat] /\ UNCHANGED <<executed, performed>>
    BY <1>6, <2>1 DEF QueueProposal, TimelockQueue, TypeOK
  <2> QED BY <1>6, <2>3, <2>4 DEF QueueProposal, TypeOK, token, paramVars, ParamTypeOK
<1>7. ASSUME NEW call \in Calls, NEW a \in ActionId, TimelockExecute(call, a)
      PROVE  /\ ParamTypeOK'
             /\ executed' \in [ActionId -> BOOLEAN] /\ performed' \subseteq Performed
             /\ UNCHANGED queuedActions
  <2>1. ParamTypeOK'
    BY <1>7, CallTypes DEF TimelockExecute, TypeOK
  <2>2. [id |-> a, call |-> call, at |-> now] \in Performed
    BY DEF Performed, TypeOK
  <2> QED BY <1>7, <2>1, <2>2 DEF TimelockExecute, TypeOK
<1>8. ASSUME NEW p \in ProposalId, ExecuteProposal(p)
      PROVE  TypeOK'
  <2>1. proposals' \in [ProposalId -> Proposal]
    BY <1>8 DEF ExecuteProposal, TypeOK, Proposal
  <2>2. Action(p) \in ActionId /\ proposals[p].call \in Calls
    BY <1>8, QueuedAction DEF ExecuteProposal
  <2>3. TimelockExecute(proposals[p].call, Action(p))
    BY <1>8 DEF ExecuteProposal
  <2>4. /\ ParamTypeOK'
        /\ executed' \in [ActionId -> BOOLEAN] /\ performed' \subseteq Performed
        /\ UNCHANGED queuedActions
    BY <1>7, <2>2, <2>3
  <2> QED BY <1>8, <2>1, <2>4 DEF ExecuteProposal, TypeOK, token
<1>9. ASSUME NEW call \in Calls, NEW a \in ActionId, ExecuteDirectly(call, a) PROVE TypeOK'
  BY <1>7, <1>9 DEF ExecuteDirectly, TypeOK, token, dao
<1>10. CASE UNCHANGED vars
  BY <1>10 DEF vars, token, dao, timelock, paramVars, TypeOK, ParamTypeOK
<1> QED BY <1>2, <1>3, <1>4, <1>5, <1>6, <1>8, <1>9, <1>10 DEF Next

LEMMA MadeInit == GovInit => Made
BY GovernanceAssumption DEF GovInit, Made, Exists, ProposalId

LEMMA MadeNext == TypeOK /\ Made /\ [Next]_vars => Made'
<1>1. SUFFICES ASSUME TypeOK, Made, [Next]_vars, NEW p \in ProposalId
               PROVE  (IF Exists(p) THEN proposals[p].call \in Calls
                                    ELSE proposals[p] = EmptyProposal)'
  BY DEF Made
<1> DEFINE Here == IF Exists(p) THEN proposals[p].call \in Calls
                                ELSE proposals[p] = EmptyProposal
<1>2. Here /\ proposals \in [ProposalId -> Proposal] /\ proposals[p] \in Proposal
  BY <1>1 DEF Made, TypeOK
<1>3. nextProposalId \in Nat /\ p \in Nat
  BY <1>1 DEF TypeOK, ProposalId
<1>4. ASSUME NEW v \in Voter, NEW call \in Calls, CreateProposal(v, call) PROVE Here'
  <2>1. CASE p = nextProposalId
    BY <1>2, <1>3, <1>4, <2>1 DEF CreateProposal, Exists, EmptyProposal
  <2>2. CASE p # nextProposalId
    <3>1. proposals'[p] = proposals[p] /\ (Exists(p)' <=> Exists(p))
      BY <1>2, <1>3, <1>4, <2>2 DEF CreateProposal, Exists
    <3> QED BY <1>2, <3>1
  <2> QED BY <2>1, <2>2
<1>5. ASSUME NEW v \in Voter, NEW q \in ProposalId, NEW support \in BOOLEAN, Vote(v, q, support)
      PROVE  Here'
  <2>1. nextProposalId' = nextProposalId
    BY <1>5 DEF Vote
  <2>2. Exists(q) /\ (p # q => proposals'[p] = proposals[p])
    BY <1>2, <1>5 DEF Vote
  <2>3. p = q => proposals'[p].call = proposals[p].call
    BY <1>2, <1>5 DEF Vote, Proposal
  <2> QED BY <1>2, <2>1, <2>2, <2>3 DEF Exists
<1>6. ASSUME NEW q \in ProposalId, NEW delay \in Delays, QueueProposal(q, delay)
      PROVE  Here'
  BY <1>2, <1>6 DEF QueueProposal, Exists, Proposal
<1>7. ASSUME NEW q \in ProposalId, ExecuteProposal(q)
      PROVE  Here'
  BY <1>2, <1>7 DEF ExecuteProposal, Exists, Proposal
<1>8. ASSUME UNCHANGED <<nextProposalId, proposals>> PROVE Here'
  BY <1>2, <1>8 DEF Exists
<1>9. CASE Tick \/ (\E call \in Calls, a \in ActionId : ExecuteDirectly(call, a)) \/ UNCHANGED vars
  BY <1>8, <1>9 DEF Tick, ExecuteDirectly, vars, dao
<1>10. CASE \E v, w \in Voter : \E n \in 1 .. votes[v] : Transfer(v, w, n)
  BY <1>8, <1>10 DEF Transfer, dao
<1> QED BY <1>1, <1>4, <1>5, <1>6, <1>7, <1>9, <1>10 DEF Next

-----------------------------------------------------------------------------
(* Power and tallies. *)

LEMMA PowerInit == GovInit => PowerConserved
BY DEF GovInit, PowerConserved, Supply

\* f becomes h when something moves between the entries v and w.
Moved(f, h, n, v, w) ==
  /\ f \in [1 .. n -> Nat] /\ h \in [1 .. n -> Nat]
  /\ v \in 1 .. n /\ w \in 1 .. n /\ v # w
  /\ f[v] + f[w] = h[v] + h[w]
  /\ \A u \in 1 .. n : u # v /\ u # w => h[u] = f[u]

\* Moving power from one holder to another keeps the total.
LEMMA MoveKeepsTotal ==
  ASSUME NEW n \in Nat, NEW f, NEW h, NEW v, NEW w, Moved(f, h, n, v, w)
  PROVE  Total(h, n) = Total(f, n)
<1> USE DEF Moved
<1> DEFINE g == [u \in 1 .. n |-> IF u = v THEN h[v] ELSE f[u]]
<1>1. /\ g \in [1 .. n -> Nat] /\ g[v] = h[v] /\ g[w] = f[w]
      /\ \A u \in 1 .. n : u # v => g[u] = f[u]
      /\ \A u \in 1 .. n : u # w => h[u] = g[u]
  OBVIOUS
<1> HIDE DEF g
<1>2. Total(g, n) + f[v] = Total(f, n) + g[v]
  BY <1>1, TotalUpdate
<1>3. Total(h, n) + g[w] = Total(g, n) + h[w]
  BY <1>1, TotalUpdate
<1>4. PICK a \in Nat, b \in Nat, c \in Nat :
        a = Total(f, n) /\ b = Total(g, n) /\ c = Total(h, n)
  BY <1>1, TotalNat
<1>5. PICK x \in Nat, y \in Nat, z \in Nat, t \in Nat :
        x = f[v] /\ y = f[w] /\ z = h[v] /\ t = h[w]
  OBVIOUS
<1>6. b + x = a + z /\ c + y = b + t /\ x + y = z + t
  BY <1>1, <1>2, <1>3, <1>4, <1>5
<1>7. c = a
  BY <1>6
<1> QED BY <1>4, <1>7

LEMMA PowerNext == TypeOK /\ PowerConserved /\ [Next]_vars => PowerConserved'
<1>1. SUFFICES ASSUME TypeOK, PowerConserved, [Next]_vars PROVE PowerConserved'
  OBVIOUS
<1>2. CASE Tick
  <2>1. \A p \in ProposalId : snapshot'[p] = votes \/ snapshot'[p] = snapshot[p]
    BY <1>2 DEF Tick
  <2> QED BY <1>1, <1>2, <2>1 DEF Tick, PowerConserved
<1>3. ASSUME NEW v \in Voter, NEW w \in Voter, NEW n \in 1 .. votes[v], Transfer(v, w, n)
      PROVE  PowerConserved'
  <2>1. Total(votes', NumVoters) = Total(votes, NumVoters)
    <3>1. votes \in [1 .. NumVoters -> Nat] /\ v \in 1 .. NumVoters /\ w \in 1 .. NumVoters
      BY <1>1 DEF TypeOK, Voter
    <3>2. v # w /\ n \in Nat /\ votes[v] - n \in Nat /\ votes[w] + n \in Nat
      BY <1>3, <3>1 DEF Transfer
    <3>3. PICK h : h = votes'
      OBVIOUS
    <3>4. h = [votes EXCEPT ![v] = votes[v] - n, ![w] = votes[w] + n]
      BY <1>3, <3>1, <3>2, <3>3 DEF Transfer
    <3>5. /\ h \in [1 .. NumVoters -> Nat]
          /\ h[v] = votes[v] - n /\ h[w] = votes[w] + n
          /\ \A u \in 1 .. NumVoters : u # v /\ u # w => h[u] = votes[u]
      BY <3>1, <3>2, <3>4
    <3>6. NumVoters \in Nat
      BY GovernanceAssumption
    <3>7. votes[v] + votes[w] = h[v] + h[w]
      BY <3>1, <3>2, <3>5
    <3>8. Moved(votes, h, NumVoters, v, w)
      BY <3>1, <3>2, <3>5, <3>7 DEF Moved
    <3>9. Total(h, NumVoters) = Total(votes, NumVoters)
      BY <3>6, <3>8, MoveKeepsTotal
    <3> QED BY <3>3, <3>9
  <2> QED BY <1>1, <1>3, <2>1 DEF Transfer, PowerConserved
<1>4. ASSUME UNCHANGED token PROVE PowerConserved'
  BY <1>1, <1>4 DEF token, PowerConserved
<1>5. CASE \E v \in Voter, call \in Calls : CreateProposal(v, call)
  BY <1>4, <1>5 DEF CreateProposal
<1>6. CASE \E v \in Voter, p \in ProposalId, support \in BOOLEAN : Vote(v, p, support)
  BY <1>4, <1>6 DEF Vote
<1>7. CASE \E p \in ProposalId, delay \in Delays : QueueProposal(p, delay)
  BY <1>4, <1>7 DEF QueueProposal
<1>8. CASE \/ \E p \in ProposalId : ExecuteProposal(p)
           \/ \E call \in Calls, a \in ActionId : ExecuteDirectly(call, a)
           \/ UNCHANGED vars
  BY <1>4, <1>8 DEF ExecuteProposal, ExecuteDirectly, vars
<1> QED BY <1>1, <1>2, <1>3, <1>5, <1>6, <1>7, <1>8 DEF Next

LEMMA BallotsInit == GovInit => BallotsOpen
BY DEF GovInit, BallotsOpen

LEMMA BallotsNext == TypeOK /\ BallotsOpen /\ [Next]_vars => BallotsOpen'
<1>1. SUFFICES ASSUME TypeOK, BallotsOpen, [Next]_vars, NEW p \in ProposalId, NEW v \in Voter
               PROVE  (hasVoted[p][v] => Exists(p) /\ proposals[p].startBlock < now)'
  BY DEF BallotsOpen
<1> DEFINE Open == hasVoted[p][v] => Exists(p) /\ proposals[p].startBlock < now
<1>2. /\ Open /\ now \in Nat /\ proposals \in [ProposalId -> Proposal]
      /\ proposals[p] \in Proposal /\ proposals[p].startBlock \in Nat
  BY <1>1 DEF BallotsOpen, TypeOK, Time, Proposal
<1>3. nextProposalId \in Nat /\ p \in Nat
  BY <1>1 DEF TypeOK, ProposalId
<1>4. CASE Tick
  BY <1>2, <1>4 DEF Tick, dao, Exists
<1>5. CASE \E w \in Voter, call \in Calls : CreateProposal(w, call)
  <2>1. PICK w \in Voter, call \in Calls : CreateProposal(w, call)
    BY <1>5
  <2>2. /\ hasVoted' = hasVoted /\ now' = now /\ nextProposalId' = nextProposalId + 1
        /\ p # nextProposalId => proposals'[p] = proposals[p]
    BY <1>2, <2>1 DEF CreateProposal
  <2> QED BY <1>2, <1>3, <2>2 DEF Exists
<1>6. ASSUME NEW w \in Voter, NEW q \in ProposalId, NEW support \in BOOLEAN, Vote(w, q, support)
      PROVE  Open'
  <2>1. /\ now' = now /\ nextProposalId' = nextProposalId
        /\ proposals'[p].startBlock = proposals[p].startBlock
    BY <1>2, <1>6 DEF Vote, Proposal
  <2>2. CASE p = q
    BY <1>6, <2>1, <2>2 DEF Vote, Exists
  <2>3. CASE p # q
    <3>1. hasVoted'[p] = hasVoted[p]
      BY <1>1, <1>6, <2>3 DEF Vote, TypeOK
    <3> QED BY <1>2, <2>1, <3>1 DEF Exists
  <2> QED BY <2>2, <2>3
<1>7. ASSUME UNCHANGED <<now, nextProposalId, hasVoted>>,
             proposals'[p].startBlock = proposals[p].startBlock
      PROVE  Open'
  BY <1>2, <1>7 DEF Exists
<1>8. ASSUME NEW q \in ProposalId, NEW delay \in Delays, QueueProposal(q, delay)
      PROVE  Open'
  BY <1>2, <1>7, <1>8 DEF QueueProposal, Proposal
<1>9. ASSUME NEW q \in ProposalId, ExecuteProposal(q)
      PROVE  Open'
  BY <1>2, <1>7, <1>9 DEF ExecuteProposal, Proposal
<1>10. CASE \/ \E u, w \in Voter : \E n \in 1 .. votes[u] : Transfer(u, w, n)
            \/ \E call \in Calls, a \in ActionId : ExecuteDirectly(call, a)
            \/ UNCHANGED vars
  BY <1>7, <1>10 DEF Transfer, ExecuteDirectly, vars, dao
<1> QED BY <1>1, <1>4, <1>5, <1>6, <1>8, <1>9, <1>10 DEF Next

LEMMA CastType ==
  ASSUME TypeOK, NEW p \in ProposalId
  PROVE  Cast(p) \in [1 .. NumVoters -> Nat] /\ Total(Cast(p), NumVoters) \in Nat
<1>1. Cast(p) \in [1 .. NumVoters -> Nat]
  <2>1. snapshot[p] \in [Voter -> Nat]
    BY DEF TypeOK
  <2>2. \A v \in Voter : (IF hasVoted[p][v] THEN snapshot[p][v] ELSE 0) \in Nat
    BY <2>1
  <2> QED BY <2>2 DEF Cast, Voter
<1> QED BY <1>1, TotalNat, GovernanceAssumption

\* What nobody has voted on has nothing cast.
LEMMA NothingCast ==
  ASSUME TypeOK, NEW p \in ProposalId, \A v \in Voter : ~hasVoted[p][v]
  PROVE  Total(Cast(p), NumVoters) = 0
<1>1. \A v \in 1 .. NumVoters : Cast(p)[v] = 0
  BY DEF Cast, Voter
<1> QED BY <1>1, CastType, TotalZero, GovernanceAssumption

LEMMA TalliesInit == GovInit => Tallies
<1>1. SUFFICES ASSUME GovInit, NEW p \in ProposalId PROVE Tallied(p)
  BY DEF Tallies
<1>2. Total(Cast(p), NumVoters) = 0
  BY <1>1, TypeInit, NothingCast DEF GovInit
<1> QED BY <1>1, <1>2 DEF GovInit, EmptyProposal, Tallied

LEMMA TalliesNext ==
  TypeOK /\ Made /\ BallotsOpen /\ Tallies /\ [Next]_vars => Tallies'
<1>1. SUFFICES ASSUME TypeOK, Made, BallotsOpen, Tallies, [Next]_vars, NEW p \in ProposalId
               PROVE  Tallied(p)'
  BY DEF Tallies
<1>2. Tallied(p)
  BY <1>1 DEF Tallies
<1>3. /\ proposals \in [ProposalId -> Proposal] /\ proposals[p] \in Proposal
      /\ proposals[p].forVotes \in Nat /\ proposals[p].againstVotes \in Nat
  BY <1>1 DEF TypeOK, Proposal
<1>4. TypeOK'
  BY <1>1, TypeNext
<1>5. ASSUME hasVoted'[p] = hasVoted[p],
             \A v \in Voter : hasVoted[p][v] => snapshot'[p][v] = snapshot[p][v],
             proposals'[p].forVotes = proposals[p].forVotes,
             proposals'[p].againstVotes = proposals[p].againstVotes
      PROVE  Tallied(p)'
  <2>1. Cast(p)' = Cast(p)
    BY <1>5 DEF Cast
  <2> QED BY <1>2, <1>5, <2>1 DEF Tallied
<1>6. CASE Tick
  <2>1. ASSUME NEW v \in Voter, hasVoted[p][v] PROVE snapshot'[p] = snapshot[p]
    <3>1. proposals[p].startBlock # now
      BY <1>1, <1>3, <2>1 DEF BallotsOpen, TypeOK, Time, Proposal
    <3> QED BY <1>6, <3>1 DEF Tick
  <2> QED BY <1>5, <1>6, <2>1 DEF Tick, dao
<1>7. ASSUME NEW w \in Voter, NEW call \in Calls, CreateProposal(w, call)
      PROVE  Tallied(p)'
  <2>1. /\ hasVoted' = hasVoted /\ snapshot' = snapshot
    BY <1>7 DEF CreateProposal, token
  <2>2. CASE p # nextProposalId
    <3>1. proposals'[p] = proposals[p]
      BY <1>3, <1>7, <2>2 DEF CreateProposal
    <3> QED BY <1>5, <2>1, <3>1
  <2>3. CASE p = nextProposalId
    <3>1. ~Exists(p)
      BY <1>1, <2>3 DEF Exists, TypeOK
    <3>2. proposals[p] = EmptyProposal
      BY <1>1, <3>1 DEF Made
    <3>3. /\ proposals'[p].forVotes = 0 /\ proposals'[p].againstVotes = 0
          /\ proposals[p].forVotes = 0 /\ proposals[p].againstVotes = 0
      BY <1>3, <1>7, <2>3, <3>2 DEF CreateProposal, EmptyProposal
    <3> QED BY <1>5, <2>1, <3>3
  <2> QED BY <2>2, <2>3
<1>8. ASSUME NEW w \in Voter, NEW q \in ProposalId, NEW support \in BOOLEAN, Vote(w, q, support)
      PROVE  Tallied(p)'
  <2>1. snapshot' = snapshot
    BY <1>8 DEF Vote, token
  <2>2. CASE p # q
    <3>1. hasVoted'[p] = hasVoted[p] /\ proposals'[p] = proposals[p]
      BY <1>1, <1>3, <1>8, <2>2 DEF Vote, TypeOK
    <3> QED BY <1>5, <2>1, <3>1
  <2>3. CASE p = q
    <3>1. /\ ~hasVoted[p][w] /\ hasVoted'[p][w]
          /\ \A v \in Voter : v # w => (hasVoted'[p][v] <=> hasVoted[p][v])
      BY <1>1, <1>8, <2>3 DEF Vote, TypeOK
    <3>2. PICK x \in Nat : x = snapshot[p][w]
      BY <1>1 DEF TypeOK
    <3>3. PICK f, g : f = Cast(p) /\ g = Cast(p)'
      OBVIOUS
    <3>4. f \in [1 .. NumVoters -> Nat] /\ g \in [1 .. NumVoters -> Nat]
      <4>1. (Cast(p) \in [1 .. NumVoters -> Nat])'
        BY <1>4, CastType, PTL
      <4> QED BY <1>1, <3>3, <4>1, CastType
    <3>5. f[w] = 0 /\ g[w] = x
      BY <2>1, <3>1, <3>2, <3>3 DEF Cast
    <3>6. \A v \in 1 .. NumVoters : v # w => g[v] = f[v]
      BY <2>1, <3>1, <3>3 DEF Cast, Voter
    <3>7. NumVoters \in Nat /\ w \in 1 .. NumVoters
      BY GovernanceAssumption DEF Voter
    <3>8. Total(g, NumVoters) + f[w] = Total(f, NumVoters) + g[w]
      BY <3>4, <3>6, <3>7, TotalUpdate
    <3>9. PICK a \in Nat, b \in Nat : a = Total(f, NumVoters) /\ b = Total(g, NumVoters)
      BY <3>4, <3>7, TotalNat
    <3>10. b = a + x
      BY <3>5, <3>8, <3>9
    <3>11. PICK y \in Nat, n \in Nat :
             y = proposals[p].forVotes /\ n = proposals[p].againstVotes
      BY <1>3
    <3>12. y + n = a
      BY <1>2, <3>3, <3>9, <3>11 DEF Tallied
    <3>13. PowerAtStart(w, p) = x
      BY <3>2 DEF PowerAtStart
    <3>14. \/ proposals'[p].forVotes = y + x /\ proposals'[p].againstVotes = n
           \/ proposals'[p].forVotes = y /\ proposals'[p].againstVotes = n + x
      <4>1. CASE support
        BY <1>3, <1>8, <2>3, <3>11, <3>13, <4>1 DEF Vote, Proposal
      <4>2. CASE ~support
        BY <1>3, <1>8, <2>3, <3>11, <3>13, <4>2 DEF Vote, Proposal
      <4> QED BY <4>1, <4>2
    <3>15. proposals'[p].forVotes + proposals'[p].againstVotes = b
      BY <3>10, <3>12, <3>14
    <3> QED BY <3>3, <3>9, <3>15 DEF Tallied
  <2> QED BY <2>2, <2>3
<1>9. ASSUME NEW q \in ProposalId, NEW delay \in Delays, QueueProposal(q, delay)
      PROVE  Tallied(p)'
  <2>1. /\ proposals'[p].forVotes = proposals[p].forVotes
        /\ proposals'[p].againstVotes = proposals[p].againstVotes
    BY <1>3, <1>9 DEF QueueProposal, Proposal
  <2> QED BY <1>5, <1>9, <2>1 DEF QueueProposal, token
<1>10. ASSUME NEW q \in ProposalId, ExecuteProposal(q)
      PROVE  Tallied(p)'
  <2>1. /\ proposals'[p].forVotes = proposals[p].forVotes
        /\ proposals'[p].againstVotes = proposals[p].againstVotes
    BY <1>3, <1>10 DEF ExecuteProposal, Proposal
  <2> QED BY <1>5, <1>10, <2>1 DEF ExecuteProposal, token
<1>11. CASE \/ \E u, w \in Voter : \E n \in 1 .. votes[u] : Transfer(u, w, n)
            \/ \E call \in Calls, a \in ActionId : ExecuteDirectly(call, a)
            \/ UNCHANGED vars
  BY <1>5, <1>11 DEF Transfer, ExecuteDirectly, vars, dao, token
<1> QED BY <1>1, <1>6, <1>7, <1>8, <1>9, <1>10, <1>11 DEF Next

LEMMA TalliesBacked ==
  TypeOK /\ PowerConserved /\ Tallies => TallyBacked
<1>1. SUFFICES ASSUME TypeOK, PowerConserved, Tallies, NEW p \in ProposalId
               PROVE  /\ Tallied(p)
                      /\ proposals[p].forVotes + proposals[p].againstVotes <= Supply
  BY DEF TallyBacked, Tallied
<1>2. snapshot[p] \in [1 .. NumVoters -> Nat] /\ Cast(p) \in [1 .. NumVoters -> Nat]
  BY <1>1, CastType DEF TypeOK, Voter
<1>3. \A v \in 1 .. NumVoters : Cast(p)[v] <= snapshot[p][v]
  <2>1. SUFFICES ASSUME NEW v \in 1 .. NumVoters PROVE Cast(p)[v] <= snapshot[p][v]
    OBVIOUS
  <2>2. PICK x \in Nat : x = snapshot[p][v]
    BY <1>2
  <2>3. Cast(p)[v] = x \/ Cast(p)[v] = 0
    BY <2>2 DEF Cast, Voter
  <2> QED BY <2>2, <2>3
<1>4. Total(Cast(p), NumVoters) <= Total(snapshot[p], NumVoters)
  BY <1>2, <1>3, TotalMonotone, GovernanceAssumption
<1>5. Total(snapshot[p], NumVoters) = Supply /\ Tallied(p)
  BY <1>1 DEF PowerConserved, Tallies
<1> QED BY <1>4, <1>5 DEF Tallied

-----------------------------------------------------------------------------
(* Decisions. *)

LEMMA DecisionsInit == GovInit => Decisions
<1>1. SUFFICES ASSUME GovInit PROVE Decisions
  OBVIOUS
<1>2. /\ \A p \in ProposalId : ~proposals[p].queued /\ ~proposals[p].executed
      /\ \A a \in ActionId : ~executed[a] /\ queuedActions[a] = 0
      /\ performed = {}
  BY <1>1 DEF GovInit, EmptyProposal
<1> QED BY <1>2 DEF Decisions, ApprovedQueue, QueueApproved, PerformedOnTime, ExecutedWasQueued,
      OneActionEach

\* A step that leaves the timelock's queue, and what was decided, alone.
Decided(p) ==
  <<proposals[p].call, proposals[p].startBlock, proposals[p].queuedAt,
    proposals[p].forVotes, proposals[p].againstVotes>>

Keeps ==
  /\ queuedActions' = queuedActions
  /\ now' >= now /\ nextProposalId' >= nextProposalId
  /\ \A p \in ProposalId :
       /\ proposals'[p].queued <=> proposals[p].queued
       /\ proposals[p].queued => Decided(p)' = Decided(p)

LEMMA KeepsApproval ==
  ASSUME TypeOK, TypeOK', Keeps, NEW p \in ProposalId, proposals[p].queued
  PROVE  /\ Action(p)' = Action(p)
         /\ Approved(p) => Approved(p)'
         /\ proposals'[p].queued /\ proposals'[p].queuedAt = proposals[p].queuedAt
<1>1. /\ proposals'[p].call = proposals[p].call
      /\ proposals'[p].startBlock = proposals[p].startBlock
      /\ proposals'[p].queuedAt = proposals[p].queuedAt
      /\ proposals'[p].forVotes = proposals[p].forVotes
      /\ proposals'[p].againstVotes = proposals[p].againstVotes
      /\ proposals'[p].queued
  BY DEF Keeps, Decided
<1>2. Exists(p) => Exists(p)'
  BY DEF Keeps, Exists, TypeOK, ProposalId
<1>3. EndBlock(p)' = EndBlock(p)
  BY <1>1 DEF EndBlock
<1> QED BY <1>1, <1>2, <1>3 DEF Approved, Action

LEMMA KeepsDecisions ==
  ASSUME TypeOK, TypeOK', Decisions, Keeps
  PROVE  /\ ApprovedQueue' /\ QueueApproved'
         /\ \A p, q \in ProposalId :
              proposals'[p].queued /\ proposals'[q].queued /\ p # q => Action(p)' # Action(q)'
<1>1. ASSUME NEW p \in ProposalId, proposals'[p].queued
      PROVE  Approved(p)' /\ proposals'[p].queuedAt <= now' /\ queuedActions'[Action(p)'] >= 1
  <2>1. proposals[p].queued
    BY <1>1 DEF Keeps
  <2>2. /\ Approved(p) /\ queuedActions[Action(p)] >= 1
        /\ proposals[p].queuedAt <= now
    BY <2>1 DEF Decisions, ApprovedQueue
  <2>3. Approved(p)' /\ queuedActions'[Action(p)'] >= 1
    BY <2>1, <2>2, KeepsApproval DEF Keeps
  <2>4. proposals'[p].queuedAt <= now'
    <3>1. PICK x \in Nat : x = proposals[p].queuedAt
      BY DEF TypeOK, Proposal, Time
    <3> QED BY <2>1, <2>2, <3>1, KeepsApproval DEF Keeps, TypeOK, Time
  <2> QED BY <2>3, <2>4
<1>2. ApprovedQueue'
  BY <1>1 DEF ApprovedQueue
<1>3. ASSUME NEW a \in ActionId, queuedActions'[a] >= 1
      PROVE  \E p \in ProposalId :
               /\ proposals'[p].queued /\ Action(p)' = a
               /\ queuedActions'[a] >= proposals'[p].queuedAt + MinDelay
  <2>1. queuedActions'[a] = queuedActions[a]
    BY DEF Keeps
  <2>2. PICK p \in ProposalId :
          /\ proposals[p].queued /\ Action(p) = a
          /\ queuedActions[a] >= proposals[p].queuedAt + MinDelay
    BY <1>3, <2>1 DEF Decisions, QueueApproved
  <2> QED BY <2>1, <2>2, KeepsApproval
<1>4. QueueApproved'
  BY <1>3 DEF QueueApproved
<1>5. ASSUME NEW p \in ProposalId, NEW q \in ProposalId,
             proposals'[p].queued, proposals'[q].queued, p # q
      PROVE  Action(p)' # Action(q)'
  <2>1. proposals[p].queued /\ proposals[q].queued
    BY <1>5 DEF Keeps
  <2>2. Action(p)' = Action(p) /\ Action(q)' = Action(q)
    BY <2>1, KeepsApproval
  <2> QED BY <1>5, <2>1, <2>2 DEF Decisions, OneActionEach
<1> QED BY <1>2, <1>4, <1>5

LEMMA DecisionsNext ==
  TypeOK /\ Made /\ Decisions /\ [Next]_vars => Decisions'
<1>1. SUFFICES ASSUME TypeOK, Made, Decisions, [Next]_vars PROVE Decisions'
  OBVIOUS
<1>2. TypeOK'
  BY <1>1, TypeNext
<1>3. /\ proposals \in [ProposalId -> Proposal] /\ now \in Nat /\ nextProposalId \in Nat
      /\ \A p \in ProposalId : proposals[p].queued \in BOOLEAN /\ proposals[p].executed \in BOOLEAN
  BY <1>1 DEF TypeOK, Time, Proposal
<1>4. ASSUME Keeps, UNCHANGED <<executed, performed>>,
             \A p \in ProposalId : proposals'[p].executed <=> proposals[p].executed
      PROVE  Decisions'
  <2>1. PerformedOnTime' /\ ExecutedWasQueued'
    BY <1>1, <1>4 DEF Keeps, Decisions, PerformedOnTime, ExecutedWasQueued
  <2>2. ASSUME NEW p \in ProposalId, proposals'[p].executed PROVE OwnCallMade(p)'
    <3>1. proposals[p].queued /\ OwnCallMade(p)
      BY <1>1, <1>4, <2>2 DEF Decisions, ExecutedWasQueued, OneActionEach
    <3>2. Action(p)' = Action(p) /\ proposals'[p].call = proposals[p].call
      BY <1>1, <1>2, <1>4, <3>1, KeepsApproval DEF Keeps, Decided
    <3> QED BY <1>4, <3>1, <3>2 DEF OwnCallMade
  <2> QED BY <1>1, <1>2, <1>4, <2>1, <2>2, KeepsDecisions DEF Decisions, OneActionEach
<1>5. CASE Tick
  <2>1. now' >= now /\ UNCHANGED <<nextProposalId, proposals, queuedActions, executed, performed>>
    BY <1>3, <1>5 DEF Tick, dao, timelock
  <2>2. Keeps
    BY <1>3, <2>1 DEF Keeps, Decided
  <2> QED BY <1>4, <2>1, <2>2
<1>6. ASSUME NEW w \in Voter, NEW call \in Calls, CreateProposal(w, call)
      PROVE  Decisions'
  <2>1. /\ UNCHANGED <<now, queuedActions, executed, performed>>
        /\ nextProposalId' = nextProposalId + 1
    BY <1>6 DEF CreateProposal, timelock
  <2>2. ASSUME NEW p \in ProposalId
        PROVE  /\ proposals'[p].queued <=> proposals[p].queued
               /\ proposals'[p].executed <=> proposals[p].executed
               /\ proposals[p].queued => Decided(p)' = Decided(p)
    <3>1. CASE p # nextProposalId
      <4>1. proposals'[p] = proposals[p]
        BY <1>3, <1>6, <3>1 DEF CreateProposal
      <4> QED BY <4>1 DEF Decided
    <3>2. CASE p = nextProposalId
      <4>1. proposals[p] = EmptyProposal
        BY <1>1, <1>3, <3>2 DEF Made, Exists
      <4> QED BY <1>3, <1>6, <3>2, <4>1 DEF CreateProposal, EmptyProposal
    <3> QED BY <3>1, <3>2
  <2>3. Keeps
    BY <1>3, <2>1, <2>2 DEF Keeps
  <2> QED BY <1>4, <2>1, <2>2, <2>3
<1>7. ASSUME NEW w \in Voter, NEW q \in ProposalId, NEW support \in BOOLEAN, Vote(w, q, support)
      PROVE  Decisions'
  <2>1. UNCHANGED <<now, nextProposalId, queuedActions, executed, performed>>
    BY <1>7 DEF Vote, timelock
  <2>2. ~proposals[q].queued
    <3>1. SUFFICES ASSUME proposals[q].queued PROVE FALSE
      OBVIOUS
    <3>2. proposals[q].queuedAt > EndBlock(q) /\ proposals[q].queuedAt <= now
      BY <1>1, <3>1 DEF Decisions, ApprovedQueue, Approved
    <3>3. PICK x \in Nat : x = proposals[q].queuedAt
      BY <1>1 DEF TypeOK, Proposal, Time
    <3>4. EndBlock(q) \in Nat
      BY <1>3, GovernanceAssumption DEF Proposal, EndBlock
    <3> QED BY <3>4, <1>3, <1>7, <3>2, <3>3 DEF Vote
  <2>3. ASSUME NEW p \in ProposalId
        PROVE  /\ proposals'[p].queued <=> proposals[p].queued
               /\ proposals'[p].executed <=> proposals[p].executed
               /\ p # q => proposals'[p] = proposals[p]
    BY <1>3, <1>7 DEF Vote, Proposal
  <2>4. Keeps
    BY <1>3, <2>1, <2>2, <2>3 DEF Keeps, Decided
  <2> QED BY <1>4, <2>1, <2>3, <2>4
<1>8. ASSUME NEW call \in Calls, NEW a \in ActionId, TimelockExecute(call, a), Keeps,
             now' = now,
             \A p \in ProposalId : proposals'[p].executed =>
               proposals[p].executed \/ (Action(p) = a /\ proposals[p].call = call
                                         /\ proposals[p].queued)
      PROVE  Decisions'
  <2> DEFINE new == [id |-> a, call |-> call, at |-> now]
  <2>1. /\ queuedActions[a] >= 1 /\ now >= queuedActions[a] /\ ~executed[a]
        /\ queuedActions' = queuedActions
        /\ executed' = [executed EXCEPT ![a] = TRUE]
        /\ performed' = performed \cup {new}
    BY <1>8 DEF TimelockExecute
  <2>2. executed \in [ActionId -> BOOLEAN] /\ performed \subseteq Performed
    BY <1>1 DEF TypeOK
  <2>3. \A c \in performed : c.id \in ActionId /\ c.id # a
    BY <1>1, <2>1, <2>2 DEF Decisions, PerformedOnTime, Performed
  <2>4. PerformedOnTime'
    <3>1. ASSUME NEW b \in ActionId, executed'[b] PROVE queuedActions'[b] >= 1
      BY <1>1, <2>1, <2>2, <3>1 DEF Decisions, PerformedOnTime
    <3>2. ASSUME NEW c \in performed' PROVE executed'[c.id] /\ c.at >= queuedActions'[c.id]
      <4>1. CASE c = new
        BY <2>1, <2>2, <4>1
      <4>2. CASE c \in performed
        BY <1>1, <2>1, <2>2, <2>3, <4>2 DEF Decisions, PerformedOnTime
      <4> QED BY <2>1, <3>2, <4>1, <4>2
    <3> QED BY <3>1, <3>2 DEF PerformedOnTime
  <2>5. ExecutedWasQueued'
    BY <1>1, <1>8 DEF Keeps, Decisions, ExecutedWasQueued
  <2>6. ASSUME NEW p \in ProposalId, proposals'[p].executed PROVE OwnCallMade(p)'
    <3>1. proposals[p].queued
      BY <1>1, <1>8, <2>6 DEF Decisions, ExecutedWasQueued
    <3>2. Action(p)' = Action(p) /\ proposals'[p].call = proposals[p].call
      BY <1>1, <1>2, <1>8, <3>1, KeepsApproval DEF Keeps, Decided
    <3>3. CASE proposals[p].executed
      <4>1. OwnCallMade(p)
        BY <1>1, <3>3 DEF Decisions, OneActionEach
      <4>2. Action(p) # a
        BY <2>3, <4>1 DEF OwnCallMade
      <4>3. new.id # Action(p)
        BY <4>2
      <4> QED BY <2>1, <3>2, <4>1, <4>3 DEF OwnCallMade
    <3>4. CASE Action(p) = a /\ proposals[p].call = call
      <4>1. new \in performed' /\ new.id = Action(p) /\ new.call = proposals[p].call
        BY <2>1, <3>4
      <4>2. \A c \in performed' : c.id = Action(p) => c = new
        BY <2>1, <2>3, <3>4
      <4> QED BY <3>2, <4>1, <4>2 DEF OwnCallMade
    <3> QED BY <1>8, <2>6, <3>3, <3>4
  <2> QED BY <1>1, <1>2, <1>8, <2>4, <2>5, <2>6, KeepsDecisions DEF Decisions, OneActionEach
<1>9. ASSUME NEW call, NEW a, TimelockExecute(call, a) PROVE queuedActions' = queuedActions
  BY <1>9 DEF TimelockExecute
<1>10. ASSUME NEW q \in ProposalId, ExecuteProposal(q)
       PROVE  Decisions'
  <2>1. /\ UNCHANGED <<now, nextProposalId>> /\ proposals[q].queued /\ Exists(q)
        /\ TimelockExecute(proposals[q].call, Action(q))
    BY <1>10 DEF ExecuteProposal
  <2>2. Action(q) \in ActionId /\ proposals[q].call \in Calls
    BY <1>1, <2>1, QueuedAction
  <2>3. ASSUME NEW p \in ProposalId
        PROVE  /\ proposals'[p].queued <=> proposals[p].queued
               /\ Decided(p)' = Decided(p)
               /\ proposals'[p].executed => p = q \/ proposals[p].executed
    BY <1>3, <1>10 DEF ExecuteProposal, Proposal, Decided
  <2>4. Keeps
    BY <1>3, <1>9, <2>1, <2>3 DEF Keeps
  <2> QED BY <1>8, <2>1, <2>2, <2>3, <2>4
<1>11. ASSUME NEW call \in Calls, NEW a \in ActionId, ExecuteDirectly(call, a)
       PROVE  Decisions'
  <2>1. UNCHANGED <<now, nextProposalId, proposals>> /\ TimelockExecute(call, a)
    BY <1>11 DEF ExecuteDirectly, dao
  <2>2. Keeps
    BY <1>3, <1>9, <2>1 DEF Keeps, Decided
  <2> QED BY <1>8, <2>1, <2>2
<1>12. ASSUME NEW u \in Voter, NEW w \in Voter, NEW n \in 1 .. votes[u], Transfer(u, w, n)
       PROVE  Decisions'
  <2>1. UNCHANGED <<now, nextProposalId, proposals, queuedActions, executed, performed>>
    BY <1>12 DEF Transfer, dao, timelock
  <2> QED BY <1>3, <1>4, <2>1 DEF Keeps, Decided
<1>13. CASE UNCHANGED vars
  <2>1. UNCHANGED <<now, nextProposalId, proposals, queuedActions, executed, performed>>
    BY <1>13 DEF vars, dao, timelock
  <2> QED BY <1>3, <1>4, <2>1 DEF Keeps, Decided
<1>14. ASSUME NEW q \in ProposalId, NEW delay \in Delays, QueueProposal(q, delay)
       PROVE  Decisions'
  <2> DEFINE new == <<proposals[q].call, now>>
  <2>1. /\ UNCHANGED <<now, nextProposalId, executed, performed>>
        /\ Exists(q) /\ ~proposals[q].queued /\ now > EndBlock(q)
        /\ proposals[q].forVotes >= Quorum
        /\ proposals[q].forVotes > proposals[q].againstVotes
        /\ queuedActions[new] = 0 /\ delay >= MinDelay
        /\ queuedActions' = [queuedActions EXCEPT ![new] = now + delay]
    BY <1>14 DEF QueueProposal, TimelockQueue
  <2>2. proposals[q].call \in Calls /\ now \in Time /\ new \in ActionId
    BY <1>1, <2>1, QueuedAction DEF TypeOK, ActionId
  <2>3. queuedActions'[new] = now + delay /\ queuedActions'[new] >= 1
    <3>1. PICK x \in Nat : x = EndBlock(q)
      BY <1>1, GovernanceAssumption DEF TypeOK, Proposal, EndBlock
    <3>2. delay \in Nat
      BY GovernanceAssumption
    <3> QED BY <1>1, <1>3, <2>1, <2>2, <3>1, <3>2 DEF TypeOK
  <2>4. \A a \in ActionId : a # new => queuedActions'[a] = queuedActions[a]
    BY <1>1, <2>1 DEF TypeOK
  <2>5. /\ proposals'[q].queued /\ proposals'[q].queuedAt = now
        /\ Decided(q)' = [Decided(q) EXCEPT ![3] = now]
        /\ proposals'[q].executed <=> proposals[q].executed
    BY <1>3, <1>14 DEF QueueProposal, Proposal, Decided
  <2>6. \A p \in ProposalId : p # q => proposals'[p] = proposals[p]
    BY <1>3, <1>14 DEF QueueProposal
  <2>7. /\ Approved(q)' /\ Action(q)' = new
    <3>1. /\ proposals'[q].call = proposals[q].call
          /\ proposals'[q].startBlock = proposals[q].startBlock
          /\ proposals'[q].forVotes = proposals[q].forVotes
          /\ proposals'[q].againstVotes = proposals[q].againstVotes
      BY <2>5 DEF Decided
    <3>2. EndBlock(q)' = EndBlock(q)
      BY <3>1 DEF EndBlock
    <3> QED BY <2>1, <2>5, <3>1, <3>2 DEF Approved, Action, Exists
  <2>8. ASSUME NEW p \in ProposalId, proposals[p].queued
        PROVE  /\ p # q /\ Approved(p)' /\ Action(p)' = Action(p) /\ Action(p) # new
               /\ Action(p) \in ActionId
               /\ queuedActions'[Action(p)] = queuedActions[Action(p)]
               /\ queuedActions[Action(p)] >= 1
               /\ proposals'[p].queuedAt = proposals[p].queuedAt
               /\ proposals[p].queuedAt <= now
    <3>1. p # q /\ proposals'[p] = proposals[p]
      BY <2>1, <2>6, <2>8
    <3>2. Approved(p) /\ queuedActions[Action(p)] >= 1 /\ proposals[p].queuedAt <= now
      BY <1>1, <2>8 DEF Decisions, ApprovedQueue
    <3>3. EndBlock(p)' = EndBlock(p) /\ Action(p)' = Action(p)
      BY <3>1 DEF EndBlock, Action
    <3>4. Action(p) \in ActionId
      BY <1>1, <3>2, QueuedAction DEF Approved
    <3> QED BY <2>1, <2>4, <3>1, <3>2, <3>3, <3>4 DEF Approved, Exists
  <2>9. ASSUME NEW p \in ProposalId, proposals'[p].queued, p # q
        PROVE  proposals[p].queued
    BY <2>6, <2>9
  <2>10. ApprovedQueue'
    <3>1. ASSUME NEW p \in ProposalId, proposals'[p].queued
          PROVE  Approved(p)' /\ proposals'[p].queuedAt <= now' /\ queuedActions'[Action(p)'] >= 1
      BY <1>3, <2>1, <2>3, <2>5, <2>7, <2>8, <2>9, <3>1
    <3> QED BY <3>1 DEF ApprovedQueue
  <2>11. QueueApproved'
    <3>1. ASSUME NEW a \in ActionId, queuedActions'[a] >= 1
          PROVE  \E p \in ProposalId :
                   /\ proposals'[p].queued /\ Action(p)' = a
                   /\ queuedActions'[a] >= proposals'[p].queuedAt + MinDelay
      <4>1. CASE a = new
        <5>1. now + delay >= now + MinDelay
          BY <1>3, <2>1, GovernanceAssumption
        <5> QED BY <2>3, <2>5, <2>7, <4>1, <5>1
      <4>2. CASE a # new
        <5>1. PICK p \in ProposalId :
                /\ proposals[p].queued /\ Action(p) = a
                /\ queuedActions[a] >= proposals[p].queuedAt + MinDelay
          BY <1>1, <2>4, <3>1, <4>2 DEF Decisions, QueueApproved
        <5>2. proposals'[p].queued
          BY <2>6, <2>8, <5>1
        <5> QED BY <2>8, <5>1, <5>2
      <4> QED BY <4>1, <4>2
    <3> QED BY <3>1 DEF QueueApproved
  <2>12. PerformedOnTime'
    <3>1. \A a \in ActionId : executed[a] => a # new
      BY <1>1, <2>1 DEF Decisions, PerformedOnTime
    <3>2. \A c \in performed : c.id \in ActionId
      BY <1>1 DEF TypeOK, Performed
    <3> QED BY <1>1, <2>1, <2>4, <3>1, <3>2 DEF Decisions, PerformedOnTime
  <2>13. ExecutedWasQueued'
    BY <1>1, <2>5, <2>6 DEF Decisions, ExecutedWasQueued
  <2>14. OneActionEach'
    <3>1. ASSUME NEW p \in ProposalId, NEW r \in ProposalId,
                 proposals'[p].queued, proposals'[r].queued, p # r
          PROVE  Action(p)' # Action(r)'
      <4>1. CASE p = q
        BY <2>7, <2>8, <2>9, <3>1, <4>1
      <4>2. CASE r = q
        BY <2>7, <2>8, <2>9, <3>1, <4>2
      <4>3. CASE p # q /\ r # q
        BY <1>1, <2>8, <2>9, <3>1, <4>3 DEF Decisions, OneActionEach
      <4> QED BY <4>1, <4>2, <4>3
    <3>2. ASSUME NEW p \in ProposalId, proposals'[p].executed
          PROVE  OwnCallMade(p)'
      <4>1. proposals[p].executed
        BY <2>5, <2>6, <3>2
      <4>2. proposals[p].queued /\ OwnCallMade(p)
        BY <1>1, <4>1 DEF Decisions, ExecutedWasQueued, OneActionEach
      <4>3. Action(p)' = Action(p) /\ proposals'[p].call = proposals[p].call
        BY <2>6, <2>8, <4>2
      <4> QED BY <2>1, <4>2, <4>3 DEF OwnCallMade
    <3> QED BY <3>1, <3>2 DEF OneActionEach
  <2> QED BY <2>10, <2>11, <2>12, <2>13, <2>14 DEF Decisions
<1> QED BY <1>1, <1>5, <1>6, <1>7, <1>10, <1>11, <1>12, <1>13, <1>14 DEF Next

-----------------------------------------------------------------------------
(* Every call uses up an approval. *)

\* An approval keeps its action, and a new one is under an id that was not queued.
LEMMA ApprovalsStay ==
  ASSUME TypeOK, Made, [Next]_vars, NEW p \in ProposalId
  PROVE  /\ proposals[p].queued => proposals'[p].queued /\ Action(p)' = Action(p)
         /\ proposals'[p].queued /\ ~proposals[p].queued =>
              queuedActions[Action(p)'] = 0 /\ UNCHANGED <<executed, performed>>
<1> DEFINE Same == /\ proposals'[p].queued <=> proposals[p].queued
                   /\ proposals[p].queued => Action(p)' = Action(p)
<1>1. proposals \in [ProposalId -> Proposal] /\ proposals[p] \in Proposal /\ nextProposalId \in Nat
  BY DEF TypeOK
<1>2. ASSUME NEW w \in Voter, NEW call \in Calls, CreateProposal(w, call) PROVE Same
  <2>1. CASE p # nextProposalId
    BY <1>1, <1>2, <2>1 DEF CreateProposal, Action
  <2>2. CASE p = nextProposalId
    <3>1. proposals[p] = EmptyProposal
      BY <1>1, <2>2 DEF Made, Exists
    <3> QED BY <1>1, <1>2, <2>2, <3>1 DEF CreateProposal, EmptyProposal
  <2> QED BY <2>1, <2>2
<1>3. ASSUME NEW w \in Voter, NEW q \in ProposalId, NEW support \in BOOLEAN, Vote(w, q, support)
      PROVE  Same
  BY <1>1, <1>3 DEF Vote, Proposal, Action
<1>4. ASSUME NEW q \in ProposalId, ExecuteProposal(q) PROVE Same
  BY <1>1, <1>4 DEF ExecuteProposal, Proposal, Action
<1>5. ASSUME NEW q \in ProposalId, NEW delay \in Delays, QueueProposal(q, delay)
      PROVE  /\ proposals[p].queued => proposals'[p].queued /\ Action(p)' = Action(p)
             /\ proposals'[p].queued /\ ~proposals[p].queued =>
                  queuedActions[Action(p)'] = 0 /\ UNCHANGED <<executed, performed>>
  <2>1. CASE p # q
    BY <1>1, <1>5, <2>1 DEF QueueProposal, Action
  <2>2. CASE p = q
    <3>1. ~proposals[p].queued /\ Action(p)' = <<proposals[p].call, now>>
      BY <1>1, <1>5, <2>2 DEF QueueProposal, Proposal, Action
    <3> QED BY <1>5, <2>2, <3>1 DEF QueueProposal, TimelockQueue
  <2> QED BY <2>1, <2>2
<1>6. CASE \/ Tick
           \/ \E v, w \in Voter : \E n \in 1 .. votes[v] : Transfer(v, w, n)
           \/ \E call \in Calls, a \in ActionId : ExecuteDirectly(call, a)
           \/ UNCHANGED vars
  BY <1>6 DEF Tick, Transfer, ExecuteDirectly, vars, dao, Action
<1> QED BY <1>2, <1>3, <1>4, <1>5, <1>6 DEF Next

LEMMA SpentInit == GovInit => SpentEach
<1>1. SUFFICES ASSUME GovInit PROVE SpentEach
  OBVIOUS
<1>2. Spent = {} /\ performed = {}
  BY <1>1 DEF GovInit, EmptyProposal, Spent
<1> QED BY <1>2, FS_EmptySet DEF SpentEach

LEMMA SpentFinite == IsFiniteSet(Spent)
<1>1. IsFiniteSet(ProposalId)
  BY FS_Interval, GovernanceAssumption DEF ProposalId
<1> QED BY <1>1, FS_Subset DEF Spent

LEMMA SpentNext ==
  TypeOK /\ Made /\ Decisions /\ SpentEach /\ [Next]_vars => SpentEach'
<1>1. SUFFICES ASSUME TypeOK, Made, Decisions, SpentEach, [Next]_vars PROVE SpentEach'
  OBVIOUS
<1>2. TypeOK' /\ executed \in [ActionId -> BOOLEAN] /\ performed \subseteq Performed
  BY <1>1, TypeNext DEF TypeOK
<1>3. ASSUME NEW p \in ProposalId
      PROVE  /\ proposals[p].queued =>
                   proposals'[p].queued /\ Action(p)' = Action(p) /\ Action(p) \in ActionId
             /\ proposals'[p].queued /\ ~proposals[p].queued =>
                   queuedActions[Action(p)'] = 0 /\ UNCHANGED <<executed, performed>>
                   /\ Action(p)' \in ActionId
  <2>1. proposals[p].queued => Action(p) \in ActionId
    BY <1>1, QueuedAction DEF Decisions, ApprovedQueue, Approved
  <2>2. proposals'[p].queued => Action(p)' \in ActionId
    <3>1. Made' /\ Decisions'
      BY <1>1, MadeNext, DecisionsNext
    <3>2. ASSUME proposals'[p].queued PROVE Exists(p)' /\ proposals'[p] \in Proposal
      BY <1>2, <3>1, <3>2 DEF Decisions, ApprovedQueue, Approved, TypeOK
    <3> QED BY <3>1, <3>2 DEF Made, Action, ActionId, Proposal
  <2> QED BY <1>1, <2>1, <2>2, ApprovalsStay
<1>4. CASE UNCHANGED <<executed, performed>>
  <2>1. ASSUME NEW p \in ProposalId PROVE p \in Spent' <=> p \in Spent
    <3>1. proposals'[p].queued /\ ~proposals[p].queued => ~executed[Action(p)']
      BY <1>1, <1>3 DEF Decisions, PerformedOnTime
    <3> QED BY <1>3, <1>4, <3>1 DEF Spent
  <2>2. Spent' = Spent
    BY <2>1 DEF Spent
  <2> QED BY <1>1, <1>4, <2>2 DEF SpentEach
<1>5. ASSUME NEW call \in Calls, NEW a \in ActionId, TimelockExecute(call, a)
      PROVE  SpentEach'
  <2> DEFINE new == [id |-> a, call |-> call, at |-> now]
  <2>1. /\ queuedActions[a] >= 1 /\ ~executed[a]
        /\ executed' = [executed EXCEPT ![a] = TRUE]
        /\ performed' = performed \cup {new}
    BY <1>5 DEF TimelockExecute
  <2>2. new \notin performed
    BY <1>1, <2>1 DEF Decisions, PerformedOnTime
  <2>3. executed' # executed
    BY <1>2, <2>1
  <2>4. PICK p \in ProposalId : proposals[p].queued /\ Action(p) = a
    BY <1>1, <2>1 DEF Decisions, QueueApproved
  <2>5. p \notin Spent /\ p \in Spent'
    BY <1>2, <1>3, <2>1, <2>4 DEF Spent
  <2>6. ASSUME NEW q \in ProposalId, q # p PROVE q \in Spent' <=> q \in Spent
    <3>1. proposals'[q].queued <=> proposals[q].queued
      BY <1>3, <2>3
    <3>2. proposals[q].queued => Action(q) # a /\ Action(q) \in ActionId /\ Action(q)' = Action(q)
      BY <1>1, <1>3, <2>4, <2>6 DEF Decisions, OneActionEach
    <3> QED BY <1>2, <2>1, <3>1, <3>2 DEF Spent
  <2>7. Spent' = Spent \cup {p}
    BY <2>5, <2>6 DEF Spent
  <2>8. PICK S : S = Spent
    OBVIOUS
  <2>9. PICK T : T = performed
    OBVIOUS
  <2>10. /\ IsFiniteSet(S) /\ IsFiniteSet(T) /\ p \notin S /\ new \notin T
         /\ Cardinality(T) = Cardinality(S)
    BY <1>1, <2>2, <2>5, <2>8, <2>9, SpentFinite DEF SpentEach
  <2> HIDE DEF new
  <2>11. IsFiniteSet(T \cup {new}) /\ Cardinality(T \cup {new}) = Cardinality(T) + 1
    BY <2>10, FS_AddElement
  <2>12. Cardinality(S \cup {p}) = Cardinality(S) + 1
    BY <2>10, FS_AddElement
  <2> QED BY <2>1, <2>7, <2>8, <2>9, <2>10, <2>11, <2>12 DEF SpentEach
<1>6. CASE \E q \in ProposalId : ExecuteProposal(q)
  <2>1. PICK q \in ProposalId : ExecuteProposal(q)
    BY <1>6
  <2>2. Action(q) \in ActionId /\ proposals[q].call \in Calls
    BY <1>1, <2>1, QueuedAction DEF ExecuteProposal
  <2> QED BY <1>5, <2>1, <2>2 DEF ExecuteProposal
<1>7. CASE \E call \in Calls, a \in ActionId : ExecuteDirectly(call, a)
  BY <1>5, <1>7 DEF ExecuteDirectly
<1>8. CASE \/ Tick
           \/ \E v, w \in Voter : \E n \in 1 .. votes[v] : Transfer(v, w, n)
           \/ \E v \in Voter, call \in Calls : CreateProposal(v, call)
           \/ \E v \in Voter, p \in ProposalId, support \in BOOLEAN : Vote(v, p, support)
           \/ \E p \in ProposalId, delay \in Delays : QueueProposal(p, delay)
           \/ UNCHANGED vars
  BY <1>4, <1>8 DEF Tick, Transfer, CreateProposal, Vote, QueueProposal, TimelockQueue, vars, timelock
<1> QED BY <1>1, <1>6, <1>7, <1>8 DEF Next

\* What was called used up an approval, and had waited.
LEMMA SpendsApprovals == TypeOK /\ Decisions /\ SpentEach => EachSpendsAnApproval
<1>1. SUFFICES ASSUME TypeOK, Decisions, SpentEach PROVE EachSpendsAnApproval
  OBVIOUS
<1>2. Cardinality(performed) <= Cardinality({p \in ProposalId : Approved(p)})
  <2>1. Spent \subseteq {p \in ProposalId : Approved(p)}
    BY <1>1 DEF Spent, Decisions, ApprovedQueue
  <2>2. IsFiniteSet({p \in ProposalId : Approved(p)})
    <3>1. IsFiniteSet(ProposalId)
      BY FS_Interval, GovernanceAssumption DEF ProposalId
    <3> QED BY <3>1, FS_Subset
  <2> QED BY <1>1, <2>1, <2>2, FS_Subset DEF SpentEach
<1>3. ASSUME NEW c \in performed
      PROVE  \E p \in ProposalId :
               /\ Approved(p) /\ Action(p) = c.id
               /\ c.at >= proposals[p].queuedAt + MinDelay
  <2>1. c \in Performed /\ c.id \in ActionId /\ c.at \in Nat
    BY <1>1 DEF TypeOK, Performed, Time
  <2>2. queuedActions[c.id] >= 1 /\ c.at >= queuedActions[c.id] /\ queuedActions[c.id] \in Nat
    BY <1>1, <2>1 DEF Decisions, PerformedOnTime, TypeOK
  <2>3. PICK p \in ProposalId :
          /\ proposals[p].queued /\ Action(p) = c.id
          /\ queuedActions[c.id] >= proposals[p].queuedAt + MinDelay
    BY <1>1, <2>1, <2>2 DEF Decisions, QueueApproved
  <2>4. Approved(p)
    BY <1>1, <2>3 DEF Decisions, ApprovedQueue
  <2>5. PICK x \in Nat, y \in Nat, z \in Nat :
          x = c.at /\ y = queuedActions[c.id] /\ z = proposals[p].queuedAt
    BY <1>1, <2>1, <2>2 DEF TypeOK, Proposal, Time
  <2> QED BY <2>2, <2>3, <2>4, <2>5, GovernanceAssumption
<1> QED BY <1>2, <1>3 DEF EachSpendsAnApproval

-----------------------------------------------------------------------------
(* Parameters. *)

LEMMA LimitsInit == GovInit => WithinBounds
BY DEF GovInit, ParamInit, WithinBounds

\* No call takes a parameter out of its limits, and limits are set once.
LEMMA CallKeepsLimits ==
  ASSUME ParamTypeOK, WithinBounds, NEW call \in Calls, Perform(call)
  PROVE  WithinBounds'
<1>1. /\ bounds \in [Key -> [min : Nat, max : Nat, exists : BOOLEAN]]
      /\ uintParams \in [Key -> Nat]
  BY DEF ParamTypeOK
<1>2. SUFFICES ASSUME NEW k \in Key
               PROVE  \/ uintParams'[k] = 0
                      \/ /\ bounds'[k].exists
                         /\ bounds'[k].min <= uintParams'[k]
                         /\ uintParams'[k] <= bounds'[k].max
  BY DEF WithinBounds
<1>3. \/ uintParams[k] = 0
      \/ /\ bounds[k].exists
         /\ bounds[k].min <= uintParams[k] /\ uintParams[k] <= bounds[k].max
  BY DEF WithinBounds
<1>4. CASE SetBounds(call.key, call.min, call.max)
  <2>1. CASE k = call.key
    BY <1>1, <1>3, <1>4, <2>1 DEF SetBounds
  <2>2. CASE k # call.key
    BY <1>1, <1>3, <1>4, <2>2 DEF SetBounds
  <2> QED BY <2>1, <2>2
<1>5. CASE SetUint(call.key, call.value)
  <2>1. CASE k = call.key
    BY <1>1, <1>5, <2>1 DEF SetUint
  <2>2. CASE k # call.key
    BY <1>1, <1>3, <1>5, <2>2 DEF SetUint
  <2> QED BY <2>1, <2>2
<1>6. CASE UNCHANGED <<bounds, uintParams>>
  BY <1>3, <1>6
<1> QED BY <1>4, <1>5, <1>6 DEF Perform, Call, SetBool, SetAddress, paramVars

LEMMA LimitsNext == TypeOK /\ Made /\ WithinBounds /\ [Next]_vars => WithinBounds'
<1>1. SUFFICES ASSUME TypeOK, Made, WithinBounds, [Next]_vars PROVE WithinBounds'
  OBVIOUS
<1>2. ASSUME UNCHANGED paramVars PROVE WithinBounds'
  BY <1>1, <1>2 DEF paramVars, WithinBounds
<1>3. ASSUME NEW call \in Calls, NEW a, TimelockExecute(call, a) PROVE WithinBounds'
  BY <1>1, <1>3, CallKeepsLimits DEF TimelockExecute, TypeOK
<1>4. CASE \E p \in ProposalId : ExecuteProposal(p)
  BY <1>1, <1>3, <1>4, QueuedAction DEF ExecuteProposal
<1>5. CASE \E call \in Calls, a \in ActionId : ExecuteDirectly(call, a)
  BY <1>3, <1>5 DEF ExecuteDirectly
<1>6. CASE \/ Tick
           \/ \E v, w \in Voter : \E n \in 1 .. votes[v] : Transfer(v, w, n)
           \/ \E v \in Voter, call \in Calls : CreateProposal(v, call)
           \/ \E v \in Voter, p \in ProposalId, support \in BOOLEAN : Vote(v, p, support)
           \/ \E p \in ProposalId, delay \in Delays : QueueProposal(p, delay)
           \/ UNCHANGED vars
  BY <1>2, <1>6 DEF Tick, Transfer, CreateProposal, Vote, QueueProposal, vars
<1> QED BY <1>1, <1>4, <1>5, <1>6 DEF Next

-----------------------------------------------------------------------------
(* The inductive invariant and the theorems. *)

IInv == TypeOK /\ Made /\ PowerConserved /\ BallotsOpen /\ Tallies /\ Decisions /\ SpentEach
        /\ WithinBounds

LEMMA IInvInductive == Spec => []IInv
<1>1. GovInit => IInv
  BY TypeInit, MadeInit, PowerInit, BallotsInit, TalliesInit, DecisionsInit, SpentInit, LimitsInit DEF IInv
<1>2. IInv /\ [Next]_vars => IInv'
  BY TypeNext, MadeNext, PowerNext, BallotsNext, TalliesNext, DecisionsNext, SpentNext, LimitsNext DEF IInv
<1> QED BY <1>1, <1>2, PTL DEF Spec

\* Every value the contracts store has its type.
THEOREM TypeCorrect == Spec => []TypeOK
<1>1. IInv => TypeOK
  BY DEF IInv
<1> QED BY <1>1, IInvInductive, PTL

\* However power moves, a proposal's tallies are the power its voters had at
\* startBlock, never more than the supply.
THEOREM VotesBackedByPower == Spec => []TallyBacked
<1>1. IInv => TallyBacked
  BY TalliesBacked DEF IInv
<1> QED BY <1>1, IInvInductive, PTL

\* Whatever the timelock called, and whoever made it, the call used up an approval of
\* its own, given by a vote that had ended, after the minimum delay.
THEOREM CallsUseUpApprovals == Spec => []EachSpendsAnApproval
<1>1. IInv => EachSpendsAnApproval
  BY SpendsApprovals DEF IInv
<1> QED BY <1>1, IInvInductive, PTL

\* Two approved proposals never share a timelock action, and one the DAO calls executed
\* had its own call made under its id.
THEOREM ActionsDistinct == Spec => []OneActionEach
<1>1. IInv => OneActionEach
  BY DEF IInv, Decisions
<1> QED BY <1>1, IInvInductive, PTL

\* Governance may adjust parameters, but never exceeds their limits.
THEOREM ParametersBounded == Spec => []WithinBounds
<1>1. IInv => WithinBounds
  BY DEF IInv
<1> QED BY <1>1, IInvInductive, PTL

\* A step after the voting period leaves the tallies and the ballots as they are.
LEMMA VotesFinalStep ==
  ASSUME TypeOK, Made, [Next]_vars, NEW p \in ProposalId, Exists(p), now > EndBlock(p)
  PROVE  /\ proposals'[p].forVotes = proposals[p].forVotes
         /\ proposals'[p].againstVotes = proposals[p].againstVotes
         /\ hasVoted'[p] = hasVoted[p]
<1>1. proposals \in [ProposalId -> Proposal] /\ proposals[p] \in Proposal /\ now \in Nat
  BY DEF TypeOK, Time
<1>2. ASSUME NEW v \in Voter, NEW call \in Calls, CreateProposal(v, call)
      PROVE  proposals'[p] = proposals[p] /\ hasVoted' = hasVoted
  BY <1>1, <1>2 DEF CreateProposal, Exists, TypeOK
<1>3. ASSUME NEW v \in Voter, NEW q \in ProposalId, NEW support \in BOOLEAN, Vote(v, q, support)
      PROVE  proposals'[p] = proposals[p] /\ hasVoted'[p] = hasVoted[p]
  <2>1. EndBlock(p) \in Nat
    BY <1>1, GovernanceAssumption DEF EndBlock, Proposal
  <2>2. p # q
    BY <1>1, <1>3, <2>1 DEF Vote
  <2> QED BY <1>1, <1>3, <2>2 DEF Vote, TypeOK
<1>4. CASE \E q \in ProposalId, delay \in Delays : QueueProposal(q, delay)
  BY <1>1, <1>4 DEF QueueProposal, Proposal
<1>5. CASE \E q \in ProposalId : ExecuteProposal(q)
  BY <1>1, <1>5 DEF ExecuteProposal, Proposal
<1>6. CASE \/ Tick
           \/ \E v, w \in Voter : \E n \in 1 .. votes[v] : Transfer(v, w, n)
           \/ \E call \in Calls, a \in ActionId : ExecuteDirectly(call, a)
           \/ UNCHANGED vars
  BY <1>6 DEF Tick, Transfer, ExecuteDirectly, vars, dao
<1> QED BY <1>2, <1>3, <1>4, <1>5, <1>6 DEF Next

\* The verdict queueProposal reads does not change once the voting period is over.
THEOREM VerdictIsFinal == Spec => VotesFinal
<1>1. IInv /\ [Next]_vars =>
        [\A p \in ProposalId : Exists(p) /\ now > EndBlock(p) =>
           /\ proposals'[p].forVotes = proposals[p].forVotes
           /\ proposals'[p].againstVotes = proposals[p].againstVotes
           /\ hasVoted'[p] = hasVoted[p]]_vars
  BY VotesFinalStep DEF IInv
<1> QED BY <1>1, IInvInductive, PTL DEF Spec, VotesFinal

\* vote counts the power of startBlock, once, while power moves between the holders.
THEOREM VotesCountedOnce == Spec => []VotesCounted
BY TypeCorrect, VotesBackedByPower, PTL DEF VotesCounted
=============================================================================
