SPECIFICATION FairSpec
CONSTANTS
  Key = {"cap"}
  Address = {"a"}
  NoAddress = "none"
  NoCall = NoCall
  NumVoters = 2
  InitialVotes <- MCInitialVotes
  VotingDelay = 1
  VotingPeriod = 1
  Quorum = 1
  ProposalThreshold = 1
  MinDelay = 1
  Delays <- MCDelays
  Calls <- MCCalls
  MaxProposals = 2
  MaxTime = 5
  LastTransfer = 2
INVARIANTS
  VotesCounted
  EachSpendsAnApproval
  OneActionEach
  WithinBounds
PROPERTIES
  ApprovedIsUsed
CHECK_DEADLOCK FALSE
