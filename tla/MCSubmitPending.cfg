\* Does a run stop polling for a transaction that is no longer pending?
SPECIFICATION SubmitSpec
CONSTANTS
  r1 = r1
  r2 = r2
  r3 = r3
  alice = alice
  bob = bob
  p1 = p1
  p2 = p2
  None = None
  Runs <- AliceRuns
  Signer <- MCSigner
  Pub <- MCPub
  Pubs <- MCPubs
  ProofOk <- MCProofOk
  NoWait <- NobodyUnwaited
  MaxEmptyHeight = 1
  MaxBurn = 1
PROPERTY
  PollsOnlyPending
CHECK_DEADLOCK FALSE
