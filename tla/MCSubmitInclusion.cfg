\* Does a run that reports inclusion have its own transaction on the chain?
SPECIFICATION SubmitSpec
CONSTANTS
  r1 = r1
  r2 = r2
  r3 = r3
  alice = alice
  bob = bob
  p1 = p1
  p2 = p2
  None = None
  Runs <- AliceRuns
  Signer <- MCSigner
  Pub <- MCPub
  Pubs <- MCPubs
  ProofOk <- MCProofOk
  NoWait <- NobodyUnwaited
  MaxEmptyHeight = 1
  MaxBurn = 1
INVARIANT
  InclusionIsOwn
CHECK_DEADLOCK FALSE
