\* Three concurrent runs of two signers for one public input; Bob does not wait.
SPECIFICATION SubmitSpec
CONSTANTS
  r1 = r1
  r2 = r2
  r3 = r3
  alice = alice
  bob = bob
  p1 = p1
  p2 = p2
  None = None
  Runs <- MCRuns
  Signer <- MCSigner
  Pub <- MCPub
  Pubs <- MCPubs
  ProofOk <- MCProofOk
  NoWait <- BobRuns
  MaxEmptyHeight = 1
  MaxBurn = 1
INVARIANT
  ReportIsTrue
PROPERTIES
  RegistryImplemented
  OutcomeReported
  AcceptedReported
CHECK_DEADLOCK FALSE
