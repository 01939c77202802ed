\* The honest prover against the verifier.
SPECIFICATION ProverSpec
CONSTANTS
  P = 3
  STEPS = 2
  D = 3
  N = 2
  L = 2
  None = None
  DomainSize <- MCDomainSize
  Opaque <- NoLies
  DeepRow <- MCDeepRow
  FeltToPointOk <- MCFeltToPointOk
  ComposeCheck <- MCComposeCheck
  Twiddle <- MCTwiddle
  Challenges <- MCChallenges
  Tree <- MCTree
  TraceRoots <- MCTraceRoots
  CompRoots <- MCCompRoots
  FriRoots <- MCFriRoots
  OodClaims <- NoLies
  Claims <- NoLies
  Finals <- NoLies
  Junk <- NoLies
  PathLengths <- NoLies
  Hints <- NoLies
  TCol <- TraceWord
  CompCol <- MCCompCol
  OpeningsOf <- MCOpeningsOf
PROPERTY
  HonestProofAccepted
