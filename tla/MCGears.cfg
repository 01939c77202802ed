\* The honest prover against the verifier, with the algebra of the contracts.
SPECIFICATION ProverSafety
CONSTANTS
  P = 127
  STEPS = 7
  LOG_DOMAIN = 4
  LOG_TRACE = 3
  OFF <- MCOff
  H <- MCH
  STEP <- MCH
  DEEP_STEP <- MCH
  SEL <- LastRowsLine
  B01 <- FirstRowsLine
  D = 4
  N = 1
  L = 3
  None = None
  DomainSize <- MCDomainSize
  Opaque <- NoLies
  DeepRow <- GearDeepRow
  FeltToPointOk <- FeltToPointRequires
  ComposeCheck <- GearComposeCheck
  Twiddle <- GearTwiddle
  Challenges <- MCChallenges
  Tree <- GearTree
  TraceRoots <- MCTraceRoots
  CompRoots <- MCCompRoots
  FriRoots <- Layers
  OodClaims <- NoLies
  Claims <- NoLies
  Finals <- NoLies
  Junk <- NoLies
  PathLengths <- NoLies
  Hints <- NoLies
  TCol <- MCTCol
  CompCol <- MCCompCol
  OpeningsOf <- MCOpeningsOf
INVARIANTS
  PanicsOnlyOnExceptionalChallenge
  HonestNeverRejected
