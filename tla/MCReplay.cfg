\* Honest, lying and altered proofs before both verifiers.
SPECIFICATION ReplaySpec
CONSTANTS
  P = 127
  STEPS = 7
  LOG_DOMAIN = 4
  LOG_TRACE = 3
  OFF <- MCOff
  H <- MCH
  STEP <- MCH
  DEEP_STEP <- MCH
  G <- MCG
  LOG_ORDER = 7
  SEL <- LastRowsLine
  B01 <- FirstRowsLine
  D = 4
  N = 2
  L = 3
  None = None
  DomainSize <- MCDomainSize
  Opaque = {}
  DeepRow <- GearDeepRow
  FeltToPointOk <- FeltToPointRequires
  ComposeCheck <- GearComposeCheck
  Twiddle <- GearTwiddle
  Challenges <- MCChallenges
  Tree <- GearTree
  TraceRoots = {}
  CompRoots = {}
  FriRoots <- MCNoRoots
  OodClaims = {}
  Claims = {}
  Finals = {}
  Junk = {}
  PathLengths = {}
  Hints = {}
  Kinds <- MCKinds
  SymTrace <- MCSymTrace
  SymComp <- MCSymComp
  Samples <- MCSamples
  TraceLie <- MCTraceLie
  OpeningLie <- MCOpeningLie
  Squeezed <- MCSqueezed
  Draws <- MCDraws
  Altered <- MCAltered
INVARIANTS
  FormatsAgree
  OneAnswerPerQuery
  LiesPassByLuckAlone
PROPERTY
  LiesReachTerminal
