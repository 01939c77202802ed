\* Two queries, one FRI layer, against a cheating prover.
SPECIFICATION Spec
CONSTANTS
  P = 3
  STEPS = 2
  D = 2
  N = 2
  L = 1
  None = None
  DomainSize <- MCDomainSize
  Opaque <- MCOpaque
  DeepRow <- MCDeepRow
  FeltToPointOk <- MCFeltToPointOk
  ComposeCheck <- MCComposeCheck
  Twiddle <- MCTwiddle
  Challenges <- MCChallenges
  Tree <- MCTree
  TraceRoots <- PairTraceRoots
  CompRoots <- PairCompRoots
  FriRoots <- PairFriRoots
  OodClaims <- MCOodClaims
  Claims <- MCClaims
  Finals <- PairFinals
  Junk <- MCJunk
  PathLengths <- MCPathLengths
  Hints <- MCHints
INVARIANTS
  Soundness
  CheckedPrefix
  HashBudget
