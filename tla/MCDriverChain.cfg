\* One query through two FRI layers against a cheating prover.
SPECIFICATION Spec
CONSTANTS
  P = 3
  STEPS = 2
  D = 3
  N = 1
  L = 2
  None = None
  DomainSize <- MCDomainSize
  Opaque <- MCOpaque
  DeepRow <- MCDeepRow
  FeltToPointOk <- MCFeltToPointOk
  ComposeCheck <- MCComposeCheck
  Twiddle <- MCTwiddle
  Challenges <- MCChallenges
  Tree <- MCTree
  TraceRoots <- ChainTraceRoots
  CompRoots <- ChainCompRoots
  FriRoots <- ChainFriRoots
  OodClaims <- MCOodClaims
  Claims <- MCClaims
  Finals <- ChainFinals
  Junk <- MCJunk
  PathLengths <- MCPathLengths
  Hints <- MCHints
INVARIANTS
  TypeOK
  PositionBinding
  Bundle
PROPERTY
  VerdictImplemented
