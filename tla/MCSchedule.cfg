\* Two proofs through the whole schedule.
SPECIFICATION Spec
CONSTANTS
  N = 2
  L = 2
  Contexts <- Brings
  Roots <- Brings
  Felts <- Brings
  Nonces <- Brings
INVARIANTS
  ChallengesBind
  ChallengesFresh
CHECK_DEADLOCK FALSE
