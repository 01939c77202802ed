\* Six traces through the algebra of one proof.
SPECIFICATION Spec
CONSTANTS
  P = 127
  STEPS = 7
  LOG_DOMAIN = 4
  LOG_TRACE = 3
  OFF <- MCOff
  H <- MCH
  STEP <- MCH
  DEEP_STEP <- MCH
  SEL <- LastRowsLine
  B01 <- FirstRowsLine
  Traces <- MCTraces
  Alphas <- MCAlphas
  Zs <- MCZs
  Gammas <- MCGammas
  Betas <- MCBetas
  Lies <- MCLies
INVARIANTS
  FoldSourcesPair
  RotationIdentity
  CompositionWitnessesTrace
  ClosureBindsOpenings
  RowIsClassicQuotient
  RowBindsOpenings
  TerminalTellsTraces
CHECK_DEADLOCK FALSE
