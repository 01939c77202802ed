CONSTANTS
  P = 127
  STEPS = 7
  G <- MCG
  LOG_ORDER = 7
  HASH_BITS = 16
  TOY_POINT <- MCToy
  CheckedIn <- MCCheckedIn
  CAP_FLOOR = 32
  EMITTERS <- MCEmitters
  Texts <- MCTexts
  INLINED <- MCInlined
  Registered <- MCRegistered
  Transcriptions <- MCTranscriptions
  Slips <- MCSlips
  GearOrder <- MCGearOrder
  None = None
  MaxEdits = 2

SPECIFICATION Spec
CHECK_DEADLOCK FALSE
INVARIANTS
  CheckedFullIsOneEmission
  GreenIsOnePoint
  HarnessPinsPoint
  PublishedIsDeployed
  FencesRespected
PROPERTIES
  
  WrittenTakesProofs
  WrittenSelectsRows
