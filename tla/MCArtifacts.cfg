\* Edits, runs and checks of two gears, in any order.
SPECIFICATION Spec
CONSTANTS
  GearOrder <- MCGearOrder
  Natives <- MCNatives
  ForbiddenAtoms <- MCForbidden
  WrapForbidden <- MCWrap
  ProductionDemote <- MCDemote
  Texts <- MCTexts
  Mutations <- MCMutations
  Arguments <- MCArguments
  None = None
  MaxEdits = 1
  MaxRuns = 2
INVARIANTS
  FlatComputesGears
  ProductionComputesGears
  CheckAcceptsFlat
  CheckIsSound
  CheckedManifestIsCurrent
CHECK_DEADLOCK FALSE
