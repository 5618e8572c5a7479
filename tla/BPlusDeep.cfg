SPECIFICATION Spec
CONSTANTS
  MaxLevel = 5
  MaxKey = 8
  Shapes <- DeepShapes
  Probes <- MCProbes
  Inputs <- MCInputs
INVARIANTS
  LevelListsMatchLayers
  ParentsExact
  SeparatorsRoute
  NoAssertFails
VIEW MCView
