SPECIFICATION Spec
CONSTANTS
  MaxLevel = 5
  MaxKey = 7
  Shapes <- LeafShapes
  Probes <- MCProbes
  Inputs <- MCInputs
INVARIANTS
  TypeOK
  LevelListsMatchLayers
  ParentsExact
  SeparatorsRoute
  Occupancy
  NoAssertFails
  GetAnswers
  RangeFromPresentKey
PROPERTY
  ImplementsIndexMap
VIEW MCView
