SPECIFICATION Spec
CONSTANTS
  Kinds <- SomeKinds
  BlockOf <- SomeBlocks
  SpecsOf <- SomeSpecs
  References <- SomeReferences
  MaxEdits = 0
CHECK_DEADLOCK FALSE
INVARIANT
  StateSaved
