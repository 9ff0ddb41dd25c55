SPECIFICATION Spec
CONSTANTS
  Kinds <- SomeKinds
  BlockOf <- SomeBlocks
  SpecsOf <- SomeSpecs
  References <- SomeReferences
  MaxEdits = 1
CHECK_DEADLOCK FALSE
INVARIANTS
  TypeOK
  ConfigFaithful
  SpecMappedUnlessFlawed
  StatusTruthful
  SensitiveEncrypted
  
