SPECIFICATION Spec
CONSTANTS
  Types = {"t1", "t2"}
  TooLong = {}
  Rejected = {}
  Conflicting = {}
  Unmappable = {}
  MaxFaults = 1
INVARIANTS
  SchemasAligned
