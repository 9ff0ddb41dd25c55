SPECIFICATION FairSpec
CONSTANTS
  Types = {"t1", "t2", "t3", "t4", "long"}
  TooLong = {"long"}
  Rejected = {"t3"}
  Conflicting = {"t4"}
  Unmappable = {"t2", "long"}
  MaxFaults = 1
INVARIANTS
  TypeOK
  EveryTypeOnce
  AlignedUntilFailure
  CreatedEstablished
PROPERTIES
  StartupEnds
  StartupBounded
CHECK_DEADLOCK FALSE
