SPECIFICATION FairSpec
CONSTANTS
  a = a  b = b  s1 = s1  s2 = s2  s3 = s3  s4 = s4  k1 = k1  f1 = f1
  None = None  NullVal = NullVal  NoKey = NoKey
  Resources = {a, b}
  KindOf <- OwnKinds
  Refs <- BRefersToA
  Specs = {s1}
  ValidSpecs = {s1}
  PanicSpecs = {}
  Unreportable = {}
  Unfit = {}
  Unsavable = {}
  Foreign = {}
  Keys = {NoKey}
  Versions = {"v1"}
  WebhookDeployed = TRUE
  MaxGeneration = 1
  MaxFaults = 0
  MaxCrashes = 0
  MaxDrifts = 0
PROPERTIES
  DeletionCompletes
