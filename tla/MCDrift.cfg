SPECIFICATION FairSpec
CONSTANTS
  a = a  b = b  s1 = s1  s2 = s2  s3 = s3  s4 = s4  k1 = k1  f1 = f1
  None = None  NullVal = NullVal  NoKey = NoKey
  Resources = {a}
  KindOf <- OneKind
  Refs <- NoRefs
  Specs = {s1}
  ValidSpecs = {s1}
  PanicSpecs = {}
  Unreportable = {}
  Unfit = {}
  Unsavable = {}
  Foreign = {}
  Keys = {NoKey}
  Versions = {"v1"}
  WebhookDeployed = FALSE
  MaxGeneration = 1
  MaxFaults = 0
  MaxCrashes = 0
  MaxDrifts = 1
PROPERTIES
  DriftRechecked
