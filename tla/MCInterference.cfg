SPECIFICATION Spec
CONSTANTS
  a = a  b = b  s1 = s1  s2 = s2  s3 = s3  s4 = s4  k1 = k1  f1 = f1
  None = None  NullVal = NullVal  NoKey = NoKey
  Resources = {a}
  KindOf <- OneKind
  Refs <- NoRefs
  Specs = {s1, s2}
  ValidSpecs = {s1}
  PanicSpecs = {s2}
  Unreportable = {}
  Unfit = {}
  Unsavable = {}
  Foreign = {f1}
  Keys = {NoKey, k1}
  Versions = {"v1", "v2"}
  WebhookDeployed = FALSE
  MaxGeneration = 2
  MaxFaults = 1
  MaxCrashes = 2
  MaxDrifts = 0
INVARIANTS
  NoOrphan
  CreatedTruthful
PROPERTIES
  ProviderPinned
  UnreadableStateKept
  FinalizerBeforeCreate
  ConvergedStays
