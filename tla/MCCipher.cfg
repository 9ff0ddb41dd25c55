SPECIFICATION Spec
CONSTANTS
  k1 = k1  k2 = k2
  NoKey = NoKey
  Keys = {k1, k2}
  Texts <- SomeTexts
  Base64Texts <- SomeBase64Texts
INVARIANTS
  TypeOK
  ReadBack
  PanicOnlyOnClearText
