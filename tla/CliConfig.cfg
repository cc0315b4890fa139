SPECIFICATION Spec
CONSTANTS
  k0 = k0
  k1 = k1
  k2 = k2
  Key = {k1, k2}
  w1 = w1
  w2 = w2
  w3 = w3
  Wizard = {w1, w2, w3}
  Offered = {"groq", "openai"}
  Blank = Blank
  Malformed = Malformed
  Environments <- SomeEnvironments
  LocalFiles <- SomeLocalFiles
  GlobalFiles <- SomeGlobalFiles
SYMMETRY Symmetry
CHECK_DEADLOCK FALSE
INVARIANTS
  TypeOK
  ConfiguredIsUsed
