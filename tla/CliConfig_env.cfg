SPECIFICATION Spec
CONSTANTS
  k0 = k0
  k1 = k1
  k2 = k2
  Key = {k1, k2}
  w1 = w1
  w2 = w2
  w3 = w3
  Wizard = {w1, w2}
  Offered = {"groq", "openai", "mistral", "anthropic", "ollama"}
  Blank = Blank
  Malformed = Malformed
  Environments <- ExportedKey
  LocalFiles <- Nothing
  GlobalFiles <- EmptyFile
SYMMETRY Symmetry
CHECK_DEADLOCK FALSE
INVARIANT GlobalFilePreferred
