SPECIFICATION Spec
CONSTANTS
  Offs = 2
  Pages = 2
  Values = 2
INVARIANT LoadsOwnWord
