CONSTANTS
  alphabet <- BuiltinABC
  alphabet_ <- ConfiguredAB
  slug_length_ = 2
  WordMax = 3
  MaxNthTry = 6
  Junk = Junk
SPECIFICATION Spec
INVARIANT MatchesReference
