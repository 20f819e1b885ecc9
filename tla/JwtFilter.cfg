SPECIFICATION Spec
CONSTANTS
  Streams = {s1, s2}
  Issuers = {i1, i2}
  k1 = k1
  k2 = k2
  NoKey = nokey
  Unknown = unknown
  KeySets <- MCKeySets
  Tokens <- MCTokens
SYMMETRY Symmetry
INVARIANTS UpstreamOnlyIfVerified  
CHECK_DEADLOCK FALSE
