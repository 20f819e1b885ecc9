SPECIFICATION Spec
CONSTANTS
  Names = {q1, q2}
  Requests <- MCRequests
  Matches <- MCMatches
  Keys <- MCKeys
  Ids = {1, 2, 3}
  NumEntries = {1, 2}
  MaxIdle = 0
  MaxCalls = 2
  MaxPins = 1
  MaxTime = 1
  MapNames = {3}
  FirstWord = 1
  Unknown = 99
SYMMETRY QuotaSymmetry
INVARIANTS OneOwner EntryFindable
PROPERTY NotReplaced
CHECK_DEADLOCK FALSE
