CONSTANTS
  Threads = {t1}
  Requests <- OverlapRequests
  Policy <- ExactPolicy
  Lifetimes <- Brief
  Keys <- MCKeys
  Ids = {1, 2, 3}
  FailOpen = TRUE
  MaxSent <- MCMaxSent
  MaxTime = 1
  MapNames = {3}
  FirstWord = 1
  Unknown = 99
SPECIFICATION Spec
INVARIANTS HitIsPolicy  EntryFindable ScopesBalanced
