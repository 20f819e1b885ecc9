CONSTANTS
  BaseWords = 1
  GlobalWords = 2
  ServerWords = 1
  Reports <- MCReports
  MaxEntries = 3
  MaxWait = 1
  MaxReports = 4
SPECIFICATION Spec
INVARIANTS ReportsConserved WordsDeclared ChecksDecode WaitBounded
PROPERTY EventuallySent
CHECK_DEADLOCK FALSE
