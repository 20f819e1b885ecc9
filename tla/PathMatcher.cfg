SPECIFICATION Spec
CONSTANTS
  Registrations <- MCRegistrations
  Requests <- MCRequests
  HttpMethods = {"GET", "PUT"}
  MaxRegister = 4
INVARIANTS LookupFindsBest BindingsMatch
CHECK_DEADLOCK FALSE
