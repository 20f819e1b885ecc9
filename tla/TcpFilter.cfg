SPECIFICATION Spec
CONSTANT MaxQuotas = 2
INVARIANTS NextFilterOnlyIfAllowed ReadDisabledWhileCalling CancelledIfPending ReportedOnceAtClose
PROPERTY EventuallyDecided
CHECK_DEADLOCK FALSE
