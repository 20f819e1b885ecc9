SPECIFICATION Spec
CONSTANTS
  Stream = {s1, s2}
  Flag <- MCFlag
  MaxQuotas = 1
INVARIANTS UpstreamOnlyIfAllowed CancelledIfPending RejectedTakesNoQuota ReportTellsDecision StatisticsAddUp
PROPERTY EventuallyDecided
CHECK_DEADLOCK FALSE
