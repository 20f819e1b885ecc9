------------------------------ MODULE HttpFilterMC ------------------------------
EXTENDS HttpFilter

Routes(c, k, r) == [f \in {"control", "check", "report"} |-> CASE f = "control" -> c [] f = "check" -> k [] OTHER -> r]

\* Both calls on, the check only, the report only, and none.
MCFlag ==
  {Routes("on", "absent", "absent"), Routes("off", "on", "absent"),
   Routes("absent", "absent", "on"), Routes("absent", "off", "off")}
================================================================================
