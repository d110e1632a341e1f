--------------------------- MODULE MCMetricsPage ---------------------------
(***************************************************************************)
(* A page of two gauges whose calls are sent in one chunk each.            *)
(***************************************************************************)
EXTENDS MetricsPage

MCPlan == <<
    [call |-> 1, series |-> "supply", errKey |-> "info", lossKey |-> "supply:a", kind |-> "integer"],
    [call |-> 2, series |-> "paused", errKey |-> "info", lossKey |-> "paused:a", kind |-> "bool"]>>
=============================================================================
