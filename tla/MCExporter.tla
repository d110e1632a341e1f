----------------------------- MODULE MCExporter -----------------------------
(***************************************************************************)
(* A plan of two calls in one chunk each, and timings with a deadline      *)
(* shorter and longer than the interval.                                   *)
(***************************************************************************)
EXTENDS Exporter

MCTimings == {<<2, 1>>, <<3, 2>>, <<1, 2>>}

MCPlan == <<
    [call |-> 1, series |-> "supply", errKey |-> "info", lossKey |-> "supply:a", kind |-> "bool"],
    [call |-> 2, series |-> "paused", errKey |-> "info", lossKey |-> "paused:a", kind |-> "bool"]>>
=============================================================================
