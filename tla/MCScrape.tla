------------------------------ MODULE MCScrape ------------------------------
(***************************************************************************)
(* A plan of three calls sent in chunks of two, and four entries:          *)
(*  - call 1 feeds two metrics, one of them a bool;                        *)
(*  - calls 2 and 3 are the same function with other arguments, labelled   *)
(*    alike, so that they share a series, an error label set and a         *)
(*    precision-loss key.                                                  *)
(***************************************************************************)
EXTENDS ScrapeRefinement

MCPlan == <<
    [call |-> 1, series |-> "supply", errKey |-> "info", lossKey |-> "supply:a", kind |-> "integer"],
    [call |-> 1, series |-> "paused", errKey |-> "info", lossKey |-> "paused:a", kind |-> "bool"],
    [call |-> 2, series |-> "balance", errKey |-> "balanceOf", lossKey |-> "balance:b", kind |-> "integer"],
    [call |-> 3, series |-> "balance", errKey |-> "balanceOf", lossKey |-> "balance:b", kind |-> "integer"]>>

MCSeries   == {"supply", "paused", "balance"}
MCErrKeys  == {"info", "balanceOf"}
MCLossKeys == {"supply:a", "paused:a", "balance:b"}
=============================================================================
