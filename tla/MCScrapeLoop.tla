---------------------------- MODULE MCScrapeLoop ----------------------------
(***************************************************************************)
(* Timings for TLC: a deadline shorter than the interval, as by default, a *)
(* deadline equal to it, and one longer than two intervals.                *)
(***************************************************************************)
EXTENDS ScrapeLoop

MCTimings == {<<3, 2>>, <<2, 2>>, <<2, 5>>}
=============================================================================
