----------------------------- MODULE MCProcess -----------------------------
(***************************************************************************)
(* Timings with a deadline shorter and longer than the interval.           *)
(***************************************************************************)
EXTENDS Process

MCTimings == {<<3, 2>>, <<2, 3>>}
=============================================================================
