----------------------------- MODULE MCMetrics ------------------------------
(***************************************************************************)
(* The metrics registry on a small instance: two buckets and the one       *)
(* beyond; a wait on a bound, one beyond the last, and a negative one from *)
(* a store whose callers' clocks disagree.                                 *)
(***************************************************************************)
EXTENDS Metrics, TLC

MCBounds == <<1, 5>>

MCReports ==
  { [expired |-> 1, evicted |-> 0, waits |-> <<1, 9>>],
    [expired |-> 0, evicted |-> 1, waits |-> <<-2>>] }
=============================================================================
