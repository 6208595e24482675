-------------------------------- MODULE Ema --------------------------------
(***************************************************************************)
(* The moving average of session durations both stores keep, as its sign:  *)
(* 0 is the code's "no data yet", and the ETA asks only whether the        *)
(* average is positive.                                                    *)
(***************************************************************************)
EXTENDS Integers

Sign(x) == IF x > 0 THEN 1 ELSE IF x < 0 THEN -1 ELSE 0

(***************************************************************************)
(* The signs the average may have once sessions of the given durations are *)
(* blended into it, in whatever order (a Go map range, or members with     *)
(* equal scores).  A zero average is replaced outright; values of one sign *)
(* keep it; a stale clock reading can make a duration negative, and with   *)
(* both signs in play the weights decide.                                  *)
(***************************************************************************)
Blend(avg, durations) ==
  LET signs == ({Sign(avg)} \cup {Sign(d) : d \in durations}) \ {0}
  IN  IF signs = {} THEN {0}
      ELSE IF {-1, 1} \subseteq signs THEN {-1, 0, 1}
      ELSE signs
=============================================================================
