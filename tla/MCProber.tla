------------------------------ MODULE MCProber ------------------------------
(***************************************************************************)
(* Two replicas that share a Valkey, or one alone, on either store.        *)
(***************************************************************************)
EXTENDS Prober, TLC

CONSTANTS r1, r2

MCDeployments ==
  { [replicas |-> {r1, r2}, valkey |-> TRUE],
    [replicas |-> {r1}, valkey |-> TRUE],
    [replicas |-> {r1}, valkey |-> FALSE] }
=============================================================================
