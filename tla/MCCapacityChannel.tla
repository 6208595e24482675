------------------------- MODULE MCCapacityChannel -------------------------
(***************************************************************************)
(* Two replicas with different flags; two PUT handlers on one of them and  *)
(* one on the other.                                                       *)
(***************************************************************************)
EXTENDS CapacityChannel, TLC

CONSTANTS r1, r2, w1, w2, w3

MCHost == w1 :> r1 @@ w2 :> r1 @@ w3 :> r2
MCConfigured == r1 :> 2 @@ r2 :> 3
=============================================================================
