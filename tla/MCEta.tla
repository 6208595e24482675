------------------------------- MODULE MCEta --------------------------------
(***************************************************************************)
(* The estimate on a small instance: ticks of half a second and a polling  *)
(* interval of one second and a half.                                      *)
(***************************************************************************)
EXTENDS Eta, TLC

MCAverages == {-1, 0, 1, 6}
=============================================================================
