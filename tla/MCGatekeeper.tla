---------------------------- MODULE MCGatekeeper ----------------------------
(***************************************************************************)
(* The HTTP front on a small instance: one slot in the room.               *)
(***************************************************************************)
EXTENDS Gatekeeper, TLC

MCNow == {Present}
MCOneSlot == {1}
=============================================================================
