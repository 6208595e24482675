----------------------------- MODULE MCWaitPage -----------------------------
(***************************************************************************)
(* The waiting page on a small instance: one slot, a tick of half a        *)
(* second.                                                                 *)
(***************************************************************************)
EXTENDS WaitPage, TLC

MCNow == {Present}
MCOneSlot == {1}
=============================================================================
