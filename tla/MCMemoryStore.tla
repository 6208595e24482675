--------------------------- MODULE MCMemoryStore ---------------------------
(***************************************************************************)
(* The in-memory store on a small instance.                                *)
(***************************************************************************)
EXTENDS MemoryStore, TLC

Tickets == Permutations(Ids)

MCTimes == 0..2
MCCapacities == {1, 2}
=============================================================================
