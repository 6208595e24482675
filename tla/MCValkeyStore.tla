--------------------------- MODULE MCValkeyStore ---------------------------
(***************************************************************************)
(* The Valkey store on a small instance, two ticks to the millisecond.     *)
(***************************************************************************)
EXTENDS ValkeyStore, TLC

Tickets == Permutations(Ids)

MCTimes == {0, 1, 2, 5}
MCCapacities == {1, 2}
=============================================================================
