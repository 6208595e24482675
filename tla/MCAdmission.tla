---------------------------- MODULE MCAdmission ----------------------------
(***************************************************************************)
(* The request path on a small instance.                                   *)
(***************************************************************************)
EXTENDS Admission, TLC

Interchangeable == Permutations(Ids) \cup Permutations(Requests)

MCTimes == 0..MaxNow
MCCapacities == {1, 2}
=============================================================================
