------------------------------- MODULE Lines -------------------------------
(***************************************************************************)
(* Order-preserving filtering of a sequence, stated without recursion: the *)
(* loops of the code that walk the queue front to back and drop some of    *)
(* its elements leave the elements at the kept positions in their old      *)
(* order.                                                                  *)
(***************************************************************************)
EXTENDS Naturals, Sequences, FiniteSets

(***************************************************************************)
(* The increasing enumeration of a finite set K of positions (there is     *)
(* exactly one; it is described, not computed, so that a proof can name it *)
(* with PICK).                                                             *)
(***************************************************************************)
Enumerations(K) ==
  {p \in [1..Cardinality(K) -> K] :
      /\ \A i, j \in 1..Cardinality(K) : i < j => p[i] < p[j]
      /\ \A k \in K : \E i \in 1..Cardinality(K) : p[i] = k}

(***************************************************************************)
(* The elements of s at the positions in K, in their order in s.           *)
(***************************************************************************)
Filtered(s, K) == {[i \in DOMAIN p |-> s[p[i]]] : p \in Enumerations(K)}

Lesser(m, n) == IF m < n THEN m ELSE n
Greater(m, n) == IF m < n THEN n ELSE m
=============================================================================
