------------------------------ MODULE HoleList ------------------------------
(***************************************************************************)
(* The slice of holes of internal/store/memory/memory.go: addHoleLocked,   *)
(* pruneHolesLocked and the binary searches of snapshotLocked, on the      *)
(* sorted sequence they work on.  MemoryStore keeps a set in its place;    *)
(* this module shows that the slice code computes that set.                *)
(*                                                                         *)
(* The store is reduced to what this code looks at: the sequence numbers   *)
(* still in the line, and what Reconcile and Flush take out of it.         *)
(***************************************************************************)
EXTENDS Integers, Sequences, FiniteSets

CONSTANT MaxNumber   \* bound: sequence numbers given out

ASSUME HoleListAssumption == MaxNumber \in Nat

VARIABLES
  slice,   \* s.holes
  queued,  \* the sequence numbers in the line
  lastSeq  \* s.nextSeq, the last one given out

sliceVars == <<slice, queued, lastSeq>>

SliceInit ==
  /\ slice = <<>>
  /\ queued = {}
  /\ lastSeq = 0

(***************************************************************************)
(* sort.Search(n, f) of the Go library: bisection on the indices 0..n-1;   *)
(* for a monotone f the least index at which it holds, n if there is none. *)
(***************************************************************************)
Search(n, f) ==
  LET bisect[r \in (0..n) \X (0..n)] ==
        IF r[1] >= r[2] THEN r[1]
        ELSE LET h == (r[1] + r[2]) \div 2
             IN  IF f[h] THEN bisect[<<r[1], h>>] ELSE bisect[<<h + 1, r[2]>>]
  IN bisect[<<0, n>>]

Above(s, n) == Search(Len(s), [i \in 0..Len(s) - 1 |-> s[i + 1] > n])

From(s, n) == Search(Len(s), [i \in 0..Len(s) - 1 |-> s[i + 1] >= n])

\* Mutant: always appended, as if evictions came in order.
AddHoleLast(s, n) == Append(s, n)

InsertHole(s, k, n) == SubSeq(s, 1, k) \o <<n>> \o SubSeq(s, k + 1, Len(s))

AddHole(s, n) ==  \* addHoleLocked
  IF s = <<>> \/ s[Len(s)] < n THEN Append(s, n) ELSE InsertHole(s, Above(s, n), n)

Least(S) == CHOOSE n \in S : \A m \in S : n <= m

\* Mutant: one hole too many is dropped.
PruneHolesOneMore(s, S) ==
  IF S = {} THEN <<>> ELSE SubSeq(s, Above(s, Least(S)) + 2, Len(s))

PruneHoles(s, S) ==  \* pruneHolesLocked, when S is in the line
  IF S = {} THEN <<>> ELSE SubSeq(s, Above(s, Least(S)) + 1, Len(s))

(***************************************************************************)
(* snapshotLocked: the place in the line of number n.                      *)
(***************************************************************************)
SlicePosition(n) ==
  n - Least(queued) + 1 - (From(slice, n) - Above(slice, Least(queued)))

EnqueueNumber ==
  /\ lastSeq < MaxNumber  \* bound
  /\ lastSeq' = lastSeq + 1
  /\ queued' = queued \cup {lastSeq'}
  /\ UNCHANGED slice

(***************************************************************************)
(* The holes s after the scan of the line, front to back up to top, for    *)
(* ghosts.                                                                 *)
(***************************************************************************)
Scanned(s, top, ghosts) ==
  LET upTo[n \in 0..top] ==
        IF n = 0 THEN s
        ELSE IF n \in ghosts THEN AddHole(upTo[n - 1], n) ELSE upTo[n - 1]
  IN upTo[top]

(***************************************************************************)
(* The ghosts leave, then the heads of the line are promoted (as many as   *)
(* the free slots allow: any number), then the holes are pruned.           *)
(***************************************************************************)
ReconcileSlice(ghosts, promoted) ==
  /\ \A p \in promoted, m \in queued \ (ghosts \cup promoted) : p < m
  /\ queued' = queued \ (ghosts \cup promoted)
  /\ slice' = PruneHoles(Scanned(slice, lastSeq, ghosts), queued')
  /\ UNCHANGED lastSeq

FlushSlice ==
  /\ queued' = {}
  /\ slice' = <<>>
  /\ UNCHANGED lastSeq

SliceNext ==
  \/ EnqueueNumber
  \/ \E ghosts \in SUBSET queued : \E promoted \in SUBSET (queued \ ghosts) :
        ReconcileSlice(ghosts, promoted)
  \/ FlushSlice

SliceSpec == SliceInit /\ [][SliceNext]_sliceVars

-----------------------------------------------------------------------------
(* Properties *)

(***************************************************************************)
(* The slice is what both searches and the position formula need: strictly *)
(* ascending ("sorted ascending", memory.go:38), and made of exactly the   *)
(* numbers missing from the line behind its front, however evictions,      *)
(* promotions and flushes follow one another.                              *)
(***************************************************************************)
SliceIsGaps ==
  /\ \A i \in 1..Len(slice) - 1 : slice[i] < slice[i + 1]
  /\ {slice[i] : i \in DOMAIN slice} =
        IF queued = {} THEN {} ELSE (Least(queued)..lastSeq) \ queued

(***************************************************************************)
(* The position computed by bisection is the number's true rank in the     *)
(* line ("exact", memory.go:213).                                          *)
(***************************************************************************)
PositionIsRank == \A n \in queued : SlicePosition(n) = Cardinality({m \in queued : m <= n})
=============================================================================
