---------------------------- MODULE WaitingRoom ----------------------------
(***************************************************************************)
(* The contract of store.Store (internal/store/store.go): a line of        *)
(* waiting tickets, a set of tickets that are inside, and the heartbeat of *)
(* each.  It knows nothing of sequence numbers, holes, counters, sorted    *)
(* sets or hashes: those are how the two stores implement it.              *)
(*                                                                         *)
(* Every operation is one atomic step, takes the caller's clock reading    *)
(* `now` and, where the interface has it, the caller's idea of the         *)
(* capacity.  The store never reads a clock, and calls reach it in any     *)
(* order: `now` may be older than a heartbeat already recorded.            *)
(***************************************************************************)
EXTENDS Integers, Sequences, FiniteSets, Lines

CONSTANTS
  Ids,         \* tickets
  Times,       \* clock readings callers may pass
  Capacities,  \* capacities callers may pass
  ActiveTTL, QueueTTL

ASSUME RoomAssumption ==
  /\ IsFiniteSet(Ids)
  /\ Times \subseteq Int
  /\ Capacities \subseteq Nat \ {0}   \* controller.go rejects n < 1
  /\ ActiveTTL \in Nat
  /\ QueueTTL \in Nat

VARIABLES
  line,   \* the waiting tickets, first come first
  inside, \* the admitted tickets
  seen    \* the heartbeat of every ticket in line or inside

room == <<line, inside, seen>>

Waiting(l) == {l[i] : i \in DOMAIN l}

Known == Waiting(line) \cup inside

RoomInit ==
  /\ line = <<>>
  /\ inside = {}
  /\ seen = [id \in {} |-> 0]

\* Mutant: the heartbeats of the others are lost.
SeenAtOnly(S, T, now) == [id \in S |-> IF id \in T THEN now ELSE 0]

(***************************************************************************)
(* The heartbeats of the tickets in S after the ones in T were seen at     *)
(* `now`; every other ticket is forgotten.                                 *)
(***************************************************************************)
SeenAt(S, T, now) == [id \in S |-> IF id \in T THEN now ELSE seen[id]]

(***************************************************************************)
(* TryAdmit's verdict: yes for a ticket already inside; for another, only  *)
(* when a slot is free and nobody is waiting.                              *)
(***************************************************************************)
Admissible(id, capacity) ==
  id \in inside \/ (Cardinality(inside) < capacity /\ line = <<>>)

TryAdmit(id, capacity, now) ==
  IF Admissible(id, capacity)
    THEN /\ inside' = inside \cup {id}
         /\ seen' = SeenAt(Known \cup {id}, {id}, now)
         /\ UNCHANGED line
    ELSE UNCHANGED room

\* Mutant: newcomers go to the front.
EnqueueFirst(id, now) ==
  /\ line' = IF id \in Known THEN line ELSE <<id>> \o line
  /\ seen' = SeenAt(Known \cup {id}, {id}, now)
  /\ UNCHANGED inside

(***************************************************************************)
(* Enqueue appends an unknown ticket.  "no-op if already queued or active" *)
(* (store.go:56) leaves open whether an active ticket's heartbeat moves:   *)
(* the memory store refreshes it, the Valkey store does not.               *)
(***************************************************************************)
Enqueue(id, now) ==
  /\ line' = IF id \in Known THEN line ELSE Append(line, id)
  /\ \E T \in IF id \in inside THEN {{}, {id}} ELSE {{id}} :
        seen' = SeenAt(Known \cup {id}, T, now)
  /\ UNCHANGED inside

Lookup(id, now) ==
  /\ seen' = SeenAt(Known, {id}, now)
  /\ UNCHANGED <<line, inside>>

Touch(id, now) ==
  /\ seen' = SeenAt(Known, {id} \cap inside, now)
  /\ UNCHANGED <<line, inside>>

\* Mutant: a session ends already at the TTL.
ExpiredAtTTL(now) == {id \in inside : now - seen[id] >= ActiveTTL}

\* Mutant: sessions end only when somebody waits.
ExpiredIfAwaited(now) == {id \in inside : line # <<>> /\ now - seen[id] > ActiveTTL}

Expired(now) == {id \in inside : now - seen[id] > ActiveTTL}

\* Mutant: a waiter is dropped already at the TTL.
KeptBelowTTL(now) == {i \in DOMAIN line : now - seen[line[i]] < QueueTTL}

Kept(now) == {i \in DOMAIN line : now - seen[line[i]] <= QueueTTL}

(***************************************************************************)
(* Reconcile, in this order: idle sessions leave, waiters that stopped     *)
(* polling are dropped, and the heads of what remains of the line take the *)
(* free slots.                                                             *)
(***************************************************************************)
Reconcile(capacity, now) ==
  LET staying == inside \ Expired(now)
      free == Greater(capacity - Cardinality(staying), 0)
  IN \E alive \in Filtered(line, Kept(now)) :
       LET n == Lesser(free, Len(alive))
           promoted == {alive[i] : i \in 1..n}
       IN /\ line' = SubSeq(alive, n + 1, Len(alive))
          /\ inside' = staying \cup promoted
          /\ seen' = SeenAt(staying \cup Waiting(alive), promoted, now)

(***************************************************************************)
(* The answer of Reconcile has an entry for each ticket that pass promotes *)
(* (the set's only element): the tickets stand for their waits.            *)
(***************************************************************************)
WaitedSecs(capacity, now) ==
  LET free == Greater(capacity - Cardinality(inside \ Expired(now)), 0)
  IN {SubSeq(alive, 1, Lesser(free, Len(alive))) : alive \in Filtered(line, Kept(now))}

\* Mutant: sessions are flushed with the line.
FlushAll ==
  /\ line' = <<>>
  /\ inside' = {}
  /\ seen' = SeenAt({}, {}, 0)

Flush ==
  /\ line' = <<>>
  /\ seen' = SeenAt(inside, {}, 0)
  /\ UNCHANGED inside

RoomNext ==
  \/ \E id \in Ids, now \in Times :
        \/ \E capacity \in Capacities : TryAdmit(id, capacity, now)
        \/ Enqueue(id, now)
        \/ Lookup(id, now)
        \/ Touch(id, now)
  \/ \E capacity \in Capacities, now \in Times : Reconcile(capacity, now)
  \/ Flush

RoomSpec == RoomInit /\ [][RoomNext]_room
=============================================================================
