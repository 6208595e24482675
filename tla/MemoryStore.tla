---------------------------- MODULE MemoryStore ----------------------------
(***************************************************************************)
(* internal/store/memory/memory.go: the in-process store.  Every method    *)
(* holds s.mu from entry to return, so every method is one atomic action;  *)
(* what can go wrong is that its redundant structures (the entry map, the  *)
(* linked list, the active counter, the sequence numbers and the list of   *)
(* holes) drift apart.                                                     *)
(*                                                                         *)
(* A request reads its clock before it takes the lock and may stall in     *)
(* between, so `now` is any instant, in any order.                         *)
(*                                                                         *)
(* Abstractions: an entry keeps one instant `since` (enqueuedAt while it   *)
(* is queued, admittedAt once it is active: the code never reads the other *)
(* one again); the seq of an active entry, equally dead, is 0; avgSession  *)
(* is its sign, which is all the ETA code branches on; holes, a sorted     *)
(* slice without repetitions, is a set (module HoleList checks the slice   *)
(* code against this set).                                                 *)
(***************************************************************************)
EXTENDS Integers, Sequences, FiniteSets, Lines, Ema

CONSTANTS
  Ids,         \* tickets
  Times,       \* clock readings callers may pass
  Capacities,  \* capacities callers may pass
  ActiveTTL, QueueTTL,
  MaxSeq       \* bound: tickets enqueued in a behaviour (uint64 in the code)

ASSUME MemoryAssumption ==
  /\ IsFiniteSet(Ids)
  /\ Times \subseteq Int
  /\ Capacities \subseteq Nat \ {0}   \* controller.go rejects n < 1
  /\ ActiveTTL \in Nat
  /\ QueueTTL \in Nat
  /\ MaxSeq \in Nat

VARIABLES
  entries,     \* ticket -> entry; StatusUnknown: not in the Go map
  queue,       \* the linked list of waiting tickets
  active,      \* the counter of active entries
  avgSession,  \* sign of the session-duration EMA; 0: no data yet
  override,    \* capacity when capacitySet, else 0
  nextSeq,     \* last sequence number given out
  holes        \* sequence numbers evicted from the middle of the queue

vars == <<entries, queue, active, avgSession, override, nextSeq, holes>>

Unknown == [status |-> "unknown", since |-> 0, lastSeen |-> 0, seq |-> 0]

Entry == [status : {"unknown", "queued", "active"},
          since : Int, lastSeen : Int, seq : Nat]

Active == {id \in Ids : entries[id].status = "active"}

Front == entries[queue[1]].seq

Init ==  \* New
  /\ entries = [id \in Ids |-> Unknown]
  /\ queue = <<>>
  /\ active = 0
  /\ avgSession = 0
  /\ override = 0
  /\ nextSeq = 0
  /\ holes = {}

-----------------------------------------------------------------------------
(* Heartbeats *)

Refreshed(id, now) == [entries EXCEPT ![id].lastSeen = now]

Admitted(e, now) ==  \* admitLocked, without the counter
  [e EXCEPT !.status = "active", !.since = now, !.lastSeen = now, !.seq = 0]

\* Mutants: one slot too many; arrivals pass the line.
MayAdmitOneMore(capacity) == active <= capacity /\ queue = <<>>
MayAdmitPastTheLine(capacity) == active < capacity

MayAdmit(capacity) == active < capacity /\ queue = <<>>

TryAdmit(id, capacity, now) ==
  \/ /\ id \in Active
     /\ entries' = Refreshed(id, now)
     /\ UNCHANGED <<queue, active, avgSession, override, nextSeq, holes>>
  \/ /\ id \notin Active
     /\ MayAdmit(capacity)
     /\ entries' = [entries EXCEPT ![id] = Admitted(entries[id], now)]
     /\ active' = active + 1
     /\ UNCHANGED <<queue, avgSession, override, nextSeq, holes>>
  \/ /\ id \notin Active
     /\ ~MayAdmit(capacity)
     /\ UNCHANGED vars

Enqueue(id, now) ==
  \/ /\ entries[id].status = "unknown"
     /\ nextSeq < MaxSeq  \* bound
     /\ nextSeq' = nextSeq + 1
     /\ entries' = [entries EXCEPT ![id] =
          [status |-> "queued", since |-> now, lastSeen |-> now, seq |-> nextSeq']]
     /\ queue' = Append(queue, id)
     /\ UNCHANGED <<active, avgSession, override, holes>>
  \/ /\ entries[id].status # "unknown"
     /\ entries' = Refreshed(id, now)
     /\ UNCHANGED <<queue, active, avgSession, override, nextSeq, holes>>

Lookup(id, now) ==
  /\ entries' = IF entries[id].status = "unknown" THEN entries ELSE Refreshed(id, now)
  /\ UNCHANGED <<queue, active, avgSession, override, nextSeq, holes>>

Touch(id, now) ==
  /\ entries' = IF id \in Active THEN Refreshed(id, now) ELSE entries
  /\ UNCHANGED <<queue, active, avgSession, override, nextSeq, holes>>

(***************************************************************************)
(* snapshotLocked: the position told to a waiting ticket is its distance   *)
(* in sequence numbers to the front, less the holes in between.            *)
(***************************************************************************)
Between(lo, hi) == {h \in holes : lo < h /\ h < hi}

\* Mutant: evictions from the middle are not subtracted.
PositionByDistance(id) == entries[id].seq - Front + 1

Position(id) ==
  entries[id].seq - Front + 1 - Cardinality(Between(Front, entries[id].seq))

-----------------------------------------------------------------------------
(* Reconcile *)

\* Mutant: stale already at the TTL.
StaleAtTTL(id, ttl, now) == now - entries[id].lastSeen >= ttl

Stale(id, ttl, now) == now - entries[id].lastSeen > ttl

Expired(now) == {id \in Active : Stale(id, ActiveTTL, now)}

GhostPositions(now) == {i \in DOMAIN queue : Stale(queue[i], QueueTTL, now)}

Durations(S) == {entries[id].lastSeen - entries[id].since : id \in S}

\* Mutant: holes are never pruned.
NotPruned(hs, q, e) == hs

(***************************************************************************)
(* pruneHolesLocked, for a queue q whose entries are e: holes up to the    *)
(* front are dropped, all of them when nobody waits.                       *)
(***************************************************************************)
Pruned(hs, q, e) == IF q = <<>> THEN {} ELSE {h \in hs : h > e[q[1]].seq}

Reconcile(capacity, now) ==
  LET ghosts == GhostPositions(now)
      staying == active - Cardinality(Expired(now))
      gone == Expired(now) \cup {queue[i] : i \in ghosts}
      free == Greater(capacity - staying, 0)
  IN \E alive \in Filtered(queue, DOMAIN queue \ ghosts) :
       LET n == Lesser(free, Len(alive))
           promoted == {alive[i] : i \in 1..n}
       IN /\ entries' = [id \in Ids |-> IF id \in gone THEN Unknown
                                        ELSE IF id \in promoted THEN Admitted(entries[id], now)
                                        ELSE entries[id]]
          /\ queue' = SubSeq(alive, n + 1, Len(alive))
          /\ active' = staying + n
          /\ avgSession' \in Blend(avgSession, Durations(Expired(now)))
          /\ holes' = Pruned(holes \cup {entries[queue[i]].seq : i \in ghosts}, queue', entries')
          /\ UNCHANGED <<override, nextSeq>>

SetCapacity(capacity) ==
  /\ override' = capacity
  /\ UNCHANGED <<entries, queue, active, avgSession, nextSeq, holes>>

\* Mutant: the list is emptied, the entries stay.
FlushListOnly ==
  /\ queue' = <<>>
  /\ holes' = {}
  /\ UNCHANGED <<entries, active, avgSession, override, nextSeq>>

Flush ==
  /\ entries' = [id \in Ids |-> IF id \in {queue[i] : i \in DOMAIN queue} THEN Unknown ELSE entries[id]]
  /\ queue' = <<>>
  /\ holes' = {}
  /\ UNCHANGED <<active, avgSession, override, nextSeq>>

Next ==
  \/ \E id \in Ids, now \in Times :
        \/ \E capacity \in Capacities : TryAdmit(id, capacity, now)
        \/ Enqueue(id, now)
        \/ Lookup(id, now)
        \/ Touch(id, now)
  \/ \E capacity \in Capacities, now \in Times : Reconcile(capacity, now)
  \/ \E capacity \in Capacities : SetCapacity(capacity)
  \/ Flush

Spec == Init /\ [][Next]_vars

-----------------------------------------------------------------------------
(* Properties *)

TypeOK ==
  /\ entries \in [Ids -> Entry]
  /\ queue \in Seq(Ids)
  /\ active \in Int
  /\ avgSession \in {-1, 0, 1}
  /\ override \in Capacities \cup {0}
  /\ nextSeq \in 0..MaxSeq
  /\ holes \subseteq 0..MaxSeq

(***************************************************************************)
(* The structures agree: the list holds exactly the queued entries, each   *)
(* once, and the counter that decides admissions counts the active ones.   *)
(***************************************************************************)
Consistent ==
  /\ {queue[i] : i \in DOMAIN queue} = {id \in Ids : entries[id].status = "queued"}
  /\ \A i, j \in DOMAIN queue : i # j => queue[i] # queue[j]
  /\ active = Cardinality(Active)

(***************************************************************************)
(* From the front's sequence number up to the last one given out, every    *)
(* number belongs to exactly one waiter or is a recorded hole; the waiters *)
(* stand in the order of their numbers; an empty queue has no holes.       *)
(***************************************************************************)
SeqPartition ==
  /\ \A i, j \in DOMAIN queue : i < j => entries[queue[i]].seq < entries[queue[j]].seq
  /\ LET live == {entries[queue[i]].seq : i \in DOMAIN queue}
     IN  /\ live \cap holes = {}
         /\ IF queue = <<>> THEN holes = {} ELSE live \cup holes = Front..nextSeq

(***************************************************************************)
(* The O(log h) position formula of snapshotLocked ("exact", memory.go:212)*)
(* tells every waiter its true place in the line.                          *)
(***************************************************************************)
PositionExact == \A i \in DOMAIN queue : Position(queue[i]) = i

(***************************************************************************)
(* No sequence of operations, with whatever capacities and clock readings, *)
(* lets more tickets in than the largest capacity any caller passed.       *)
(***************************************************************************)
CapacityBound == \E capacity \in Capacities \cup {0} : Cardinality(Active) <= capacity

(***************************************************************************)
(* "new arrivals never jump queued users" (store.go:52), nor do queued     *)
(* users jump one another: when a step lets a ticket in, nobody who stood  *)
(* ahead of it (the whole line, for a ticket that was not in it) is left   *)
(* waiting.                                                                *)
(***************************************************************************)
LineServed ==
  \A id \in Active' \ Active : \A j \in DOMAIN queue :
     (\A i \in 1..j : queue[i] # id) => entries'[queue[j]].status # "queued"

NoOvertaking == [][LineServed]_vars

(***************************************************************************)
(* The store implements the contract of store.Store: what it stores, read  *)
(* as a line, a set of admitted tickets and their heartbeats.              *)
(***************************************************************************)
Room == INSTANCE WaitingRoom WITH
  line <- queue,
  inside <- Active,
  seen <- [id \in {i \in Ids : entries[i].status # "unknown"} |-> entries[id].lastSeen]

ImplementsRoom == Room!RoomSpec
=============================================================================
