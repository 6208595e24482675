---------------------------- MODULE ValkeyStore ----------------------------
(***************************************************************************)
(* internal/store/valkeystore/valkeystore.go: the store shared by several  *)
(* replicas.  Every operation is one Lua script, which the server runs     *)
(* atomically; the waiting room is spread over five keys that the scripts  *)
(* must keep in step, and every instant is truncated to milliseconds on    *)
(* its way in.                                                             *)
(*                                                                         *)
(* Replicas have clocks of their own: `now` is any instant, in any order.  *)
(* The average is its sign, as in MemoryStore.                             *)
(***************************************************************************)
EXTENDS Integers, FiniteSets, Lines, Ema

CONSTANTS
  Ids,         \* tickets
  Times,       \* clock readings callers may pass, in ticks
  TicksPerMs,  \* ticks to the millisecond
  Capacities,  \* capacities callers may pass
  ActiveTTL, QueueTTL,  \* in ticks
  MaxSeq       \* bound: tickets enqueued in a behaviour

ASSUME ValkeyAssumption ==
  /\ IsFiniteSet(Ids)
  /\ Times \subseteq Int
  /\ TicksPerMs \in Nat \ {0}
  /\ Capacities \subseteq Nat \ {0}   \* controller.go rejects n < 1
  /\ ActiveTTL \in Nat
  /\ QueueTTL \in Nat
  /\ MaxSeq \in Nat

VARIABLES
  order,     \* ZSET of waiters, scored by sequence number
  seen,      \* ZSET of waiters, scored by heartbeat
  active,    \* ZSET of admitted tickets, scored by heartbeat
  admitted,  \* HASH of admitted tickets: when they were admitted
  enqueued,  \* HASH of waiters: when they were enqueued
  avg,       \* sign of the EMA; 0 also when the key does not exist
  seq,       \* counter
  capacity   \* the override; 0 when the key does not exist

vars == <<order, seen, active, admitted, enqueued, avg, seq, capacity>>

Empty == [id \in {} |-> 0]

(***************************************************************************)
(* ZADD/HSET of a member, and ZREM/HDEL of a set of members.               *)
(***************************************************************************)
Put(z, id, v) == [x \in DOMAIN z \cup {id} |-> IF x = id THEN v ELSE z[x]]

Without(z, S) == [x \in DOMAIN z \ S |-> z[x]]

ms(t) == t \div TicksPerMs

Init ==
  /\ order = Empty
  /\ seen = Empty
  /\ active = Empty
  /\ admitted = Empty
  /\ enqueued = Empty
  /\ avg = 0
  /\ seq = 0
  /\ capacity = 0

-----------------------------------------------------------------------------

\* Mutant: one slot too many.
MayAdmitOneMore(cap) == Cardinality(DOMAIN active) <= cap /\ DOMAIN order = {}

MayAdmit(cap) == Cardinality(DOMAIN active) < cap /\ DOMAIN order = {}

TryAdmit(id, cap, now) ==  \* tryAdmitScript
  \/ /\ id \in DOMAIN active
     /\ active' = Put(active, id, ms(now))
     /\ UNCHANGED <<order, seen, admitted, enqueued, avg, seq, capacity>>
  \/ /\ id \notin DOMAIN active
     /\ MayAdmit(cap)
     /\ active' = Put(active, id, ms(now))
     /\ admitted' = Put(admitted, id, ms(now))
     /\ UNCHANGED <<order, seen, enqueued, avg, seq, capacity>>
  \/ /\ id \notin DOMAIN active
     /\ ~MayAdmit(cap)
     /\ UNCHANGED vars

Enqueue(id, now) ==  \* enqueueScript
  \/ /\ id \in DOMAIN active
     /\ UNCHANGED vars
  \/ /\ id \notin DOMAIN active
     /\ id \notin DOMAIN order
     /\ seq < MaxSeq  \* bound
     /\ seq' = seq + 1
     /\ order' = Put(order, id, seq')
     /\ enqueued' = Put(enqueued, id, ms(now))
     /\ seen' = Put(seen, id, ms(now))
     /\ UNCHANGED <<active, admitted, avg, capacity>>
  \/ /\ id \notin DOMAIN active
     /\ id \in DOMAIN order
     /\ seen' = Put(seen, id, ms(now))
     /\ UNCHANGED <<order, active, admitted, enqueued, avg, seq, capacity>>

Lookup(id, now) ==  \* lookupScript
  /\ active' = IF id \in DOMAIN active THEN Put(active, id, ms(now)) ELSE active
  /\ seen' = IF id \in DOMAIN order \ DOMAIN active THEN Put(seen, id, ms(now)) ELSE seen
  /\ UNCHANGED <<order, admitted, enqueued, avg, seq, capacity>>

Touch(id, now) ==  \* touchScript
  /\ active' = IF id \in DOMAIN active THEN Put(active, id, ms(now)) ELSE active
  /\ UNCHANGED <<order, seen, admitted, enqueued, avg, seq, capacity>>

-----------------------------------------------------------------------------
(* reconcileScript *)

\* Mutant: the range includes its end.
OlderThanInclusive(z, ttl, now) == {id \in DOMAIN z : z[id] <= ms(now) - ms(ttl)}

(***************************************************************************)
(* ZRANGEBYSCORE -inf to (now - ttl, exclusive.                            *)
(***************************************************************************)
OlderThan(z, ttl, now) == {id \in DOMAIN z : z[id] < ms(now) - ms(ttl)}

(***************************************************************************)
(* A session without an admission time counts as one of length zero.       *)
(***************************************************************************)
Durations(S) ==
  {active[id] - (IF id \in DOMAIN admitted THEN admitted[id] ELSE active[id]) : id \in S}

\* Mutant: ZPOPMAX.
Highest(z, n) ==
  {P \in SUBSET DOMAIN z :
      /\ Cardinality(P) = n
      /\ \A x \in P, y \in DOMAIN z \ P : z[x] > z[y]}

(***************************************************************************)
(* The n members ZPOPMIN pops one after the other: those of lowest score.  *)
(***************************************************************************)
Lowest(z, n) ==
  {P \in SUBSET DOMAIN z :
      /\ Cardinality(P) = n
      /\ \A x \in P, y \in DOMAIN z \ P : z[x] < z[y]}

Reconcile(cap, now) ==
  LET expired == OlderThan(active, ActiveTTL, now)
      ghosts == OlderThan(seen, QueueTTL, now)
      staying == Without(active, expired)
      waiting == Without(order, ghosts)
      free == Greater(cap - Cardinality(DOMAIN staying), 0)
      n == Lesser(free, Cardinality(DOMAIN waiting))
  IN \E promoted \in Lowest(waiting, n) :
       /\ order' = Without(waiting, promoted)
       /\ seen' = Without(seen, ghosts \cup promoted)
       /\ enqueued' = Without(enqueued, ghosts \cup promoted)
       /\ active' = [id \in DOMAIN staying \cup promoted |->
                       IF id \in promoted THEN ms(now) ELSE staying[id]]
       /\ admitted' = [id \in (DOMAIN admitted \ expired) \cup promoted |->
                         IF id \in promoted THEN ms(now) ELSE admitted[id]]
       /\ avg' \in Blend(avg, Durations(expired))
       /\ UNCHANGED <<seq, capacity>>

\* Mutant: one of the three keys is not deleted.
FlushTwoKeys ==
  /\ order' = Empty
  /\ seen' = Empty
  /\ UNCHANGED <<active, admitted, enqueued, avg, seq, capacity>>

Flush ==  \* flushScript
  /\ order' = Empty
  /\ seen' = Empty
  /\ enqueued' = Empty
  /\ UNCHANGED <<active, admitted, avg, seq, capacity>>

SetCapacity(cap) ==
  /\ capacity' = cap
  /\ UNCHANGED <<order, seen, active, admitted, enqueued, avg, seq>>

Next ==
  \/ \E id \in Ids, now \in Times :
        \/ \E cap \in Capacities : TryAdmit(id, cap, now)
        \/ Enqueue(id, now)
        \/ Lookup(id, now)
        \/ Touch(id, now)
  \/ \E cap \in Capacities, now \in Times : Reconcile(cap, now)
  \/ \E cap \in Capacities : SetCapacity(cap)
  \/ Flush

Spec == Init /\ [][Next]_vars

-----------------------------------------------------------------------------
(* Properties *)

TypeOK ==
  /\ \A z \in {order, seen, active, admitted, enqueued} :
        /\ DOMAIN z \subseteq Ids
        /\ z \in [DOMAIN z -> Int]
  /\ avg \in {-1, 0, 1}
  /\ seq \in 0..MaxSeq
  /\ capacity \in Capacities \cup {0}

(***************************************************************************)
(* The five keys tell one story: a waiter is in order, seen and enqueued,  *)
(* an admitted ticket in active and admitted, nobody is in both groups, and*)
(* no two waiters share a sequence number nor hold one not yet given out.  *)
(* A key left behind would evict, promote or time someone who is not there.*)
(***************************************************************************)
KeysAgree ==
  /\ DOMAIN seen = DOMAIN order
  /\ DOMAIN enqueued = DOMAIN order
  /\ DOMAIN admitted = DOMAIN active
  /\ DOMAIN order \cap DOMAIN active = {}
  /\ \A x, y \in DOMAIN order : x # y => order[x] # order[y]
  /\ \A x \in DOMAIN order : order[x] \in 1..seq

(***************************************************************************)
(* No history of scripts, with whatever capacities and clock readings the  *)
(* replicas pass, lets in more tickets than the largest of the capacities. *)
(***************************************************************************)
CapacityBound == \E cap \in Capacities \cup {0} : Cardinality(DOMAIN active) <= cap

(***************************************************************************)
(* "FIFO fairness: new arrivals never jump queued users" (store.go:52):    *)
(* when a step lets a ticket in, nobody enqueued before it (nobody at all, *)
(* for a ticket that was not waiting) is left waiting.                     *)
(***************************************************************************)
LineServed ==
  \A id \in DOMAIN active' \ DOMAIN active : \A x \in DOMAIN order :
     (id \notin DOMAIN order \/ order[x] < order[id]) => x \notin DOMAIN order'

NoOvertaking == [][LineServed]_vars

(***************************************************************************)
(* The scripts implement the contract of store.Store, in milliseconds: the *)
(* line is the members of order by score.  The contract's instants are     *)
(* truncated as the scripts' are, so what truncation itself changes is not *)
(* seen here: ExpiryToTheMs (ValkeyStoreProofs) bounds it.                 *)
(***************************************************************************)
Line == CHOOSE l \in [1..Cardinality(DOMAIN order) -> DOMAIN order] :
          \A i, j \in DOMAIN l : i < j => order[l[i]] < order[l[j]]

Room == INSTANCE WaitingRoom WITH
  line <- Line,
  inside <- DOMAIN active,
  seen <- [id \in DOMAIN active \cup DOMAIN order |->
             IF id \in DOMAIN active THEN active[id] ELSE seen[id]],
  Times <- {ms(t) : t \in Times},
  ActiveTTL <- ms(ActiveTTL),
  QueueTTL <- ms(QueueTTL)

ImplementsRoom == Room!RoomSpec
=============================================================================
