-------------------------- MODULE ValkeyStoreProofs -------------------------
(***************************************************************************)
(* Proofs about the Valkey scripts, for every finite set of tickets, all   *)
(* clock readings, capacities, TTLs and numbers of enqueued tickets.       *)
(***************************************************************************)
EXTENDS ValkeyStore, LinesProofs

(***************************************************************************)
(* The inductive invariant.  KeysAgree needs the types of the keys, and    *)
(* the bound on the scores so that a new one is distinct from all others.  *)
(***************************************************************************)
IInv == TypeOK /\ KeysAgree

IsKey(z) == DOMAIN z \subseteq Ids /\ z \in [DOMAIN z -> Int]

(***************************************************************************)
(* The five keys, one by one, have the shape TypeOK gives them.            *)
(***************************************************************************)
LEMMA KeyTypes ==
  TypeOK <=> /\ IsKey(order) /\ IsKey(seen) /\ IsKey(active) /\ IsKey(admitted) /\ IsKey(enqueued)
             /\ avg \in {-1, 0, 1}
             /\ seq \in 0..MaxSeq
             /\ capacity \in Capacities \cup {0}
  BY DEF TypeOK, IsKey

(***************************************************************************)
(* What ZADD and HSET do to a key.                                         *)
(***************************************************************************)
LEMMA PutKey ==
  ASSUME NEW z, IsKey(z), NEW id \in Ids, NEW v \in Int
  PROVE  /\ IsKey(Put(z, id, v))
         /\ DOMAIN Put(z, id, v) = DOMAIN z \cup {id}
         /\ Put(z, id, v)[id] = v
         /\ \A x \in DOMAIN z \ {id} : Put(z, id, v)[x] = z[x]
  BY DEF Put, IsKey

(***************************************************************************)
(* What ZREM and HDEL do to a key.                                         *)
(***************************************************************************)
LEMMA WithoutKey ==
  ASSUME NEW z, IsKey(z), NEW S
  PROVE  /\ IsKey(Without(z, S))
         /\ DOMAIN Without(z, S) = DOMAIN z \ S
         /\ \A x \in DOMAIN z \ S : Without(z, S)[x] = z[x]
  BY DEF Without, IsKey

(***************************************************************************)
(* Instants reach the server as whole milliseconds.                        *)
(***************************************************************************)
LEMMA msInt == \A t \in Times : ms(t) \in Int
  BY ValkeyAssumption DEF ms

(***************************************************************************)
(* An empty database satisfies the invariant.                              *)
(***************************************************************************)
LEMMA InitIInv == Init => IInv
  <1> SUFFICES ASSUME Init PROVE IInv
    OBVIOUS
  <1>1. DOMAIN Empty = {} /\ IsKey(Empty)
    BY DEF Empty, IsKey
  <1>2. QED BY <1>1, KeyTypes, ValkeyAssumption DEF Init, IInv, KeysAgree

-----------------------------------------------------------------------------

(***************************************************************************)
(* tryAdmitScript writes active and admitted together, and only for a      *)
(* ticket that is not waiting.                                             *)
(***************************************************************************)
LEMMA TryAdmitIInv ==
  ASSUME IInv, NEW id \in Ids, NEW cap \in Capacities, NEW now \in Times, TryAdmit(id, cap, now)
  PROVE  IInv'
  <1>1. ms(now) \in Int
    BY msInt
  <1>2. IsKey(active) /\ IsKey(admitted)
    BY KeyTypes DEF IInv
  <1>3. CASE id \in DOMAIN active /\ active' = Put(active, id, ms(now))
             /\ UNCHANGED <<order, seen, admitted, enqueued, avg, seq, capacity>>
    <2>1. IsKey(active') /\ DOMAIN active' = DOMAIN active
      <3>1. IsKey(active') /\ DOMAIN active' = DOMAIN active \cup {id}
        BY <1>1, <1>2, <1>3, PutKey
      <3>2. QED BY <1>3, <3>1
    <2>2. QED BY <1>3, <2>1, KeyTypes DEF IInv, TypeOK, KeysAgree, IsKey
  <1>4. CASE /\ id \notin DOMAIN active /\ MayAdmit(cap)
             /\ active' = Put(active, id, ms(now))
             /\ admitted' = Put(admitted, id, ms(now))
             /\ UNCHANGED <<order, seen, enqueued, avg, seq, capacity>>
    <2>1. IsKey(active') /\ DOMAIN active' = DOMAIN active \cup {id}
      BY <1>1, <1>2, <1>4, PutKey
    <2>2. IsKey(admitted') /\ DOMAIN admitted' = DOMAIN admitted \cup {id}
      BY <1>1, <1>2, <1>4, PutKey
    <2>3. DOMAIN order = {}
      BY <1>4 DEF MayAdmit
    <2>4. QED BY <1>4, <2>1, <2>2, <2>3, KeyTypes DEF IInv, TypeOK, KeysAgree, IsKey
  <1>5. CASE UNCHANGED vars
    BY <1>5 DEF vars, IInv, TypeOK, KeysAgree
  <1>6. QED BY <1>3, <1>4, <1>5 DEF TryAdmit

(***************************************************************************)
(* enqueueScript writes order, enqueued and seen together, with a          *)
(* sequence number nobody holds.                                           *)
(***************************************************************************)
LEMMA EnqueueIInv ==
  ASSUME IInv, NEW id \in Ids, NEW now \in Times, Enqueue(id, now)
  PROVE  IInv'
  <1>1. ms(now) \in Int
    BY msInt
  <1>2. IsKey(order) /\ IsKey(seen) /\ IsKey(enqueued) /\ seq \in Nat /\ MaxSeq \in Nat /\ seq <= MaxSeq
    BY KeyTypes, ValkeyAssumption DEF IInv
  <1>3. CASE id \in DOMAIN active /\ UNCHANGED vars
    BY <1>3 DEF vars, IInv, TypeOK, KeysAgree
  <1>4. CASE /\ id \notin DOMAIN active /\ id \notin DOMAIN order
             /\ seq < MaxSeq
             /\ seq' = seq + 1
             /\ order' = Put(order, id, seq')
             /\ enqueued' = Put(enqueued, id, ms(now))
             /\ seen' = Put(seen, id, ms(now))
             /\ UNCHANGED <<active, admitted, avg, capacity>>
    <2>1. seq' \in Int /\ seq' \in 0..MaxSeq /\ seq' \in 1..seq'
      BY <1>2, <1>4
    <2>2. /\ IsKey(order') /\ DOMAIN order' = DOMAIN order \cup {id}
          /\ order'[id] = seq' /\ \A x \in DOMAIN order \ {id} : order'[x] = order[x]
      <3>1. seq + 1 \in Int /\ order' = Put(order, id, seq + 1)
        BY <1>2, <1>4
      <3> DEFINE o == Put(order, id, seq + 1)
      <3>2. /\ IsKey(o) /\ DOMAIN o = DOMAIN order \cup {id}
            /\ o[id] = seq + 1 /\ \A x \in DOMAIN order \ {id} : o[x] = order[x]
        BY <1>2, <3>1 DEF Put, IsKey
      <3>3. QED BY <1>4, <3>1, <3>2
    <2>3. IsKey(seen') /\ DOMAIN seen' = DOMAIN seen \cup {id}
      BY <1>1, <1>2, <1>4, PutKey
    <2>4. IsKey(enqueued') /\ DOMAIN enqueued' = DOMAIN enqueued \cup {id}
      BY <1>1, <1>2, <1>4, PutKey
    <2>5. TypeOK'
      BY <1>4, <2>1, <2>2, <2>3, <2>4, KeyTypes DEF IInv, TypeOK, IsKey
    <2>6. \A x \in DOMAIN order : order[x] \in 1..seq /\ x # id
      BY <1>4 DEF IInv, KeysAgree
    <2>7. \A x \in DOMAIN order' : order'[x] \in 1..seq'
      BY <1>2, <1>4, <2>1, <2>2, <2>6
    <2>8. \A x, y \in DOMAIN order' : x # y => order'[x] # order'[y]
      <3>1. \A x \in DOMAIN order : order'[x] = order[x] /\ order'[x] # order'[id]
        BY <1>2, <1>4, <2>2, <2>6
      <3>2. \A x, y \in DOMAIN order : x # y => order[x] # order[y]
        BY DEF IInv, KeysAgree
      <3>3. QED BY <2>2, <3>1, <3>2
    <2>9. QED BY <1>4, <2>2, <2>3, <2>4, <2>5, <2>7, <2>8 DEF IInv, KeysAgree
  <1>5. CASE /\ id \in DOMAIN order
             /\ seen' = Put(seen, id, ms(now))
             /\ UNCHANGED <<order, active, admitted, enqueued, avg, seq, capacity>>
    <2>1. IsKey(seen') /\ DOMAIN seen' = DOMAIN seen \cup {id}
      BY <1>1, <1>2, <1>5, PutKey
    <2>2. QED BY <1>5, <2>1, KeyTypes DEF IInv, TypeOK, KeysAgree, IsKey
  <1>6. QED BY <1>3, <1>4, <1>5 DEF Enqueue

(***************************************************************************)
(* lookupScript moves heartbeats only, and of tickets that are there.      *)
(***************************************************************************)
LEMMA LookupIInv ==
  ASSUME IInv, NEW id \in Ids, NEW now \in Times, Lookup(id, now) \/ Touch(id, now)
  PROVE  IInv'
  <1>1. ms(now) \in Int /\ IsKey(active) /\ IsKey(seen)
    BY msInt, KeyTypes DEF IInv
  <1>2. UNCHANGED <<order, admitted, enqueued, avg, seq, capacity>>
    BY DEF Lookup, Touch
  <1>3. IsKey(active') /\ DOMAIN active' = DOMAIN active
    <2>1. IsKey(Put(active, id, ms(now))) /\ DOMAIN Put(active, id, ms(now)) = DOMAIN active \cup {id}
      BY <1>1, PutKey
    <2>2. QED BY <1>1, <2>1 DEF Lookup, Touch
  <1>4. IsKey(seen') /\ DOMAIN seen' = DOMAIN seen
    <2>1. IsKey(Put(seen, id, ms(now))) /\ DOMAIN Put(seen, id, ms(now)) = DOMAIN seen \cup {id}
      BY <1>1, PutKey
    <2>2. QED BY <1>1, <2>1 DEF Lookup, Touch, IInv, KeysAgree
  <1>5. QED BY <1>2, <1>3, <1>4, KeyTypes DEF IInv, TypeOK, KeysAgree, IsKey

-----------------------------------------------------------------------------
(* Reconcile *)

(***************************************************************************)
(* A pass: idle sessions and ghosts leave, and the waiters in `promoted`,  *)
(* those of lowest score, move from the three waiting keys to the two      *)
(* active ones.                                                            *)
(***************************************************************************)
Pass(cap, now, expired, ghosts, promoted) ==
  /\ expired = OlderThan(active, ActiveTTL, now)
  /\ ghosts = OlderThan(seen, QueueTTL, now)
  /\ promoted \subseteq DOMAIN order \ ghosts
  /\ Cardinality(promoted) =
       Lesser(Greater(cap - Cardinality(DOMAIN active \ expired), 0), Cardinality(DOMAIN order \ ghosts))
  /\ \A x \in promoted, y \in DOMAIN order \ (ghosts \cup promoted) : order[x] < order[y]
  /\ order' = Without(order, ghosts \cup promoted)
  /\ seen' = Without(seen, ghosts \cup promoted)
  /\ enqueued' = Without(enqueued, ghosts \cup promoted)
  /\ active' = [id \in (DOMAIN active \ expired) \cup promoted |->
                  IF id \in promoted THEN ms(now) ELSE active[id]]
  /\ admitted' = [id \in (DOMAIN admitted \ expired) \cup promoted |->
                    IF id \in promoted THEN ms(now) ELSE admitted[id]]
  /\ avg' \in Blend(avg, Durations(expired))
  /\ UNCHANGED <<seq, capacity>>

(***************************************************************************)
(* What reconcileScript does to the keys: the expired leave two of them,   *)
(* ghosts three, and the promoted move from the waiters' keys to the       *)
(* others.                                                                 *)
(***************************************************************************)
LEMMA ReconcileIsPass ==
  ASSUME IInv, NEW cap \in Capacities, NEW now \in Times, Reconcile(cap, now)
  PROVE  \E expired, ghosts, promoted : Pass(cap, now, expired, ghosts, promoted)
  <1> DEFINE expired == OlderThan(active, ActiveTTL, now)
             ghosts == OlderThan(seen, QueueTTL, now)
             staying == Without(active, expired)
             waiting == Without(order, ghosts)
             n == Lesser(Greater(cap - Cardinality(DOMAIN staying), 0), Cardinality(DOMAIN waiting))
  <1>1. PICK promoted \in Lowest(waiting, n) :
       /\ order' = Without(waiting, promoted)
       /\ seen' = Without(seen, ghosts \cup promoted)
       /\ enqueued' = Without(enqueued, ghosts \cup promoted)
       /\ active' = [id \in DOMAIN staying \cup promoted |->
                       IF id \in promoted THEN ms(now) ELSE staying[id]]
       /\ admitted' = [id \in (DOMAIN admitted \ expired) \cup promoted |->
                         IF id \in promoted THEN ms(now) ELSE admitted[id]]
       /\ avg' \in Blend(avg, Durations(expired))
       /\ UNCHANGED <<seq, capacity>>
    BY Zenon DEF Reconcile
  <1>2. IsKey(active) /\ IsKey(order)
    BY KeyTypes DEF IInv
  <1> HIDE DEF expired, ghosts
  <1>3. /\ DOMAIN staying = DOMAIN active \ expired
        /\ \A x \in DOMAIN staying : staying[x] = active[x]
    BY DEF Without
  <1>4. /\ DOMAIN waiting = DOMAIN order \ ghosts
        /\ \A x \in DOMAIN waiting : waiting[x] = order[x]
    BY DEF Without
  <1> HIDE DEF staying, n
  <1>5. /\ promoted \subseteq DOMAIN order \ ghosts
        /\ Cardinality(promoted) = n
        /\ \A x \in promoted, y \in DOMAIN order \ (ghosts \cup promoted) : order[x] < order[y]
    <2> HIDE DEF waiting
    <2>1. QED BY <1>1, <1>4 DEF Lowest
  <1>6. order' = Without(order, ghosts \cup promoted)
    BY <1>1 DEF Without
  <1>7. active' = [id \in (DOMAIN active \ expired) \cup promoted |->
                     IF id \in promoted THEN ms(now) ELSE active[id]]
    BY <1>1, <1>3
  <1>8. n = Lesser(Greater(cap - Cardinality(DOMAIN active \ expired), 0), Cardinality(DOMAIN order \ ghosts))
    <2> HIDE DEF waiting
    <2>1. QED BY <1>3, <1>4 DEF n
  <1>9. Pass(cap, now, expired, ghosts, promoted)
    BY <1>1, <1>5, <1>6, <1>7, <1>8 DEF Pass, expired, ghosts
  <1>10. QED BY <1>9

(***************************************************************************)
(* reconcileScript preserves the invariant.                                *)
(***************************************************************************)
LEMMA ReconcileIInv ==
  ASSUME IInv, NEW cap \in Capacities, NEW now \in Times, Reconcile(cap, now)
  PROVE  IInv'
  <1>1. PICK expired, ghosts, promoted : Pass(cap, now, expired, ghosts, promoted)
    BY ReconcileIsPass
  <1>2. IsKey(order) /\ IsKey(seen) /\ IsKey(enqueued) /\ IsKey(active) /\ IsKey(admitted) /\ ms(now) \in Int
    BY KeyTypes, msInt DEF IInv
  <1> DEFINE leaving == ghosts \cup promoted
  <1>3. /\ IsKey(order') /\ DOMAIN order' = DOMAIN order \ leaving
        /\ \A x \in DOMAIN order' : order'[x] = order[x]
    <2>1. order' = Without(order, leaving)
      BY <1>1 DEF Pass
    <2>2. QED BY <1>2, <2>1 DEF Without, IsKey
  <1>4. /\ IsKey(seen') /\ DOMAIN seen' = DOMAIN seen \ leaving
        /\ IsKey(enqueued') /\ DOMAIN enqueued' = DOMAIN enqueued \ leaving
    <2>1. seen' = Without(seen, leaving) /\ enqueued' = Without(enqueued, leaving)
      BY <1>1 DEF Pass
    <2>2. QED BY <1>2, <2>1, WithoutKey
  <1>5. promoted \subseteq Ids
    BY <1>1, <1>2 DEF Pass, IsKey
  <1>6. IsKey(active') /\ DOMAIN active' = (DOMAIN active \ expired) \cup promoted
    BY <1>1, <1>2, <1>5 DEF Pass, IsKey
  <1>7. IsKey(admitted') /\ DOMAIN admitted' = (DOMAIN admitted \ expired) \cup promoted
    BY <1>1, <1>2, <1>5 DEF Pass, IsKey
  <1>8. avg' \in {-1, 0, 1} /\ seq' = seq /\ capacity' = capacity
    <2>1. \A x : Sign(x) \in {-1, 0, 1}
      BY DEF Sign
    <2>2. QED BY <1>1, <2>1 DEF Pass, Blend
  <1>9. TypeOK'
    BY <1>3, <1>4, <1>6, <1>7, <1>8, KeyTypes DEF IInv, TypeOK, IsKey
  <1>10. KeysAgree'
    BY <1>3, <1>4, <1>6, <1>7, <1>8 DEF IInv, KeysAgree
  <1>11. QED BY <1>9, <1>10 DEF IInv

(***************************************************************************)
(* Every script preserves the invariant.                                   *)
(***************************************************************************)
LEMMA NextIInv == IInv /\ [Next]_vars => IInv'
  <1> SUFFICES ASSUME IInv, [Next]_vars PROVE IInv'
    OBVIOUS
  <1>1. ASSUME Flush PROVE IInv'
    <2>1. DOMAIN Empty = {} /\ IsKey(Empty)
      BY DEF Empty, IsKey
    <2>2. QED BY <1>1, <2>1, KeyTypes DEF Flush, IInv, TypeOK, KeysAgree, IsKey
  <1>2. ASSUME NEW cap \in Capacities, SetCapacity(cap) PROVE IInv'
    BY <1>2 DEF SetCapacity, IInv, TypeOK, KeysAgree
  <1>3. ASSUME UNCHANGED vars PROVE IInv'
    BY <1>3 DEF vars, IInv, TypeOK, KeysAgree
  <1>4. QED BY <1>1, <1>2, <1>3, TryAdmitIInv, EnqueueIInv, LookupIInv, ReconcileIInv DEF Next

(***************************************************************************)
(* The five keys of the waiting room never drift apart, however the        *)
(* scripts of several replicas interleave and whatever clocks they bring.  *)
(***************************************************************************)
THEOREM KeysAlwaysAgree == Spec => [](TypeOK /\ KeysAgree)
  <1>1. IInv => TypeOK /\ KeysAgree
    BY DEF IInv
  <1>2. QED BY <1>1, InitIInv, NextIInv, PTL DEF Spec

-----------------------------------------------------------------------------
(* Capacity *)

(***************************************************************************)
(* The scripts compare ZCARD with the capacity: a step either adds nobody  *)
(* or leaves at most as many members as the capacity it was given.         *)
(***************************************************************************)
LEMMA NextCapacityBound == IInv /\ CapacityBound /\ [Next]_vars => CapacityBound'
  <1> SUFFICES ASSUME IInv, CapacityBound, [Next]_vars PROVE CapacityBound'
    OBVIOUS
  <1> USE ValkeyAssumption
  <1>1. IsFiniteSet(DOMAIN active) /\ Cardinality(DOMAIN active) \in Nat
    <2>1. DOMAIN active \subseteq Ids
      BY DEF IInv, TypeOK
    <2>2. QED BY <2>1, FS_Subset, FS_CardinalityType
  <1>2. ASSUME DOMAIN active' = DOMAIN active PROVE CapacityBound'
    BY <1>2 DEF CapacityBound
  <1>3. ASSUME NEW id \in Ids, NEW cap \in Capacities, NEW now \in Times, TryAdmit(id, cap, now)
        PROVE  CapacityBound'
    <2>1. CASE id \in DOMAIN active \/ UNCHANGED vars
      <3>1. DOMAIN active' = DOMAIN active
        BY <1>3, <2>1 DEF TryAdmit, vars, Put
      <3>2. QED BY <1>2, <3>1
    <2>2. CASE id \notin DOMAIN active /\ ~UNCHANGED vars
      <3>1. MayAdmit(cap) /\ DOMAIN active' = DOMAIN active \cup {id}
        BY <1>3, <2>2 DEF TryAdmit, Put
      <3>2. Cardinality(DOMAIN active') = Cardinality(DOMAIN active) + 1
        BY <1>1, <2>2, <3>1, FS_AddElement
      <3>3. cap \in Nat /\ Cardinality(DOMAIN active') <= cap
        BY <1>1, <3>1, <3>2 DEF MayAdmit
      <3>4. QED BY <3>3 DEF CapacityBound
    <2>3. QED BY <2>1, <2>2
  <1>4. ASSUME NEW cap \in Capacities, NEW now \in Times, Reconcile(cap, now)
        PROVE  CapacityBound'
    <2>1. PICK expired, ghosts, promoted : Pass(cap, now, expired, ghosts, promoted)
      BY <1>4, ReconcileIsPass
    <2> DEFINE staying == DOMAIN active \ expired
               waiting == DOMAIN order \ ghosts
    <2>2. DOMAIN active' = staying \cup promoted
      BY <2>1 DEF Pass
    <2>3. promoted \subseteq waiting /\ Cardinality(promoted) = Lesser(Greater(cap - Cardinality(staying), 0), Cardinality(waiting))
      BY <2>1 DEF Pass
    <2>4. /\ IsFiniteSet(staying) /\ Cardinality(staying) \in Nat
          /\ Cardinality(staying) <= Cardinality(DOMAIN active)
      <3>1. staying \in SUBSET DOMAIN active
        OBVIOUS
      <3>2. QED BY <1>1, <3>1, FS_Subset, FS_CardinalityType
    <2>5. IsFiniteSet(waiting) /\ Cardinality(waiting) \in Nat /\ IsFiniteSet(promoted) /\ Cardinality(promoted) \in Nat
      <3>1. waiting \in SUBSET Ids /\ promoted \in SUBSET Ids
        BY <2>3 DEF IInv, TypeOK
      <3>2. QED BY <3>1, FS_Subset, FS_CardinalityType
    <2>6. Cardinality(staying \cup promoted) <= Cardinality(staying) + Cardinality(promoted)
      <3>1. Cardinality(staying \cup promoted) =
               Cardinality(staying) + Cardinality(promoted) - Cardinality(staying \cap promoted)
        BY <2>4, <2>5, FS_Union
      <3>2. IsFiniteSet(staying \cap promoted)
        BY <2>4, FS_Subset
      <3>3. Cardinality(staying \cap promoted) \in Nat
        BY <3>2, FS_CardinalityType
      <3> HIDE DEF staying
      <3>4. QED BY <2>4, <2>5, <3>1, <3>3
    <2>7. IsFiniteSet(staying \cup promoted) /\ Cardinality(staying \cup promoted) \in Nat
      BY <2>4, <2>5, FS_Union, FS_CardinalityType
    <2> HIDE DEF staying, waiting
    <2>8. cap \in Nat
      OBVIOUS
    <2>9. \/ Cardinality(staying \cup promoted) <= cap
          \/ Cardinality(staying \cup promoted) <= Cardinality(DOMAIN active)
      BY <1>1, <2>3, <2>4, <2>5, <2>6, <2>7, <2>8 DEF Lesser, Greater
    <2>10. PICK c \in Capacities \cup {0} : Cardinality(DOMAIN active) <= c
      BY DEF CapacityBound
    <2>11. \E c1 \in Capacities \cup {0} : Cardinality(staying \cup promoted) <= c1
      <3>1. c \in Nat
        OBVIOUS
      <3>2. QED BY <1>1, <2>7, <2>8, <2>9, <2>10, <3>1
    <2>12. QED BY <2>2, <2>11 DEF CapacityBound
  <1>5. ASSUME NEW id \in Ids, NEW now \in Times,
               Enqueue(id, now) \/ Lookup(id, now) \/ Touch(id, now)
        PROVE  DOMAIN active' = DOMAIN active
    BY <1>5 DEF Enqueue, Lookup, Touch, Put, vars
  <1>6. ASSUME NEW cap \in Capacities, SetCapacity(cap) PROVE active' = active
    BY <1>6 DEF SetCapacity
  <1>7. ASSUME Flush \/ UNCHANGED vars PROVE active' = active
    BY <1>7 DEF Flush, vars
  <1>8. QED BY <1>2, <1>3, <1>4, <1>5, <1>6, <1>7 DEF Next

(***************************************************************************)
(* However many replicas call the scripts, the number of admitted tickets  *)
(* stays within the largest capacity any of them passed.                   *)
(***************************************************************************)
THEOREM CapacityRespected == Spec => []CapacityBound
  <1>1. Init => CapacityBound
    BY FS_EmptySet DEF Init, Empty, CapacityBound
  <1>2. QED BY <1>1, InitIInv, NextIInv, NextCapacityBound, PTL DEF Spec

-----------------------------------------------------------------------------
(* First come, first served *)

(***************************************************************************)
(* No script lets a ticket in past somebody who stays in the line:         *)
(* tryAdmitScript admits only when order is empty, reconcileScript pops    *)
(* the lowest sequence numbers.                                            *)
(***************************************************************************)
LEMMA NextLineServed == IInv /\ [Next]_vars => [LineServed]_vars
  <1> SUFFICES ASSUME IInv, Next,
                      NEW id \in DOMAIN active' \ DOMAIN active, NEW x \in DOMAIN order,
                      id \notin DOMAIN order \/ order[x] < order[id]
               PROVE  x \notin DOMAIN order'
    BY DEF LineServed
  <1>1. ASSUME DOMAIN active' = DOMAIN active PROVE FALSE
    BY <1>1
  <1>2. ASSUME NEW i \in Ids, NEW cap \in Capacities, NEW now \in Times, TryAdmit(i, cap, now)
        PROVE  FALSE
    BY <1>2 DEF TryAdmit, MayAdmit, Put, vars
  <1>3. ASSUME NEW i \in Ids, NEW now \in Times,
               Enqueue(i, now) \/ Lookup(i, now) \/ Touch(i, now)
        PROVE  FALSE
    BY <1>1, <1>3 DEF Enqueue, Lookup, Touch, Put, vars
  <1>4. ASSUME NEW cap \in Capacities, NEW now \in Times, Reconcile(cap, now)
        PROVE  x \notin DOMAIN order'
    <2>1. PICK expired, ghosts, promoted : Pass(cap, now, expired, ghosts, promoted)
      BY <1>4, ReconcileIsPass
    <2>2. id \in promoted /\ promoted \subseteq DOMAIN order
      BY <2>1 DEF Pass
    <2>3. order[x] < order[id] /\ order[x] \in Int /\ order[id] \in Int
      BY <2>2 DEF IInv, TypeOK
    <2>4. x \in ghosts \cup promoted
      <3>1. x \notin ghosts \cup promoted => order[id] < order[x]
        BY <2>1, <2>2 DEF Pass
      <3>2. QED BY <2>3, <3>1
    <2>5. DOMAIN order' = DOMAIN order \ (ghosts \cup promoted)
      BY <2>1 DEF Pass, Without
    <2>6. QED BY <2>4, <2>5
  <1>5. ASSUME NEW cap \in Capacities, SetCapacity(cap) PROVE FALSE
    BY <1>1, <1>5 DEF SetCapacity
  <1>6. ASSUME Flush PROVE FALSE
    BY <1>1, <1>6 DEF Flush
  <1>7. QED BY <1>2, <1>3, <1>4, <1>5, <1>6 DEF Next

(***************************************************************************)
(* Whoever a script lets in leaves nobody waiting who was enqueued before. *)
(***************************************************************************)
THEOREM FirstComeFirstServed == Spec => NoOvertaking
  <1>1. QED BY InitIInv, NextIInv, NextLineServed, PTL DEF Spec, NoOvertaking


-----------------------------------------------------------------------------
(* The contract of store.Store *)

Beats == [id \in DOMAIN active \cup DOMAIN order |->
            IF id \in DOMAIN active THEN active[id] ELSE seen[id]]

(***************************************************************************)
(* order lists its members in exactly one way by increasing score, and     *)
(* Line is that list.                                                      *)
(***************************************************************************)
LEMMA LineSorted ==
  ASSUME IInv
  PROVE  /\ IsFiniteSet(DOMAIN order)
         /\ order \in [DOMAIN order -> Int]
         /\ Sorted(Line, DOMAIN order, order)
         /\ \A l : Sorted(l, DOMAIN order, order) => l = Line
  <1>1. IsFiniteSet(DOMAIN order) /\ order \in [DOMAIN order -> Int]
    <2>1. DOMAIN order \subseteq Ids /\ order \in [DOMAIN order -> Int]
      BY DEF IInv, TypeOK
    <2>2. QED BY <2>1, ValkeyAssumption, FS_Subset
  <1>2. \A x, y \in DOMAIN order : x # y => order[x] # order[y]
    BY DEF IInv, KeysAgree
  <1>3. Sorted(Line, DOMAIN order, order)
    <2>1. PICK l : Sorted(l, DOMAIN order, order)
      BY <1>1, <1>2, SortedExists
    <2>2. \A k \in [1..Cardinality(DOMAIN order) -> DOMAIN order] :
             DOMAIN k = 1..Cardinality(DOMAIN order)
      OBVIOUS
    <2>3. \E k \in [1..Cardinality(DOMAIN order) -> DOMAIN order] :
             \A i, j \in DOMAIN k : i < j => order[k[i]] < order[k[j]]
      BY <2>1, <2>2 DEF Sorted
    <2>4. /\ Line \in [1..Cardinality(DOMAIN order) -> DOMAIN order]
          /\ \A i, j \in DOMAIN Line : i < j => order[Line[i]] < order[Line[j]]
      BY <2>3, Zenon DEF Line
    <2>5. QED BY <2>2, <2>4 DEF Sorted
  <1>4. \A l : Sorted(l, DOMAIN order, order) => l = Line
    BY <1>1, <1>2, <1>3, SortedUnique
  <1>5. QED BY <1>1, <1>3, <1>4

(***************************************************************************)
(* What the contract sees of the keys: the waiters are the members of      *)
(* order, nobody waits when it has none, and every known ticket has one    *)
(* heartbeat, in active or in seen.                                        *)
(***************************************************************************)
LEMMA View ==
  ASSUME IInv
  PROVE  /\ Room!Waiting(Line) = DOMAIN order
         /\ Room!Known = DOMAIN order \cup DOMAIN active
         /\ Line = <<>> <=> DOMAIN order = {}
         /\ \A S, T, now : Room!SeenAt(S, T, now) = [id \in S |-> IF id \in T THEN now ELSE Beats[id]]
         /\ \A id \in DOMAIN active : Beats[id] = active[id]
         /\ \A id \in DOMAIN order : Beats[id] = seen[id]
  <1>1. /\ IsFiniteSet(DOMAIN order)
        /\ order \in [DOMAIN order -> Int]
        /\ Sorted(Line, DOMAIN order, order)
    BY LineSorted
  <1>2. /\ Line \in Seq(DOMAIN order) /\ Len(Line) = Cardinality(DOMAIN order)
        /\ DOMAIN Line = 1..Cardinality(DOMAIN order)
    BY <1>1, SortedSeq
  <1>3. Room!Waiting(Line) = DOMAIN order
    <2>1. \A x \in DOMAIN order : \E i \in DOMAIN Line : Line[i] = x
      BY <1>1, <1>2, SortedCovers
    <2>2. \A i \in DOMAIN Line : Line[i] \in DOMAIN order
      BY <1>2
    <2>3. QED BY <2>1, <2>2 DEF Room!Waiting
  <1>4. Line = <<>> <=> DOMAIN order = {}
    <2>1. Line = <<>> <=> Len(Line) = 0
      BY <1>2
    <2>2. Cardinality(DOMAIN order) = 0 <=> DOMAIN order = {}
      BY <1>1, FS_EmptySet
    <2>3. QED BY <1>2, <2>1, <2>2
  <1>5. \A S, T, now : Room!SeenAt(S, T, now) = [id \in S |-> IF id \in T THEN now ELSE Beats[id]]
    BY DEF Room!SeenAt, Beats
  <1>6. /\ \A id \in DOMAIN active : Beats[id] = active[id]
        /\ \A id \in DOMAIN order : Beats[id] = seen[id]
    BY DEF Beats, IInv, KeysAgree
  <1>7. QED BY <1>3, <1>4, <1>5, <1>6 DEF Room!Known

(***************************************************************************)
(* The contract counts, and selects the waiters to keep, with the same     *)
(* operators.                                                              *)
(***************************************************************************)
LEMMA SameOperators ==
  /\ \A S : Room!Cardinality(S) = Cardinality(S)
  /\ \A s, K : Room!Filtered(s, K) = Filtered(s, K)
  /\ \A m, n : Room!Greater(m, n) = Greater(m, n) /\ Room!Lesser(m, n) = Lesser(m, n)
  <1>1. \A S : Room!Cardinality(S) = Cardinality(S)
    BY Zenon DEF Room!Cardinality, Cardinality
  <1>2. \A K : Room!Enumerations(K) = Enumerations(K)
    BY <1>1, Zenon DEF Room!Enumerations, Enumerations
  <1>3. \A s, K : Room!Filtered(s, K) = Filtered(s, K)
    BY <1>2 DEF Room!Filtered, Filtered
  <1>4. \A m, n : Room!Greater(m, n) = Greater(m, n)
    BY Zenon DEF Room!Greater, Greater
  <1>5. \A m, n : Room!Lesser(m, n) = Lesser(m, n)
    BY Zenon DEF Room!Lesser, Lesser
  <1>6. QED BY <1>1, <1>3, <1>4, <1>5

(***************************************************************************)
(* What ZADD of a heartbeat to active, or to seen, does to the heartbeats  *)
(* the contract sees.                                                      *)
(***************************************************************************)
LEMMA BeatsAfter ==
  ASSUME IInv, NEW id \in Ids, NEW v, order' = order,
         \/ active' = Put(active, id, v) /\ seen' = seen /\ id \notin DOMAIN order
         \/ active' = active /\ seen' = Put(seen, id, v) /\ id \in DOMAIN order
  PROVE  Beats' = [x \in DOMAIN order \cup DOMAIN active \cup {id} |->
                     IF x \in {id} THEN v ELSE Beats[x]]
  <1>1. DOMAIN seen = DOMAIN order /\ DOMAIN order \cap DOMAIN active = {}
    BY DEF IInv, KeysAgree
  <1>2. CASE active' = Put(active, id, v) /\ seen' = seen /\ id \notin DOMAIN order
    BY <1>1, <1>2 DEF Beats, Put
  <1>3. CASE active' = active /\ seen' = Put(seen, id, v) /\ id \in DOMAIN order
    BY <1>1, <1>3 DEF Beats, Put
  <1>4. QED BY <1>2, <1>3

(***************************************************************************)
(* tryAdmitScript does what the contract says of TryAdmit.                 *)
(***************************************************************************)
LEMMA TryAdmitRoom ==
  ASSUME IInv, NEW id \in Ids, NEW cap \in Capacities, NEW now \in Times, TryAdmit(id, cap, now)
  PROVE  Room!TryAdmit(id, cap, ms(now))
  <1>1. Room!Admissible(id, cap) <=> id \in DOMAIN active \/ MayAdmit(cap)
    BY View, SameOperators DEF Room!Admissible, MayAdmit
  <1>2. CASE Room!Admissible(id, cap)
    <2>1. active' = Put(active, id, ms(now)) /\ UNCHANGED <<order, seen>>
      BY <1>1, <1>2 DEF TryAdmit
    <2>2. id \notin DOMAIN order
      BY <1>1, <1>2 DEF IInv, KeysAgree, MayAdmit
    <2>3. Line' = Line /\ DOMAIN active' = DOMAIN active \cup {id}
      BY <2>1 DEF Line, Put
    <2>4. Beats' = Room!SeenAt(Room!Known \cup {id}, {id}, ms(now))
      <3>1. Beats' = [x \in DOMAIN order \cup DOMAIN active \cup {id} |->
                        IF x \in {id} THEN ms(now) ELSE Beats[x]]
        BY <2>1, <2>2, BeatsAfter
      <3>2. QED BY <3>1, View
    <2>5. QED BY <1>2, <2>3, <2>4 DEF Room!TryAdmit, Beats
  <1>3. CASE ~Room!Admissible(id, cap)
    <2>1. UNCHANGED <<order, active, seen>>
      BY <1>1, <1>3 DEF TryAdmit, vars
    <2>2. Line' = Line
      BY <2>1 DEF Line
    <2>3. QED BY <1>3, <2>1, <2>2 DEF Room!TryAdmit, Room!room
  <1>4. QED BY <1>2, <1>3

(***************************************************************************)
(* enqueueScript does what the contract says of Enqueue: the new score is  *)
(* higher than all others, so the newcomer stands last.                    *)
(***************************************************************************)
LEMMA EnqueueRoom ==
  ASSUME IInv, NEW id \in Ids, NEW now \in Times, Enqueue(id, now)
  PROVE  Room!Enqueue(id, ms(now))
  <1>1. Room!Known = DOMAIN order \cup DOMAIN active
    BY View
  <1>2. CASE id \in DOMAIN active /\ UNCHANGED vars
    <2>1. UNCHANGED <<order, active, seen>>
      BY <1>2 DEF vars
    <2>2. Line' = Line
      BY <2>1 DEF Line
    <2>3. Beats' = [x \in DOMAIN order \cup DOMAIN active \cup {id} |->
                      IF x \in {} THEN ms(now) ELSE Beats[x]]
      BY <1>2, <2>1 DEF Beats
    <2>4. Beats' = Room!SeenAt(Room!Known \cup {id}, {}, ms(now))
      BY <2>3, View
    <2>5. {} \in IF id \in DOMAIN active THEN {{}, {id}} ELSE {{id}}
      BY <1>2
    <2>6. QED BY <1>1, <1>2, <2>1, <2>2, <2>4, <2>5 DEF Room!Enqueue, Beats
  <1>3. CASE /\ id \notin DOMAIN active
             /\ id \in DOMAIN order
             /\ seen' = Put(seen, id, ms(now))
             /\ UNCHANGED <<order, active>>
    <2>1. Line' = Line
      BY <1>3 DEF Line
    <2>2. Beats' = [x \in DOMAIN order \cup DOMAIN active \cup {id} |->
                      IF x \in {id} THEN ms(now) ELSE Beats[x]]
      BY <1>3, BeatsAfter
    <2>3. Beats' = Room!SeenAt(Room!Known \cup {id}, {id}, ms(now))
      BY <2>2, View
    <2>4. {id} \in IF id \in DOMAIN active THEN {{}, {id}} ELSE {{id}}
      OBVIOUS
    <2>5. QED BY <1>1, <1>3, <2>1, <2>3, <2>4 DEF Room!Enqueue, Beats
  <1>4. CASE /\ id \notin DOMAIN active
             /\ id \notin DOMAIN order
             /\ seq' = seq + 1
             /\ order' = Put(order, id, seq')
             /\ seen' = Put(seen, id, ms(now))
             /\ UNCHANGED active
    <2>1. /\ DOMAIN order' = DOMAIN order \cup {id}
          /\ order'[id] = seq + 1
          /\ \A y \in DOMAIN order : order'[y] = order[y]
      BY <1>4 DEF Put
    <2>2. \A y \in DOMAIN order : order'[y] < order'[id]
      <3>1. seq \in Nat /\ \A y \in DOMAIN order : order[y] \in 1..seq
        BY ValkeyAssumption DEF IInv, TypeOK, KeysAgree
      <3>2. QED BY <2>1, <3>1
    <2>3. Line' = Append(Line, id)
      <3>1. IsFiniteSet(DOMAIN order) /\ Sorted(Line, DOMAIN order, order)
        BY LineSorted
      <3>2. Sorted(Append(Line, id), DOMAIN order \cup {id}, order')
        BY <1>4, <2>1, <2>2, <3>1, AppendSorted
      <3>3. IInv'
        BY EnqueueIInv
      <3>4. \A l : Sorted(l, DOMAIN order', order') => l = Line'
        <4>1. (\A l : Sorted(l, DOMAIN order, order) => l = Line)'
          BY <3>3, LineSorted, PTL
        <4>2. QED BY <4>1 DEF Sorted
      <3>5. QED BY <2>1, <3>2, <3>4
    <2>4. Beats' = [x \in DOMAIN order \cup DOMAIN active \cup {id} |->
                      IF x \in {id} THEN ms(now) ELSE Beats[x]]
      <3>1. DOMAIN seen = DOMAIN order /\ DOMAIN order \cap DOMAIN active = {}
        BY DEF IInv, KeysAgree
      <3>2. DOMAIN seen' = DOMAIN order \cup {id} /\ seen'[id] = ms(now)
            /\ \A y \in DOMAIN order : seen'[y] = seen[y]
        BY <1>4, <3>1 DEF Put
      <3>3. QED BY <1>4, <2>1, <3>1, <3>2 DEF Beats
    <2>5. Beats' = Room!SeenAt(Room!Known \cup {id}, {id}, ms(now))
      BY <2>4, View
    <2>6. {id} \in IF id \in DOMAIN active THEN {{}, {id}} ELSE {{id}}
      OBVIOUS
    <2>7. QED BY <1>1, <1>4, <2>3, <2>5, <2>6 DEF Room!Enqueue, Beats
  <1>5. QED BY <1>2, <1>3, <1>4 DEF Enqueue

(***************************************************************************)
(* lookupScript and touchScript do what the contract says of Lookup and    *)
(* Touch.                                                                  *)
(***************************************************************************)
LEMMA HeartbeatRoom ==
  ASSUME IInv, NEW id \in Ids, NEW now \in Times
  PROVE  /\ Lookup(id, now) => Room!Lookup(id, ms(now))
         /\ Touch(id, now) => Room!Touch(id, ms(now))
  <1>1. Beats = [x \in DOMAIN order \cup DOMAIN active |-> Beats[x]]
    BY DEF Beats
  <1>2. DOMAIN order \cap DOMAIN active = {} /\ DOMAIN seen = DOMAIN order
    BY DEF IInv, KeysAgree
  <1>3. ASSUME Lookup(id, now) PROVE Room!Lookup(id, ms(now))
    <2>1. Line' = Line /\ DOMAIN active' = DOMAIN active /\ order' = order
      BY <1>3 DEF Lookup, Line, Put
    <2>2. Beats' = [x \in DOMAIN order \cup DOMAIN active |->
                      IF x \in {id} THEN ms(now) ELSE Beats[x]]
      <3>1. CASE id \in DOMAIN active \/ id \in DOMAIN order
        <4>1. Beats' = [x \in DOMAIN order \cup DOMAIN active \cup {id} |->
                          IF x \in {id} THEN ms(now) ELSE Beats[x]]
          BY <1>2, <1>3, <3>1, BeatsAfter DEF Lookup
        <4>2. QED BY <3>1, <4>1
      <3>2. CASE id \notin DOMAIN active /\ id \notin DOMAIN order
        <4>1. Beats' = Beats
          BY <1>3, <3>2 DEF Lookup, Beats
        <4>2. QED BY <1>1, <3>2, <4>1
      <3>3. QED BY <3>1, <3>2
    <2>3. Beats' = Room!SeenAt(Room!Known, {id}, ms(now))
      BY <2>2, View
    <2>4. QED BY <2>1, <2>3 DEF Room!Lookup, Beats
  <1>4. ASSUME Touch(id, now) PROVE Room!Touch(id, ms(now))
    <2>1. Line' = Line /\ DOMAIN active' = DOMAIN active /\ order' = order
      BY <1>4 DEF Touch, Line, Put
    <2>2. Beats' = [x \in DOMAIN order \cup DOMAIN active |->
                      IF x \in {id} \cap DOMAIN active THEN ms(now) ELSE Beats[x]]
      <3>1. CASE id \in DOMAIN active
        <4>1. Beats' = [x \in DOMAIN order \cup DOMAIN active \cup {id} |->
                          IF x \in {id} THEN ms(now) ELSE Beats[x]]
          BY <1>2, <1>4, <3>1, BeatsAfter DEF Touch
        <4>2. QED BY <3>1, <4>1
      <3>2. CASE id \notin DOMAIN active
        <4>1. Beats' = Beats
          BY <1>4, <3>2 DEF Touch, Beats
        <4>2. QED BY <1>1, <3>2, <4>1
      <3>3. QED BY <3>1, <3>2
    <2>3. Beats' = Room!SeenAt(Room!Known, {id} \cap DOMAIN active, ms(now))
      BY <2>2, View
    <2>4. QED BY <2>1, <2>3 DEF Room!Touch, Beats
  <1>5. QED BY <1>3, <1>4

(***************************************************************************)
(* reconcileScript is the pass of the contract, in milliseconds: the       *)
(* members popped by ZPOPMIN are the heads of the line left by the         *)
(* eviction of ghosts.                                                     *)
(***************************************************************************)
LEMMA ReconcileRoom ==
  ASSUME IInv, NEW cap \in Capacities, NEW now \in Times, Reconcile(cap, now)
  PROVE  Room!Reconcile(cap, ms(now))
  <1>1. PICK expired, ghosts, promoted : Pass(cap, now, expired, ghosts, promoted)
    BY ReconcileIsPass
  <1> DEFINE staying == DOMAIN active \ expired
             waiting == DOMAIN order \ ghosts
             K == {i \in DOMAIN Line : Line[i] \notin ghosts}
             n == Cardinality(promoted)
  <1>2. /\ IsFiniteSet(DOMAIN order)
        /\ order \in [DOMAIN order -> Int]
        /\ Sorted(Line, DOMAIN order, order)
    BY LineSorted
  <1>3. /\ DOMAIN seen = DOMAIN order /\ DOMAIN order \cap DOMAIN active = {}
        /\ \A x \in DOMAIN active : active[x] \in Int
        /\ \A x \in DOMAIN order : seen[x] \in Int
    BY DEF IInv, KeysAgree, TypeOK
  <1>4. ms(now) \in Int /\ ms(ActiveTTL) \in Int /\ ms(QueueTTL) \in Int
    <2>1. \A t \in Int : t \div TicksPerMs \in Int
      BY ValkeyAssumption
    <2>2. ActiveTTL \in Int /\ QueueTTL \in Int /\ now \in Int
      BY ValkeyAssumption
    <2>3. QED BY <2>1, <2>2 DEF ms
  <1>5. Room!Expired(ms(now)) = expired
    <2>1. Room!Expired(ms(now)) = {x \in DOMAIN active : ms(now) - Beats[x] > ms(ActiveTTL)}
      BY DEF Room!Expired, Beats
    <2>2. \A x \in DOMAIN active : ms(now) - Beats[x] > ms(ActiveTTL) <=> active[x] < ms(now) - ms(ActiveTTL)
      BY <1>3, <1>4, View
    <2>3. QED BY <1>1, <2>1, <2>2 DEF Pass, OlderThan
  <1>6. DOMAIN Line = 1..Cardinality(DOMAIN order) /\ Cardinality(DOMAIN order) \in Nat
    BY <1>2, SortedSeq
  <1>7. Room!Kept(ms(now)) = K
    <2>1. Room!Kept(ms(now)) = {i \in DOMAIN Line : ms(now) - Beats[Line[i]] <= ms(QueueTTL)}
      BY DEF Room!Kept, Beats
    <2>2. \A i \in DOMAIN Line : Line[i] \in DOMAIN order
      BY <1>2, <1>6 DEF Sorted
    <2>3. \A x \in DOMAIN order : ms(now) - Beats[x] <= ms(QueueTTL) <=> ~(seen[x] < ms(now) - ms(QueueTTL))
      BY <1>3, <1>4, View
    <2>4. \A x \in DOMAIN order : x \in ghosts <=> seen[x] < ms(now) - ms(QueueTTL)
      BY <1>1, <1>3 DEF Pass, OlderThan
    <2>5. QED BY <2>1, <2>2, <2>3, <2>4
  <1>8. PICK alive : alive \in Filtered(Line, K)
    <2>1. K \subseteq 1..Cardinality(DOMAIN order)
      BY <1>6
    <2>2. IsFiniteSet(1..Cardinality(DOMAIN order))
      BY <1>6, FS_Interval
    <2> HIDE DEF K
    <2>3. IsFiniteSet(K)
      BY <2>1, <2>2, FS_Subset
    <2>4. K \subseteq Int
      BY <1>6, <2>1
    <2>5. QED BY <2>3, <2>4, FilteredExists
  <1>9. Sorted(alive, waiting, order)
    BY <1>2, <1>8, FilteredSorted
  <1>10. /\ IsFiniteSet(waiting)
         /\ promoted \in SUBSET waiting
         /\ \A x \in promoted, y \in waiting \ promoted : order[x] < order[y]
    BY <1>1, <1>2, FS_Difference DEF Pass
  <1>11. /\ alive \in Seq(waiting)
         /\ Len(alive) = Cardinality(waiting)
         /\ DOMAIN alive = 1..Cardinality(waiting)
    <2> HIDE DEF waiting
    <2>1. QED BY <1>9, <1>10, SortedSeq
  <1> DEFINE f == [x \in waiting |-> order[x]]
  <1>12. f \in [waiting -> Int] /\ \A x \in waiting : f[x] = order[x]
    BY <1>2
  <1> HIDE DEF f
  <1>13. Sorted(alive, waiting, f)
    <2> HIDE DEF waiting
    <2>1. QED BY <1>9, <1>12 DEF Sorted
  <1>14. /\ {alive[i] : i \in 1..n} = promoted
         /\ Sorted(SubSeq(alive, n + 1, Len(alive)), waiting \ promoted, f)
         /\ {alive[i] : i \in DOMAIN alive} = waiting
    <2> HIDE DEF waiting
    <2>1. \A x \in promoted, y \in waiting \ promoted : f[x] < f[y]
      BY <1>10, <1>12
    <2>2. \A x \in waiting : \E i \in 1..Cardinality(waiting) : alive[i] = x
      BY <1>10, <1>12, <1>13, SortedCovers
    <2>3. \A i \in DOMAIN alive : alive[i] \in waiting
      BY <1>11
    <2>4. {alive[i] : i \in DOMAIN alive} = waiting
      BY <1>11, <2>2, <2>3
    <2>5. {alive[i] : i \in 1..n} = promoted
      <3>1. Leads(promoted, alive)
        BY <1>10, <1>12, <1>13, <2>1, PopSorted
      <3>2. QED BY <3>1 DEF Leads
    <2>6. Sorted(SubSeq(alive, n + 1, Len(alive)), waiting \ promoted, f)
      BY <1>10, <1>12, <1>13, <2>1, PopSorted
    <2>7. QED BY <2>4, <2>5, <2>6
  <1>15. /\ DOMAIN order' = waiting \ promoted
         /\ \A x \in DOMAIN order' : order'[x] = order[x] /\ x \in waiting
         /\ seen' = Without(seen, ghosts \cup promoted)
         /\ active' = [x \in staying \cup promoted |-> IF x \in promoted THEN ms(now) ELSE active[x]]
    BY <1>1 DEF Pass, Without
  <1>16. Line' = SubSeq(alive, n + 1, Len(alive))
    <2> DEFINE b == SubSeq(alive, n + 1, Len(alive))
    <2>1. Sorted(b, DOMAIN order', f)
      BY <1>14, <1>15
    <2>2. \A x \in DOMAIN order' : f[x] = order'[x]
      BY <1>12, <1>15
    <2> HIDE DEF b
    <2>3. Sorted(b, DOMAIN order', order')
      BY <2>1, <2>2 DEF Sorted
    <2>4. IInv'
      BY ReconcileIInv
    <2>5. (\A l : Sorted(l, DOMAIN order, order) => l = Line)'
      BY <2>4, LineSorted, PTL
    <2>6. QED BY <2>3, <2>5 DEF Sorted, b
  <1>17. n = Room!Lesser(Room!Greater(cap - Room!Cardinality(staying), 0), Len(alive))
    <2>1. n = Lesser(Greater(cap - Cardinality(staying), 0), Cardinality(waiting))
      BY <1>1 DEF Pass
    <2> HIDE DEF staying, waiting, n
    <2>2. QED BY <1>11, <2>1, SameOperators
  <1>18. DOMAIN active' = staying \cup promoted
    BY <1>15
  <1>19. Beats' = [x \in staying \cup waiting |-> IF x \in promoted THEN ms(now) ELSE Beats[x]]
    <2>1. \A x \in waiting \ promoted : seen'[x] = seen[x]
      BY <1>3, <1>15 DEF Without
    <2>2. promoted \subseteq waiting
      BY <1>10
    <2>3. (DOMAIN active)' \cup (DOMAIN order)' = staying \cup waiting
      BY <1>15, <1>18, <2>2
    <2>4. \A x \in staying : x \in DOMAIN active /\ x \notin promoted /\ active'[x] = active[x]
      BY <1>3, <1>15, <2>2
    <2>5. \A x \in promoted : active'[x] = ms(now)
      BY <1>15
    <2>6. \A x \in waiting \ promoted : x \notin DOMAIN active' /\ x \in DOMAIN order
      BY <1>3, <1>18
    <2> HIDE DEF staying, waiting
    <2>7. \A x \in staying \cup waiting :
             (IF x \in DOMAIN active' THEN active'[x] ELSE seen'[x])
               = IF x \in promoted THEN ms(now) ELSE Beats[x]
      <3>1. \A x \in staying : Beats[x] = active[x] /\ x \in DOMAIN active'
        BY <1>18, <2>4, View
      <3>2. \A x \in waiting \ promoted : Beats[x] = seen[x]
        BY <2>6, View
      <3>3. \A x \in promoted : x \in DOMAIN active'
        BY <1>18
      <3>4. QED BY <2>1, <2>4, <2>5, <2>6, <3>1, <3>2, <3>3
    <2>8. Beats' = [x \in staying \cup waiting |-> IF x \in DOMAIN active' THEN active'[x] ELSE seen'[x]]
      BY <2>3 DEF Beats
    <2>9. QED BY <2>7, <2>8
  <1>20. Beats' = Room!SeenAt(staying \cup Room!Waiting(alive), promoted, ms(now))
    BY <1>14, <1>19, View DEF Room!Waiting
  <1>21. alive \in Room!Filtered(Line, Room!Kept(ms(now)))
    BY <1>7, <1>8, SameOperators
  <1> HIDE DEF n
  <1>22. QED
    BY <1>5, <1>14, <1>16, <1>17, <1>18, <1>20, <1>21, Zenon DEF Room!Reconcile, Beats

(***************************************************************************)
(* flushScript does what the contract says of Flush.                       *)
(***************************************************************************)
LEMMA FlushRoom == ASSUME IInv, Flush PROVE Room!Flush
  <1>1. DOMAIN order' = {} /\ active' = active
    BY DEF Flush, Empty
  <1>2. Line' = <<>>
    <2>1. IInv'
      BY NextIInv DEF Next
    <2>2. (Line = <<>> <=> DOMAIN order = {})'
      BY <2>1, View, PTL
    <2>3. QED BY <1>1, <2>2
  <1>3. Beats' = [x \in DOMAIN active |-> IF x \in {} THEN 0 ELSE Beats[x]]
    <2>1. Beats' = [x \in DOMAIN active |-> active[x]]
      BY <1>1 DEF Beats
    <2>2. QED BY <2>1, View
  <1>4. Beats' = Room!SeenAt(DOMAIN active, {}, 0)
    BY <1>3, View
  <1>5. QED BY <1>1, <1>2, <1>4 DEF Room!Flush, Beats

(***************************************************************************)
(* Every script is a step of the contract, or, like SetCapacity, invisible *)
(* to it.                                                                  *)
(***************************************************************************)
LEMMA NextRoom == IInv /\ [Next]_vars => [Room!RoomNext]_(Room!room)
  <1> SUFFICES ASSUME IInv, [Next]_vars PROVE Room!RoomNext \/ UNCHANGED Room!room
    OBVIOUS
  <1>1. ASSUME UNCHANGED <<order, active, seen>> PROVE UNCHANGED Room!room
    BY <1>1 DEF Room!room, Line
  <1>2. ASSUME NEW cap \in Capacities, SetCapacity(cap) PROVE UNCHANGED Room!room
    BY <1>1, <1>2 DEF SetCapacity
  <1>3. ASSUME UNCHANGED vars PROVE UNCHANGED Room!room
    BY <1>1, <1>3 DEF vars
  <1>4. ASSUME NEW id \in Ids, NEW now \in Times,
               \/ \E cap \in Capacities : TryAdmit(id, cap, now)
               \/ Enqueue(id, now) \/ Lookup(id, now) \/ Touch(id, now)
        PROVE  Room!RoomNext
    <2>1. ms(now) \in {ms(t) : t \in Times}
      OBVIOUS
    <2>2. \/ \E cap \in Capacities : Room!TryAdmit(id, cap, ms(now))
          \/ Room!Enqueue(id, ms(now)) \/ Room!Lookup(id, ms(now)) \/ Room!Touch(id, ms(now))
      BY <1>4, TryAdmitRoom, EnqueueRoom, HeartbeatRoom
    <2>3. QED BY <2>1, <2>2 DEF Room!RoomNext
  <1>5. ASSUME NEW cap \in Capacities, NEW now \in Times, Reconcile(cap, now)
        PROVE  Room!RoomNext
    <2>1. ms(now) \in {ms(t) : t \in Times}
      OBVIOUS
    <2>2. Room!Reconcile(cap, ms(now))
      BY <1>5, ReconcileRoom
    <2>3. QED BY <2>1, <2>2 DEF Room!RoomNext
  <1>6. ASSUME Flush PROVE Room!RoomNext
    BY <1>6, FlushRoom DEF Room!RoomNext
  <1>7. QED BY <1>2, <1>3, <1>4, <1>5, <1>6 DEF Next

(***************************************************************************)
(* The scripts implement the contract of store.Store, counted in           *)
(* milliseconds: for any number of replicas, clock readings and            *)
(* capacities, the five keys together behave as a plain line, a set of     *)
(* admitted tickets and their heartbeats.  With the same theorem for the   *)
(* in-memory store, what is shown of the contract holds of both.           *)
(***************************************************************************)
THEOREM ValkeyImplementsRoom == Spec => ImplementsRoom
  <1>1. Init => Room!RoomInit
    <2> SUFFICES ASSUME Init PROVE Room!RoomInit
      OBVIOUS
    <2>1. IInv
      BY InitIInv
    <2>2. DOMAIN order = {} /\ DOMAIN active = {}
      BY DEF Init, Empty
    <2>3. Line = <<>>
      BY <2>1, <2>2, View
    <2>4. QED BY <2>2, <2>3 DEF Room!RoomInit
  <1>2. QED BY <1>1, InitIInv, NextIInv, NextRoom, PTL DEF Spec, ImplementsRoom, Room!RoomSpec

-----------------------------------------------------------------------------
(* Truncation *)

(***************************************************************************)
(* An instant is in its millisecond.                                       *)
(***************************************************************************)
LEMMA msBounds ==
  ASSUME NEW t \in Int
  PROVE  /\ ms(t) \in Int
         /\ TicksPerMs * ms(t) <= t
         /\ t < TicksPerMs * ms(t) + TicksPerMs
<1>1. TicksPerMs \in Nat \ {0}
  BY ValkeyAssumption
<1>2. \A T \in Nat \ {0} : T * (t \div T) <= t /\ t < T * (t \div T) + T /\ t \div T \in Int
  OBVIOUS
<1> QED BY <1>1, <1>2 DEF ms

(***************************************************************************)
(* The scripts compare instants and TTLs that were truncated to            *)
(* milliseconds each on its own (UnixMilli and Milliseconds): in a         *)
(* reconcile a heartbeat expires less than a millisecond before it is      *)
(* older than the TTL, and has expired when it is older by a millisecond.  *)
(***************************************************************************)
THEOREM ExpiryToTheMs ==
  ASSUME NEW z, NEW id \in DOMAIN z, NEW beat \in Int, z[id] = ms(beat),
         NEW ttl \in Int, NEW now \in Int
  PROVE  /\ id \in OlderThan(z, ttl, now) => now - beat > ttl - TicksPerMs
         /\ now - beat >= ttl + TicksPerMs => id \in OlderThan(z, ttl, now)
<1>1. PICK T \in Int : T = TicksPerMs /\ T > 0
  BY ValkeyAssumption
<1>2. PICK b \in Int : b = ms(beat) /\ T * b <= beat /\ beat < T * b + T
  BY <1>1, msBounds
<1>3. PICK n \in Int : n = ms(now) /\ T * n <= now /\ now < T * n + T
  BY <1>1, msBounds
<1>4. PICK l \in Int : l = ms(ttl) /\ T * l <= ttl /\ ttl < T * l + T
  BY <1>1, msBounds
<1>5. id \in OlderThan(z, ttl, now) <=> b < n - l
  BY <1>2, <1>3, <1>4 DEF OlderThan
<1>6. ASSUME b < n - l PROVE now - beat > ttl - T
  <2>1. n - b - l >= 1
    BY <1>6
  <2>2. T * (n - b - l) >= T
    BY <1>1, <2>1
  <2>3. T * (n - b - l) = T * n - T * b - T * l
    BY <1>1
  <2> QED BY <1>1, <1>2, <1>3, <1>4, <2>2, <2>3
<1>7. ASSUME now - beat >= ttl + T PROVE b < n - l
  <2>1. T * n - T * b - T * l > 0
    BY <1>1, <1>2, <1>3, <1>4, <1>7
  <2>2. T * (n - b - l) = T * n - T * b - T * l
    BY <1>1
  <2>3. n - b - l > 0
    BY <1>1, <2>1, <2>2
  <2> QED BY <2>3
<1> QED BY <1>1, <1>5, <1>6, <1>7
=============================================================================
