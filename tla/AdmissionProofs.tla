--------------------------- MODULE AdmissionProofs ---------------------------
(***************************************************************************)
(* Proofs about the request path: what each request is told is true when   *)
(* it is told, heartbeats lag by at most a stall, sessions and places are  *)
(* kept, and the gate spaces reconciles.  They hold for any number of      *)
(* requests, tickets, capacities and TTLs, and any bounds.                 *)
(***************************************************************************)
EXTENDS Admission, LinesProofs

-----------------------------------------------------------------------------
(* The room *)

(***************************************************************************)
(* Nobody stands twice in the line, or in the line and inside, and exactly *)
(* the tickets in one of the two have a heartbeat.                         *)
(***************************************************************************)
RoomInv ==
  /\ line \in Seq(Ids)
  /\ \A i, j \in DOMAIN line : line[i] = line[j] => i = j
  /\ inside \subseteq Ids
  /\ Waiting(line) \cap inside = {}
  /\ seen \in [Known -> Int]

(***************************************************************************)
(* The least that can be said of any call to the store made with the clock *)
(* reading `now`: a heartbeat is written with that reading or not at all,  *)
(* a session ends only when it is idle, a waiter is dropped only when it   *)
(* is a ghost, nobody falls back in the line or to it, and nobody outside  *)
(* `new` becomes known.                                                    *)
(***************************************************************************)
Effect(now, new) ==
  /\ RoomInv'
  /\ \A id \in DOMAIN seen' : seen'[id] = now \/ (id \in DOMAIN seen /\ seen'[id] = seen[id])
  /\ \A id \in inside \ inside' : now - seen[id] > ActiveTTL
  /\ \A id \in Waiting(line) \ Known' : now - seen[id] > QueueTTL
  /\ \A i \in DOMAIN line, k \in DOMAIN line' : line'[k] = line[i] => k <= i
  /\ Known' \subseteq Known \cup new
  /\ \A id \in Waiting(line') : id \in Waiting(line) => (seen'[id] = seen[id] \/ id \in new)
  /\ Waiting(line') \subseteq Waiting(line) \cup new
  /\ Waiting(line') \cap inside = {}

(***************************************************************************)
(* The heartbeats SeenAt records.                                          *)
(***************************************************************************)
LEMMA SeenAtFacts ==
  ASSUME NEW S, NEW T, NEW now
  PROVE  /\ DOMAIN SeenAt(S, T, now) = S
         /\ \A id \in S : SeenAt(S, T, now)[id] = IF id \in T THEN now ELSE seen[id]
BY DEF SeenAt

(***************************************************************************)
(* Calls that leave the line and the set of admitted tickets alone.        *)
(***************************************************************************)
LEMMA HeartbeatEffect ==
  ASSUME RoomInv, NEW id, NEW T \in {{}, {id}}, NEW now \in Int,
         seen' = SeenAt(Known, T, now), UNCHANGED <<line, inside>>
  PROVE  Effect(now, {id})
<1>1. Known' = Known /\ DOMAIN seen = Known /\ \A x \in Known : seen[x] \in Int
  BY DEF Known, RoomInv
<1>2. DOMAIN seen' = Known /\ \A x \in Known : seen'[x] = IF x \in T THEN now ELSE seen[x]
  BY SeenAtFacts
<1>3. seen' \in [Known -> Int]
  BY <1>1 DEF SeenAt
<1>4. RoomInv'
  BY <1>1, <1>3 DEF RoomInv
<1>5. \A i \in DOMAIN line, k \in DOMAIN line : line[k] = line[i] => k <= i
  BY DEF RoomInv
<1>6. \A x \in Waiting(line) : x \in Known
  BY DEF Known
<1>7. Waiting(line) \cap inside = {}
  BY DEF RoomInv
<1>8. QED BY <1>1, <1>2, <1>4, <1>5, <1>6, <1>7 DEF Effect

(***************************************************************************)
(* Lookup and Touch.                                                       *)
(***************************************************************************)
LEMMA LookupEffect ==
  ASSUME RoomInv, NEW id, NEW now \in Int, Lookup(id, now) \/ Touch(id, now)
  PROVE  Effect(now, {id})
<1>1. \E T \in {{}, {id}} : seen' = SeenAt(Known, T, now)
  <2>1. {id} \cap inside \in {{}, {id}}
    BY Zenon
  <2> QED BY <2>1 DEF Lookup, Touch
<1> QED BY <1>1, HeartbeatEffect DEF Lookup, Touch

(***************************************************************************)
(* TryAdmit lets a ticket in only when nobody waits.                       *)
(***************************************************************************)
LEMMA TryAdmitEffect ==
  ASSUME RoomInv, NEW id \in Ids, NEW capa, NEW now \in Int, TryAdmit(id, capa, now)
  PROVE  /\ Effect(now, {id})
         /\ inside \subseteq inside'
         /\ Admissible(id, capa) => inside' = inside \cup {id}
<1>1. CASE ~Admissible(id, capa)
  <2>1. UNCHANGED room
    BY <1>1 DEF TryAdmit
  <2>2. RoomInv' /\ Known' = Known
    BY <2>1 DEF RoomInv, room, Known
  <2>3. \A i \in DOMAIN line, k \in DOMAIN line : line[k] = line[i] => k <= i
    BY DEF RoomInv
  <2>4. DOMAIN seen = Known /\ Waiting(line) \subseteq Known /\ Waiting(line) \cap inside = {}
    BY DEF RoomInv, Known
  <2> QED BY <1>1, <2>1, <2>2, <2>3, <2>4 DEF Effect, room
<1>2. CASE Admissible(id, capa) /\ id \in inside
  <2>1. Known \cup {id} = Known /\ inside \cup {id} = inside
    BY <1>2 DEF Known
  <2>2. seen' = SeenAt(Known, {id}, now) /\ UNCHANGED <<line, inside>>
    BY <1>2, <2>1 DEF TryAdmit
  <2> QED BY <2>1, <2>2, HeartbeatEffect
<1>3. CASE Admissible(id, capa) /\ id \notin inside
  <2>1. /\ line = <<>> /\ inside' = inside \cup {id}
        /\ seen' = SeenAt(Known \cup {id}, {id}, now) /\ UNCHANGED line
    BY <1>3 DEF TryAdmit, Admissible
  <2>2. Waiting(line) = {} /\ Known = inside /\ Known' = inside \cup {id} /\ Waiting(line') = {}
    BY <2>1 DEF Waiting, Known
  <2>3. /\ DOMAIN seen' = Known \cup {id}
        /\ \A x \in Known \cup {id} : seen'[x] = IF x \in {id} THEN now ELSE seen[x]
    BY <2>1, SeenAtFacts
  <2>4. seen' \in [Known' -> Int]
    BY <2>1, <2>2 DEF SeenAt, RoomInv
  <2>5. RoomInv'
    BY <2>1, <2>2, <2>4 DEF RoomInv
  <2>6. DOMAIN line = {} /\ DOMAIN seen = Known
    BY <2>1 DEF RoomInv
  <2>7. Effect(now, {id})
    BY <2>1, <2>2, <2>3, <2>5, <2>6 DEF Effect
  <2> QED BY <2>1, <2>7
<1> QED BY <1>1, <1>2, <1>3

(***************************************************************************)
(* Enqueue appends.                                                        *)
(***************************************************************************)
LEMMA EnqueueEffect ==
  ASSUME RoomInv, NEW id \in Ids, NEW now \in Int, Enqueue(id, now)
  PROVE  Effect(now, {id}) /\ inside' = inside /\ (id \notin inside => id \in Waiting(line'))
<1>1. inside' = inside /\ (id \notin inside => seen' = SeenAt(Known \cup {id}, {id}, now))
  BY DEF Enqueue
<1>2. CASE id \in Known
  <2>1. Known \cup {id} = Known
    BY <1>2
  <2>2. line' = line
    BY <1>2 DEF Enqueue
  <2>3. \E T \in {{}, {id}} : seen' = SeenAt(Known, T, now)
    BY <2>1 DEF Enqueue
  <2>4. Effect(now, {id})
    BY <1>1, <2>2, <2>3, HeartbeatEffect
  <2> QED BY <1>1, <1>2, <2>2, <2>4 DEF Known
<1>3. CASE id \notin Known
  <2>1. line' = Append(line, id) /\ seen' = SeenAt(Known \cup {id}, {id}, now)
    BY <1>1, <1>3 DEF Enqueue, Known
  <2>2. /\ line \in Seq(Ids) /\ line' \in Seq(Ids) /\ Len(line) \in Nat
        /\ DOMAIN line = 1..Len(line) /\ DOMAIN line' = 1..(Len(line) + 1)
        /\ \A i \in DOMAIN line : line'[i] = line[i]
        /\ line'[Len(line) + 1] = id
    BY <2>1 DEF RoomInv
  <2>3. Waiting(line') = Waiting(line) \cup {id}
    <3>1. ASSUME NEW x \in Waiting(line') PROVE x \in Waiting(line) \cup {id}
      <4>1. PICK i \in DOMAIN line' : line'[i] = x
        BY <3>1 DEF Waiting
      <4>2. i \in DOMAIN line \/ i = Len(line) + 1
        BY <2>2
      <4> QED BY <2>2, <4>1, <4>2 DEF Waiting
    <3>2. ASSUME NEW x \in Waiting(line) PROVE x \in Waiting(line')
      <4>1. PICK i \in DOMAIN line : line[i] = x
        BY <3>2 DEF Waiting
      <4>2. i \in DOMAIN line' /\ line'[i] = x
        BY <2>2, <4>1
      <4> QED BY <4>2 DEF Waiting
    <3>3. id \in Waiting(line')
      <4>1. Len(line) + 1 \in DOMAIN line'
        BY <2>2
      <4> QED BY <2>2, <4>1 DEF Waiting
    <3> QED BY <3>1, <3>2, <3>3
  <2>4. Known' = Known \cup {id}
    BY <1>1, <2>3 DEF Known
  <2>5. /\ DOMAIN seen' = Known \cup {id}
        /\ \A x \in Known \cup {id} : seen'[x] = IF x \in {id} THEN now ELSE seen[x]
    BY <2>1, SeenAtFacts
  <2>6. seen' \in [Known' -> Int]
    BY <2>1, <2>4 DEF SeenAt, RoomInv
  <2>7. \A i \in DOMAIN line : line[i] # id
    BY <1>3 DEF Known, Waiting
  <2>8. \A i, j \in DOMAIN line' : line'[i] = line'[j] => i = j
    BY <2>2, <2>7 DEF RoomInv
  <2>9. RoomInv'
    BY <1>1, <1>3, <2>2, <2>3, <2>6, <2>8 DEF RoomInv, Known
  <2>10. \A i \in DOMAIN line, k \in DOMAIN line' : line'[k] = line[i] => k <= i
    BY <2>2, <2>7 DEF RoomInv
  <2>11. DOMAIN seen = Known /\ Waiting(line) \subseteq Known /\ Waiting(line) \cap inside = {}
         /\ id \notin inside
    BY <1>3 DEF RoomInv, Known
  <2>12. Effect(now, {id})
    BY <1>1, <1>3, <2>3, <2>4, <2>5, <2>9, <2>10, <2>11 DEF Effect
  <2> QED BY <1>1, <2>3, <2>12
<1> QED BY <1>2, <1>3

(***************************************************************************)
(* Reconcile moves the head of what remains of the line inside.            *)
(***************************************************************************)
LEMMA ReconcileEffect ==
  ASSUME RoomInv, NEW capa \in Int, NEW now \in Int, Reconcile(capa, now)
  PROVE  Effect(now, {})
<1> DEFINE staying == inside \ Expired(now)
           free == Greater(capa - Cardinality(staying), 0)
<1>1. PICK alive \in Filtered(line, Kept(now)) :
        LET n == Lesser(free, Len(alive))
            promoted == {alive[i] : i \in 1..n}
        IN /\ line' = SubSeq(alive, n + 1, Len(alive))
           /\ inside' = staying \cup promoted
           /\ seen' = SeenAt(staying \cup Waiting(alive), promoted, now)
  BY Zenon DEF Reconcile
<1> DEFINE n == Lesser(free, Len(alive))
           promoted == {alive[i] : i \in 1..n}
           m == Len(alive)
<1>2. /\ line' = SubSeq(alive, n + 1, m)
      /\ inside' = staying \cup promoted
      /\ seen' = SeenAt(staying \cup Waiting(alive), promoted, now)
  BY <1>1
<1>3. Kept(now) \in SUBSET DOMAIN line /\ line \in Seq(Ids)
  BY DEF Kept, RoomInv
<1>4. alive \in Seq(Ids) /\ m \in Nat /\ \E p : Selects(alive, line, Kept(now), p)
  BY <1>3, FilteredIsOrdered
<1>5. PICK p : Selects(alive, line, Kept(now), p)
  BY <1>4
<1>6. IsFiniteSet(staying) /\ Cardinality(staying) \in Nat
  <2>1. staying \in SUBSET Ids
    BY DEF RoomInv
  <2> QED BY <2>1, RoomAssumption, FS_Subset, FS_CardinalityType
<1>7. n \in 0..m
  <2> HIDE DEF staying
  <2>1. free \in Nat
    BY <1>6 DEF Greater
  <2> HIDE DEF free
  <2> QED BY <1>4, <2>1 DEF Lesser
<1> HIDE DEF n
<1>8. DOMAIN alive = 1..m
  BY <1>4
<1>9. \A i \in 1..m : p[i] \in Kept(now) /\ p[i] \in DOMAIN line /\ alive[i] = line[p[i]]
  BY <1>3, <1>5 DEF Selects
<1>10. \A i, j \in 1..m : i < j => p[i] < p[j]
  BY <1>5 DEF Selects
<1>11. \A i \in 1..m : p[i] \in Nat \ {0}
  BY <1>3, <1>9
<1>12. \A i, j \in 1..m : alive[i] = alive[j] => i = j
  <2> SUFFICES ASSUME NEW i \in 1..m, NEW j \in 1..m, i < j, alive[i] = alive[j] PROVE FALSE
    BY <1>4
  <2>1. p[i] = p[j]
    BY <1>9 DEF RoomInv
  <2> QED BY <1>10, <1>11, <2>1
<1>13. /\ line' \in Seq(Ids) /\ DOMAIN line' = 1..(m - n)
       /\ \A i \in 1..(m - n) : n + i \in 1..m /\ line'[i] = alive[n + i]
  <2>1. \A i \in 1..(m - n) : n + i \in 1..m
    BY <1>4, <1>7
  <2>2. line' = SubSeq(alive, n + 1, m) /\ n + 1 \in Nat /\ m - n \in Nat
    BY <1>2, <1>4, <1>7
  <2>3. Len(line') = m - n /\ line' \in Seq(Ids)
    BY <1>4, <1>7, <2>2
  <2>4. \A i \in 1..(m - n) : line'[i] = alive[n + i]
    BY <1>4, <1>7, <2>2
  <2> QED BY <2>1, <2>3, <2>4
<1>14. Waiting(alive) = {alive[i] : i \in 1..m} /\ Waiting(alive) \subseteq Waiting(line)
  BY <1>8, <1>9 DEF Waiting
<1>15. Waiting(line') = {alive[i] : i \in (n + 1)..m}
  <2>1. ASSUME NEW x \in Waiting(line') PROVE \E i \in (n + 1)..m : alive[i] = x
    <3>1. PICK i \in 1..(m - n) : line'[i] = x
      BY <1>13 DEF Waiting
    <3>2. n + i \in (n + 1)..m /\ alive[n + i] = x
      BY <1>4, <1>7, <1>13, <3>1
    <3> QED BY <3>2
  <2>2. ASSUME NEW i \in (n + 1)..m PROVE alive[i] \in Waiting(line')
    <3>1. i - n \in 1..(m - n) /\ n + (i - n) = i
      BY <1>4, <1>7
    <3>2. line'[i - n] = alive[i]
      BY <1>13, <3>1
    <3> QED BY <1>13, <3>1, <3>2 DEF Waiting
  <2> QED BY <2>1, <2>2
<1>16. promoted \cup Waiting(line') = Waiting(alive)
  <2>1. \A i \in 1..m : i \in 1..n \/ i \in (n + 1)..m
    BY <1>4, <1>7
  <2>2. \A i \in 1..n : i \in 1..m
    BY <1>4, <1>7
  <2>3. \A i \in (n + 1)..m : i \in 1..m
    BY <1>4, <1>7
  <2> QED BY <1>14, <1>15, <2>1, <2>2, <2>3
<1>17. promoted \cap Waiting(line') = {}
  <2> SUFFICES ASSUME NEW i \in 1..n, NEW j \in (n + 1)..m, alive[i] = alive[j] PROVE FALSE
    BY <1>15
  <2>1. i \in 1..m /\ j \in 1..m /\ i # j
    BY <1>4, <1>7
  <2> QED BY <1>12, <2>1
<1> HIDE DEF promoted
<1>18. Known' = staying \cup Waiting(alive)
  BY <1>2, <1>16 DEF Known
<1>19. /\ DOMAIN seen' = Known'
       /\ \A x \in Known' : seen'[x] = IF x \in promoted THEN now ELSE seen[x]
  BY <1>2, <1>18, SeenAtFacts
<1>20. Known' \subseteq Known /\ DOMAIN seen = Known /\ \A x \in Known : seen[x] \in Int
  BY <1>14, <1>18 DEF Known, RoomInv
<1>21. seen' \in [Known' -> Int]
  <2>1. seen' = [x \in Known' |-> IF x \in promoted THEN now ELSE seen[x]]
    BY <1>2, <1>18 DEF SeenAt
  <2> QED BY <1>20, <2>1
<1>22. RoomInv'
  <2>1. \A i, j \in DOMAIN line' : line'[i] = line'[j] => i = j
    <3> SUFFICES ASSUME NEW i \in 1..(m - n), NEW j \in 1..(m - n), line'[i] = line'[j]
                 PROVE  i = j
      BY <1>13
    <3>1. n + i = n + j
      BY <1>12, <1>13
    <3> QED BY <1>7, <3>1
  <2>2. inside' \subseteq Ids
    <3>1. Waiting(line) \subseteq Ids /\ inside \subseteq Ids
      BY DEF RoomInv, Waiting
    <3> QED BY <1>2, <1>14, <1>16, <3>1
  <2>3. Waiting(line') \cap inside' = {}
    BY <1>2, <1>14, <1>16, <1>17 DEF RoomInv
  <2> QED BY <1>13, <1>21, <2>1, <2>2, <2>3 DEF RoomInv
<1>23. \A id \in inside \ inside' : now - seen[id] > ActiveTTL
  BY <1>2 DEF Expired
<1>24. \A id \in Waiting(line) \ Known' : now - seen[id] > QueueTTL
  <2> SUFFICES ASSUME NEW id \in Waiting(line) \ Known', ~(now - seen[id] > QueueTTL)
               PROVE  FALSE
    OBVIOUS
  <2>1. PICK k \in DOMAIN line : line[k] = id
    BY DEF Waiting
  <2>2. id \in Known
    BY DEF Known
  <2>3. k \in Kept(now)
    BY <1>20, <2>1, <2>2, RoomAssumption DEF Kept
  <2>4. PICK i \in 1..m : p[i] = k
    BY <1>5, <2>3 DEF Selects
  <2>5. id \in Waiting(alive)
    BY <1>9, <1>14, <2>1, <2>4
  <2> QED BY <1>18, <2>5
<1>25. \A i \in DOMAIN line, k \in DOMAIN line' : line'[k] = line[i] => k <= i
  <2> SUFFICES ASSUME NEW i \in DOMAIN line, NEW k \in DOMAIN line', line'[k] = line[i]
               PROVE  k <= i
    OBVIOUS
  <2>1. k \in 1..(m - n) /\ n + k \in 1..m /\ alive[n + k] = line[i]
    BY <1>13
  <2>2. p[n + k] = i
    BY <1>9, <2>1 DEF RoomInv
  <2>3. n + k <= p[n + k]
    BY <1>4, <1>10, <1>11, <2>1, IncreasingAbove
  <2> QED BY <1>7, <2>1, <2>2, <2>3
<1>26. \A id \in Waiting(line') : seen'[id] = seen[id] /\ id \in Waiting(line) /\ id \notin inside
  BY <1>14, <1>16, <1>17, <1>19 DEF Known, RoomInv
<1> QED BY <1>19, <1>20, <1>22, <1>23, <1>24, <1>25, <1>26 DEF Effect

(***************************************************************************)
(* Reconcile's answer has one entry for each ticket that enters.           *)
(***************************************************************************)
LEMMA ReconcileObserved ==
  ASSUME RoomInv, NEW capa \in Int, NEW now \in Int, Reconcile(capa, now),
         NEW waited \in WaitedSecs(capa, now), NEW id \in Ids
  PROVE  \/ /\ id \in inside' \ inside
            /\ \E k \in DOMAIN waited : {i \in DOMAIN waited : waited[i] = id} = {k}
         \/ /\ id \notin inside' \ inside
            /\ {i \in DOMAIN waited : waited[i] = id} = {}
<1> DEFINE staying == inside \ Expired(now)
           free == Greater(capa - Cardinality(staying), 0)
<1>1. PICK alive \in Filtered(line, Kept(now)) :
        LET n == Lesser(free, Len(alive))
            promoted == {alive[i] : i \in 1..n}
        IN /\ line' = SubSeq(alive, n + 1, Len(alive))
           /\ inside' = staying \cup promoted
           /\ seen' = SeenAt(staying \cup Waiting(alive), promoted, now)
  BY Zenon DEF Reconcile
<1> DEFINE m == Len(alive)
           n == Lesser(free, m)
<1>2. inside' = staying \cup {alive[i] : i \in 1..n}
  BY <1>1
<1>3. Kept(now) \in SUBSET DOMAIN line /\ line \in Seq(Ids)
  BY DEF Kept, RoomInv
<1>4. alive \in Seq(Ids) /\ m \in Nat /\ \E p : Selects(alive, line, Kept(now), p)
  BY <1>3, FilteredIsOrdered
<1>5. PICK p : Selects(alive, line, Kept(now), p)
  BY <1>4
<1>6. PICK other \in Filtered(line, Kept(now)) : waited = SubSeq(other, 1, Lesser(free, Len(other)))
  BY DEF WaitedSecs
<1>7. other = alive
  <2>1. DOMAIN line = 1..Len(line) /\ Len(line) \in Nat
    BY <1>3
  <2>2. IsFiniteSet(DOMAIN line)
    BY <2>1, FS_Interval
  <2>3. IsFiniteSet(Kept(now)) /\ Kept(now) \subseteq Int
    BY <1>3, <2>1, <2>2, FS_Subset
  <2> QED BY <2>3, FilteredUnique
<1>8. n \in 0..m
  <2>1. staying \in SUBSET Ids
    BY DEF RoomInv
  <2>2. Cardinality(staying) \in Nat
    BY <2>1, RoomAssumption, FS_Subset, FS_CardinalityType
  <2> HIDE DEF staying
  <2>3. free \in Nat
    BY <2>2 DEF Greater
  <2> HIDE DEF free
  <2> QED BY <1>4, <2>3 DEF Lesser
<1>9. waited = SubSeq(alive, 1, n)
  BY <1>6, <1>7
<1> HIDE DEF n
<1>10. DOMAIN waited = 1..n /\ \A i \in 1..n : waited[i] = alive[i] /\ i \in 1..m
  <2>1. \A i \in 1..n : i \in 1..m
    BY <1>4, <1>8
  <2>2. Len(waited) = n /\ waited \in Seq(Ids)
    BY <1>4, <1>8, <1>9
  <2>3. \A i \in 1..n : waited[i] = alive[i]
    BY <1>4, <1>8, <1>9
  <2> QED BY <1>8, <2>1, <2>2, <2>3
<1>11. \A i \in 1..m : p[i] \in DOMAIN line /\ p[i] \in Nat /\ alive[i] = line[p[i]]
  BY <1>3, <1>5 DEF Selects
<1>12. \A i, j \in 1..m : alive[i] = alive[j] => i = j
  <2> SUFFICES ASSUME NEW i \in 1..m, NEW j \in 1..m, i < j, alive[i] = alive[j] PROVE FALSE
    BY <1>4
  <2>1. p[i] = p[j]
    BY <1>11 DEF RoomInv
  <2>2. p[i] < p[j]
    BY <1>5 DEF Selects
  <2> QED BY <1>11, <2>1, <2>2
<1>13. \A i \in 1..m : alive[i] \notin inside
  BY <1>11 DEF RoomInv, Waiting
<1>14. CASE \E k \in 1..n : alive[k] = id
  <2>1. PICK k \in 1..n : alive[k] = id
    BY <1>14
  <2>2. id \in inside' \ inside
    BY <1>2, <1>10, <1>13, <2>1
  <2>3. {i \in DOMAIN waited : waited[i] = id} = {k}
    BY <1>10, <1>12, <2>1
  <2> QED BY <1>10, <2>2, <2>3
<1>15. CASE ~ \E k \in 1..n : alive[k] = id
  <2>1. id \notin inside' \ inside
    BY <1>2, <1>15
  <2>2. {i \in DOMAIN waited : waited[i] = id} = {}
    BY <1>10, <1>15
  <2> QED BY <2>1, <2>2
<1> QED BY <1>14, <1>15

-----------------------------------------------------------------------------
(* The goroutines *)

Pcs == {"load", "cas", "mark", "capReconcile", "reconcile",
        "lookup", "touch", "capTryAdmit", "tryadmit", "enqueue"}

Calls == [pc : Pcs, kind : {"check", "status", "janitor"}, id : Ids \cup {"nobody"},
          now : Nat, cap : Int, last : Int]

(***************************************************************************)
(* A goroutine at work: a request has a ticket, the janitor only ever      *)
(* reconciles, and neither carries a clock reading from the future or one  *)
(* older than a stall.                                                     *)
(***************************************************************************)
Proper(g, x) ==
  /\ x \in Calls
  /\ g \in Requests => x.id \in Ids
  /\ g = Janitor => x.pc \in {"mark", "capReconcile", "reconcile"}
  /\ x.now <= clock
  /\ clock - x.now <= MaxStall

ReqInv ==
  /\ clock \in 0..MaxNow
  /\ capacity \in Capacities
  /\ requests \in 0..MaxRequests
  /\ req \in [Goroutines -> {Idle} \cup Calls]
  /\ \A g \in Goroutines : req[g] = Idle \/ Proper(g, req[g])

(***************************************************************************)
(* A step of goroutine g.                                                  *)
(***************************************************************************)
Begins(g) ==
  \/ g \in Requests /\ \E kind \in {"check", "status"}, id \in Ids : Arrive(g, kind, id)
  \/ g = Janitor /\ JanitorTick

Gates(g) == LoadGate(g) \/ CompareAndSwap(g) \/ Mark(g) \/ LoadCapacity(g)

Stores(g) ==
  CallReconcile(g) \/ CallLookup(g) \/ CallTouch(g) \/ CallTryAdmit(g) \/ CallEnqueue(g)
  \/ StoreError(g)

(***************************************************************************)
(* Before Lookup; and what a goroutine keeps while it is at work.          *)
(***************************************************************************)
Gate == {"load", "cas", "mark", "capReconcile", "reconcile"}

Same(x, y) == x.id = y.id /\ x.now = y.now /\ x.kind = y.kind

(***************************************************************************)
(* What Goto leaves of a goroutine.                                        *)
(***************************************************************************)
LEMMA Going ==
  ASSUME NEW y \in Calls, NEW pc \in Pcs
  PROVE  LET x == [y EXCEPT !.pc = pc, !.cap = 0, !.last = 0]
         IN x \in Calls /\ Same(x, y) /\ x.pc = pc
<1> DEFINE a == [y EXCEPT !.pc = pc]
           b == [a EXCEPT !.cap = 0]
           c == [b EXCEPT !.last = 0]
<1>1. a \in Calls /\ Same(a, y) /\ a.pc = pc
  BY DEF Calls, Same
<1>2. [y EXCEPT !.pc = pc, !.cap = 0, !.last = 0] = c
  OBVIOUS
<1> HIDE DEF a
<1>3. b \in Calls /\ Same(b, a) /\ b.pc = a.pc
  BY <1>1 DEF Calls, Same
<1> HIDE DEF b
<1>4. c \in Calls /\ Same(c, b) /\ c.pc = b.pc
  BY <1>3 DEF Calls, Same
<1> HIDE DEF c
<1> QED BY <1>1, <1>2, <1>3, <1>4 DEF Same

(***************************************************************************)
(* Every step is one of a goroutine, or leaves them all alone.             *)
(***************************************************************************)
LEMMA StepCases ==
  ASSUME Step
  PROVE  \/ \E g \in Goroutines : Begins(g) \/ Gates(g) \/ Stores(g)
         \/ CapacityChanges \/ FlushQueue \/ Tick \/ Finished
BY Zenon DEF Step, Begins, Gates, Stores, Goroutines

(***************************************************************************)
(* A goroutine whose program counter is set is at work.                    *)
(***************************************************************************)
LEMMA AtWork ==
  ASSUME ReqInv, NEW g \in Goroutines, req[g].pc # "idle"
  PROVE  req[g] # Idle /\ Proper(g, req[g]) /\ req[g] \in Calls
BY DEF ReqInv, Idle, Proper

(***************************************************************************)
(* Only the goroutine that moves changes, and it stays proper.             *)
(***************************************************************************)
LEMMA OwnMove ==
  ASSUME ReqInv, NEW g \in Goroutines, NEW x, x = Idle \/ Proper(g, x),
         req' = [req EXCEPT ![g] = x],
         UNCHANGED clock, capacity' \in Capacities, requests' \in 0..MaxRequests
  PROVE  ReqInv'
<1>1. /\ req' \in [Goroutines -> {Idle} \cup Calls]
      /\ \A h \in Goroutines : h # g => req'[h] = req[h]
      /\ req'[g] = x
  BY DEF ReqInv, Proper
<1>2. \A h \in Goroutines : req'[h] = Idle \/ Proper(h, req'[h])
  BY <1>1 DEF ReqInv
<1>3. \A h \in Goroutines : req'[h] = Idle \/ Proper(h, req[h])'
  BY <1>2 DEF Proper
<1> QED BY <1>1, <1>3 DEF ReqInv

(***************************************************************************)
(* A new request, or a tick of the janitor.                                *)
(***************************************************************************)
LEMMA BeginsStep ==
  ASSUME ReqInv, NEW g \in Goroutines, Begins(g)
  PROVE  /\ ReqInv'
         /\ req[g] = Idle
         /\ \A h \in Goroutines : h # g => req'[h] = req[h]
         /\ req'[g].pc \in {"load", "mark"} /\ req'[g].now = clock
         /\ g \notin Requests => overlaps' = overlaps
         /\ g \in Requests =>
              /\ req'[g].id \in Ids
              /\ overlaps' = [overlaps EXCEPT ![req'[g].id] =
                                 @ + IF InFlight(req'[g].id) = {} THEN 0 ELSE 1]
         /\ reply'.decision = "none"
         /\ UNCHANGED <<room, clock, lastReconcile, drift, failures, winner>>
<1> USE AdmissionAssumption
<1>1. clock \in Nat /\ 0 <= MaxStall /\ clock - clock <= MaxStall /\ clock <= clock
  BY DEF ReqInv
<1>2. requests < MaxRequests => requests + 1 \in 0..MaxRequests
  BY DEF ReqInv
<1>3. ASSUME NEW kind \in {"check", "status"}, NEW id \in Ids, Arrive(g, kind, id), g \in Requests
      PROVE  /\ ReqInv' /\ req'[g].pc \in {"load", "mark"} /\ req'[g].now = clock
             /\ req'[g].id = id
             /\ overlaps' = [overlaps EXCEPT ![id] = @ + IF InFlight(id) = {} THEN 0 ELSE 1]
             /\ \A h \in Goroutines : h # g => req'[h] = req[h]
  <2> DEFINE x == Began(kind, id, IF Gap > 0 THEN "load" ELSE "mark")
  <2>1. req' = [req EXCEPT ![g] = x] /\ UNCHANGED <<clock, capacity>>
        /\ requests' = requests + 1 /\ requests < MaxRequests
    BY <1>3 DEF Arrive
  <2>2. x \in Calls /\ x.pc \in {"load", "mark"} /\ x.now = clock /\ x.id = id
    BY <1>1 DEF Began, Calls, Pcs
  <2> HIDE DEF x
  <2>3. g # Janitor
    BY <1>3
  <2>4. Proper(g, x)
    BY <1>1, <2>2, <2>3 DEF Proper
  <2>5. ReqInv'
    BY <1>2, <2>1, <2>4, OwnMove DEF ReqInv
  <2>6. req'[g] = x /\ \A h \in Goroutines : h # g => req'[h] = req[h]
    BY <2>1 DEF ReqInv
  <2>7. overlaps' = [overlaps EXCEPT ![id] = @ + IF InFlight(id) = {} THEN 0 ELSE 1]
    BY <1>3 DEF Arrive
  <2> QED BY <2>2, <2>5, <2>6, <2>7
<1>4. ASSUME JanitorTick, g = Janitor
      PROVE  /\ ReqInv' /\ req'[g].pc \in {"load", "mark"} /\ req'[g].now = clock
             /\ \A h \in Goroutines : h # g => req'[h] = req[h]
  <2> DEFINE x == Began("janitor", "nobody", "mark")
  <2>1. req' = [req EXCEPT ![g] = x] /\ UNCHANGED <<clock, capacity>>
        /\ requests' = requests + 1 /\ requests < MaxRequests
    BY <1>4 DEF JanitorTick
  <2>2. x \in Calls /\ x.pc = "mark" /\ x.now = clock
    BY <1>1 DEF Began, Calls, Pcs
  <2> HIDE DEF x
  <2>3. g \notin Requests
    BY <1>4
  <2>4. Proper(g, x)
    BY <1>1, <2>2, <2>3 DEF Proper
  <2>5. ReqInv'
    BY <1>2, <2>1, <2>4, OwnMove DEF ReqInv
  <2>6. req'[g] = x /\ \A h \in Goroutines : h # g => req'[h] = req[h]
    BY <2>1 DEF ReqInv
  <2> QED BY <2>2, <2>5, <2>6
<1>5. /\ req[g] = Idle
      /\ reply'.decision = "none"
      /\ UNCHANGED <<room, clock, lastReconcile, drift, failures, winner>>
      /\ g \notin Requests => overlaps' = overlaps
  BY DEF Begins, Arrive, JanitorTick, Silent, NoReply, history
<1>6. ASSUME g \in Requests
      PROVE  /\ req'[g].id \in Ids
             /\ overlaps' = [overlaps EXCEPT ![req'[g].id] =
                                @ + IF InFlight(req'[g].id) = {} THEN 0 ELSE 1]
  <2>1. g # Janitor
    BY <1>6
  <2>2. PICK kind \in {"check", "status"}, id \in Ids : Arrive(g, kind, id)
    BY <1>6, <2>1 DEF Begins
  <2> QED BY <1>3, <1>6, <2>2
<1> QED BY <1>3, <1>4, <1>5, <1>6 DEF Begins

(***************************************************************************)
(* maybeReconcile and the loads of the capacity: nothing of the room.      *)
(***************************************************************************)
LEMMA GatesStep ==
  ASSUME ReqInv, lastReconcile \in Int, NEW g \in Goroutines, Gates(g)
  PROVE  /\ ReqInv'
         /\ req[g] # Idle /\ Proper(g, req[g]) /\ req'[g] # Idle
         /\ \A h \in Goroutines : h # g => req'[h] = req[h]
         /\ \/ req[g].pc \in Gate /\ req'[g].pc \in Gate \cup {"lookup"}
            \/ req[g].pc = "capTryAdmit" /\ req'[g].pc = "tryadmit"
         /\ Same(req'[g], req[g])
         /\ reply'.decision = "none"
         /\ UNCHANGED <<room, clock, drift, overlaps, failures>>
<1> USE AdmissionAssumption
<1>1. req[g].pc # "idle" /\ reply'.decision = "none"
      /\ UNCHANGED <<room, clock, capacity, requests, drift, overlaps, failures>>
  BY DEF Gates, LoadGate, CompareAndSwap, Mark, LoadCapacity, At, Silent, NoReply, CallAfterLoad,
         history
<1>2. req[g] # Idle /\ Proper(g, req[g]) /\ req[g] \in Calls
  BY <1>1, AtWork
<1>3. capacity \in Int
  BY RoomAssumption DEF ReqInv
<1> DEFINE Moves(x) == /\ req' = [req EXCEPT ![g] = x] /\ Proper(g, x) /\ x # Idle
                       /\ \/ req[g].pc \in Gate /\ x.pc \in Gate \cup {"lookup"}
                          \/ req[g].pc = "capTryAdmit" /\ x.pc = "tryadmit"
                       /\ Same(x, req[g])
<1>4. \E x : Moves(x)
  <2>1. ASSUME NEW x \in Calls, Same(x, req[g]),
               g = Janitor => x.pc \in {"mark", "capReconcile", "reconcile"}
        PROVE  Proper(g, x) /\ x # Idle
    BY <1>2, <2>1 DEF Proper, Calls, Pcs, Idle, Same
  <2>2. ASSUME NEW pc \in {"mark", "lookup", "capReconcile"}, Goto(g, pc), req[g].pc \in Gate,
               g = Janitor => pc = "capReconcile"
        PROVE  \E x : Moves(x)
    <3> DEFINE x == [req[g] EXCEPT !.pc = pc, !.cap = 0, !.last = 0]
    <3>1. req' = [req EXCEPT ![g] = x]
      BY <2>2 DEF Goto
    <3>2. pc \in Pcs
      BY DEF Pcs
    <3>3. x \in Calls /\ Same(x, req[g]) /\ x.pc = pc
      BY <1>2, <3>2, Going
    <3> HIDE DEF x
    <3> QED BY <2>1, <2>2, <3>1, <3>3 DEF Gate
  <2>3. CASE LoadGate(g) /\ GateOpen(g)
    <3> DEFINE x == [req[g] EXCEPT !.pc = "cas", !.last = lastReconcile]
    <3>1. req' = [req EXCEPT ![g] = x] /\ req[g].pc = "load"
      BY <2>3 DEF LoadGate, At
    <3>2. x \in Calls /\ Same(x, req[g]) /\ x.pc = "cas"
      BY <1>2 DEF Calls, Pcs, Same
    <3>3. g # Janitor
      BY <1>2, <3>1 DEF Proper
    <3> HIDE DEF x
    <3> QED BY <2>1, <3>1, <3>2, <3>3 DEF Gate
  <2>4. CASE (LoadGate(g) /\ ~GateOpen(g)) \/ CompareAndSwap(g)
    <3>1. req[g].pc \in {"load", "cas"} /\ \E pc \in {"mark", "lookup"} : Goto(g, pc)
      BY <2>4 DEF LoadGate, CompareAndSwap, At
    <3>2. g # Janitor
      BY <1>2, <3>1 DEF Proper
    <3> QED BY <2>2, <3>1, <3>2 DEF Gate
  <2>5. CASE Mark(g)
    BY <2>2, <2>5 DEF Mark, At, Gate
  <2>6. CASE LoadCapacity(g)
    <3> DEFINE pc == CallAfterLoad[req[g].pc]
               x == [req[g] EXCEPT !.cap = capacity, !.pc = pc]
    <3>1. req' = [req EXCEPT ![g] = x]
      BY <2>6 DEF LoadCapacity
    <3>2. \/ req[g].pc = "capReconcile" /\ pc = "reconcile"
          \/ req[g].pc = "capTryAdmit" /\ pc = "tryadmit"
      BY <2>6 DEF LoadCapacity, CallAfterLoad
    <3> HIDE DEF pc
    <3>3. x \in Calls /\ Same(x, req[g]) /\ x.pc = pc
      BY <1>2, <1>3, <3>2 DEF Calls, Pcs, Same
    <3>4. g = Janitor => pc = "reconcile"
      BY <1>2, <3>2 DEF Proper
    <3> HIDE DEF x
    <3> QED BY <2>1, <3>1, <3>2, <3>3, <3>4 DEF Gate
  <2> QED BY <2>3, <2>4, <2>5, <2>6 DEF Gates
<1>5. PICK x : Moves(x)
  BY <1>4
<1>6. req'[g] = x /\ \A h \in Goroutines : h # g => req'[h] = req[h]
  BY <1>5 DEF ReqInv
<1>7. ReqInv'
  BY <1>1, <1>5, OwnMove DEF ReqInv
<1> QED BY <1>1, <1>2, <1>5, <1>6, <1>7

(***************************************************************************)
(* Who may become known by a call of g.                                    *)
(***************************************************************************)
New(g) == IF g \in Requests THEN {req[g].id} ELSE {}

(***************************************************************************)
(* A call of the store, answered or lost, has the effect of one.           *)
(***************************************************************************)
LEMMA StoresEffect ==
  ASSUME ReqInv, RoomInv, NEW g \in Goroutines, Stores(g)
  PROVE  Effect(req[g].now, New(g))
<1>1. req[g].pc \in {"reconcile", "lookup", "touch", "tryadmit", "enqueue"}
  BY DEF Stores, CallReconcile, CallLookup, CallTouch, CallTryAdmit, CallEnqueue, StoreError, At
<1>2. Proper(g, req[g]) /\ req[g] \in Calls
  BY <1>1, AtWork
<1>3. req[g].now \in Int /\ req[g].cap \in Int
  BY <1>2 DEF Calls
<1>4. CASE UNCHANGED room
  <2>1. RoomInv' /\ Known' = Known
    BY <1>4 DEF RoomInv, room, Known
  <2>2. \A i \in DOMAIN line, k \in DOMAIN line : line[k] = line[i] => k <= i
    BY DEF RoomInv
  <2>3. DOMAIN seen = Known /\ Waiting(line) \subseteq Known /\ Waiting(line) \cap inside = {}
    BY DEF RoomInv, Known
  <2> QED BY <1>4, <2>1, <2>2, <2>3 DEF Effect, room
<1>5. CASE Reconcile(req[g].cap, req[g].now)
  <2>1. Effect(req[g].now, {})
    BY <1>3, <1>5, ReconcileEffect
  <2> QED BY <2>1 DEF Effect
<1>6. CASE req[g].pc \in {"lookup", "touch", "tryadmit", "enqueue"}
           /\ (\/ Lookup(req[g].id, req[g].now) \/ Touch(req[g].id, req[g].now)
               \/ TryAdmit(req[g].id, req[g].cap, req[g].now) \/ Enqueue(req[g].id, req[g].now))
  <2>1. g \in Requests
    BY <1>2, <1>6 DEF Proper, Goroutines
  <2>2. req[g].id \in Ids
    BY <1>2, <2>1 DEF Proper
  <2>3. Effect(req[g].now, {req[g].id})
    BY <1>3, <1>6, <2>2, LookupEffect, TryAdmitEffect, EnqueueEffect
  <2> QED BY <2>1, <2>3 DEF New
<1> QED BY <1>1, <1>4, <1>5, <1>6
        DEF Stores, CallReconcile, CallLookup, CallTouch, CallTryAdmit, CallEnqueue, StoreError, At

(***************************************************************************)
(* Where a call of the store leaves its goroutine.                         *)
(***************************************************************************)
LEMMA StoresStep ==
  ASSUME ReqInv, NEW g \in Goroutines, Stores(g)
  PROVE  /\ ReqInv'
         /\ req[g] # Idle /\ Proper(g, req[g])
         /\ \A h \in Goroutines : h # g => req'[h] = req[h]
         /\ \/ req'[g] = Idle
            \/ /\ Same(req'[g], req[g])
               /\ \/ req'[g].pc = "lookup" /\ req[g].pc = "reconcile"
                  \/ req'[g].pc = "touch" /\ req[g].id \in inside
                       /\ Lookup(req[g].id, req[g].now)
                  \/ req'[g].pc = "capTryAdmit" /\ req[g].pc = "lookup"
                       /\ req[g].id \notin Known /\ UNCHANGED <<line, inside>>
                  \/ req'[g].pc = "enqueue" /\ req[g].pc = "tryadmit" /\ UNCHANGED room
         /\ UNCHANGED <<clock, lastReconcile, overlaps, winner>>
<1>1. req[g].pc \in {"reconcile", "lookup", "touch", "tryadmit", "enqueue"}
      /\ UNCHANGED <<clock, capacity, lastReconcile, overlaps, winner, requests>>
  BY DEF Stores, CallReconcile, CallLookup, CallTouch, CallTryAdmit, CallEnqueue, StoreError, At,
         history
<1>2. req[g] # Idle /\ Proper(g, req[g]) /\ req[g] \in Calls
  BY <1>1, AtWork
<1>3. \/ req' = [req EXCEPT ![g] = Idle]
      \/ /\ g # Janitor
         /\ \E pc \in {"lookup", "touch", "capTryAdmit", "enqueue"} :
              /\ Goto(g, pc)
              /\ \/ pc = "lookup" /\ req[g].pc = "reconcile"
                 \/ pc = "touch" /\ req[g].id \in inside /\ Lookup(req[g].id, req[g].now)
                 \/ pc = "capTryAdmit" /\ req[g].pc = "lookup"
                      /\ req[g].id \notin Known /\ UNCHANGED <<line, inside>>
                 \/ pc = "enqueue" /\ req[g].pc = "tryadmit" /\ UNCHANGED room
  <2>1. CASE CallReconcile(g)
    BY <2>1 DEF CallReconcile, Return, At
  <2>2. CASE CallLookup(g)
    <3>1. g # Janitor
      BY <1>2, <2>2 DEF CallLookup, At, Proper
    <3> QED BY <2>2, <3>1 DEF CallLookup, Return, Lookup, At
  <2>3. CASE CallTouch(g) \/ CallEnqueue(g) \/ StoreError(g)
    BY <2>3 DEF CallTouch, CallEnqueue, StoreError, Return
  <2>4. CASE CallTryAdmit(g)
    <3>1. g # Janitor
      BY <1>2, <2>4 DEF CallTryAdmit, At, Proper
    <3> QED BY <2>4, <3>1 DEF CallTryAdmit, Return, TryAdmit, At
  <2> QED BY <2>1, <2>2, <2>3, <2>4 DEF Stores
<1>4. CASE req' = [req EXCEPT ![g] = Idle]
  <2>1. req'[g] = Idle /\ \A h \in Goroutines : h # g => req'[h] = req[h]
    BY <1>4 DEF ReqInv
  <2>2. ReqInv'
    BY <1>1, <1>4, OwnMove DEF ReqInv
  <2> QED BY <1>1, <1>2, <2>1, <2>2
<1>5. ASSUME g # Janitor, NEW pc \in {"lookup", "touch", "capTryAdmit", "enqueue"}, Goto(g, pc)
      PROVE  /\ ReqInv' /\ Same(req'[g], req[g]) /\ req'[g].pc = pc
             /\ \A h \in Goroutines : h # g => req'[h] = req[h]
  <2> DEFINE x == [req[g] EXCEPT !.pc = pc, !.cap = 0, !.last = 0]
  <2>1. req' = [req EXCEPT ![g] = x]
    BY <1>5 DEF Goto
  <2>2. x \in Calls /\ Same(x, req[g]) /\ x.pc = pc
    <3>1. pc \in Pcs
      BY DEF Pcs
    <3> QED BY <1>2, <3>1, Going
  <2> HIDE DEF x
  <2>3. req'[g] = x /\ \A h \in Goroutines : h # g => req'[h] = req[h]
    BY <2>1 DEF ReqInv
  <2>4. Proper(g, x)
    BY <1>2, <1>5, <2>2 DEF Proper, Same
  <2>5. ReqInv'
    BY <1>1, <2>1, <2>4, OwnMove DEF ReqInv
  <2> QED BY <2>2, <2>3, <2>5
<1> QED BY <1>1, <1>2, <1>3, <1>4, <1>5

-----------------------------------------------------------------------------
(* The invariant *)

(***************************************************************************)
(* lastReconcile never lies more than a stall before the last win, and a   *)
(* request about to swap found the gap elapsed.                            *)
(***************************************************************************)
GateInv ==
  /\ lastReconcile \in Int /\ winner \in Int
  /\ Never <= lastReconcile /\ lastReconcile <= clock
  /\ winner <= clock
  /\ winner - MaxStall <= lastReconcile
  /\ \A g \in Goroutines : req[g].pc = "cas" => req[g].now - req[g].last >= Gap

(***************************************************************************)
(* Nobody's heartbeat is ahead of the clock, or more than a stall behind   *)
(* the newest one.                                                         *)
(***************************************************************************)
BeatInv ==
  /\ newest \in [Known -> Int]
  /\ \A id \in Known : /\ seen[id] <= newest[id] /\ newest[id] <= clock
                       /\ newest[id] - seen[id] <= MaxStall

Tallies ==
  /\ drift \in [Ids -> Int]
  /\ overlaps \in [Ids -> Nat]
  /\ failures \in 0..MaxFailures

IInv == RoomInv /\ ReqInv /\ GateInv /\ BeatInv /\ Tallies

(***************************************************************************)
(* No goroutine has begun, nobody is known.                                *)
(***************************************************************************)
LEMMA InitIInv == Init => IInv
<1> SUFFICES ASSUME Init PROVE IInv
  OBVIOUS
<1> USE AdmissionAssumption DEF Init, RoomInit
<1>1. Waiting(line) = {} /\ Known = {} /\ DOMAIN line = {}
  BY DEF Waiting, Known
<1>2. RoomInv
  BY <1>1 DEF RoomInv
<1>3. ReqInv
  BY DEF ReqInv
<1>4. Never \in Int /\ Never <= 0
  BY DEF Never
<1>5. GateInv
  BY <1>4 DEF GateInv, Idle
<1>6. BeatInv
  BY <1>1 DEF BeatInv
<1>7. Tallies
  BY DEF Tallies
<1> QED BY <1>2, <1>3, <1>5, <1>6, <1>7 DEF IInv

(***************************************************************************)
(* A flush empties the line and leaves the heartbeats of the others.       *)
(***************************************************************************)
LEMMA FlushRoom ==
  ASSUME RoomInv, Flush
  PROVE  /\ RoomInv' /\ Known' = inside /\ inside' = inside /\ Waiting(line') = {}
         /\ DOMAIN seen' = inside /\ \A id \in inside : seen'[id] = seen[id]
<1>1. line' = <<>> /\ inside' = inside /\ seen' = SeenAt(inside, {}, 0)
  BY DEF Flush
<1>2. Waiting(line') = {} /\ Known' = inside /\ DOMAIN line' = {}
  BY <1>1 DEF Waiting, Known
<1>3. DOMAIN seen' = inside /\ \A id \in inside : seen'[id] = seen[id]
  BY <1>1, SeenAtFacts
<1>4. seen' \in [inside -> Int]
  BY <1>1 DEF SeenAt, RoomInv, Known
<1> QED BY <1>1, <1>2, <1>3, <1>4 DEF RoomInv

(***************************************************************************)
(* What one step may do to the room: nothing, a flush, or one call of the  *)
(* store.                                                                  *)
(***************************************************************************)
LEMMA RoomStep ==
  ASSUME IInv, Step
  PROVE  \/ UNCHANGED room /\ RoomInv' /\ Known' = Known
         \/ FlushQueue /\ RoomInv'
         \/ \E g \in Goroutines : Stores(g) /\ Effect(req[g].now, New(g))
<1>1. CASE UNCHANGED room
  BY <1>1 DEF IInv, RoomInv, Known, room
<1>2. CASE FlushQueue
  BY <1>2, FlushRoom DEF FlushQueue, IInv
<1>3. ASSUME NEW g \in Goroutines, Stores(g) PROVE Effect(req[g].now, New(g))
  BY <1>3, StoresEffect DEF IInv
<1>4. ASSUME NEW g \in Goroutines, Begins(g) \/ Gates(g) PROVE UNCHANGED room
  BY <1>4, BeginsStep, GatesStep DEF IInv, GateInv
<1>5. ASSUME CapacityChanges \/ Tick \/ Finished PROVE UNCHANGED room
  BY <1>5 DEF CapacityChanges, Tick, Finished
<1> QED BY <1>1, <1>2, <1>3, <1>4, <1>5, StepCases

(***************************************************************************)
(* The goroutines stay proper, and only Tick moves the clock, which it     *)
(* does not when that would make a request older than a stall.             *)
(***************************************************************************)
LEMMA ReqStep ==
  ASSUME IInv, Step
  PROVE  ReqInv' /\ clock <= clock' /\ (clock' # clock => UNCHANGED <<room, req, lastReconcile, winner>>)
<1> USE AdmissionAssumption
<1>1. clock \in Int /\ clock <= clock
  BY DEF IInv, ReqInv
<1>2. ASSUME NEW g \in Goroutines, Begins(g) \/ Gates(g) \/ Stores(g) PROVE ReqInv' /\ clock' = clock
  BY <1>2, BeginsStep, GatesStep, StoresStep DEF IInv, GateInv
<1>3. CASE CapacityChanges \/ FlushQueue \/ Finished
  <2>1. UNCHANGED <<clock, req>> /\ requests' \in 0..MaxRequests /\ capacity' \in Capacities
    BY <1>3 DEF CapacityChanges, FlushQueue, Finished, controller, IInv, ReqInv
  <2>2. \A g \in Goroutines : Proper(g, req[g]) => Proper(g, req[g])'
    BY <2>1 DEF Proper
  <2>3. ReqInv'
    BY <2>1, <2>2 DEF IInv, ReqInv
  <2> QED BY <1>1, <2>1, <2>3
<1>4. CASE Tick
  <2>1. clock' = clock + 1 /\ clock' \in 0..MaxNow
        /\ UNCHANGED <<room, capacity, lastReconcile, req, winner, requests>>
    BY <1>4 DEF Tick, IInv, ReqInv, history
  <2>2. \A g \in Busy : clock + 1 - req[g].now <= MaxStall
    BY <1>4 DEF Tick
  <2>3. ASSUME NEW g \in Goroutines, req[g] # Idle PROVE Proper(g, req[g])'
    <3>1. Proper(g, req[g]) /\ req[g].now \in Nat
      BY <2>3 DEF IInv, ReqInv, Proper, Calls
    <3>2. clock + 1 - req[g].now <= MaxStall
      BY <2>2, <2>3 DEF Busy
    <3>3. req[g].now <= clock' /\ clock' - req[g].now <= MaxStall
      BY <1>1, <2>1, <3>1, <3>2 DEF Proper
    <3> QED BY <2>1, <2>3, <3>1, <3>3 DEF Proper
  <2>4. ReqInv'
    BY <2>1, <2>3 DEF IInv, ReqInv
  <2> QED BY <1>1, <2>1, <2>4
<1> QED BY <1>1, <1>2, <1>3, <1>4, StepCases

(***************************************************************************)
(* Every heartbeat after a step was there before or was written with a     *)
(* reading no older than a stall.                                          *)
(***************************************************************************)
LEMMA BeatsWritten ==
  ASSUME IInv, Step, NEW id \in DOMAIN seen'
  PROVE  \/ id \in Known /\ seen'[id] = seen[id]
         \/ seen'[id] \in Int /\ seen'[id] <= clock /\ clock - seen'[id] <= MaxStall
<1>1. DOMAIN seen = Known
  BY DEF IInv, RoomInv
<1>2. CASE UNCHANGED room
  BY <1>1, <1>2 DEF room
<1>3. CASE FlushQueue
  BY <1>3, FlushRoom DEF FlushQueue, IInv, Known
<1>4. ASSUME NEW g \in Goroutines, Stores(g), Effect(req[g].now, New(g))
      PROVE  \/ id \in Known /\ seen'[id] = seen[id]
             \/ seen'[id] \in Int /\ seen'[id] <= clock /\ clock - seen'[id] <= MaxStall
  <2>1. req[g].now \in Int /\ req[g].now <= clock /\ clock - req[g].now <= MaxStall
    <3>1. Proper(g, req[g])
      BY <1>4, StoresStep DEF IInv
    <3> QED BY <3>1 DEF Proper, Calls
  <2>2. seen'[id] = req[g].now \/ (id \in Known /\ seen'[id] = seen[id])
    BY <1>1, <1>4 DEF Effect
  <2> QED BY <2>1, <2>2
<1> QED BY <1>2, <1>3, <1>4, RoomStep

(***************************************************************************)
(* Next keeps the newest heartbeat of everybody who stays known.           *)
(***************************************************************************)
LEMMA NextBeats ==
  ASSUME IInv, Next
  PROVE  RoomInv' /\ BeatInv'
<1> USE AdmissionAssumption
<1>1. Step /\ newest' = [id \in DOMAIN seen' |->
         IF id \in DOMAIN newest THEN Greater(newest[id], seen'[id]) ELSE seen'[id]]
  BY DEF Next
<1>2. RoomInv'
  BY <1>1, RoomStep DEF Effect
<1>3. DOMAIN seen' = Known' /\ \A id \in Known' : seen'[id] \in Int
  BY <1>2 DEF RoomInv
<1>4. DOMAIN newest = Known /\ \A id \in Known : newest[id] \in Int /\ seen[id] \in Int
  BY DEF IInv, BeatInv, RoomInv
<1>5. clock \in Int /\ clock' \in Int /\ clock <= clock'
  BY <1>1, ReqStep DEF IInv, ReqInv
<1>6. ASSUME NEW id \in Known'
      PROVE  /\ newest'[id] \in Int /\ seen'[id] <= newest'[id] /\ newest'[id] <= clock'
             /\ newest'[id] - seen'[id] <= MaxStall
  <2>1. \/ id \in Known /\ seen'[id] = seen[id]
        \/ seen'[id] <= clock /\ clock - seen'[id] <= MaxStall
    BY <1>1, <1>3, BeatsWritten
  <2>2. newest'[id] = IF id \in Known THEN Greater(newest[id], seen'[id]) ELSE seen'[id]
    BY <1>1, <1>3, <1>4
  <2>3. seen'[id] \in Int
    BY <1>3
  <2>4. CASE id \in Known
    <3>1. /\ newest[id] \in Int /\ seen[id] \in Int
          /\ seen[id] <= newest[id] /\ newest[id] <= clock /\ newest[id] - seen[id] <= MaxStall
      BY <1>4, <2>4 DEF IInv, BeatInv
    <3> QED BY <1>5, <2>1, <2>2, <2>3, <2>4, <3>1 DEF Greater
  <2>5. CASE id \notin Known
    BY <1>5, <2>1, <2>2, <2>3, <2>5
  <2> QED BY <2>4, <2>5
<1>7. newest' \in [Known' -> Int]
  <2>1. newest' = [id \in Known' |-> newest'[id]]
    BY <1>1, <1>3
  <2> QED BY <1>6, <2>1
<1> QED BY <1>2, <1>6, <1>7 DEF BeatInv

(***************************************************************************)
(* The gate: what a late Store or a lost race may do to lastReconcile.     *)
(***************************************************************************)
LEMMA NextGate ==
  ASSUME IInv, Step
  PROVE  GateInv' /\ \A g \in Goroutines : Wins(g) => req[g].now - winner >= Gap - MaxStall
<1> USE AdmissionAssumption
<1>1. /\ clock \in Int /\ clock' \in Int /\ clock <= clock' /\ MaxStall \in Nat /\ Gap \in Nat
      /\ Never \in Int /\ Never < 0
  BY ReqStep DEF IInv, ReqInv, Never
<1> DEFINE Spaced(g) == Wins(g) => req[g].now - winner >= Gap - MaxStall
<1>2. ASSUME NEW g \in Goroutines, \A h \in Goroutines : h # g => req'[h] = req[h],
             req[g].pc # "cas" \/ req'[g].pc # "mark"
      PROVE  \A h \in Goroutines : ~Wins(h)
  BY <1>2 DEF Wins
<1>3. ASSUME UNCHANGED <<lastReconcile, winner>>,
             \A g \in Goroutines : req'[g].pc = "cas" => req'[g] = req[g]
      PROVE  GateInv'
  <2>1. Never <= lastReconcile /\ lastReconcile <= clock' /\ winner <= clock'
    BY <1>1 DEF IInv, GateInv
  <2> QED BY <1>3, <2>1 DEF IInv, GateInv
<1>4. ASSUME NEW g \in Goroutines, Begins(g)
      PROVE  GateInv' /\ \A h \in Goroutines : Spaced(h)
  <2>1. req[g].pc # "cas" /\ req'[g].pc # "cas"
    BY <1>4, BeginsStep DEF IInv, Idle
  <2> QED BY <1>2, <1>3, <1>4, <2>1, BeginsStep DEF IInv
<1>5. ASSUME NEW g \in Goroutines, Stores(g)
      PROVE  GateInv' /\ \A h \in Goroutines : Spaced(h)
  <2>1. req'[g].pc # "cas"
    <3>1. \/ req'[g] = Idle
          \/ req'[g].pc \in {"lookup", "touch", "capTryAdmit", "enqueue"}
      BY <1>5, StoresStep DEF IInv
    <3> QED BY <3>1 DEF Idle
  <2>2. req[g].pc # "cas"
    BY <1>5 DEF Stores, CallReconcile, CallLookup, CallTouch, CallTryAdmit, CallEnqueue,
                StoreError, At
  <2> QED BY <1>2, <1>3, <1>5, <2>1, <2>2, StoresStep DEF IInv
<1>6. ASSUME NEW g \in Goroutines, Gates(g)
      PROVE  GateInv' /\ \A h \in Goroutines : Spaced(h)
  <2>1. /\ \A h \in Goroutines : h # g => req'[h] = req[h]
        /\ Proper(g, req[g]) /\ UNCHANGED clock
    BY <1>6, GatesStep DEF IInv, GateInv
  <2>2. /\ req[g].now \in Nat /\ req[g].last \in Int /\ req[g].now <= clock
        /\ clock - req[g].now <= MaxStall
    BY <2>1 DEF Proper, Calls
  <2>3. CASE LoadGate(g)
    <3>1. UNCHANGED <<lastReconcile, winner>> /\ req[g].pc = "load"
      BY <2>3 DEF LoadGate, At, history
    <3>2. CASE GateOpen(g)
      <4>1. req' = [req EXCEPT ![g].pc = "cas", ![g].last = lastReconcile]
        BY <2>3, <3>2 DEF LoadGate
      <4>2. req'[g].pc = "cas" /\ req'[g].now = req[g].now /\ req'[g].last = lastReconcile
        BY <2>1, <4>1 DEF IInv, ReqInv, Proper, Calls
      <4>3. req'[g].now - req'[g].last >= Gap
        BY <3>2, <4>2 DEF GateOpen
      <4> QED BY <1>1, <1>2, <2>1, <3>1, <4>3 DEF IInv, GateInv
    <3>3. CASE ~GateOpen(g)
      <4>1. req'[g].pc = "lookup"
        BY <2>1, <2>3, <3>3 DEF LoadGate, Goto, IInv, ReqInv, Proper, Calls
      <4> QED BY <1>2, <1>3, <2>1, <3>1, <4>1
    <3> QED BY <3>2, <3>3
  <2>4. CASE CompareAndSwap(g) /\ lastReconcile = req[g].last
    <3>1. lastReconcile' = req[g].now /\ winner' = req[g].now /\ Goto(g, "mark")
      BY <2>4 DEF CompareAndSwap
    <3>2. req'[g].pc = "mark"
      BY <2>1, <3>1 DEF Goto, IInv, ReqInv, Proper, Calls
    <3>3. req[g].now - lastReconcile >= Gap
      BY <2>4 DEF CompareAndSwap, At, IInv, GateInv
    <3>4. winner \in Int /\ lastReconcile \in Int /\ winner - MaxStall <= lastReconcile
      BY DEF IInv, GateInv
    <3>5. req[g].now - winner >= Gap - MaxStall
      <4>1. \A n, l, w, p, m \in Int : n - l >= p /\ w - m <= l => n - w >= p - m
        OBVIOUS
      <4>2. req[g].now \in Int /\ Gap \in Int /\ MaxStall \in Int
        BY <1>1, <2>2
      <4> QED BY <3>3, <3>4, <4>1, <4>2
    <3>6. GateInv'
      <4>1. /\ lastReconcile' \in Int /\ winner' \in Int /\ winner' = lastReconcile'
            /\ Never <= lastReconcile' /\ lastReconcile' <= clock' /\ winner' - MaxStall <= lastReconcile'
        BY <1>1, <2>1, <2>2, <3>1
      <4>2. \A h \in Goroutines : req'[h].pc = "cas" => req'[h].now - req'[h].last >= Gap
        BY <2>1, <3>2 DEF IInv, GateInv
      <4> QED BY <4>1, <4>2 DEF GateInv
    <3>7. \A h \in Goroutines : Wins(h) => h = g
      BY <2>1 DEF Wins
    <3> QED BY <3>5, <3>6, <3>7
  <2>5. CASE CompareAndSwap(g) /\ lastReconcile # req[g].last
    <3>1. UNCHANGED <<lastReconcile, winner>> /\ Goto(g, "lookup")
      BY <2>5 DEF CompareAndSwap
    <3>2. req'[g].pc = "lookup"
      BY <2>1, <3>1 DEF Goto, IInv, ReqInv, Proper, Calls
    <3> QED BY <1>2, <1>3, <2>1, <3>1, <3>2
  <2>6. CASE Mark(g)
    <3>1. lastReconcile' = req[g].now /\ winner' = winner /\ Goto(g, "capReconcile")
      BY <2>6 DEF Mark, history
    <3>2. req'[g].pc = "capReconcile"
      BY <2>1, <3>1 DEF Goto, IInv, ReqInv, Proper, Calls
    <3>3. winner \in Int /\ winner <= clock
      BY DEF IInv, GateInv
    <3>4. winner - MaxStall <= req[g].now
      BY <1>1, <2>2, <3>3
    <3>5. /\ lastReconcile' \in Int /\ winner' \in Int
          /\ Never <= lastReconcile' /\ lastReconcile' <= clock'
          /\ winner' <= clock' /\ winner' - MaxStall <= lastReconcile'
      BY <1>1, <2>1, <2>2, <3>1, <3>3, <3>4
    <3>6. \A h \in Goroutines : req'[h].pc = "cas" => req'[h].now - req'[h].last >= Gap
      BY <2>1, <3>2 DEF IInv, GateInv
    <3>7. \A h \in Goroutines : ~Wins(h)
      BY <1>2, <2>1, <3>2
    <3> QED BY <3>5, <3>6, <3>7 DEF GateInv
  <2>7. CASE LoadCapacity(g)
    <3>1. UNCHANGED <<lastReconcile, winner>>
      BY <2>7 DEF LoadCapacity, history
    <3>2. req'[g].pc \in {"reconcile", "tryadmit"}
      <4>1. CallAfterLoad[req[g].pc] \in {"reconcile", "tryadmit"}
        BY <2>7 DEF LoadCapacity, CallAfterLoad
      <4>2. req' = [req EXCEPT ![g].cap = capacity, ![g].pc = CallAfterLoad[req[g].pc]]
        BY <2>7 DEF LoadCapacity
      <4> HIDE DEF CallAfterLoad
      <4> QED BY <2>1, <4>1, <4>2 DEF IInv, ReqInv, Proper, Calls
    <3> QED BY <1>2, <1>3, <2>1, <3>1, <3>2
  <2> QED BY <1>6, <2>3, <2>4, <2>5, <2>6, <2>7 DEF Gates
<1>7. CASE CapacityChanges \/ FlushQueue \/ Tick \/ Finished
  BY <1>3, <1>7 DEF CapacityChanges, FlushQueue, Tick, Finished, controller, history, Wins
<1> QED BY <1>4, <1>5, <1>6, <1>7, StepCases

(***************************************************************************)
(* An observation counts, an admission counts against it.                  *)
(***************************************************************************)
LEMMA Observation ==
  ASSUME Tallies, NEW observed, Observe(observed), NEW id \in Ids,
         \/ {i \in DOMAIN observed : observed[i] = id} = {}
         \/ \E k \in DOMAIN observed : {i \in DOMAIN observed : observed[i] = id} = {k}
  PROVE  drift'[id] = drift[id]
           + (IF {i \in DOMAIN observed : observed[i] = id} = {} THEN 0 ELSE 1)
           - (IF id \in inside' \ inside THEN 1 ELSE 0)
<1> DEFINE seenAs == {i \in DOMAIN observed : observed[i] = id}
           enters == {id} \cap (inside' \ inside)
<1>1. drift'[id] = drift[id] + Cardinality(seenAs) - Cardinality(enters)
  BY DEF Observe
<1>2. Cardinality(seenAs) = IF seenAs = {} THEN 0 ELSE 1
  BY FS_EmptySet, FS_Singleton
<1>3. Cardinality(enters) = IF id \in inside' \ inside THEN 1 ELSE 0
  <2>1. enters = IF id \in inside' \ inside THEN {id} ELSE {}
    OBVIOUS
  <2> QED BY <2>1, FS_EmptySet, FS_Singleton
<1> QED BY <1>1, <1>2, <1>3

(***************************************************************************)
(* TryAdmit lets in a ticket that is inside already.                       *)
(***************************************************************************)
Again(g, id) ==
  /\ g \in Requests /\ req[g].id = id /\ req[g].pc = "tryadmit" /\ id \in inside
  /\ req'[g] = Idle /\ UNCHANGED <<line, inside>>

(***************************************************************************)
(* What a call of the store does to the counts: they are right, but for a  *)
(* second admission of a ticket and for a call that fails.                 *)
(***************************************************************************)
LEMMA StoresTally ==
  ASSUME IInv, NEW g \in Goroutines, Stores(g)
  PROVE  /\ drift' \in [Ids -> Int]
         /\ \/ /\ failures' = failures
               /\ \A id \in Ids : drift'[id] = drift[id] \/ (drift'[id] = drift[id] + 1 /\ Again(g, id))
            \/ /\ failures' = failures + 1 /\ failures' \in 0..MaxFailures
               /\ \A id \in Ids : drift'[id] \in {drift[id], drift[id] - 1}
<1> USE AdmissionAssumption
<1>1. Tallies /\ RoomInv /\ drift \in [Ids -> Int] /\ \A id \in Ids : drift[id] \in Int
  BY DEF IInv, Tallies
<1>2. Proper(g, req[g]) /\ req[g].now \in Int /\ req[g].cap \in Int
  BY StoresStep DEF IInv, Proper, Calls
<1>3. ASSUME NEW observed, Observe(observed), \A id \in Ids : drift'[id] \in Int
      PROVE  drift' \in [Ids -> Int]
  <2>1. drift' = [id \in Ids |-> drift'[id]]
    BY <1>3 DEF Observe
  <2> QED BY <1>3, <2>1
<1>4. CASE CallLookup(g) \/ CallTouch(g) \/ CallEnqueue(g)
  BY <1>1, <1>4 DEF CallLookup, CallTouch, CallEnqueue, history
<1>5. CASE CallReconcile(g)
  <2>1. PICK waited \in WaitedSecs(req[g].cap, req[g].now) : Observe(waited)
    BY <1>5 DEF CallReconcile
  <2>2. Reconcile(req[g].cap, req[g].now) /\ failures' = failures
    BY <1>5 DEF CallReconcile
  <2>3. ASSUME NEW id \in Ids PROVE drift'[id] = drift[id]
    <3> DEFINE seenAs == {i \in DOMAIN waited : waited[i] = id}
    <3>1. \/ id \in inside' \ inside /\ \E k \in DOMAIN waited : seenAs = {k}
          \/ id \notin inside' \ inside /\ seenAs = {}
      BY <1>1, <1>2, <2>2, ReconcileObserved
    <3>2. drift'[id] = drift[id] + (IF seenAs = {} THEN 0 ELSE 1)
                                 - (IF id \in inside' \ inside THEN 1 ELSE 0)
      BY <1>1, <2>1, <3>1, Observation
    <3>3. (\E k \in DOMAIN waited : seenAs = {k}) => seenAs # {}
      OBVIOUS
    <3> HIDE DEF seenAs
    <3> QED BY <1>1, <3>1, <3>2, <3>3
  <2> QED BY <1>1, <1>3, <2>1, <2>2, <2>3
<1>6. CASE CallTryAdmit(g) /\ ~Admissible(req[g].id, req[g].cap)
  BY <1>1, <1>6 DEF CallTryAdmit
<1>7. CASE CallTryAdmit(g) /\ Admissible(req[g].id, req[g].cap)
  <2> DEFINE me == req[g].id
  <2>1. /\ Observe(<<me>>) /\ failures' = failures /\ inside' = inside \cup {me} /\ line' = line
        /\ req[g].pc = "tryadmit" /\ Return(g, "proxy")
    BY <1>7 DEF CallTryAdmit, TryAdmit, At
  <2>2. g \in Requests /\ req'[g] = Idle
    BY <1>2, <2>1 DEF Proper, Goroutines, Return, IInv, ReqInv
  <2> HIDE DEF me
  <2>3. ASSUME NEW id \in Ids
        PROVE  drift'[id] = drift[id] \/ (drift'[id] = drift[id] + 1 /\ id = me /\ id \in inside)
    <3> DEFINE seenAs == {i \in DOMAIN <<me>> : <<me>>[i] = id}
    <3>1. seenAs = IF id = me THEN {1} ELSE {}
      OBVIOUS
    <3>2. seenAs = {} \/ \E k \in DOMAIN <<me>> : seenAs = {k}
      BY <3>1
    <3>3. drift'[id] = drift[id] + (IF seenAs = {} THEN 0 ELSE 1)
                                 - (IF id \in inside' \ inside THEN 1 ELSE 0)
      BY <1>1, <2>1, <3>2, Observation
    <3>4. (seenAs = {}) <=> (id # me)
      BY <3>1
    <3> HIDE DEF seenAs
    <3>5. id \in inside' \ inside <=> id = me /\ id \notin inside
      BY <2>1
    <3>6. CASE id # me
      BY <1>1, <3>3, <3>4, <3>5, <3>6
    <3>7. CASE id = me
      BY <1>1, <3>3, <3>4, <3>5, <3>7
    <3> QED BY <3>6, <3>7
  <2>4. drift' \in [Ids -> Int]
    BY <1>1, <1>3, <2>1, <2>3
  <2>5. \A id \in Ids : id = me /\ id \in inside => Again(g, id)
    BY <2>1, <2>2 DEF Again, me
  <2> QED BY <2>1, <2>3, <2>4, <2>5
<1>8. CASE StoreError(g)
  <2>1. Observe(<<>>) /\ failures' = failures + 1 /\ failures < MaxFailures
    BY <1>8 DEF StoreError
  <2>2. failures' \in 0..MaxFailures
    BY <1>1, <2>1 DEF Tallies
  <2>3. ASSUME NEW id \in Ids PROVE drift'[id] \in {drift[id], drift[id] - 1}
    <3>1. {i \in DOMAIN << >> : << >>[i] = id} = {}
      OBVIOUS
    <3>2. drift'[id] = drift[id] + 0 - (IF id \in inside' \ inside THEN 1 ELSE 0)
      BY <1>1, <2>1, <3>1, Observation
    <3> QED BY <1>1, <3>2
  <2>4. drift' \in [Ids -> Int]
    BY <1>1, <1>3, <2>1, <2>3
  <2> QED BY <2>1, <2>2, <2>3, <2>4
<1> QED BY <1>4, <1>5, <1>6, <1>7, <1>8 DEF Stores

(***************************************************************************)
(* Nobody else touches the counts; a request that arrives may overlap.     *)
(***************************************************************************)
LEMMA NextTallies ==
  ASSUME IInv, Step
  PROVE  /\ Tallies'
         /\ \A id \in Ids : overlaps'[id] >= overlaps[id]
         /\ (\A g \in Goroutines : ~Stores(g)) => UNCHANGED <<drift, failures>>
         /\ (\A g \in Goroutines : ~Begins(g)) => overlaps' = overlaps
<1> USE AdmissionAssumption
<1>1. Tallies /\ \A id \in Ids : overlaps[id] \in Nat
  BY DEF IInv, Tallies
<1>2. ASSUME NEW g \in Goroutines, Stores(g) PROVE Tallies' /\ overlaps' = overlaps
  BY <1>1, <1>2, StoresTally, StoresStep DEF IInv, Tallies
<1>3. ASSUME NEW g \in Goroutines, Gates(g) PROVE UNCHANGED <<drift, failures, overlaps>>
  BY <1>3, GatesStep DEF IInv, GateInv
<1>4. ASSUME NEW g \in Goroutines, Begins(g)
      PROVE  /\ UNCHANGED <<drift, failures>> /\ overlaps' \in [Ids -> Nat]
             /\ \A id \in Ids : overlaps'[id] >= overlaps[id]
  <2>1. UNCHANGED <<drift, failures>>
    BY <1>4, BeginsStep DEF IInv
  <2>2. CASE g \notin Requests
    BY <1>1, <1>4, <2>1, <2>2, BeginsStep DEF IInv, Tallies
  <2>3. CASE g \in Requests
    <3>1. PICK me \in Ids :
            overlaps' = [overlaps EXCEPT ![me] = @ + IF InFlight(me) = {} THEN 0 ELSE 1]
      BY <1>4, <2>3, BeginsStep DEF IInv
    <3> QED BY <1>1, <2>1, <3>1 DEF Tallies
  <2> QED BY <2>2, <2>3
<1>5. CapacityChanges \/ FlushQueue \/ Tick \/ Finished => UNCHANGED <<drift, failures, overlaps>>
  BY DEF CapacityChanges, FlushQueue, Tick, Finished, history
<1> QED BY <1>1, <1>2, <1>3, <1>4, <1>5, StepCases DEF Tallies

(***************************************************************************)
(* Every step preserves the invariant.                                     *)
(***************************************************************************)
LEMMA NextIInv == IInv /\ [Next]_vars => IInv'
<1> SUFFICES ASSUME IInv, [Next]_vars PROVE IInv'
  OBVIOUS
<1>1. CASE UNCHANGED vars
  <2>1. Known' = Known /\ \A g \in Goroutines : Proper(g, req[g]) => Proper(g, req[g])'
    BY <1>1 DEF vars, room, controller, history, Known, Proper
  <2> QED BY <1>1, <2>1
          DEF vars, room, controller, history, IInv, RoomInv, ReqInv, GateInv, BeatInv, Tallies
<1>2. CASE Next
  <2>1. Step
    BY <1>2 DEF Next
  <2> QED BY <1>2, <2>1, ReqStep, NextGate, NextBeats, NextTallies DEF IInv
<1> QED BY <1>1, <1>2

(***************************************************************************)
(* The inductive invariant.                                                *)
(***************************************************************************)
THEOREM AdmissionInvariant == Spec => []IInv
BY InitIInv, NextIInv, PTL DEF Spec

(***************************************************************************)
(* Type correctness of the request path.                                   *)
(***************************************************************************)
THEOREM TypeCorrect == Spec => []TypeOK
<1>1. IInv => TypeOK
  <2> SUFFICES ASSUME IInv PROVE TypeOK
    OBVIOUS
  <2> USE AdmissionAssumption
  <2>1. \A g \in Busy : req[g].now \in 0..clock /\ (g # Janitor => req[g].id \in Ids)
    BY DEF Busy, IInv, ReqInv, Proper, Calls, Goroutines
  <2>2. Never \in Int /\ lastReconcile \in Never..MaxNow
    BY DEF IInv, GateInv, ReqInv, Never
  <2> QED BY <2>1, <2>2 DEF TypeOK, IInv, RoomInv, ReqInv, GateInv, BeatInv, Tallies
<1> QED BY <1>1, AdmissionInvariant, PTL

(***************************************************************************)
(* A heartbeat on record is never more than one stall behind the newest.   *)
(***************************************************************************)
THEOREM LagBounded == Spec => []HeartbeatLag
<1>1. IInv => HeartbeatLag
  BY DEF IInv, BeatInv, RoomInv, HeartbeatLag
<1> QED BY <1>1, AdmissionInvariant, PTL

(***************************************************************************)
(* A request that wins the compare-and-swap comes later than the winner    *)
(* before it by the gap less one stall, whatever the readings of the two.  *)
(***************************************************************************)
THEOREM WinnersAlwaysSpaced == Spec => WinnersSpaced
<1>1. IInv /\ [Next]_vars =>
        [\A g \in Goroutines : Wins(g) => req[g].now - winner >= Gap - MaxStall]_vars
  BY NextGate DEF Next
<1> QED BY <1>1, AdmissionInvariant, PTL DEF Spec, WinnersSpaced

-----------------------------------------------------------------------------
(* Sessions and places *)

(***************************************************************************)
(* The reading a call of the store is made with.                           *)
(***************************************************************************)
LEMMA StoresNow ==
  ASSUME IInv, NEW g \in Goroutines, Stores(g)
  PROVE  req[g].now \in Int /\ req[g].now <= clock /\ clock - req[g].now <= MaxStall /\ clock \in Int
<1>1. Proper(g, req[g])
  BY StoresStep DEF IInv
<1> QED BY <1>1 DEF Proper, Calls, IInv, ReqInv

(***************************************************************************)
(* A session ends only for being idle, at most one stall early: lowering   *)
(* the capacity, flushing the queue and failing calls end none.            *)
(***************************************************************************)
THEOREM SessionsAlwaysKept == Spec => SessionsKept
<1> DEFINE Kept1 == \A id \in inside \ inside' : clock - newest[id] > ActiveTTL - MaxStall
<1>1. IInv /\ [Next]_vars => [Kept1]_vars
  <2> SUFFICES ASSUME IInv, Step, NEW id \in inside \ inside'
               PROVE  clock - newest[id] > ActiveTTL - MaxStall
    BY DEF Next
  <2> USE AdmissionAssumption, RoomAssumption
  <2>1. ~UNCHANGED room
    BY DEF room
  <2>2. ~FlushQueue
    BY DEF FlushQueue, Flush
  <2>3. PICK g \in Goroutines : Stores(g) /\ Effect(req[g].now, New(g))
    BY <2>1, <2>2, RoomStep
  <2>4. req[g].now - seen[id] > ActiveTTL
    BY <2>3 DEF Effect
  <2>5. id \in Known
    BY DEF Known
  <2>6. newest[id] \in Int /\ seen[id] \in Int /\ newest[id] - seen[id] <= MaxStall
    BY <2>5 DEF IInv, BeatInv, RoomInv
  <2> QED BY <2>3, <2>4, <2>6, StoresNow
<1> QED BY <1>1, AdmissionInvariant, PTL DEF Spec, SessionsKept

(***************************************************************************)
(* The place of a ticket that stands in the line is where it stands.       *)
(***************************************************************************)
LEMMA PlaceAt ==
  ASSUME NEW l, NEW id \in Waiting(l)
  PROVE  Place(l, id) \in DOMAIN l /\ l[Place(l, id)] = id
<1>1. \E i \in DOMAIN l : l[i] = id
  BY DEF Waiting
<1> QED BY <1>1 DEF Place

(***************************************************************************)
(* As long as a ticket stays in the line, its place only improves.         *)
(***************************************************************************)
THEOREM PlacesImprove == Spec => PlaceImproves
<1> DEFINE Improves ==
      \A id \in Waiting(line) \cap Waiting(line') : Place(line', id) <= Place(line, id)
<1>1. IInv /\ [Next]_vars => [Improves]_vars
  <2> SUFFICES ASSUME IInv, Step, NEW id \in Waiting(line) \cap Waiting(line')
               PROVE  Place(line', id) <= Place(line, id)
    BY DEF Next
  <2>1. /\ Place(line, id) \in DOMAIN line /\ line[Place(line, id)] = id
        /\ Place(line', id) \in DOMAIN line' /\ line'[Place(line', id)] = id
    BY PlaceAt
  <2>2. CASE UNCHANGED room
    <3>1. Place(line', id) = Place(line, id) /\ Place(line, id) \in Int
      BY <2>1, <2>2 DEF room, IInv, RoomInv
    <3> QED BY <3>1
  <2>3. ~FlushQueue
    BY FlushRoom DEF FlushQueue, IInv
  <2>4. ASSUME NEW g \in Goroutines, Effect(req[g].now, New(g))
        PROVE  Place(line', id) <= Place(line, id)
    BY <2>1, <2>4 DEF Effect
  <2> QED BY <2>2, <2>3, <2>4, RoomStep
<1> QED BY <1>1, AdmissionInvariant, PTL DEF Spec, PlaceImproves

-----------------------------------------------------------------------------
(* What requests are told *)

(***************************************************************************)
(* Where the answers of Check come from.                                   *)
(***************************************************************************)
LEMMA StoresReply ==
  ASSUME IInv, NEW g \in Goroutines, Stores(g)
  PROVE  /\ reply'.decision = "proxy" /\ reply'.kind = "check" =>
              \/ reply'.id \in inside'
              \/ req[g].pc = "touch" /\ g \in Requests /\ reply'.id = req[g].id /\ inside' = inside
         /\ reply'.decision = "wait" /\ reply'.kind = "check" =>
              \/ reply'.id \in Waiting(line')
              \/ /\ req[g].pc = "enqueue" /\ g \in Requests /\ req[g].id \in inside
                 /\ reply'.id = req[g].id /\ inside' = inside
<1> DEFINE Goal == /\ reply'.decision = "proxy" /\ reply'.kind = "check" =>
                        \/ reply'.id \in inside'
                        \/ /\ req[g].pc = "touch" /\ g \in Requests
                           /\ reply'.id = req[g].id /\ inside' = inside
                   /\ reply'.decision = "wait" /\ reply'.kind = "check" =>
                        \/ reply'.id \in Waiting(line')
                        \/ /\ req[g].pc = "enqueue" /\ g \in Requests /\ req[g].id \in inside
                           /\ reply'.id = req[g].id /\ inside' = inside
<1>1. Proper(g, req[g]) /\ RoomInv
  BY StoresStep DEF IInv
<1>2. ASSUME reply' = NoReply PROVE Goal
  BY <1>2 DEF NoReply
<1>3. ASSUME NEW decision, Return(g, decision), g \in Requests
      PROVE  reply'.decision = decision /\ reply'.kind = req[g].kind /\ reply'.id = req[g].id
  BY <1>3, AdmissionAssumption DEF Return
<1>4. CASE CallReconcile(g)
  BY <1>2, <1>4 DEF CallReconcile, Return, Silent
<1>5. ASSUME req[g].pc \in {"lookup", "touch", "tryadmit", "enqueue"}
      PROVE  g \in Requests /\ req[g].id \in Ids /\ req[g].now \in Int
  BY <1>1, <1>5 DEF Proper, Goroutines, Calls
<1>6. CASE CallLookup(g)
  <2>1. g \in Requests /\ UNCHANGED <<line, inside>>
    BY <1>5, <1>6 DEF CallLookup, At, Lookup
  <2>2. CASE req[g].kind = "status" /\ \E cap \in Capacities : Return(g, StatusDecision(req[g].id, cap))
    BY <1>3, <2>1, <2>2
  <2>3. CASE req[g].id \in Waiting(line) /\ Return(g, "wait")
    BY <1>3, <2>1, <2>3
  <2>4. CASE Silent
    BY <1>2, <2>4 DEF Silent
  <2> QED BY <1>6, <2>2, <2>3, <2>4 DEF CallLookup
<1>7. CASE CallTouch(g)
  <2>1. req[g].pc = "touch" /\ inside' = inside /\ Return(g, "proxy")
    BY <1>7 DEF CallTouch, At, Touch
  <2> QED BY <1>3, <1>5, <2>1
<1>8. CASE CallTryAdmit(g)
  <2>1. /\ req[g].pc = "tryadmit" /\ TryAdmit(req[g].id, req[g].cap, req[g].now)
        /\ IF Admissible(req[g].id, req[g].cap) THEN Return(g, "proxy") ELSE Silent
    BY <1>8 DEF CallTryAdmit, At
  <2>2. g \in Requests /\ req[g].id \in Ids /\ req[g].now \in Int
    BY <1>5, <2>1
  <2>3. Admissible(req[g].id, req[g].cap) => req[g].id \in inside'
    BY <1>1, <2>1, <2>2, TryAdmitEffect
  <2> QED BY <1>2, <1>3, <2>1, <2>2, <2>3 DEF Silent
<1>9. CASE CallEnqueue(g)
  <2>1. req[g].pc = "enqueue" /\ Enqueue(req[g].id, req[g].now) /\ Return(g, "wait")
    BY <1>9 DEF CallEnqueue, At
  <2>2. g \in Requests /\ req[g].id \in Ids /\ req[g].now \in Int
    BY <1>5, <2>1
  <2>3. (req[g].id \in inside \/ req[g].id \in Waiting(line')) /\ inside' = inside
    BY <1>1, <2>1, <2>2, EnqueueEffect
  <2> QED BY <1>3, <2>1, <2>2, <2>3
<1>10. CASE StoreError(g)
  <2>1. Return(g, "error")
    BY <1>10 DEF StoreError
  <2>2. g = Janitor => reply' = NoReply
    BY <2>1 DEF Return
  <2> QED BY <1>2, <1>3, <2>1, <2>2 DEF Goroutines
<1> QED BY <1>4, <1>6, <1>7, <1>8, <1>9, <1>10 DEF Stores

(***************************************************************************)
(* Every other step answers nobody, or changes nothing at all.             *)
(***************************************************************************)
LEMMA OtherReply ==
  ASSUME IInv, Step, \A g \in Goroutines : ~Stores(g)
  PROVE  reply'.decision = "none" \/ UNCHANGED <<room, controller, history>>
<1>1. CapacityChanges \/ FlushQueue \/ Tick => reply'.decision = "none"
  BY DEF CapacityChanges, FlushQueue, Tick, Silent, NoReply
<1>2. ASSUME NEW g \in Goroutines, Begins(g) \/ Gates(g) PROVE reply'.decision = "none"
  BY <1>2, BeginsStep, GatesStep DEF IInv, GateInv
<1> QED BY <1>1, <1>2, StepCases DEF Finished

(***************************************************************************)
(* Where a request stands after a step: where it stood, or it has just     *)
(* arrived.                                                                *)
(***************************************************************************)
LEMMA StepReq ==
  ASSUME IInv, Step, NEW h \in Requests, req'[h] # Idle
  PROVE  \/ req[h] # Idle /\ req'[h].id = req[h].id /\ req'[h].now = req[h].now
         \/ Begins(h)
<1>1. h \in Goroutines /\ (req[h] # Idle => req[h] \in Calls)
  BY DEF Goroutines, IInv, ReqInv
<1>2. ASSUME NEW g \in Goroutines, Begins(g) \/ Gates(g) \/ Stores(g), g # h
      PROVE  req'[h] = req[h]
  BY <1>1, <1>2, BeginsStep, GatesStep, StoresStep DEF IInv, GateInv
<1>3. ASSUME Gates(h) PROVE req[h] # Idle /\ req'[h].id = req[h].id /\ req'[h].now = req[h].now
  BY <1>1, <1>3, GatesStep DEF IInv, GateInv, Same
<1>4. ASSUME Stores(h) PROVE req[h] # Idle /\ req'[h].id = req[h].id /\ req'[h].now = req[h].now
  BY <1>1, <1>4, StoresStep DEF IInv, Same
<1>5. CapacityChanges \/ FlushQueue \/ Tick \/ Finished => req' = req
  BY DEF CapacityChanges, FlushQueue, Tick, Finished, controller
<1> QED BY <1>1, <1>2, <1>3, <1>4, <1>5, StepCases

(***************************************************************************)
(* A request that found its ticket active and is about to touch it: the    *)
(* heartbeat is at most a stall older than the request, whatever late      *)
(* heartbeats of other tabs did to it since.                               *)
(***************************************************************************)
TouchInv ==
  \A h \in Requests : req[h].pc = "touch" =>
    req[h].id \in inside /\ seen[req[h].id] >= req[h].now - MaxStall

(***************************************************************************)
(* No reconcile can have expired it, stalls being at most half of the TTL. *)
(***************************************************************************)
LEMMA StallsWithinTTL ==
  ASSUME NEW now \in Int, NEW late \in Int, NEW time \in Int, NEW beat \in Int,
         NEW stall \in Int, NEW ttl \in Int,
         2 * stall <= ttl, late <= time, time - late <= stall, now <= time, time - now <= stall,
         beat >= now - stall
  PROVE  ~(late - beat > ttl) /\ late >= now - stall
OBVIOUS

(***************************************************************************)
(* So it still holds its slot when it gets there.                          *)
(***************************************************************************)
LEMMA TouchStep ==
  ASSUME 2 * MaxStall <= ActiveTTL, IInv, TouchInv, Step
  PROVE  TouchInv'
<1> SUFFICES ASSUME NEW h \in Requests, req'[h].pc = "touch"
             PROVE  req'[h].id \in inside' /\ seen'[req'[h].id] >= req'[h].now - MaxStall
  BY DEF TouchInv
<1> USE AdmissionAssumption, RoomAssumption
<1>1. h \in Goroutines /\ req'[h] # Idle
  BY DEF Goroutines, Idle
<1>2. CASE Stores(h)
  <2>1. /\ req'[h].id = req[h].id /\ req'[h].now = req[h].now
        /\ req[h].id \in inside /\ Lookup(req[h].id, req[h].now)
    BY <1>1, <1>2, StoresStep DEF IInv, Same
  <2>2. req[h].id \in Known
    BY <2>1 DEF Known
  <2>3. inside' = inside /\ seen'[req[h].id] = req[h].now
    BY <2>1, <2>2, SeenAtFacts DEF Lookup
  <2> QED BY <1>1, <1>2, <2>1, <2>3, StoresNow
<1>3. CASE ~Stores(h)
  <2>1. ~Begins(h) /\ ~Gates(h)
    BY <1>1, BeginsStep, GatesStep DEF IInv, GateInv, Gate
  <2>2. req'[h] = req[h]
    <3>1. ASSUME NEW g \in Goroutines, Begins(g) \/ Gates(g) \/ Stores(g), g # h
          PROVE  req'[h] = req[h]
      BY <1>1, <3>1, BeginsStep, GatesStep, StoresStep DEF IInv, GateInv
    <3>2. CapacityChanges \/ FlushQueue \/ Tick \/ Finished => req' = req
      BY DEF CapacityChanges, FlushQueue, Tick, Finished, controller
    <3> QED BY <1>3, <2>1, <3>1, <3>2, StepCases
  <2> DEFINE id == req[h].id
  <2>3. /\ id \in inside /\ id \in Known /\ seen[id] >= req[h].now - MaxStall
        /\ seen[id] \in Int
    BY <2>2 DEF TouchInv, Known, IInv, RoomInv
  <2>4. req[h].now \in Int /\ clock - req[h].now <= MaxStall /\ req[h].now <= clock /\ clock \in Int
    <3>1. Proper(h, req[h])
      BY <1>1, <2>2, AtWork DEF IInv
    <3> QED BY <3>1 DEF Proper, Calls, IInv, ReqInv
  <2> HIDE DEF id
  <2>5. CASE UNCHANGED room
    BY <2>2, <2>3, <2>5 DEF room, id
  <2>6. CASE FlushQueue
    BY <2>2, <2>3, <2>6, FlushRoom DEF FlushQueue, IInv, id
  <2>7. ASSUME NEW g \in Goroutines, Stores(g), Effect(req[g].now, New(g))
        PROVE  id \in inside' /\ seen'[id] >= req[h].now - MaxStall
    <3>1. /\ req[g].now \in Int /\ req[g].now <= clock /\ clock - req[g].now <= MaxStall
      BY <2>7, StoresNow
    <3>2. ~(req[g].now - seen[id] > ActiveTTL) /\ req[g].now >= req[h].now - MaxStall
      <4>1. MaxStall \in Int /\ ActiveTTL \in Int
        OBVIOUS
      <4> QED BY <2>3, <2>4, <3>1, <4>1, StallsWithinTTL
    <3>3. id \in inside'
      BY <2>3, <2>7, <3>2 DEF Effect
    <3>4. id \in DOMAIN seen'
      BY <2>7, <3>3 DEF Effect, RoomInv, Known
    <3>5. seen'[id] = req[g].now \/ seen'[id] = seen[id]
      BY <2>7, <3>4 DEF Effect
    <3> QED BY <2>3, <3>2, <3>3, <3>5
  <2> QED BY <2>2, <2>5, <2>6, <2>7, RoomStep DEF id
<1> QED BY <1>2, <1>3

(***************************************************************************)
(* A request that is proxied holds a slot, provided that no request is     *)
(* held up longer than half of ActiveTTL: the verdict of Touch, which      *)
(* Check ignores, is always yes.                                           *)
(***************************************************************************)
THEOREM ProxiesHoldSlots ==
  ASSUME 2 * MaxStall <= ActiveTTL
  PROVE  Spec => []ProxyHoldsSlot
<1>1. Init => TouchInv /\ ProxyHoldsSlot
  BY DEF Init, TouchInv, ProxyHoldsSlot, NoReply, Idle, Goroutines
<1>2. IInv /\ TouchInv /\ ProxyHoldsSlot /\ [Next]_vars => TouchInv' /\ ProxyHoldsSlot'
  <2> SUFFICES ASSUME IInv, TouchInv, ProxyHoldsSlot, [Next]_vars
               PROVE  TouchInv' /\ ProxyHoldsSlot'
    OBVIOUS
  <2>1. CASE UNCHANGED vars
    BY <2>1 DEF vars, room, controller, history, TouchInv, ProxyHoldsSlot
  <2>2. CASE Next
    <3>1. Step
      BY <2>2 DEF Next
    <3>2. TouchInv'
      BY <3>1, TouchStep
    <3>3. ProxyHoldsSlot'
      <4>1. ASSUME NEW g \in Goroutines, Stores(g) PROVE ProxyHoldsSlot'
        BY <4>1, StoresReply DEF ProxyHoldsSlot, TouchInv
      <4>2. CASE reply'.decision = "none"
        BY <4>2 DEF ProxyHoldsSlot
      <4>3. CASE UNCHANGED <<room, controller, history>>
        BY <4>3 DEF room, controller, ProxyHoldsSlot
      <4> QED BY <3>1, <4>1, <4>2, <4>3, OtherReply
    <3> QED BY <3>2, <3>3
  <2> QED BY <2>1, <2>2
<1> QED BY <1>1, <1>2, AdmissionInvariant, PTL DEF Spec

-----------------------------------------------------------------------------
(* One tab: a ticket whose requests never overlapped *)

OneEach ==
  \A g, h \in Requests :
    g # h /\ req[g] # Idle /\ req[h] # Idle /\ req[g].id = req[h].id => overlaps[req[g].id] # 0

(***************************************************************************)
(* Between Lookup and Enqueue nobody else makes the ticket known.          *)
(***************************************************************************)
StillUnknown ==
  \A h \in Requests :
    req[h].pc \in {"capTryAdmit", "tryadmit", "enqueue"} /\ overlaps[req[h].id] = 0 =>
      req[h].id \notin Known

(***************************************************************************)
(* A waiter's heartbeat is its newest one: requests of one ticket come one *)
(* after the other, and so do their readings.                              *)
(***************************************************************************)
WaiterFresh ==
  \A id \in Waiting(line) : overlaps[id] = 0 =>
    /\ newest[id] = seen[id]
    /\ \A h \in Requests : req[h] # Idle /\ req[h].id = id => seen[id] <= req[h].now

OneTab == OneEach /\ StillUnknown /\ WaiterFresh

(***************************************************************************)
(* A ticket without overlaps had none before.                              *)
(***************************************************************************)
LEMMA NoneBefore ==
  ASSUME IInv, Step, NEW id \in Ids, overlaps'[id] = 0
  PROVE  overlaps[id] = 0
<1>1. overlaps[id] \in Nat /\ overlaps'[id] >= overlaps[id]
  BY NextTallies DEF IInv, Tallies
<1> QED BY <1>1

(***************************************************************************)
(* A request that is at work has a ticket.                                 *)
(***************************************************************************)
LEMMA HasTicket ==
  ASSUME ReqInv, NEW h \in Requests, req[h] # Idle
  PROVE  h \in Goroutines /\ req[h].id \in Ids /\ req[h].now \in Int
BY DEF ReqInv, Proper, Calls, Goroutines

(***************************************************************************)
(* A second request of a ticket is an overlap.                             *)
(***************************************************************************)
LEMMA OneEachStep ==
  ASSUME IInv, OneEach, Step
  PROVE  OneEach'
<1> SUFFICES ASSUME NEW g \in Requests, NEW h \in Requests, g # h,
                    req'[g] # Idle, req'[h] # Idle, req'[g].id = req'[h].id,
                    overlaps'[req'[g].id] = 0
             PROVE  FALSE
  BY DEF OneEach
<1>1. g \in Goroutines /\ h \in Goroutines
  BY DEF Goroutines
<1>2. ASSUME NEW a \in Requests, NEW b \in Requests, a # b, Begins(a), req'[b] # Idle,
             req'[a].id = req'[b].id
      PROVE  overlaps'[req'[a].id] # 0
  <2>1. a \in Goroutines /\ b \in Goroutines
    BY DEF Goroutines
  <2> DEFINE id == req'[a].id
  <2>2. /\ req'[b] = req[b] /\ id \in Ids
        /\ overlaps' = [overlaps EXCEPT ![id] = @ + IF InFlight(id) = {} THEN 0 ELSE 1]
    BY <1>2, <2>1, BeginsStep DEF IInv
  <2>3. b \in InFlight(id)
    BY <1>2, <2>1, <2>2 DEF InFlight, Busy
  <2> HIDE DEF id
  <2>4. overlaps'[id] = overlaps[id] + 1 /\ overlaps[id] \in Nat
    BY <2>2, <2>3 DEF IInv, Tallies
  <2>5. overlaps'[id] # 0
    BY <2>4
  <2> QED BY <2>5 DEF id
<1>3. ~Begins(g) /\ ~Begins(h)
  BY <1>2
<1>4. /\ req[g] # Idle /\ req'[g].id = req[g].id
      /\ req[h] # Idle /\ req'[h].id = req[h].id
  BY <1>3, StepReq
<1>5. overlaps[req[g].id] = 0
  BY <1>4, HasTicket, NoneBefore DEF IInv
<1> QED BY <1>4, <1>5 DEF OneEach

(***************************************************************************)
(* A request makes only its own ticket known.                              *)
(***************************************************************************)
LEMMA StillUnknownStep ==
  ASSUME IInv, OneEach, StillUnknown, Step
  PROVE  StillUnknown'
<1> DEFINE U == {"capTryAdmit", "tryadmit", "enqueue"}
<1> SUFFICES ASSUME NEW h \in Requests, req'[h].pc \in U, overlaps'[req'[h].id] = 0
             PROVE  req'[h].id \notin Known'
  BY DEF StillUnknown
<1>1. h \in Goroutines /\ req'[h] # Idle
  BY DEF Goroutines, Idle
<1>2. ~Begins(h)
  BY <1>1, BeginsStep DEF IInv
<1>3. req[h] # Idle /\ req'[h].id = req[h].id /\ overlaps[req[h].id] = 0
  <2>1. req[h] # Idle /\ req'[h].id = req[h].id
    BY <1>1, <1>2, StepReq
  <2> QED BY <2>1, HasTicket, NoneBefore DEF IInv
<1>4. CASE Gates(h)
  <2>1. req[h].pc = "capTryAdmit" /\ UNCHANGED room
    BY <1>1, <1>4, GatesStep DEF IInv, GateInv, Gate
  <2> QED BY <1>3, <2>1 DEF StillUnknown, Known, room
<1>5. CASE Stores(h)
  <2>1. \/ req[h].id \notin Known /\ UNCHANGED <<line, inside>>
        \/ req[h].pc = "tryadmit" /\ UNCHANGED room
    BY <1>1, <1>5, StoresStep DEF IInv
  <2> QED BY <1>3, <2>1 DEF StillUnknown, Known, room
<1>6. CASE ~Gates(h) /\ ~Stores(h)
  <2>1. req'[h] = req[h]
    <3>1. ASSUME NEW g \in Goroutines, Begins(g) \/ Gates(g) \/ Stores(g), g # h
          PROVE  req'[h] = req[h]
      BY <1>1, <3>1, BeginsStep, GatesStep, StoresStep DEF IInv, GateInv
    <3>2. CapacityChanges \/ FlushQueue \/ Tick \/ Finished => req' = req
      BY DEF CapacityChanges, FlushQueue, Tick, Finished, controller
    <3> QED BY <1>2, <1>6, <3>1, <3>2, StepCases
  <2>2. req[h].id \notin Known
    BY <1>3, <2>1 DEF StillUnknown
  <2>3. CASE FlushQueue
    BY <1>3, <2>2, <2>3, FlushRoom DEF FlushQueue, IInv, Known
  <2>4. ASSUME NEW g \in Goroutines, Stores(g), Effect(req[g].now, New(g))
        PROVE  req[h].id \notin Known'
    <3>1. g # h /\ req[g] # Idle
      BY <1>6, <2>4, StoresStep DEF IInv
    <3>2. req[h].id \notin New(g)
      BY <1>3, <3>1 DEF New, OneEach
    <3> QED BY <2>2, <2>4, <3>2 DEF Effect
  <2> QED BY <1>3, <2>2, <2>3, <2>4, RoomStep
<1> QED BY <1>4, <1>5, <1>6

(***************************************************************************)
(* A waiter's heartbeats are written in order.                             *)
(***************************************************************************)
LEMMA WaiterFreshStep ==
  ASSUME IInv, OneEach, WaiterFresh, Next
  PROVE  WaiterFresh'
<1> SUFFICES ASSUME NEW id \in Waiting(line'), overlaps'[id] = 0
             PROVE  /\ newest'[id] = seen'[id]
                    /\ \A h \in Requests : req'[h] # Idle /\ req'[h].id = id => seen'[id] <= req'[h].now
  BY DEF WaiterFresh
<1>1. /\ Step
      /\ newest' = [i \in DOMAIN seen' |->
            IF i \in DOMAIN newest THEN Greater(newest[i], seen'[i]) ELSE seen'[i]]
  BY DEF Next
<1>2. RoomInv' /\ overlaps[id] = 0
  <2>1. RoomInv'
    BY NextBeats
  <2>2. id \in Ids
    BY <2>1 DEF RoomInv, Waiting
  <2> QED BY <1>1, <2>1, <2>2, NoneBefore
<1>3. id \in DOMAIN seen' /\ seen'[id] \in Int /\ DOMAIN newest = Known /\ clock \in Int
  BY <1>2 DEF RoomInv, Known, IInv, BeatInv, ReqInv
<1>4. newest'[id] = IF id \in Known THEN Greater(newest[id], seen'[id]) ELSE seen'[id]
  BY <1>1, <1>3
<1>5. ASSUME NEW h \in Requests, req[h] # Idle
      PROVE  req[h].now \in Int
  BY <1>5 DEF IInv, ReqInv, Calls, Goroutines
<1>6. seen'[id] <= clock
  <2>1. \A i \in Known : seen[i] \in Int /\ newest[i] \in Int /\ seen[i] <= newest[i] /\ newest[i] <= clock
    BY DEF IInv, RoomInv, BeatInv
  <2>2. \/ id \in Known /\ seen'[id] = seen[id]
        \/ seen'[id] <= clock
    BY <1>1, <1>3, BeatsWritten
  <2> QED BY <1>3, <2>1, <2>2
<1>7. \A h \in Requests : Begins(h) => req'[h].now = clock
  BY BeginsStep DEF IInv, Goroutines
<1>8. SUFFICES /\ id \in Known => newest[id] <= seen'[id] /\ newest[id] \in Int
               /\ \A h \in Requests : req[h] # Idle /\ req[h].id = id => seen'[id] <= req[h].now
  <2>1. newest'[id] = seen'[id]
    BY <1>3, <1>4, <1>8 DEF Greater
  <2>2. ASSUME NEW h \in Requests, req'[h] # Idle, req'[h].id = id
        PROVE  seen'[id] <= req'[h].now
    <3>1. CASE Begins(h)
      BY <1>6, <1>7, <3>1
    <3>2. CASE req[h] # Idle /\ req'[h].id = req[h].id /\ req'[h].now = req[h].now
      BY <1>8, <2>2, <3>2
    <3> QED BY <1>1, <2>2, <3>1, <3>2, StepReq
  <2> QED BY <2>1, <2>2
<1>9. ASSUME id \in Waiting(line)
      PROVE  /\ newest[id] = seen[id] /\ seen[id] \in Int /\ id \in Known
             /\ \A h \in Requests : req[h] # Idle /\ req[h].id = id => seen[id] <= req[h].now
  BY <1>2, <1>9 DEF WaiterFresh, IInv, RoomInv, Known
<1>10. ASSUME id \in Waiting(line), seen'[id] = seen[id]
       PROVE  /\ id \in Known => newest[id] <= seen'[id] /\ newest[id] \in Int
              /\ \A h \in Requests : req[h] # Idle /\ req[h].id = id => seen'[id] <= req[h].now
  BY <1>9, <1>10
<1>11. CASE UNCHANGED room
  BY <1>10, <1>11 DEF room
<1>12. ~FlushQueue
  BY FlushRoom DEF FlushQueue, IInv
<1>13. ASSUME NEW g \in Goroutines, Stores(g), Effect(req[g].now, New(g))
       PROVE  /\ id \in Known => newest[id] <= seen'[id] /\ newest[id] \in Int
              /\ \A h \in Requests : req[h] # Idle /\ req[h].id = id => seen'[id] <= req[h].now
  <2>1. id \notin inside /\ (id \in Known => id \in Waiting(line))
    BY <1>13 DEF Effect, Known
  <2>2. CASE id \in Waiting(line) /\ seen'[id] = seen[id]
    BY <1>10, <2>2
  <2>3. CASE ~(id \in Waiting(line) /\ seen'[id] = seen[id])
    <3>1. id \in New(g)
      BY <1>13, <2>3 DEF Effect
    <3>2. g \in Requests /\ req[g].id = id /\ req[g] # Idle /\ req[g].now \in Int
      BY <1>13, <3>1, StoresStep, StoresNow DEF New, IInv
    <3>3. seen'[id] = req[g].now
      <4>1. seen'[id] = req[g].now \/ (id \in DOMAIN seen /\ seen'[id] = seen[id])
        BY <1>3, <1>13 DEF Effect
      <4>2. DOMAIN seen = Known
        BY DEF IInv, RoomInv
      <4> QED BY <2>1, <2>3, <4>1, <4>2
    <3>4. \A h \in Requests : req[h] # Idle /\ req[h].id = id => h = g
      BY <1>2, <3>2 DEF OneEach
    <3>5. id \in Known => newest[id] <= seen'[id] /\ newest[id] \in Int
      BY <1>9, <2>1, <3>2, <3>3
    <3> QED BY <3>2, <3>3, <3>4, <3>5
  <2> QED BY <2>2, <2>3
<1> QED BY <1>1, <1>11, <1>12, <1>13, RoomStep

(***************************************************************************)
(* What holds of tickets whose requests never overlapped.                  *)
(***************************************************************************)
LEMMA OneTabAlways == Spec => []OneTab
<1>1. Init => OneTab
  BY DEF Init, RoomInit, OneTab, OneEach, StillUnknown, WaiterFresh, Waiting, Idle, Goroutines
<1>2. IInv /\ OneTab /\ [Next]_vars => OneTab'
  <2> SUFFICES ASSUME IInv, OneTab, [Next]_vars PROVE OneTab'
    OBVIOUS
  <2>1. CASE UNCHANGED vars
    BY <2>1 DEF vars, room, controller, history, OneTab, OneEach, StillUnknown, WaiterFresh, Known, Waiting
  <2>2. CASE Next
    <3>1. Step
      BY <2>2 DEF Next
    <3> QED BY <2>2, <3>1, OneEachStep, StillUnknownStep, WaiterFreshStep DEF OneTab
  <2> QED BY <2>1, <2>2
<1> QED BY <1>1, <1>2, AdmissionInvariant, PTL DEF Spec

(***************************************************************************)
(* A request that is sent to the waiting page stands in the line, or its   *)
(* ticket is inside and has had overlapping requests.                      *)
(***************************************************************************)
THEOREM WaitersWait == Spec => []WaitMeansWaiting
<1>1. Init => WaitMeansWaiting
  BY DEF Init, WaitMeansWaiting, NoReply
<1>2. IInv /\ OneTab /\ WaitMeansWaiting /\ [Next]_vars => WaitMeansWaiting'
  <2> SUFFICES ASSUME IInv, OneTab, WaitMeansWaiting, [Next]_vars PROVE WaitMeansWaiting'
    OBVIOUS
  <2>1. ASSUME UNCHANGED <<room, controller, history>> PROVE WaitMeansWaiting'
    BY <2>1 DEF room, controller, history, WaitMeansWaiting, Waiting
  <2>2. ASSUME NEW g \in Goroutines, Stores(g) PROVE WaitMeansWaiting'
    <3> SUFFICES ASSUME reply'.decision = "wait", reply'.kind = "check",
                        reply'.id \notin Waiting(line')
                 PROVE  reply'.id \in inside' /\ overlaps'[reply'.id] > 0
      BY DEF WaitMeansWaiting
    <3>1. /\ req[g].pc = "enqueue" /\ g \in Requests /\ req[g].id \in inside
          /\ reply'.id = req[g].id /\ inside' = inside
      BY <2>2, StoresReply
    <3>2. req[g].id \in Ids /\ overlaps' = overlaps
      BY <2>2, <3>1, StoresStep DEF IInv, RoomInv
    <3>3. overlaps[req[g].id] # 0 /\ overlaps[req[g].id] \in Nat
      BY <3>1, <3>2 DEF OneTab, StillUnknown, Known, IInv, Tallies
    <3> QED BY <3>1, <3>2, <3>3
  <2>3. CASE reply'.decision = "none"
    BY <2>3 DEF WaitMeansWaiting
  <2> QED BY <2>1, <2>2, <2>3, OtherReply DEF Next, vars
<1> QED BY <1>1, <1>2, AdmissionInvariant, OneTabAlways, PTL DEF Spec

(***************************************************************************)
(* A reconcile drops a waiter only when its newest heartbeat is older than *)
(* QueueTTL, or than QueueTTL less a stall if requests of the ticket       *)
(* overlapped.                                                             *)
(***************************************************************************)
THEOREM PollersAlwaysKept == Spec => PollersKept
<1> DEFINE Kept1 == \A id \in Waiting(line) :
        req' # req /\ id \notin Known' =>
          clock - newest[id] > QueueTTL - (IF overlaps[id] = 0 THEN 0 ELSE MaxStall)
<1>1. IInv /\ OneTab /\ [Next]_vars => [Kept1]_vars
  <2> SUFFICES ASSUME IInv, OneTab, Step, NEW id \in Waiting(line), req' # req, id \notin Known'
               PROVE  clock - newest[id] > QueueTTL - (IF overlaps[id] = 0 THEN 0 ELSE MaxStall)
    BY DEF Next
  <2>1. id \in Known
    BY DEF Known
  <2>2. ~FlushQueue
    BY DEF FlushQueue
  <2>3. PICK g \in Goroutines : Stores(g) /\ Effect(req[g].now, New(g))
    BY <2>1, <2>2, RoomStep
  <2>4. req[g].now - seen[id] > QueueTTL
    BY <2>3 DEF Effect
  <2>5. newest[id] \in Int /\ seen[id] \in Int /\ newest[id] - seen[id] <= MaxStall
    BY <2>1 DEF IInv, RoomInv, BeatInv
  <2>6. overlaps[id] = 0 => newest[id] = seen[id]
    BY DEF OneTab, WaiterFresh
  <2>7. /\ req[g].now \in Int /\ clock \in Int /\ req[g].now <= clock
        /\ QueueTTL \in Int /\ MaxStall \in Int
    BY <2>3, StoresNow, RoomAssumption, AdmissionAssumption
  <2>8. \A now, old, new, c, ttl, stall \in Int :
          now - old > ttl /\ new - old <= stall /\ now <= c =>
            c - new > ttl - stall /\ (new = old => c - new > ttl)
    OBVIOUS
  <2>9. clock - newest[id] > QueueTTL - MaxStall
    BY <2>4, <2>5, <2>7, <2>8
  <2>10. newest[id] = seen[id] => clock - newest[id] > QueueTTL
    BY <2>4, <2>5, <2>7, <2>8
  <2>11. overlaps[id] = 0 => clock - newest[id] > QueueTTL - 0
    BY <2>6, <2>7, <2>10
  <2> QED BY <2>9, <2>11
<1> QED BY <1>1, AdmissionInvariant, OneTabAlways, PTL DEF Spec, PollersKept

-----------------------------------------------------------------------------
(* Counting *)

(***************************************************************************)
(* The requests of a ticket that may still ask for a slot; `Early` ones    *)
(* have yet to look the ticket up, or were refused and will enqueue it.    *)
(***************************************************************************)
Asking == Gate \cup {"lookup", "enqueue"}

Pending(id) ==
  {h \in Requests : req[h].pc \in Asking \cup {"capTryAdmit", "tryadmit"} /\ req[h].id = id}

Early(id) == {h \in Requests : req[h].pc \in Asking /\ req[h].id = id}

(***************************************************************************)
(* Each pending request but one may count the ticket once too often, and   *)
(* each came while another one was in flight, but for one.  That one may   *)
(* too if the ticket is known and every request has looked it up already.  *)
(***************************************************************************)
Fits(d, o, P, E, known) ==
  /\ d <= o
  /\ d + Cardinality(P) - 1 <= o
  /\ E = {} /\ known => d + Cardinality(P) <= o

Tally(id) == Fits(drift[id], overlaps[id], Pending(id), Early(id), id \in Known)

(***************************************************************************)
(* The same requests are pending: nothing was counted too often, and the   *)
(* stronger bound is not newly due.                                        *)
(***************************************************************************)
LEMMA FitsSame ==
  ASSUME NEW d \in Int, NEW o \in Int, NEW d2 \in Int, NEW o2 \in Int, d2 <= d, o <= o2,
         NEW P, NEW E, NEW E2, NEW k \in BOOLEAN, NEW k2 \in BOOLEAN, IsFiniteSet(P),
         Fits(d, o, P, E, k), (E2 = E /\ (k2 => k)) \/ E2 # {} \/ ~k2
  PROVE  Fits(d2, o2, P, E2, k2)
<1>1. PICK n \in Nat : n = Cardinality(P)
  BY FS_CardinalityType
<1>2. d <= o /\ d + n - 1 <= o /\ (E = {} /\ k => d + n <= o)
  BY <1>1 DEF Fits
<1>3. d2 <= o2 /\ d2 + n - 1 <= o2
  BY <1>2
<1>4. E2 = {} /\ k2 => d2 + n <= o2
  BY <1>2
<1> QED BY <1>1, <1>3, <1>4 DEF Fits

(***************************************************************************)
(* A request stops pending and nothing was counted too often.              *)
(***************************************************************************)
LEMMA FitsGone ==
  ASSUME NEW d \in Int, NEW o \in Int, NEW d2 \in Int, NEW o2 \in Int, d2 <= d, o <= o2,
         NEW P, NEW g \in P, NEW E, NEW E2, NEW k, NEW k2, IsFiniteSet(P),
         Fits(d, o, P, E, k)
  PROVE  Fits(d2, o2, P \ {g}, E2, k2)
<1>1. PICK n \in Nat : n = Cardinality(P)
  BY FS_CardinalityType
<1>2. Cardinality(P \ {g}) = n - 1
  BY <1>1, FS_RemoveElement
<1>3. d <= o /\ d + n - 1 <= o
  BY <1>1 DEF Fits
<1>4. d2 <= o2 /\ d2 + (n - 1) - 1 <= o2 /\ d2 + (n - 1) <= o2
  BY <1>3
<1> QED BY <1>2, <1>4 DEF Fits

(***************************************************************************)
(* A request that has looked the ticket up counts it once too often.       *)
(***************************************************************************)
LEMMA FitsCounted ==
  ASSUME NEW d \in Int, NEW o \in Int, NEW o2 \in Int, o <= o2,
         NEW P, NEW g \in P, NEW E, E \subseteq P, g \notin E, NEW k, NEW k2, k, IsFiniteSet(P),
         Fits(d, o, P, E, k)
  PROVE  Fits(d + 1, o2, P \ {g}, E, k2)
<1>1. PICK n \in Nat : n = Cardinality(P)
  BY FS_CardinalityType
<1>2. Cardinality(P \ {g}) = n - 1 /\ IsFiniteSet(P \ {g})
  BY <1>1, FS_RemoveElement
<1>3. d <= o /\ d + n - 1 <= o /\ (E = {} => d + n <= o)
  BY <1>1 DEF Fits
<1>4. n - 1 \in Nat
  BY <1>2, FS_CardinalityType
<1>5. E # {} => n - 1 # 0
  <2>1. E # {} => P \ {g} # {}
    OBVIOUS
  <2> QED BY <1>2, <2>1, FS_EmptySet
<1>6. d + 1 <= o2 /\ (d + 1) + (n - 1) - 1 <= o2 /\ (E = {} => (d + 1) + (n - 1) <= o2)
  BY <1>3, <1>4, <1>5
<1> QED BY <1>2, <1>6 DEF Fits

(***************************************************************************)
(* A request comes, while another one is in flight if any is pending.      *)
(***************************************************************************)
LEMMA FitsCome ==
  ASSUME NEW d \in Int, NEW o \in Int, NEW o2 \in Int, o <= o2,
         NEW P, NEW g, g \notin P, P # {} => o2 = o + 1, NEW E, NEW E2, E2 # {}, NEW k, NEW k2,
         IsFiniteSet(P), Fits(d, o, P, E, k)
  PROVE  Fits(d, o2, P \cup {g}, E2, k2)
<1>1. PICK n \in Nat : n = Cardinality(P)
  BY FS_CardinalityType
<1>2. Cardinality(P \cup {g}) = n + 1
  BY <1>1, FS_AddElement
<1>3. d <= o /\ d + n - 1 <= o
  BY <1>1 DEF Fits
<1>4. P = {} => n = 0
  BY <1>1, FS_EmptySet
<1>5. d <= o2 /\ d + (n + 1) - 1 <= o2
  BY <1>3, <1>4
<1> QED BY <1>2, <1>5 DEF Fits

(***************************************************************************)
(* The sets are finite.                                                    *)
(***************************************************************************)
LEMMA PendingFinite ==
  ASSUME NEW id
  PROVE  /\ IsFiniteSet(Pending(id)) /\ Cardinality(Pending(id)) \in Nat
         /\ IsFiniteSet(Pending(id)') /\ Cardinality(Pending(id)') \in Nat
<1>1. Pending(id) \in SUBSET Requests /\ Pending(id)' \in SUBSET Requests
  BY DEF Pending
<1> QED BY <1>1, AdmissionAssumption, FS_Subset, FS_CardinalityType

(***************************************************************************)
(* The requests that do not move stay where they are.                      *)
(***************************************************************************)
LEMMA OthersPend ==
  ASSUME NEW id, NEW g \in Goroutines, \A h \in Goroutines : h # g => req'[h] = req[h],
         NEW h \in Requests, h # g
  PROVE  (h \in Pending(id)' <=> h \in Pending(id)) /\ (h \in Early(id)' <=> h \in Early(id))
<1>1. req'[h] = req[h]
  BY DEF Goroutines
<1> QED BY <1>1 DEF Pending, Early

(***************************************************************************)
(* A call that is not one to TryAdmit or Enqueue makes nobody known.       *)
(***************************************************************************)
LEMMA KnownByAsking ==
  ASSUME IInv, NEW g \in Goroutines, Stores(g), req[g].pc \in {"reconcile", "touch"}
  PROVE  Known' \subseteq Known
<1>1. CASE UNCHANGED <<line, inside>>
  BY <1>1 DEF Known
<1>2. CASE Reconcile(req[g].cap, req[g].now)
  <2>1. req[g].now \in Int /\ req[g].cap \in Int
    BY StoresStep DEF IInv, Proper, Calls
  <2>2. Effect(req[g].now, {})
    BY <1>2, <2>1, ReconcileEffect DEF IInv
  <2> QED BY <2>2 DEF Effect
<1> QED BY <1>1, <1>2
        DEF Stores, CallReconcile, CallLookup, CallTouch, CallTryAdmit, CallEnqueue, StoreError,
            At, Touch, room

(***************************************************************************)
(* Every step keeps the tally of every ticket.                             *)
(***************************************************************************)
LEMMA TallyStep ==
  ASSUME IInv, Step, NEW id \in Ids, Tally(id)
  PROVE  Tally(id)'
<1> USE AdmissionAssumption
<1> DEFINE d == drift[id]
           d2 == drift'[id]
           o == overlaps[id]
           o2 == overlaps'[id]
           k == id \in Known
           k2 == id \in Known'
<1>1. d \in Int /\ o \in Int /\ d2 \in Int /\ o2 \in Int /\ o <= o2
  BY NextTallies DEF IInv, Tallies
<1>2. PICK P : P = Pending(id)
  OBVIOUS
<1>3. PICK P2 : P2 = Pending(id)'
  OBVIOUS
<1>4. PICK E : E = Early(id)
  OBVIOUS
<1>5. PICK E2 : E2 = Early(id)'
  OBVIOUS
<1>6. IsFiniteSet(P)
  BY <1>2, PendingFinite
<1>7. Fits(d, o, P, E, k)
  BY <1>2, <1>4 DEF Tally
<1> SUFFICES Fits(d2, o2, P2, E2, k2)
  BY <1>3, <1>5 DEF Tally
<1> DEFINE Goal == Fits(d2, o2, P2, E2, k2)
<1>8. k \in BOOLEAN /\ k2 \in BOOLEAN
  OBVIOUS
<1> HIDE DEF d, d2, o, o2, k, k2
<1>9. ASSUME P2 = P, d2 <= d, (E2 = E /\ (k2 => k)) \/ E2 # {} \/ ~k2
      PROVE  Goal
  <2>1. Fits(d2, o2, P, E2, k2)
    BY ONLY <1>1, <1>6, <1>7, <1>8, <1>9, FitsSame
  <2> QED BY <1>9, <2>1
<1>10. CASE UNCHANGED <<req, room, drift>>
  <2>1. P2 = P /\ E2 = E
    BY <1>2, <1>3, <1>4, <1>5, <1>10 DEF Pending, Early
  <2>2. k2 => k
    BY <1>10 DEF k, k2, Known, room
  <2>3. d2 <= d
    BY <1>1, <1>10 DEF d, d2
  <2> QED BY <1>9, <2>1, <2>2, <2>3
<1>11. CASE CapacityChanges \/ Tick \/ Finished
  BY <1>10, <1>11 DEF CapacityChanges, Tick, Finished, controller, history
<1>12. CASE FlushQueue
  <2>1. P2 = P /\ E2 = E /\ drift' = drift
    BY <1>2, <1>3, <1>4, <1>5, <1>12 DEF Pending, Early, FlushQueue, history
  <2>2. k2 => k
    BY <1>12, FlushRoom DEF FlushQueue, IInv, Known, k, k2
  <2>3. d2 <= d
    BY <1>1, <2>1 DEF d, d2
  <2> QED BY <1>9, <2>1, <2>2, <2>3
<1>13. ASSUME NEW g \in Goroutines, \A h \in Goroutines : h # g => req'[h] = req[h]
       PROVE  \A h \in Requests : h # g => (h \in P2 <=> h \in P) /\ (h \in E2 <=> h \in E)
  BY <1>2, <1>3, <1>4, <1>5, <1>13, OthersPend
<1>14. P \subseteq Requests /\ P2 \subseteq Requests /\ E \subseteq P /\ E2 \subseteq P2
  BY <1>2, <1>3, <1>4, <1>5 DEF Pending, Early
<1>15. ASSUME NEW g \in Goroutines, \A h \in Goroutines : h # g => req'[h] = req[h],
              g \in P2 <=> g \in P
       PROVE  P2 = P
  <2>1. \A h \in Requests : h \in P2 <=> h \in P
    BY <1>13, <1>15
  <2> QED BY <1>14, <2>1
<1>16. ASSUME NEW g \in Goroutines, \A h \in Goroutines : h # g => req'[h] = req[h],
              g \in E2 <=> g \in E
       PROVE  E2 = E
  BY <1>13, <1>14, <1>16
<1>17. ASSUME NEW g \in Goroutines
       PROVE  /\ g \in P <=> /\ g \in Requests /\ req[g].id = id
                              /\ req[g].pc \in Asking \cup {"capTryAdmit", "tryadmit"}
              /\ g \in P2 <=> /\ g \in Requests /\ req'[g].id = id
                               /\ req'[g].pc \in Asking \cup {"capTryAdmit", "tryadmit"}
              /\ g \in E <=> g \in Requests /\ req[g].id = id /\ req[g].pc \in Asking
              /\ g \in E2 <=> g \in Requests /\ req'[g].id = id /\ req'[g].pc \in Asking
  BY <1>2, <1>3, <1>4, <1>5 DEF Pending, Early
<1>18. ASSUME NEW g \in Goroutines, Begins(g) PROVE Goal
  <2>1. /\ \A h \in Goroutines : h # g => req'[h] = req[h]
        /\ req[g] = Idle /\ req'[g].pc \in {"load", "mark"} /\ UNCHANGED <<room, drift>>
    BY <1>18, BeginsStep DEF IInv
  <2>2. (k2 <=> k) /\ d2 = d
    BY <2>1 DEF Known, room, k, k2, d, d2
  <2>3. g \notin P /\ g \notin E
    BY <1>17, <2>1 DEF Idle, Asking, Gate
  <2>4. CASE g \in Requests /\ req'[g].id = id
    <3>1. g \in P2 /\ g \in E2
      BY <1>17, <2>1, <2>4 DEF Asking, Gate
    <3>2. P2 = P \cup {g}
      BY <1>13, <1>14, <1>18, <2>1, <2>3, <3>1
    <3>3. P # {} => InFlight(id) # {}
      <4>1. \A h \in P : h \in InFlight(id)
        BY <1>2 DEF Pending, InFlight, Busy, Idle, Asking, Gate, Goroutines
      <4> QED BY <4>1
    <3>4. P # {} => o2 = o + 1
      <4>1. overlaps' = [overlaps EXCEPT ![id] = @ + IF InFlight(id) = {} THEN 0 ELSE 1]
        BY <1>18, <2>4, BeginsStep DEF IInv
      <4>2. overlaps \in [Ids -> Nat]
        BY DEF IInv, Tallies
      <4> QED BY <3>3, <4>1, <4>2 DEF o, o2
    <3>5. Fits(d, o2, P \cup {g}, E2, k2)
      BY ONLY <1>1, <1>6, <1>7, <2>3, <3>1, <3>4, FitsCome
    <3> QED BY <2>2, <3>2, <3>5
  <2>5. CASE ~(g \in Requests /\ req'[g].id = id)
    <3>1. g \notin P2 /\ g \notin E2
      BY <1>17, <2>5
    <3>2. P2 = P /\ E2 = E
      BY <1>15, <1>16, <1>18, <2>1, <2>3, <3>1
    <3>3. d2 <= d
      BY <1>1, <2>2
    <3> QED BY <1>9, <2>2, <3>2, <3>3
  <2> QED BY <2>4, <2>5
<1>19. ASSUME NEW g \in Goroutines, Gates(g) PROVE Goal
  <2>1. /\ \A h \in Goroutines : h # g => req'[h] = req[h]
        /\ \/ req[g].pc \in Gate /\ req'[g].pc \in Gate \cup {"lookup"}
           \/ req[g].pc = "capTryAdmit" /\ req'[g].pc = "tryadmit"
        /\ req'[g].id = req[g].id /\ UNCHANGED <<room, drift>>
    BY <1>19, GatesStep DEF IInv, GateInv, Same
  <2>2. (g \in P2 <=> g \in P) /\ (g \in E2 <=> g \in E)
    BY <1>17, <2>1 DEF Asking, Gate
  <2>3. P2 = P /\ E2 = E
    BY <1>15, <1>16, <1>19, <2>1, <2>2
  <2>4. (k2 <=> k) /\ d2 = d
    BY <2>1 DEF Known, room, k, k2, d, d2
  <2>5. d2 <= d
    BY <1>1, <2>4
  <2> QED BY <1>9, <2>3, <2>4, <2>5
<1>20. ASSUME NEW g \in Goroutines, Stores(g) PROVE Goal
  <2>1. /\ \A h \in Goroutines : h # g => req'[h] = req[h]
        /\ \/ req'[g] = Idle
           \/ /\ req'[g].id = req[g].id
              /\ \/ req'[g].pc = "lookup" /\ req[g].pc = "reconcile"
                 \/ req'[g].pc = "touch"
                 \/ req'[g].pc = "capTryAdmit" /\ req[g].pc = "lookup"
                      /\ req[g].id \notin Known /\ UNCHANGED <<line, inside>>
                 \/ req'[g].pc = "enqueue" /\ req[g].pc = "tryadmit" /\ UNCHANGED room
    BY <1>20, StoresStep DEF IInv, Same
  <2>2. d2 <= d \/ (d2 = d + 1 /\ Again(g, id))
    BY <1>1, <1>20, StoresTally DEF d, d2
  <2>3. req[g].pc \in {"reconcile", "lookup", "touch", "tryadmit", "enqueue"}
    BY <1>20 DEF Stores, CallReconcile, CallLookup, CallTouch, CallTryAdmit, CallEnqueue,
                 StoreError, At
  <2>4. Known' \subseteq Known \cup New(g)
    BY <1>20, StoresEffect DEF IInv, Effect
  <2>5. CASE g \in P /\ g \notin P2
    <3>1. P2 = P \ {g}
      BY <1>13, <1>14, <1>20, <2>1, <2>5
    <3>2. CASE d2 <= d
      <4>1. Fits(d2, o2, P \ {g}, E2, k2)
        BY ONLY <1>1, <1>6, <1>7, <2>5, <3>2, FitsGone
      <4> QED BY <3>1, <4>1
    <3>3. CASE d2 = d + 1 /\ Again(g, id)
      <4>1. req[g].pc = "tryadmit" /\ k /\ req'[g] = Idle
        BY <3>3 DEF Again, Known, k
      <4>2. g \notin E /\ g \notin E2
        BY <1>17, <4>1 DEF Asking, Gate, Idle
      <4>3. E2 = E
        BY <1>16, <1>20, <2>1, <4>2
      <4>4. Fits(d + 1, o2, P \ {g}, E, k2)
        BY ONLY <1>1, <1>6, <1>7, <1>14, <2>5, <4>1, <4>2, FitsCounted
      <4> QED BY <3>1, <3>3, <4>3, <4>4
    <3> QED BY <2>2, <3>2, <3>3
  <2>6. CASE g \in P /\ g \in P2
    <3>1. req[g].id = id /\ g \in Requests /\ req'[g] # Idle
      BY <1>17, <2>6 DEF Idle, Asking, Gate
    <3>2. P2 = P
      BY <1>15, <1>20, <2>1, <2>6
    <3>3. ~Again(g, id)
      BY <3>1 DEF Again
    <3>4. d2 <= d
      BY <2>2, <3>3
    <3>5. CASE req'[g].pc = "lookup" /\ req[g].pc = "reconcile"
      <4>1. E2 # {}
        BY <1>17, <2>1, <3>1, <3>5 DEF Asking, Gate
      <4> QED BY <1>9, <3>2, <3>4, <4>1
    <3>6. CASE req'[g].pc = "capTryAdmit" /\ req[g].id \notin Known /\ UNCHANGED <<line, inside>>
      <4>1. ~k2
        BY <3>1, <3>6 DEF Known, k2
      <4> QED BY <1>9, <3>2, <3>4, <4>1
    <3>7. CASE req'[g].pc = "enqueue"
      <4>1. E2 # {}
        BY <1>17, <2>1, <3>1, <3>7 DEF Asking, Idle
      <4> QED BY <1>9, <3>2, <3>4, <4>1
    <3>8. req'[g].pc # "touch"
      BY <1>17, <2>6 DEF Asking, Gate
    <3> QED BY <2>1, <3>1, <3>5, <3>6, <3>7, <3>8
  <2>7. CASE g \notin P
    <3>1. g \notin Requests \/ req[g].id # id \/ req[g].pc = "touch"
      BY <1>17, <2>3, <2>7 DEF Asking, Gate
    <3>2. k2 => k
      BY <1>20, <2>4, <3>1, KnownByAsking DEF New, k, k2
    <3>3. g \notin P2 /\ g \notin E
      BY <1>14, <1>17, <2>1, <2>3, <3>1, <2>7 DEF Asking, Gate, Idle
    <3>4. P2 = P
      BY <1>15, <1>20, <2>1, <2>7, <3>3
    <3>5. E2 = E
      BY <1>14, <1>16, <1>20, <2>1, <3>3
    <3>6. ~Again(g, id)
      BY <3>1 DEF Again
    <3>7. d2 <= d
      BY <2>2, <3>6
    <3> QED BY <1>9, <3>2, <3>4, <3>5, <3>7
  <2> QED BY <2>5, <2>6, <2>7
<1> QED BY <1>11, <1>12, <1>18, <1>19, <1>20, StepCases

(***************************************************************************)
(* An admission escapes the count only when its call failed.               *)
(***************************************************************************)
LEMMA MissedStep ==
  ASSUME IInv, Step, \A id \in Ids : -failures <= drift[id]
  PROVE  \A id \in Ids : -failures' <= drift'[id]
<1>1. failures \in Nat /\ \A id \in Ids : drift[id] \in Int /\ -failures <= drift[id]
  BY AdmissionAssumption DEF IInv, Tallies
<1>2. ASSUME NEW g \in Goroutines, Stores(g) PROVE \A id \in Ids : -failures' <= drift'[id]
  BY <1>1, <1>2, StoresTally
<1> QED BY <1>1, <1>2, NextTallies

(***************************************************************************)
(* The metrics miss no more admissions of a ticket than calls failed, and  *)
(* count no more too often than its requests overlapped.                   *)
(***************************************************************************)
THEOREM CountsBounded == Spec => []CountSkew
<1> DEFINE Skew == \A id \in Ids : -failures <= drift[id] /\ Tally(id)
<1>1. Init => Skew
  <2> SUFFICES ASSUME Init, NEW id \in Ids PROVE -failures <= drift[id] /\ Tally(id)
    OBVIOUS
  <2>1. Pending(id) = {} /\ id \notin Known
    BY DEF Init, RoomInit, Pending, Asking, Gate, Idle, Goroutines, Known, Waiting
  <2>2. Cardinality(Pending(id)) = 0
    BY <2>1, FS_EmptySet
  <2>3. drift[id] = 0 /\ overlaps[id] = 0 /\ failures = 0
    BY DEF Init
  <2> QED BY <2>1, <2>2, <2>3 DEF Tally, Fits
<1>2. IInv /\ Skew /\ [Next]_vars => Skew'
  <2> SUFFICES ASSUME IInv, Skew, [Next]_vars PROVE Skew'
    OBVIOUS
  <2>1. CASE UNCHANGED vars
    <3>1. \A id \in Ids : Pending(id)' = Pending(id) /\ Early(id)' = Early(id) /\ Known' = Known
      BY <2>1 DEF vars, room, controller, Pending, Early, Known
    <3>2. \A id \in Ids : Tally(id)'
      BY <2>1, <3>1 DEF Tally, vars, history
    <3> QED BY <2>1, <3>2 DEF vars, history
  <2>2. CASE Next
    <3>1. Step
      BY <2>2 DEF Next
    <3>2. \A id \in Ids : Tally(id)'
      BY <3>1, TallyStep
    <3> QED BY <3>1, <3>2, MissedStep
  <2> QED BY <2>1, <2>2
<1>3. Skew => CountSkew
  BY DEF Tally, Fits, CountSkew
<1> QED BY <1>1, <1>2, <1>3, AdmissionInvariant, PTL DEF Spec
=============================================================================
