-------------------------- MODULE MemoryStoreProofs -------------------------
(***************************************************************************)
(* Proofs about the in-memory store, for every finite set of tickets, all  *)
(* clock readings, capacities, TTLs and numbers of enqueued tickets; then  *)
(* about the slice of holes and its bisections, of any length, and about   *)
(* the store that keeps the slice in the place of the set.                 *)
(***************************************************************************)
EXTENDS MemoryStore, HoleList, LinesProofs

(***************************************************************************)
(* The inductive invariant: the sequence numbers say nothing about the     *)
(* line unless the list, the map and the counter agree, and they are       *)
(* renumbered by nobody, so all three parts are needed at once.            *)
(***************************************************************************)
IInv == TypeOK /\ Consistent /\ SeqPartition

Queued == {id \in Ids : entries[id].status = "queued"}

(***************************************************************************)
(* A new store (memory.New) satisfies the invariant.                       *)
(***************************************************************************)
LEMMA InitIInv == Init => IInv
  <1> SUFFICES ASSUME Init PROVE IInv
    OBVIOUS
  <1> USE MemoryAssumption DEF Init
  <1>1. TypeOK
    BY DEF TypeOK, Entry, Unknown
  <1>2. Consistent
    <2>1. Active = {}
      BY DEF Active, Unknown
    <2>2. active = Cardinality(Active)
      BY <2>1, FS_EmptySet
    <2>3. {queue[i] : i \in DOMAIN queue} = {id \in Ids : entries[id].status = "queued"}
      BY DEF Unknown
    <2>4. QED BY <2>2, <2>3 DEF Consistent
  <1>3. SeqPartition
    BY DEF SeqPartition
  <1>4. QED BY <1>1, <1>2, <1>3 DEF IInv

(***************************************************************************)
(* Writing a heartbeat (TryAdmit of an active ticket, Enqueue of a known   *)
(* one, Lookup, Touch) disturbs nothing but the heartbeat.                 *)
(***************************************************************************)
LEMMA RefreshIInv ==
  ASSUME IInv, NEW id \in Ids, NEW now \in Times,
         entries' = Refreshed(id, now),
         UNCHANGED <<queue, active, avgSession, override, nextSeq, holes>>
  PROVE  IInv'
  <1> USE MemoryAssumption DEF IInv
  <1>1. /\ entries' \in [Ids -> Entry]
        /\ \A x \in Ids : /\ entries'[x].status = entries[x].status
                          /\ entries'[x].seq = entries[x].seq
    BY DEF TypeOK, Entry, Refreshed
  <1>2. TypeOK'
    BY <1>1 DEF TypeOK
  <1>3. Active' = Active
    BY <1>1 DEF Active
  <1>4. Consistent'
    BY <1>1, <1>3 DEF Consistent, TypeOK
  <1>5. \A i \in DOMAIN queue : queue[i] \in Ids
    BY DEF TypeOK
  <1>6. SeqPartition'
    <2>1. {entries'[queue[i]].seq : i \in DOMAIN queue} = {entries[queue[i]].seq : i \in DOMAIN queue}
      BY <1>1, <1>5
    <2>2. queue # <<>> => Front' = Front
      BY <1>1, <1>5 DEF Front, TypeOK
    <2>3. QED BY <1>1, <1>5, <2>1, <2>2 DEF SeqPartition
  <1>7. QED BY <1>2, <1>4, <1>6

(***************************************************************************)
(* TryAdmit of a ticket that is let in: with nobody waiting the ticket was *)
(* unknown, and the counter moves with the set it counts.                  *)
(***************************************************************************)
LEMMA AdmitIInv ==
  ASSUME IInv, NEW id \in Ids \ Active, NEW now \in Times, queue = <<>>,
         entries' = [entries EXCEPT ![id] = Admitted(entries[id], now)],
         active' = active + 1,
         UNCHANGED <<queue, avgSession, override, nextSeq, holes>>
  PROVE  IInv'
  <1> USE MemoryAssumption DEF IInv
  <1>1. /\ entries' \in [Ids -> Entry]
        /\ entries'[id].status = "active"
        /\ \A x \in Ids \ {id} : entries'[x] = entries[x]
    BY DEF TypeOK, Entry, Admitted
  <1>2. TypeOK'
    BY <1>1 DEF TypeOK
  <1>3. Active' = Active \cup {id}
    BY <1>1 DEF Active
  <1>4. IsFiniteSet(Active)
    BY FS_Subset DEF Active
  <1>5. Cardinality(Active') = Cardinality(Active) + 1
    BY <1>3, <1>4, FS_AddElement
  <1>6. Queued = {} /\ Queued' = {}
    BY <1>1 DEF Consistent, Queued
  <1>7. Consistent'
    BY <1>5, <1>6 DEF Consistent, Queued
  <1>8. SeqPartition'
    BY DEF SeqPartition
  <1>9. QED BY <1>2, <1>7, <1>8

(***************************************************************************)
(* Enqueue of an unknown ticket: it takes the next number and the last     *)
(* place in the list.                                                      *)
(***************************************************************************)
LEMMA AppendIInv ==
  ASSUME IInv, NEW id \in Ids, NEW now \in Times,
         entries[id].status = "unknown", nextSeq < MaxSeq,
         nextSeq' = nextSeq + 1,
         entries' = [entries EXCEPT ![id] =
           [status |-> "queued", since |-> now, lastSeen |-> now, seq |-> nextSeq']],
         queue' = Append(queue, id),
         UNCHANGED <<active, avgSession, override, holes>>
  PROVE  IInv'
  <1> USE MemoryAssumption DEF IInv
  <1>1. /\ entries' \in [Ids -> Entry]
        /\ entries'[id].status = "queued"
        /\ entries'[id].seq = nextSeq + 1
        /\ \A x \in Ids \ {id} : entries'[x] = entries[x]
    BY DEF TypeOK, Entry
  <1>2. /\ queue' \in Seq(Ids)
        /\ Len(queue') = Len(queue) + 1
        /\ Len(queue) \in Nat
        /\ queue'[Len(queue) + 1] = id
        /\ \A i \in DOMAIN queue : queue'[i] = queue[i]
        /\ DOMAIN queue = 1..Len(queue)
        /\ DOMAIN queue' = 1..(Len(queue) + 1)
    BY DEF TypeOK
  <1>3. \A i \in DOMAIN queue : queue[i] \in Ids /\ queue[i] # id
    BY DEF TypeOK, Consistent
  <1>4. TypeOK'
    BY <1>1, <1>2 DEF TypeOK
  <1>5. Active' = Active
    BY <1>1 DEF Active
  <1>6. Consistent'
    <2>1. {queue'[i] : i \in DOMAIN queue'} = {queue[i] : i \in DOMAIN queue} \cup {id}
      BY <1>2
    <2>2. Queued' = Queued \cup {id}
      BY <1>1 DEF Queued
    <2>3. \A i, j \in DOMAIN queue' : i # j => queue'[i] # queue'[j]
      BY <1>2, <1>3 DEF Consistent
    <2>4. QED BY <1>5, <2>1, <2>2, <2>3 DEF Consistent, Queued
  <1>7. SeqPartition'
    <2>1. \A i \in DOMAIN queue : entries'[queue'[i]].seq = entries[queue[i]].seq
      BY <1>1, <1>2, <1>3
    <2>2. \A i \in DOMAIN queue : entries[queue[i]].seq \in Nat /\ entries[queue[i]].seq <= nextSeq
      <3> SUFFICES ASSUME NEW i \in DOMAIN queue
                   PROVE  entries[queue[i]].seq \in Nat /\ entries[queue[i]].seq <= nextSeq
        OBVIOUS
      <3>1. queue # <<>> /\ entries[queue[i]].seq \in Front..nextSeq
        BY DEF SeqPartition
      <3>2. entries[queue[i]].seq \in Nat
        BY <1>3 DEF TypeOK, Entry
      <3>3. QED BY <3>1, <3>2 DEF TypeOK
    <2>3. \A i, j \in DOMAIN queue' : i < j => entries'[queue'[i]].seq < entries'[queue'[j]].seq
      <3> SUFFICES ASSUME NEW i \in DOMAIN queue', NEW j \in DOMAIN queue', i < j
                   PROVE  entries'[queue'[i]].seq < entries'[queue'[j]].seq
        OBVIOUS
      <3>1. i \in DOMAIN queue
        BY <1>2
      <3>2. CASE j \in DOMAIN queue
        BY <2>1, <3>1, <3>2 DEF SeqPartition
      <3>3. CASE j = Len(queue) + 1
        BY <1>1, <1>2, <2>1, <2>2, <3>1, <3>3 DEF TypeOK
      <3>4. QED BY <1>2, <3>2, <3>3
    <2> DEFINE live == {entries[queue[i]].seq : i \in DOMAIN queue}
               live1 == {entries'[queue'[i]].seq : i \in DOMAIN queue'}
    <2>4. live1 = live \cup {nextSeq + 1}
      BY <1>1, <1>2, <2>1
    <2>5. nextSeq \in Nat /\ \A h \in holes : h \in Nat /\ h <= nextSeq
      <3>1. CASE queue = <<>>
        BY <3>1 DEF SeqPartition, TypeOK
      <3>2. CASE queue # <<>>
        <4>1. holes \subseteq Front..nextSeq
          BY <3>2 DEF SeqPartition
        <4>2. QED BY <4>1 DEF TypeOK
      <3>3. QED BY <3>1, <3>2
    <2>6. live1 \cap holes = {}
      <3>1. live \cap holes = {}
        BY DEF SeqPartition
      <3>2. nextSeq + 1 \notin holes
        BY <2>5
      <3>3. QED BY <2>4, <3>1, <3>2
    <2>7. queue' # <<>> /\ live1 \cup holes = Front'..nextSeq'
      <3>1. queue' # <<>>
        BY <1>2
      <3>2. CASE queue = <<>>
        <4>1. live = {} /\ holes = {}
          BY <3>2 DEF SeqPartition
        <4>2. Front' = nextSeq + 1
          BY <1>1, <1>2, <3>2 DEF Front
        <4>3. (nextSeq + 1)..(nextSeq + 1) = {nextSeq + 1}
          BY <2>5
        <4>4. QED BY <2>4, <3>1, <4>1, <4>2, <4>3
      <3>3. CASE queue # <<>>
        <4>1. Front' = Front /\ Front \in Nat /\ Front <= nextSeq
          BY <1>2, <2>1, <2>2, <3>3 DEF Front
        <4>2. live \cup holes = Front..nextSeq
          BY <3>3 DEF SeqPartition
        <4>3. Front..(nextSeq + 1) = (Front..nextSeq) \cup {nextSeq + 1}
          BY <2>5, <4>1
        <4>4. live1 \cup holes = Front..(nextSeq + 1)
          BY <2>4, <4>2, <4>3
        <4>5. QED BY <3>1, <4>1, <4>4
      <3>4. QED BY <3>2, <3>3
    <2>8. QED BY <2>3, <2>6, <2>7 DEF SeqPartition
  <1>8. QED BY <1>4, <1>6, <1>7

(***************************************************************************)
(* Flush forgets exactly the waiters.                                      *)
(***************************************************************************)
LEMMA FlushIInv == IInv /\ Flush => IInv'
  <1> SUFFICES ASSUME IInv, Flush PROVE IInv'
    OBVIOUS
  <1> USE MemoryAssumption DEF IInv
  <1>1. {queue[i] : i \in DOMAIN queue} = Queued
    BY DEF Consistent, Queued
  <1>2. entries' = [x \in Ids |-> IF x \in Queued THEN Unknown ELSE entries[x]]
    BY <1>1 DEF Flush
  <1>3. TypeOK'
    BY <1>2 DEF TypeOK, Entry, Unknown, Flush
  <1>4. Active' = Active
    BY <1>2 DEF Active, Queued, Unknown
  <1>5. Queued' = {}
    BY <1>2 DEF Queued, Unknown
  <1>6. Consistent'
    <2>1. queue' = <<>> /\ active' = active
      BY DEF Flush
    <2>2. {queue'[i] : i \in DOMAIN queue'} = {}
      BY <2>1
    <2>3. active' = Cardinality(Active')
      BY <1>4, <2>1 DEF Consistent
    <2>4. QED BY <1>5, <2>1, <2>2, <2>3 DEF Consistent, Queued
  <1>7. SeqPartition'
    BY DEF SeqPartition, Flush
  <1>8. QED BY <1>3, <1>6, <1>7

-----------------------------------------------------------------------------
(* Reconcile *)

Ghosts(now) == {queue[i] : i \in GhostPositions(now)}

(***************************************************************************)
(* A reconcile pass seen from the kept queue `alive`, whose i-th waiter    *)
(* stood at position p[i], when the first n of them are promoted.          *)
(***************************************************************************)
Pass(capacity, now, alive, n, p) ==
  /\ alive \in Filtered(queue, DOMAIN queue \ GhostPositions(now))
  /\ alive \in Seq(Ids)
  /\ Len(alive) \in Nat
  /\ n \in 0..Len(alive)
  /\ n = Lesser(Greater(capacity - (active - Cardinality(Expired(now))), 0), Len(alive))
  /\ Selects(alive, queue, DOMAIN queue \ GhostPositions(now), p)
  /\ entries' = [id \in Ids |-> IF id \in Expired(now) \cup Ghosts(now) THEN Unknown
                                 ELSE IF id \in {alive[i] : i \in 1..n} THEN Admitted(entries[id], now)
                                 ELSE entries[id]]
  /\ queue' = SubSeq(alive, n + 1, Len(alive))
  /\ active' = (active - Cardinality(Expired(now))) + n
  /\ avgSession' \in Blend(avgSession, Durations(Expired(now)))
  /\ holes' = Pruned(holes \cup {entries[queue[i]].seq : i \in GhostPositions(now)}, queue', entries')
  /\ UNCHANGED <<override, nextSeq>>

(***************************************************************************)
(* What Reconcile does, step by step as in memory.go: some order-          *)
(* preserving selection of the line survives the eviction of ghosts, its   *)
(* first n elements are promoted and the rest is the new line.             *)
(***************************************************************************)
LEMMA ReconcileIsPass ==
  ASSUME IInv, NEW capacity \in Capacities, NEW now \in Times, Reconcile(capacity, now)
  PROVE  \E alive, n, p : Pass(capacity, now, alive, n, p)
  <1> DEFINE K == DOMAIN queue \ GhostPositions(now)
             staying == active - Cardinality(Expired(now))
             free == Greater(capacity - staying, 0)
  <1>1. PICK alive \in Filtered(queue, K) :
          LET n == Lesser(free, Len(alive))
              promoted == {alive[i] : i \in 1..n}
          IN /\ entries' = [id \in Ids |-> IF id \in Expired(now) \cup Ghosts(now) THEN Unknown
                                           ELSE IF id \in promoted THEN Admitted(entries[id], now)
                                           ELSE entries[id]]
             /\ queue' = SubSeq(alive, n + 1, Len(alive))
             /\ active' = staying + n
             /\ avgSession' \in Blend(avgSession, Durations(Expired(now)))
             /\ holes' = Pruned(holes \cup {entries[queue[i]].seq : i \in GhostPositions(now)}, queue', entries')
             /\ UNCHANGED <<override, nextSeq>>
    BY Zenon DEF Reconcile, Ghosts
  <1> DEFINE n == Lesser(free, Len(alive))
  <1>2. /\ alive \in Seq(Ids)
        /\ Len(alive) \in Nat
        /\ \E p : Selects(alive, queue, K, p)
    <2>1. queue \in Seq(Ids) /\ K \in SUBSET DOMAIN queue
      BY DEF IInv, TypeOK
    <2>2. alive \in Filtered(queue, K)
      OBVIOUS
    <2> HIDE DEF K
    <2>3. QED BY <2>1, <2>2, FilteredIsOrdered
  <1>3. PICK p : Selects(alive, queue, K, p)
    BY <1>2
  <1>4. n \in 0..Len(alive)
    <2>1. Cardinality(Expired(now)) \in Nat
      <3>1. IsFiniteSet(Expired(now))
        BY MemoryAssumption, FS_Subset DEF Expired, Active
      <3>2. QED BY <3>1, FS_CardinalityType
    <2>2. capacity - staying \in Int
      BY <2>1, MemoryAssumption DEF IInv, TypeOK
    <2> HIDE DEF staying
    <2>3. free \in Nat
      BY <2>2 DEF Greater
    <2> HIDE DEF free
    <2>4. QED BY <1>2, <2>3 DEF Lesser
  <1>5. Pass(capacity, now, alive, n, p)
    BY <1>1, <1>2, <1>3, <1>4 DEF Pass
  <1>6. QED BY <1>5

(***************************************************************************)
(* What a pass does to each ticket: `alive` lists the waiters that are not *)
(* ghosts, each once; the first n are admitted, the others keep their      *)
(* entries and are the new queue.                                          *)
(***************************************************************************)
Outcome(now, alive, n) ==
  /\ \A i \in 1..Len(alive) : /\ alive[i] \in Queued
                              /\ alive[i] \notin Ghosts(now)
                              /\ alive[i] \notin Expired(now)
  /\ \A i, j \in 1..Len(alive) : i # j => alive[i] # alive[j]
  /\ \A id \in Queued \ Ghosts(now) : \E i \in 1..Len(alive) : alive[i] = id
  /\ \A i \in 1..n : entries'[alive[i]] = Admitted(entries[alive[i]], now)
  /\ \A i \in (n+1)..Len(alive) : entries'[alive[i]] = entries[alive[i]]
  /\ Len(queue') = Len(alive) - n
  /\ DOMAIN queue' = 1..(Len(alive) - n)
  /\ queue' \in Seq(Ids)
  /\ \A i \in 1..(Len(alive) - n) : queue'[i] = alive[i + n]

(***************************************************************************)
(* After a pass every ticket is in exactly one place: forgotten,           *)
(* promoted, still waiting, or untouched.                                  *)
(***************************************************************************)
LEMMA PassTickets ==
  ASSUME IInv, NEW capacity \in Capacities, NEW now \in Times,
         NEW alive, NEW n, NEW p, Pass(capacity, now, alive, n, p)
  PROVE  Outcome(now, alive, n)
  <1> USE DEF IInv
  <1>1. \A i \in 1..Len(alive) : p[i] \in DOMAIN queue /\ p[i] \notin GhostPositions(now)
    BY DEF Pass, Selects
  <1>2. \A i, j \in DOMAIN queue : queue[i] = queue[j] => i = j
    BY DEF Consistent
  <1>3. \A i \in DOMAIN queue : queue[i] \in Queued
    BY DEF Consistent, Queued
  <1>4. \A i \in 1..Len(alive) : /\ alive[i] \in Queued
                                 /\ alive[i] \notin Ghosts(now)
                                 /\ alive[i] \notin Expired(now)
    <2> SUFFICES ASSUME NEW i \in 1..Len(alive)
                 PROVE  /\ alive[i] \in Queued
                        /\ alive[i] \notin Ghosts(now)
                        /\ alive[i] \notin Expired(now)
      OBVIOUS
    <2>1. alive[i] = queue[p[i]]
      BY DEF Pass, Selects
    <2>2. alive[i] \in Queued
      BY <1>1, <1>3, <2>1
    <2>3. alive[i] \notin Ghosts(now)
      BY <1>1, <1>2, <2>1 DEF Ghosts, GhostPositions
    <2>4. alive[i] \notin Expired(now)
      BY <2>2 DEF Queued, Expired, Active
    <2>5. QED BY <2>2, <2>3, <2>4
  <1>5. \A i, j \in 1..Len(alive) : i # j => alive[i] # alive[j]
    <2>1. /\ Len(alive) \in Nat
          /\ \A i, j \in 1..Len(alive) : i < j => p[i] < p[j]
          /\ \A i \in 1..Len(alive) : alive[i] = queue[p[i]]
      BY DEF Pass, Selects
    <2>2. \A i \in 1..Len(alive) : p[i] \in Int
      BY <1>1 DEF TypeOK
    <2>3. \A i, j \in 1..Len(alive) : i < j => alive[i] # alive[j]
      BY <1>1, <1>2, <2>1, <2>2
    <2>4. QED BY <2>1, <2>3
  <1>6. \A id \in Queued \ Ghosts(now) : \E i \in 1..Len(alive) : alive[i] = id
    <2> SUFFICES ASSUME NEW id \in Queued \ Ghosts(now)
                 PROVE  \E i \in 1..Len(alive) : alive[i] = id
      OBVIOUS
    <2>1. PICK k \in DOMAIN queue : queue[k] = id
      BY DEF Consistent, Queued
    <2>2. k \in DOMAIN queue \ GhostPositions(now)
      BY <2>1 DEF Ghosts
    <2>3. QED BY <2>1, <2>2 DEF Pass, Selects
  <1>7. n \in Nat /\ n <= Len(alive) /\ Len(alive) \in Nat /\ alive \in Seq(Ids)
    BY DEF Pass
  <1>8. \A i \in 1..n : entries'[alive[i]] = Admitted(entries[alive[i]], now)
    <2> SUFFICES ASSUME NEW i \in 1..n
                 PROVE  entries'[alive[i]] = Admitted(entries[alive[i]], now)
      OBVIOUS
    <2>1. i \in 1..Len(alive) /\ alive[i] \in Ids
      BY <1>4, <1>7 DEF Queued
    <2>2. QED BY <1>4, <2>1 DEF Pass
  <1>9. \A i \in (n+1)..Len(alive) : entries'[alive[i]] = entries[alive[i]]
    <2> SUFFICES ASSUME NEW i \in (n+1)..Len(alive)
                 PROVE  entries'[alive[i]] = entries[alive[i]]
      OBVIOUS
    <2>1. i \in 1..Len(alive) /\ alive[i] \in Ids
      BY <1>4, <1>7 DEF Queued
    <2>2. alive[i] \notin {alive[j] : j \in 1..n}
      <3>1. \A j \in 1..n : j \in 1..Len(alive) /\ j # i
        BY <1>7
      <3>2. QED BY <1>5, <2>1, <3>1
    <2>3. QED BY <1>4, <2>1, <2>2 DEF Pass
  <1>10. /\ Len(queue') = Len(alive) - n
         /\ DOMAIN queue' = 1..(Len(alive) - n)
         /\ queue' \in Seq(Ids)
         /\ \A i \in 1..(Len(alive) - n) : queue'[i] = alive[i + n]
    BY <1>7 DEF Pass
  <1>11. QED BY <1>4, <1>5, <1>6, <1>8, <1>9, <1>10 DEF Outcome

Promoted(alive, n) == {alive[i] : i \in 1..n}

(***************************************************************************)
(* A pass moves the counter with the set it counts: idle sessions leave,   *)
(* promoted ones enter.                                                    *)
(***************************************************************************)
LEMMA PassActive ==
  ASSUME IInv, NEW capacity \in Capacities, NEW now \in Times,
         NEW alive, NEW n, NEW p, Pass(capacity, now, alive, n, p)
  PROVE  /\ Active' = (Active \ Expired(now)) \cup Promoted(alive, n)
         /\ Cardinality(Active \ Expired(now)) = active - Cardinality(Expired(now))
         /\ active' = Cardinality(Active')
         /\ Cardinality(Expired(now)) \in Nat
  <1> DEFINE promoted == {alive[i] : i \in 1..n}
             staying == Active \ Expired(now)
  <1>1. n \in Nat /\ n <= Len(alive) /\ Len(alive) \in Nat
    BY DEF Pass
  <1>2. /\ \A i \in 1..Len(alive) : /\ alive[i] \in Queued
                                     /\ alive[i] \notin Ghosts(now)
                                     /\ alive[i] \notin Expired(now)
        /\ \A i, j \in 1..Len(alive) : i # j => alive[i] # alive[j]
        /\ \A i \in 1..n : entries'[alive[i]] = Admitted(entries[alive[i]], now)
    BY PassTickets DEF Outcome
  <1>3. \A i \in 1..n : i \in 1..Len(alive)
    BY <1>1
  <1>4. \A id \in promoted : /\ id \in Ids
                             /\ entries[id].status = "queued"
                             /\ entries'[id].status = "active"
    <2> SUFFICES ASSUME NEW i \in 1..n
                 PROVE  /\ alive[i] \in Ids
                        /\ entries[alive[i]].status = "queued"
                        /\ entries'[alive[i]].status = "active"
      OBVIOUS
    <2>1. alive[i] \in Queued
      BY <1>2, <1>3
    <2>2. entries[alive[i]] \in Entry
      BY <2>1 DEF Queued, IInv, TypeOK
    <2>3. QED BY <1>2, <2>1, <2>2 DEF Queued, Admitted, Entry
  <1>5. \A id \in Ids \ promoted : entries'[id].status = "active" <=> id \in staying
    <2> SUFFICES ASSUME NEW id \in Ids \ promoted
                 PROVE  entries'[id].status = "active" <=> id \in staying
      OBVIOUS
    <2>1. entries'[id] = IF id \in Expired(now) \cup Ghosts(now) THEN Unknown ELSE entries[id]
      BY DEF Pass
    <2>2. id \in Ghosts(now) => id \notin Active
      BY DEF Ghosts, GhostPositions, IInv, Consistent, Active
    <2>3. QED BY <2>1, <2>2 DEF Unknown, Active
  <1>6. Active' = staying \cup promoted
    BY <1>4, <1>5 DEF Active
  <1>7. IsFiniteSet(Active) /\ IsFiniteSet(Expired(now)) /\ Expired(now) \subseteq Active
    BY MemoryAssumption, FS_Subset DEF Active, Expired
  <1>8. IsFiniteSet(staying) /\ Cardinality(staying) = active - Cardinality(Expired(now))
    <2>1. Active \cap Expired(now) = Expired(now)
      BY <1>7
    <2>2. QED BY <1>7, <2>1, FS_Difference DEF IInv, Consistent
  <1>9. IsFiniteSet(promoted) /\ Cardinality(promoted) = n
    <2>1. \A i, j \in 1..n : i # j => alive[i] # alive[j]
      BY <1>2, <1>3
    <2>2. QED BY <1>1, <2>1, CountDistinct
  <1>10. staying \cap promoted = {}
    BY <1>4 DEF Active
  <1>11. Cardinality(Active') = Cardinality(staying) + n
    <2>1. Cardinality(staying \cup promoted) = Cardinality(staying) + Cardinality(promoted) - Cardinality({})
      BY <1>8, <1>9, <1>10, FS_Union
    <2>2. Cardinality(staying) \in Nat
      BY <1>8, FS_CardinalityType
    <2>3. Cardinality({}) = 0
      BY FS_EmptySet
    <2> HIDE DEF staying, promoted
    <2>4. QED BY <1>1, <1>6, <1>9, <2>1, <2>2, <2>3
  <1>12. active' = (active - Cardinality(Expired(now))) + n
    BY DEF Pass
  <1>13. QED BY <1>6, <1>7, <1>8, <1>11, <1>12, FS_CardinalityType DEF Promoted

(***************************************************************************)
(* A pass preserves the invariant.                                         *)
(***************************************************************************)
LEMMA ReconcileIInv ==
  ASSUME IInv, NEW capacity \in Capacities, NEW now \in Times, Reconcile(capacity, now)
  PROVE  IInv'
  <1> USE MemoryAssumption
  <1>1. PICK alive, n, p : Pass(capacity, now, alive, n, p)
    BY ReconcileIsPass
  <1>2. n \in Nat /\ n <= Len(alive) /\ Len(alive) \in Nat
    BY <1>1 DEF Pass
  <1>3. /\ \A i \in 1..Len(alive) : /\ alive[i] \in Queued
                                     /\ alive[i] \notin Ghosts(now)
                                     /\ alive[i] \notin Expired(now)
        /\ \A i, j \in 1..Len(alive) : i # j => alive[i] # alive[j]
        /\ \A id \in Queued \ Ghosts(now) : \E i \in 1..Len(alive) : alive[i] = id
        /\ \A i \in 1..n : entries'[alive[i]] = Admitted(entries[alive[i]], now)
        /\ \A i \in (n+1)..Len(alive) : entries'[alive[i]] = entries[alive[i]]
        /\ Len(queue') = Len(alive) - n
        /\ DOMAIN queue' = 1..(Len(alive) - n)
        /\ queue' \in Seq(Ids)
        /\ \A i \in 1..(Len(alive) - n) : queue'[i] = alive[i + n]
    <2>1. Outcome(now, alive, n)
      BY <1>1, PassTickets
    <2>2. QED BY <2>1 DEF Outcome
  <1>4. \A i \in DOMAIN queue' : /\ i + n \in (n+1)..Len(alive)
                                 /\ i + n \in 1..Len(alive)
                                 /\ queue'[i] = alive[i + n]
                                 /\ entries'[queue'[i]] = entries[alive[i + n]]
    BY <1>2, <1>3
  <1>5. active' = Cardinality(Active')
    BY <1>1, PassActive
  <1>6. \A i \in 1..Len(alive), h \in 1..Len(alive) :
           i < h => entries[alive[i]].seq < entries[alive[h]].seq
    <2>1. /\ \A i, j \in 1..Len(alive) : i < j => p[i] < p[j]
          /\ \A i \in 1..Len(alive) : p[i] \in DOMAIN queue /\ alive[i] = queue[p[i]]
      BY <1>1 DEF Pass, Selects
    <2>2. QED BY <2>1 DEF IInv, SeqPartition
  <1>7. TypeOK'
    <2>1. entries' \in [Ids -> Entry]
      <3>1. \A id \in Ids : Admitted(entries[id], now) \in Entry
        BY DEF IInv, TypeOK, Entry, Admitted
      <3>2. Unknown \in Entry
        BY DEF Unknown, Entry
      <3>3. QED BY <1>1, <3>1, <3>2 DEF Pass, IInv, TypeOK
    <2>2. active' \in Int
      <3>1. IsFiniteSet(Active')
        BY FS_Subset DEF Active
      <3>2. QED BY <1>5, <3>1, FS_CardinalityType
    <2>3. avgSession' \in {-1, 0, 1}
      <3>1. \A x : Sign(x) \in {-1, 0, 1}
        BY DEF Sign
      <3>2. QED BY <1>1, <3>1 DEF Pass, Blend
    <2>4. holes' \subseteq 0..MaxSeq
      <3>1. \A i \in DOMAIN queue : entries[queue[i]].seq \in 0..MaxSeq
        <4> SUFFICES ASSUME NEW i \in DOMAIN queue PROVE entries[queue[i]].seq \in 0..MaxSeq
          OBVIOUS
        <4>1. queue # <<>> /\ entries[queue[i]].seq \in Front..nextSeq
          BY DEF IInv, SeqPartition
        <4>2. entries[queue[i]].seq \in Nat
          BY DEF IInv, TypeOK, Entry
        <4>3. nextSeq \in 0..MaxSeq
          BY DEF IInv, TypeOK
        <4>4. QED BY <4>1, <4>2, <4>3
      <3>2. holes' \subseteq holes \cup {entries[queue[i]].seq : i \in GhostPositions(now)}
        BY <1>1 DEF Pass, Pruned
      <3>3. QED BY <3>1, <3>2 DEF IInv, TypeOK, GhostPositions
    <2>5. QED BY <1>1, <1>3, <2>1, <2>2, <2>3, <2>4 DEF TypeOK, IInv, Pass
  <1>8. Consistent'
    <2>1. \A id \in Ids : id \in Queued' <=> id \in {queue'[i] : i \in DOMAIN queue'}
      <3> SUFFICES ASSUME NEW id \in Ids
                   PROVE  id \in Queued' <=> id \in {queue'[i] : i \in DOMAIN queue'}
        OBVIOUS
      <3>1. ASSUME id \in Queued' PROVE id \in {queue'[i] : i \in DOMAIN queue'}
        <4>1. entries'[id].status = "queued"
          BY <3>1 DEF Queued
        <4>2. id \notin Ghosts(now) /\ id \in Queued /\ id \notin {alive[i] : i \in 1..n}
          <5>1. id \notin Expired(now) \cup Ghosts(now)
            BY <1>1, <4>1 DEF Pass, Unknown
          <5>2. entries[id] \in Entry
            BY DEF IInv, TypeOK
          <5>3. Admitted(entries[id], now).status = "active"
            BY <5>2 DEF Admitted, Entry
          <5>4. id \notin {alive[i] : i \in 1..n}
            BY <1>1, <4>1, <5>1, <5>3 DEF Pass
          <5>5. entries'[id] = entries[id]
            BY <1>1, <5>1, <5>4 DEF Pass
          <5>6. QED BY <4>1, <5>1, <5>4, <5>5 DEF Queued
        <4>3. PICK j \in 1..Len(alive) : alive[j] = id
          BY <1>3, <4>2
        <4>4. j \in (n+1)..Len(alive)
          BY <1>2, <4>2, <4>3
        <4>5. j - n \in DOMAIN queue' /\ (j - n) + n = j
          BY <1>2, <1>3, <4>4
        <4>6. queue'[j - n] = id
          BY <1>4, <4>3, <4>5
        <4>7. QED BY <4>5, <4>6
      <3>2. ASSUME NEW i \in DOMAIN queue', id = queue'[i] PROVE id \in Queued'
        BY <1>3, <1>4, <3>2 DEF Queued
      <3>3. QED BY <3>1, <3>2
    <2>2. \A i \in DOMAIN queue' : queue'[i] \in Ids
      BY <1>3, <1>4 DEF Queued
    <2>3. {queue'[i] : i \in DOMAIN queue'} = Queued'
      BY <2>1, <2>2 DEF Queued
    <2>4. \A i, j \in DOMAIN queue' : i # j => queue'[i] # queue'[j]
      <3> SUFFICES ASSUME NEW i \in DOMAIN queue', NEW j \in DOMAIN queue', i # j
                   PROVE  queue'[i] # queue'[j]
        OBVIOUS
      <3>1. i + n # j + n
        BY <1>2, <1>3
      <3>2. i + n \in 1..Len(alive) /\ j + n \in 1..Len(alive)
        BY <1>4
      <3>3. alive[i + n] # alive[j + n]
        BY <1>3, <3>1, <3>2, Zenon
      <3>4. QED BY <1>4, <3>3
    <2>5. QED BY <1>5, <2>3, <2>4 DEF Consistent, Queued

  <1>9. SeqPartition'
    <2> DEFINE live == {entries[queue[i]].seq : i \in DOMAIN queue}
               live1 == {entries'[queue'[i]].seq : i \in DOMAIN queue'}
               evicted == {entries[queue[i]].seq : i \in GhostPositions(now)}
    <2>1. \A i \in 1..Len(alive) : entries[alive[i]].seq \in Nat
      BY <1>3 DEF Queued, IInv, TypeOK, Entry
    <2>2. \A i, j \in DOMAIN queue' : i < j => entries'[queue'[i]].seq < entries'[queue'[j]].seq
      <3> SUFFICES ASSUME NEW i \in DOMAIN queue', NEW j \in DOMAIN queue', i < j
                   PROVE  entries'[queue'[i]].seq < entries'[queue'[j]].seq
        OBVIOUS
      <3>1. i + n < j + n
        BY <1>2, <1>3
      <3>2. QED BY <1>4, <1>6, <3>1
    <2>3. live1 = {entries[alive[i]].seq : i \in (n+1)..Len(alive)}
      <3>1. \A i \in (n+1)..Len(alive) : i - n \in DOMAIN queue' /\ (i - n) + n = i
        BY <1>2, <1>3
      <3>2. \A i \in (n+1)..Len(alive) : entries'[queue'[i - n]].seq = entries[alive[i]].seq
        BY <1>4, <3>1
      <3>3. QED BY <1>4, <3>1, <3>2
    <2>4. /\ \A i \in 1..Len(alive) : p[i] \in DOMAIN queue \ GhostPositions(now)
          /\ \A i \in 1..Len(alive) : alive[i] = queue[p[i]]
          /\ \A k \in DOMAIN queue \ GhostPositions(now) : \E i \in 1..Len(alive) : p[i] = k
      BY <1>1 DEF Pass, Selects
    <2>5. /\ \A i, j \in DOMAIN queue : i < j => entries[queue[i]].seq < entries[queue[j]].seq
          /\ live \cap holes = {}
          /\ queue = <<>> => holes = {}
          /\ queue # <<>> => live \cup holes = Front..nextSeq
      BY DEF IInv, SeqPartition
    <2>6. \A i \in DOMAIN queue : i \in Nat /\ entries[queue[i]].seq \in Nat
      BY DEF IInv, TypeOK, Entry
    <2>7. \A i, j \in DOMAIN queue : entries[queue[i]].seq = entries[queue[j]].seq => i = j
      BY <2>5, <2>6
    <2>8. live1 \subseteq live
      <3>1. \A i \in (n+1)..Len(alive) : i \in 1..Len(alive)
        BY <1>2
      <3>2. \A i \in (n+1)..Len(alive) : entries[alive[i]].seq \in live
        BY <2>4, <3>1
      <3>3. QED BY <2>3, <3>2
    <2>9. live1 \cap evicted = {}
      <3> SUFFICES ASSUME NEW i \in (n+1)..Len(alive), NEW k \in GhostPositions(now),
                          entries[alive[i]].seq = entries[queue[k]].seq
                   PROVE  FALSE
        BY <2>3
      <3>1. i \in 1..Len(alive) /\ k \in DOMAIN queue
        BY <1>2 DEF GhostPositions
      <3>2. p[i] = k
        BY <2>4, <2>7, <3>1
      <3>3. QED BY <2>4, <3>1, <3>2
    <2>10. holes' \subseteq holes \cup evicted
      BY <1>1 DEF Pass, Pruned
    <2>11. live1 \cap holes' = {}
      BY <2>5, <2>8, <2>9, <2>10
    <2>12. queue' = <<>> => holes' = {}
      BY <1>1 DEF Pass, Pruned
    <2>13. ASSUME queue' # <<>> PROVE live1 \cup holes' = Front'..nextSeq'
      <3>1. 1 \in DOMAIN queue' /\ n + 1 \in (n+1)..Len(alive) /\ n + 1 \in 1..Len(alive)
        BY <1>2, <1>3, <2>13
      <3>2. Front' = entries[alive[n + 1]].seq /\ Front' = entries'[queue'[1]].seq
        <4>1. 1 + n = n + 1
          BY <1>2
        <4>2. entries'[queue'[1]] = entries[alive[n + 1]]
          BY <1>4, <3>1, <4>1
        <4>3. QED BY <4>2 DEF Front
      <3>3. holes' = {h \in holes \cup evicted : h > Front'}
        BY <1>1, <2>13, <3>2 DEF Pass, Pruned
      <3>4. nextSeq' = nextSeq /\ nextSeq \in Nat
        BY <1>1 DEF Pass, IInv, TypeOK
      <3>5. queue # <<>> /\ live \cup holes = Front..nextSeq
        <4>1. p[1] \in DOMAIN queue
          BY <1>2, <2>4, <3>1
        <4>2. QED BY <2>5, <4>1
      <3>6. Front \in Nat /\ Front' \in Nat /\ Front <= Front'
        <4>1. Front \in Nat
          BY <2>6, <3>5 DEF Front, IInv, TypeOK
        <4>2. Front' \in Nat
          BY <2>1, <3>1, <3>2
        <4>3. Front' \in Front..nextSeq
          <5>1. Front' \in live
            BY <2>4, <3>1, <3>2
          <5>2. QED BY <3>5, <5>1
        <4>4. QED BY <4>1, <4>2, <4>3, <3>4
      <3>7. \A x \in live1 \cup holes' : x \in Front'..nextSeq
        <4> SUFFICES ASSUME NEW x \in live1 \cup holes' PROVE x \in Front'..nextSeq
          OBVIOUS
        <4>1. x \in Front..nextSeq
          <5>1. evicted \subseteq live
            BY DEF GhostPositions
          <5>2. QED BY <2>8, <2>10, <3>5, <5>1
        <4>2. x \in Int /\ x <= nextSeq
          BY <3>4, <3>6, <4>1
        <4>3. CASE x \in holes'
          BY <3>3, <3>4, <3>6, <4>2, <4>3
        <4>4. CASE x \in live1
          <5>1. PICK i \in (n+1)..Len(alive) : x = entries[alive[i]].seq
            BY <2>3, <4>4
          <5>2. i = n + 1 \/ n + 1 < i
            BY <1>2
          <5>3. i \in 1..Len(alive)
            BY <1>2
          <5>4. x = Front' \/ Front' < x
            BY <1>6, <3>1, <3>2, <5>1, <5>2, <5>3
          <5>5. QED BY <3>4, <3>6, <4>2, <5>4
        <4>5. QED BY <4>3, <4>4
      <3>8. \A x \in Front'..nextSeq : x \in live1 \cup holes'
        <4> SUFFICES ASSUME NEW x \in Front'..nextSeq PROVE x \in live1 \cup holes'
          OBVIOUS
        <4>1. x \in Int /\ Front' <= x /\ x \in Front..nextSeq
          BY <3>4, <3>6
        <4>2. x \in live \/ x \in holes
          BY <3>5, <4>1
        <4>3. Front' \in live1
          BY <2>3, <3>1, <3>2
        <4>4. x = Front' \/ x > Front'
          BY <3>6, <4>1
        <4>5. CASE x \in holes \cup evicted
          BY <3>3, <4>3, <4>4, <4>5
        <4>6. CASE x \in live \ evicted
          <5>1. PICK k \in DOMAIN queue : x = entries[queue[k]].seq
            BY <4>6
          <5>2. k \in DOMAIN queue \ GhostPositions(now)
            BY <4>6, <5>1
          <5>3. PICK i \in 1..Len(alive) : p[i] = k
            BY <2>4, <5>2
          <5>4. x = entries[alive[i]].seq
            BY <2>4, <5>1, <5>3
          <5>5. ~(i < n + 1)
            <6>1. i < n + 1 => x < Front'
              BY <1>6, <3>1, <3>2, <5>4
            <6>2. QED BY <3>6, <4>1, <6>1
          <5>6. i \in (n+1)..Len(alive)
            BY <1>2, <5>5
          <5>7. QED BY <2>3, <5>4, <5>6
        <4>7. QED BY <4>2, <4>5, <4>6
      <3>9. QED BY <3>4, <3>7, <3>8
    <2>14. QED BY <2>2, <2>11, <2>12, <2>13 DEF SeqPartition
  <1>10. QED BY <1>7, <1>8, <1>9 DEF IInv

-----------------------------------------------------------------------------
(* The invariant *)

(***************************************************************************)
(* Every operation of the store, called with whatever capacity and clock   *)
(* reading, preserves the invariant.                                       *)
(***************************************************************************)
LEMMA NextIInv == IInv /\ [Next]_vars => IInv'
  <1> SUFFICES ASSUME IInv, [Next]_vars PROVE IInv'
    OBVIOUS
  <1>1. ASSUME NEW id \in Ids, NEW now \in Times, NEW capacity \in Capacities,
               TryAdmit(id, capacity, now)
        PROVE  IInv'
    <2>1. CASE id \in Active /\ entries' = Refreshed(id, now)
               /\ UNCHANGED <<queue, active, avgSession, override, nextSeq, holes>>
      BY <2>1, RefreshIInv
    <2>2. CASE /\ id \notin Active /\ MayAdmit(capacity)
               /\ entries' = [entries EXCEPT ![id] = Admitted(entries[id], now)]
               /\ active' = active + 1
               /\ UNCHANGED <<queue, avgSession, override, nextSeq, holes>>
      BY <2>2, AdmitIInv DEF MayAdmit
    <2>3. CASE UNCHANGED vars
      BY <2>3 DEF vars, IInv, TypeOK, Consistent, SeqPartition, Active, Front
    <2>4. QED BY <1>1, <2>1, <2>2, <2>3 DEF TryAdmit
  <1>2. ASSUME NEW id \in Ids, NEW now \in Times, Enqueue(id, now)
        PROVE  IInv'
    <2>1. CASE entries[id].status = "unknown"
      BY <1>2, <2>1, AppendIInv DEF Enqueue
    <2>2. CASE entries[id].status # "unknown"
      BY <1>2, <2>2, RefreshIInv DEF Enqueue
    <2>3. QED BY <2>1, <2>2
  <1>3. ASSUME UNCHANGED vars PROVE IInv'
    BY <1>3 DEF vars, IInv, TypeOK, Consistent, SeqPartition, Active, Front
  <1>4. ASSUME NEW id \in Ids, NEW now \in Times, Lookup(id, now) \/ Touch(id, now)
        PROVE  IInv'
    <2>1. UNCHANGED <<queue, active, avgSession, override, nextSeq, holes>>
      BY <1>4 DEF Lookup, Touch
    <2>2. entries' = Refreshed(id, now) \/ entries' = entries
      BY <1>4 DEF Lookup, Touch
    <2>3. QED BY <1>3, <2>1, <2>2, RefreshIInv DEF vars
  <1>5. ASSUME NEW capacity \in Capacities, NEW now \in Times, Reconcile(capacity, now)
        PROVE  IInv'
    BY <1>5, ReconcileIInv
  <1>6. ASSUME NEW capacity \in Capacities, SetCapacity(capacity) PROVE IInv'
    BY <1>6 DEF SetCapacity, IInv, TypeOK, Consistent, SeqPartition, Active, Front
  <1>7. ASSUME Flush PROVE IInv'
    BY <1>7, FlushIInv
  <1>8. QED BY <1>1, <1>2, <1>3, <1>4, <1>5, <1>6, <1>7 DEF Next

(***************************************************************************)
(* The structures of the store never drift apart, whatever calls are made  *)
(* with whatever clock readings: map, list and counter agree and the       *)
(* sequence numbers partition into waiters and holes.                      *)
(***************************************************************************)
THEOREM StructuresAgree == Spec => [](TypeOK /\ Consistent /\ SeqPartition)
  <1>1. IInv => TypeOK /\ Consistent /\ SeqPartition
    BY DEF IInv
  <1>2. QED BY <1>1, InitIInv, NextIInv, PTL DEF Spec

(***************************************************************************)
(* The counter that decides admissions is the number of active entries,    *)
(* and the list holds the queued ones, each once.                          *)
(***************************************************************************)
THEOREM StructuresConsistent == Spec => []Consistent
  <1>1. IInv => Consistent
    BY DEF IInv
  <1>2. QED BY <1>1, InitIInv, NextIInv, PTL DEF Spec

(***************************************************************************)
(* The numbers from the front's to a waiter's are the ones of the waiters  *)
(* up to it and the holes in between, so counting them gives its place.    *)
(***************************************************************************)
LEMMA PositionFromIInv == IInv => PositionExact
  <1> SUFFICES ASSUME IInv, NEW i \in DOMAIN queue PROVE Position(queue[i]) = i
    BY DEF PositionExact
  <1> DEFINE f[j \in DOMAIN queue] == entries[queue[j]].seq
             upto == {f[j] : j \in 1..i}
             gaps == Between(Front, f[i])
  <1>1. /\ queue # <<>>
        /\ i \in Nat /\ 1 <= i /\ 1 \in DOMAIN queue
        /\ \A j \in 1..i : j \in DOMAIN queue
        /\ \A j \in DOMAIN queue : j \in Nat
    BY DEF IInv, TypeOK
  <1>2. \A j \in DOMAIN queue : f[j] = entries[queue[j]].seq /\ f[j] \in Nat
    BY DEF IInv, TypeOK, Entry
  <1> HIDE DEF f
  <1>3. \A j, k \in DOMAIN queue : j < k => f[j] < f[k]
    BY <1>2 DEF IInv, SeqPartition
  <1>4. Front = f[1] /\ Front \in Nat /\ Front <= f[i]
    BY <1>1, <1>2, <1>3 DEF Front
  <1>5. \A x \in Front..f[i] : x \in upto \/ x \in gaps
    <2> SUFFICES ASSUME NEW x \in Front..f[i] PROVE x \in upto \/ x \in gaps
      OBVIOUS
    <2>1. f[i] \in Front..nextSeq
      BY <1>1, <1>2 DEF IInv, SeqPartition
    <2>2. nextSeq \in Nat
      BY MemoryAssumption DEF IInv, TypeOK
    <2>3. x \in Int /\ Front <= x /\ x <= f[i] /\ x \in Front..nextSeq
      BY <1>2, <1>4, <2>1, <2>2
    <2>4. x \in {f[j] : j \in DOMAIN queue} \/ x \in holes
      BY <1>1, <1>2, <2>3 DEF IInv, SeqPartition
    <2>5. ASSUME NEW j \in DOMAIN queue, x = f[j] PROVE x \in upto
      <3>1. ~(i < j)
        BY <1>2, <1>3, <2>3, <2>5
      <3>2. j \in 1..i
        BY <1>1, <3>1 DEF IInv, TypeOK
      <3>3. QED BY <2>5, <3>2
    <2>6. ASSUME x \in holes PROVE x \in gaps
      <3>1. x # f[1] /\ x # f[i]
        BY <1>1, <1>2, <2>6 DEF IInv, SeqPartition
      <3>2. QED BY <1>2, <1>4, <2>3, <2>6, <3>1 DEF Between
    <2>7. QED BY <2>4, <2>5, <2>6
  <1>6. \A x \in upto \cup gaps : x \in Front..f[i]
    <2>1. \A j \in 1..i : f[j] \in Nat /\ Front <= f[j] /\ f[j] <= f[i]
      <3> SUFFICES ASSUME NEW j \in 1..i PROVE f[j] \in Nat /\ Front <= f[j] /\ f[j] <= f[i]
        OBVIOUS
      <3>1. j \in DOMAIN queue /\ (j = 1 \/ 1 < j) /\ (j = i \/ j < i)
        BY <1>1
      <3>2. QED BY <1>1, <1>2, <1>3, <1>4, <3>1
    <2>2. \A h \in gaps : h \in Nat /\ Front < h /\ h < f[i]
      BY MemoryAssumption DEF Between, IInv, TypeOK
    <2>3. QED BY <1>2, <1>4, <2>1, <2>2
  <1>7. upto \cap gaps = {}
    <2>1. \A j \in 1..i : f[j] \notin holes
      BY <1>1, <1>2 DEF IInv, SeqPartition
    <2>2. QED BY <2>1 DEF Between
  <1>8. Front..f[i] = upto \cup gaps
    BY <1>5, <1>6
  <1>9. IsFiniteSet(Front..f[i]) /\ Cardinality(Front..f[i]) = f[i] - Front + 1
    <2>1. Front \in Int /\ f[i] \in Int /\ ~(Front > f[i])
      BY <1>2, <1>4
    <2>2. QED BY <2>1, FS_Interval
  <1>10. IsFiniteSet(upto) /\ Cardinality(upto) = i
    <2>1. \A j, k \in 1..i : j # k => f[j] # f[k]
      <3>1. \A j, k \in 1..i : j < k => f[j] # f[k]
        BY <1>1, <1>2, <1>3
      <3>2. QED BY <1>1, <3>1
    <2>2. QED BY <1>1, <2>1, CountDistinct
  <1>11. IsFiniteSet(gaps) /\ Cardinality(gaps) \in Nat
    <2>1. gaps \subseteq Front..f[i]
      BY <1>6
    <2>2. QED BY <1>9, <2>1, FS_Subset, FS_CardinalityType
  <1> HIDE DEF upto
  <1>12. Cardinality(upto \cup gaps) = i + Cardinality(gaps)
    <2>1. Cardinality({}) = 0
      BY FS_EmptySet
    <2>2. Cardinality(upto \cup gaps) = Cardinality(upto) + Cardinality(gaps) - Cardinality(upto \cap gaps)
      BY <1>10, <1>11, FS_Union
    <2> HIDE DEF gaps
    <2>3. Cardinality(upto \cap gaps) = 0
      BY <1>7, <2>1
    <2>4. QED BY <1>1, <1>10, <1>11, <2>2, <2>3
  <1>13. f[i] - Front + 1 - Cardinality(gaps) = i
    <2>1. f[i] - Front + 1 = i + Cardinality(gaps)
      BY <1>8, <1>9, <1>12
    <2>2. f[i] \in Int /\ Front \in Int
      BY <1>2, <1>4
    <2> HIDE DEF gaps
    <2>3. QED BY <1>1, <1>11, <2>1, <2>2
  <1>14. QED BY <1>2, <1>13 DEF Position

(***************************************************************************)
(* Every waiter is told its true place in the line: the formula of         *)
(* snapshotLocked is exact for any history of evictions and promotions.    *)
(***************************************************************************)
THEOREM PositionsExact == Spec => []PositionExact
  <1>1. QED BY InitIInv, NextIInv, PositionFromIInv, PTL DEF Spec

-----------------------------------------------------------------------------
(* Capacity *)

(***************************************************************************)
(* The counter is what a step compares with the capacity; the invariant    *)
(* carries the bound over to the set of active tickets.                    *)
(***************************************************************************)
LEMMA NextCapacityBound == IInv /\ IInv' /\ CapacityBound /\ [Next]_vars => CapacityBound'
  <1> SUFFICES ASSUME IInv, IInv', CapacityBound, [Next]_vars PROVE CapacityBound'
    OBVIOUS
  <1> USE MemoryAssumption
  <1>1. active = Cardinality(Active) /\ active' = Cardinality(Active') /\ active \in Int /\ active' \in Int
    BY DEF IInv, Consistent, TypeOK
  <1>2. PICK c \in Capacities \cup {0} : active <= c
    BY <1>1 DEF CapacityBound
  <1>3. SUFFICES \E capacity \in Capacities \cup {0} : active' <= capacity
    BY <1>1 DEF CapacityBound
  <1>4. ASSUME active' <= active PROVE \E capacity \in Capacities \cup {0} : active' <= capacity
    BY <1>1, <1>2, <1>4
  <1>5. ASSUME NEW id \in Ids, NEW now \in Times, NEW capacity \in Capacities,
               TryAdmit(id, capacity, now)
        PROVE  active' <= active \/ active' <= capacity
    BY <1>1, <1>5 DEF TryAdmit, MayAdmit, vars
  <1>6. ASSUME NEW capacity \in Capacities, NEW now \in Times, Reconcile(capacity, now)
        PROVE  active' <= active \/ active' <= capacity
    <2>1. PICK alive, n, p : Pass(capacity, now, alive, n, p)
      BY <1>6, ReconcileIsPass
    <2> DEFINE expired == Cardinality(Expired(now))
    <2>2. expired \in Nat
      BY <2>1, PassActive
    <2>3. /\ active' = (active - expired) + n
          /\ n = Lesser(Greater(capacity - (active - expired), 0), Len(alive))
          /\ n \in Nat /\ Len(alive) \in Nat
      BY <2>1 DEF Pass
    <2> HIDE DEF expired
    <2>4. capacity \in Int
      OBVIOUS
    <2>5. QED BY <1>1, <2>2, <2>3, <2>4 DEF Lesser, Greater
  <1>7. ASSUME NEW id \in Ids, NEW now \in Times,
               Enqueue(id, now) \/ Lookup(id, now) \/ Touch(id, now)
        PROVE  active' = active
    BY <1>7 DEF Enqueue, Lookup, Touch
  <1>8. ASSUME NEW capacity \in Capacities, SetCapacity(capacity) PROVE active' = active
    BY <1>8 DEF SetCapacity
  <1>9. ASSUME Flush \/ UNCHANGED vars PROVE active' = active
    BY <1>9 DEF Flush, vars
  <1>10. QED BY <1>1, <1>4, <1>5, <1>6, <1>7, <1>8, <1>9 DEF Next

(***************************************************************************)
(* No history of calls lets in more tickets than the largest capacity that *)
(* was passed.                                                             *)
(***************************************************************************)
THEOREM CapacityRespected == Spec => []CapacityBound
  <1>1. Init => CapacityBound
    <2> SUFFICES ASSUME Init PROVE CapacityBound
      OBVIOUS
    <2>1. Cardinality(Active) = 0
      BY InitIInv DEF IInv, Consistent, Init
    <2>2. QED BY <2>1 DEF CapacityBound
  <1>2. QED BY <1>1, InitIInv, NextIInv, NextCapacityBound, PTL DEF Spec

-----------------------------------------------------------------------------
(* First come, first served *)

(***************************************************************************)
(* No operation lets a ticket in past somebody who stays in the line:      *)
(* TryAdmit admits only when the line is empty, Reconcile promotes from    *)
(* the front.                                                              *)
(***************************************************************************)
LEMMA NextLineServed == IInv /\ [Next]_vars => [LineServed]_vars
  <1> SUFFICES ASSUME IInv, Next,
                      NEW id \in Active' \ Active, NEW j \in DOMAIN queue,
                      \A i \in 1..j : queue[i] # id
               PROVE  entries'[queue[j]].status # "queued"
    BY DEF LineServed
  <1>1. id \in Ids /\ entries'[id].status = "active" /\ entries[id].status # "active"
    BY DEF Active
  <1>2. queue[j] \in Ids /\ queue # <<>> /\ j \in 1..Len(queue) /\ Len(queue) \in Nat
    BY DEF IInv, TypeOK
  <1>3. ASSUME NEW x \in Ids, NEW now \in Times, entries' = Refreshed(x, now) PROVE FALSE
    BY <1>1, <1>3 DEF Refreshed, IInv, TypeOK, Entry
  <1>4. ASSUME NEW x \in Ids, NEW now \in Times, NEW capacity \in Capacities,
               TryAdmit(x, capacity, now)
        PROVE  FALSE
    BY <1>1, <1>2, <1>3, <1>4 DEF TryAdmit, MayAdmit, vars
  <1>5. ASSUME NEW x \in Ids, NEW now \in Times,
               Enqueue(x, now) \/ Lookup(x, now) \/ Touch(x, now)
        PROVE  FALSE
    <2>1. CASE entries' = Refreshed(x, now) \/ entries' = entries
      BY <1>1, <1>3, <2>1
    <2>2. CASE entries' = [entries EXCEPT ![x] =
                 [status |-> "queued", since |-> now, lastSeen |-> now, seq |-> nextSeq']]
      BY <1>1, <2>2 DEF IInv, TypeOK
    <2>3. QED BY <1>5, <2>1, <2>2 DEF Enqueue, Lookup, Touch
  <1>6. ASSUME NEW capacity \in Capacities, SetCapacity(capacity) PROVE FALSE
    BY <1>1, <1>6 DEF SetCapacity
  <1>7. ASSUME Flush PROVE FALSE
    BY <1>1, <1>7 DEF Flush, Unknown
  <1>8. ASSUME NEW capacity \in Capacities, NEW now \in Times, Reconcile(capacity, now)
        PROVE  entries'[queue[j]].status # "queued"
    <2>1. PICK alive, n, p : Pass(capacity, now, alive, n, p)
      BY <1>8, ReconcileIsPass
    <2>2. n \in Nat /\ n <= Len(alive) /\ Len(alive) \in Nat
      BY <2>1 DEF Pass
    <2>3. PICK m \in 1..n : alive[m] = id
      <3>1. Active' = (Active \ Expired(now)) \cup Promoted(alive, n)
        BY <2>1, PassActive
      <3>2. QED BY <3>1 DEF Promoted
    <2>4. CASE j \in GhostPositions(now)
      BY <1>2, <2>1, <2>4 DEF Pass, Ghosts, Unknown
    <2>5. CASE j \notin GhostPositions(now)
      <3>1. /\ \A a, b \in 1..Len(alive) : a < b => p[a] < p[b]
            /\ \A a \in 1..Len(alive) : p[a] \in DOMAIN queue /\ alive[a] = queue[p[a]]
            /\ \A k \in DOMAIN queue \ GhostPositions(now) : \E a \in 1..Len(alive) : p[a] = k
        BY <2>1 DEF Pass, Selects
      <3>2. PICK l \in 1..Len(alive) : p[l] = j
        BY <2>5, <3>1
      <3>3. m \in 1..Len(alive) /\ p[m] \in DOMAIN queue /\ queue[p[m]] = id
        BY <2>2, <2>3, <3>1
      <3>4. p[m] \notin 1..j /\ p[m] \in Nat /\ 1 <= p[m] /\ j \in Nat
        <4>1. p[m] \in Nat /\ 1 <= p[m]
          BY <3>3 DEF IInv, TypeOK
        <4>2. QED BY <1>2, <3>3, <4>1
      <3>5. ~(m < l) /\ m # l
        BY <3>1, <3>2, <3>3, <3>4
      <3>6. l \in 1..n
        BY <2>2, <2>3, <3>5
      <3>7. entries'[alive[l]] = Admitted(entries[alive[l]], now)
        <4>1. Outcome(now, alive, n)
          BY <2>1, PassTickets
        <4>2. QED BY <3>6, <4>1 DEF Outcome
      <3>8. entries'[queue[j]] = Admitted(entries[queue[j]], now) /\ entries[queue[j]] \in Entry
        <4>1. alive[l] = queue[j]
          BY <3>1, <3>2
        <4>2. entries[queue[j]] \in Entry
          BY <1>2 DEF IInv, TypeOK
        <4>3. QED BY <3>7, <4>1, <4>2
      <3>9. QED BY <3>8 DEF Admitted, Entry
    <2>6. QED BY <2>4, <2>5
  <1>9. QED BY <1>4, <1>5, <1>6, <1>7, <1>8 DEF Next

(***************************************************************************)
(* Whoever is let in leaves nobody waiting who stood ahead.                *)
(***************************************************************************)
THEOREM FirstComeFirstServed == Spec => NoOvertaking
  <1>1. QED BY InitIInv, NextIInv, NextLineServed, PTL DEF Spec, NoOvertaking


-----------------------------------------------------------------------------
(* The contract of store.Store *)

KnownIds == {i \in Ids : entries[i].status # "unknown"}

Beats == [id \in KnownIds |-> entries[id].lastSeen]

(***************************************************************************)
(* What the contract sees of the store: the tickets it knows are the ones  *)
(* in the line or inside, the number inside is the counter TryAdmit reads, *)
(* and the heartbeat of each is the one in its entry.                      *)
(***************************************************************************)
LEMMA View ==
  ASSUME IInv
  PROVE  /\ Room!Known = KnownIds
         /\ Room!Waiting(queue) = Queued
         /\ Cardinality(Active) = active
         /\ \A S, T, now : Room!SeenAt(S, T, now) = [id \in S |-> IF id \in T THEN now ELSE Beats[id]]
         /\ \A id \in KnownIds : Beats[id] = entries[id].lastSeen
  <1>1. Room!Waiting(queue) = Queued
    BY DEF IInv, Consistent, Queued, Room!Waiting
  <1>2. KnownIds = Queued \cup Active
    BY DEF IInv, TypeOK, Entry, KnownIds, Queued, Active
  <1>3. Room!Known = KnownIds
    BY <1>1, <1>2 DEF Room!Known
  <1>4. \A S, T, now : Room!SeenAt(S, T, now) = [id \in S |-> IF id \in T THEN now ELSE Beats[id]]
    BY DEF Room!SeenAt, Beats, KnownIds
  <1>5. QED BY <1>1, <1>3, <1>4 DEF IInv, Consistent, Beats

(***************************************************************************)
(* The contract counts, and selects the waiters to keep, with the same     *)
(* operators.                                                              *)
(***************************************************************************)
LEMMA SameOperators ==
  /\ \A S : Room!Cardinality(S) = Cardinality(S)
  /\ \A s, K : Room!Filtered(s, K) = Filtered(s, K)
  /\ \A m, n : Room!Greater(m, n) = Greater(m, n) /\ Room!Lesser(m, n) = Lesser(m, n)
  <1>1. \A S : Room!Cardinality(S) = Cardinality(S)
    BY Zenon DEF Room!Cardinality, Cardinality
  <1>2. \A K : Room!Enumerations(K) = Enumerations(K)
    BY <1>1, Zenon DEF Room!Enumerations, Enumerations
  <1>3. \A s, K : Room!Filtered(s, K) = Filtered(s, K)
    BY <1>2 DEF Room!Filtered, Filtered
  <1>4. \A m, n : Room!Greater(m, n) = Greater(m, n)
    BY Zenon DEF Room!Greater, Greater
  <1>5. \A m, n : Room!Lesser(m, n) = Lesser(m, n)
    BY Zenon DEF Room!Lesser, Lesser
  <1>6. QED BY <1>1, <1>3, <1>4, <1>5

(***************************************************************************)
(* A heartbeat moves nobody: the contract sees the beat of one known       *)
(* ticket change.                                                          *)
(***************************************************************************)
LEMMA RefreshView ==
  ASSUME IInv, NEW id \in Ids, NEW now, entries' = Refreshed(id, now)
  PROVE  /\ Active' = Active
         /\ KnownIds' = KnownIds
         /\ Beats' = [x \in KnownIds |-> IF x = id THEN now ELSE Beats[x]]
  <1>1. \A x \in Ids : /\ entries'[x].status = entries[x].status
                       /\ entries'[x].lastSeen = IF x = id THEN now ELSE entries[x].lastSeen
    BY DEF IInv, TypeOK, Entry, Refreshed
  <1>2. Active' = Active /\ KnownIds' = KnownIds
    BY <1>1 DEF Active, KnownIds
  <1>3. \A x \in KnownIds : x \in Ids
    BY DEF KnownIds
  <1>4. Beats' = [x \in KnownIds |-> entries'[x].lastSeen]
    BY <1>2 DEF Beats
  <1>5. QED BY <1>1, <1>2, <1>3, <1>4 DEF Beats

(***************************************************************************)
(* TryAdmit, Enqueue, Lookup and Touch do what the contract says of them.  *)
(***************************************************************************)
LEMMA TryAdmitRoom ==
  ASSUME IInv, NEW id \in Ids, NEW capacity \in Capacities, NEW now \in Times,
         TryAdmit(id, capacity, now)
  PROVE  Room!TryAdmit(id, capacity, now)
  <1>1. Room!Admissible(id, capacity) <=> id \in Active \/ MayAdmit(capacity)
    BY View, SameOperators DEF Room!Admissible, MayAdmit
  <1>2. CASE id \in Active /\ entries' = Refreshed(id, now) /\ queue' = queue
    <2>1. id \in KnownIds
      BY <1>2 DEF Active, KnownIds
    <2>2. /\ Active' = Active \cup {id}
          /\ Beats' = [x \in KnownIds \cup {id} |-> IF x \in {id} THEN now ELSE Beats[x]]
      BY <1>2, <2>1, RefreshView
    <2>3. Beats' = Room!SeenAt(Room!Known \cup {id}, {id}, now)
      BY <2>2, View
    <2>4. QED BY <1>1, <1>2, <2>2, <2>3 DEF Room!TryAdmit, Beats, KnownIds
  <1>3. CASE /\ id \notin Active
             /\ MayAdmit(capacity)
             /\ entries' = [entries EXCEPT ![id] = Admitted(entries[id], now)]
             /\ queue' = queue
    <2>1. /\ entries'[id].status = "active"
          /\ entries'[id].lastSeen = now
          /\ \A x \in Ids \ {id} : entries'[x] = entries[x]
      BY <1>3 DEF IInv, TypeOK, Entry, Admitted
    <2>2. Active' = Active \cup {id} /\ KnownIds' = KnownIds \cup {id}
      BY <2>1 DEF Active, KnownIds
    <2>3. Beats' = [x \in KnownIds \cup {id} |-> IF x \in {id} THEN now ELSE Beats[x]]
      <3>1. \A x \in KnownIds \cup {id} : entries'[x].lastSeen = IF x \in {id} THEN now ELSE Beats[x]
        BY <2>1 DEF KnownIds, Beats
      <3>2. Beats' = [x \in KnownIds \cup {id} |-> entries'[x].lastSeen]
        BY <2>2 DEF Beats
      <3>3. QED BY <3>1, <3>2
    <2>4. Beats' = Room!SeenAt(Room!Known \cup {id}, {id}, now)
      BY <2>3, View
    <2>5. QED BY <1>1, <1>3, <2>2, <2>4 DEF Room!TryAdmit, Beats, KnownIds
  <1>4. CASE id \notin Active /\ ~MayAdmit(capacity) /\ UNCHANGED vars
    BY <1>1, <1>4 DEF Room!TryAdmit, Room!room, vars, Active
  <1>5. QED BY <1>2, <1>3, <1>4 DEF TryAdmit

(***************************************************************************)
(* Enqueue of a known ticket only moves its heartbeat; of an unknown one,  *)
(* it lengthens the line by that ticket.                                   *)
(***************************************************************************)
LEMMA EnqueueRoom ==
  ASSUME IInv, NEW id \in Ids, NEW now \in Times, Enqueue(id, now)
  PROVE  Room!Enqueue(id, now)
  <1>1. Room!Known = KnownIds
    BY View
  <1>2. CASE entries[id].status # "unknown" /\ entries' = Refreshed(id, now) /\ queue' = queue
    <2>1. id \in KnownIds
      BY <1>2 DEF KnownIds
    <2>2. /\ Active' = Active
          /\ Beats' = [x \in KnownIds \cup {id} |-> IF x \in {id} THEN now ELSE Beats[x]]
      BY <1>2, <2>1, RefreshView
    <2>3. Beats' = Room!SeenAt(Room!Known \cup {id}, {id}, now)
      BY <2>2, View
    <2>4. {id} \in IF id \in Active THEN {{}, {id}} ELSE {{id}}
      OBVIOUS
    <2>5. QED BY <1>1, <1>2, <2>1, <2>2, <2>3, <2>4 DEF Room!Enqueue, Beats, KnownIds
  <1>3. CASE /\ entries[id].status = "unknown"
             /\ entries' = [entries EXCEPT ![id] =
                  [status |-> "queued", since |-> now, lastSeen |-> now, seq |-> nextSeq']]
             /\ queue' = Append(queue, id)
    <2>1. /\ entries'[id].status = "queued"
          /\ entries'[id].lastSeen = now
          /\ \A x \in Ids \ {id} : entries'[x] = entries[x]
      BY <1>3 DEF IInv, TypeOK, Entry
    <2>2. Active' = Active /\ KnownIds' = KnownIds \cup {id} /\ id \notin KnownIds
      BY <1>3, <2>1 DEF Active, KnownIds
    <2>3. Beats' = [x \in KnownIds \cup {id} |-> IF x \in {id} THEN now ELSE Beats[x]]
      <3>1. \A x \in KnownIds \cup {id} : entries'[x].lastSeen = IF x \in {id} THEN now ELSE Beats[x]
        BY <2>1 DEF KnownIds, Beats
      <3>2. Beats' = [x \in KnownIds \cup {id} |-> entries'[x].lastSeen]
        BY <2>2 DEF Beats
      <3>3. QED BY <3>1, <3>2
    <2>4. Beats' = Room!SeenAt(Room!Known \cup {id}, {id}, now)
      BY <2>3, View
    <2>5. {id} \in IF id \in Active THEN {{}, {id}} ELSE {{id}}
      OBVIOUS
    <2>6. QED BY <1>1, <1>3, <2>2, <2>4, <2>5 DEF Room!Enqueue, Beats, KnownIds
  <1>4. QED BY <1>2, <1>3 DEF Enqueue

(***************************************************************************)
(* Lookup and Touch move the heartbeat of a known, or an active, ticket.   *)
(***************************************************************************)
LEMMA HeartbeatRoom ==
  ASSUME IInv, NEW id \in Ids, NEW now \in Times
  PROVE  /\ Lookup(id, now) => Room!Lookup(id, now)
         /\ Touch(id, now) => Room!Touch(id, now)
  <1>1. Beats = [x \in KnownIds |-> Beats[x]]
    BY DEF Beats
  <1>2. ASSUME Lookup(id, now) PROVE Room!Lookup(id, now)
    <2>1. Active' = Active /\ queue' = queue
      BY <1>2, RefreshView DEF Lookup, Active
    <2>2. Beats' = [x \in KnownIds |-> IF x \in {id} THEN now ELSE Beats[x]]
      <3>1. CASE entries[id].status = "unknown"
        <4>1. Beats' = Beats /\ id \notin KnownIds
          BY <1>2, <3>1 DEF Lookup, Beats, KnownIds
        <4>2. QED BY <1>1, <4>1
      <3>2. CASE entries[id].status # "unknown"
        BY <1>2, <3>2, RefreshView DEF Lookup
      <3>3. QED BY <3>1, <3>2
    <2>3. Beats' = Room!SeenAt(Room!Known, {id}, now)
      BY <2>2, View
    <2>4. QED BY <2>1, <2>3 DEF Room!Lookup, Beats, KnownIds
  <1>3. ASSUME Touch(id, now) PROVE Room!Touch(id, now)
    <2>1. Active' = Active /\ queue' = queue
      BY <1>3, RefreshView DEF Touch, Active
    <2>2. Beats' = [x \in KnownIds |-> IF x \in {id} \cap Active THEN now ELSE Beats[x]]
      <3>1. CASE id \notin Active
        <4>1. Beats' = Beats
          BY <1>3, <3>1 DEF Touch, Beats, KnownIds
        <4>2. QED BY <1>1, <3>1, <4>1
      <3>2. CASE id \in Active
        BY <1>3, <3>2, RefreshView DEF Touch
      <3>3. QED BY <3>1, <3>2
    <2>3. Beats' = Room!SeenAt(Room!Known, {id} \cap Active, now)
      BY <2>2, View
    <2>4. QED BY <2>1, <2>3 DEF Room!Touch, Beats, KnownIds
  <1>4. QED BY <1>2, <1>3

(***************************************************************************)
(* Flush empties the line and forgets the waiters' heartbeats only.        *)
(***************************************************************************)
LEMMA FlushRoom == ASSUME IInv, Flush PROVE Room!Flush
  <1>1. {queue[i] : i \in DOMAIN queue} = Queued
    BY DEF IInv, Consistent, Queued
  <1>2. entries' = [x \in Ids |-> IF x \in Queued THEN Unknown ELSE entries[x]]
    BY <1>1 DEF Flush
  <1>3. Active' = Active /\ KnownIds' = Active
    BY <1>2 DEF Active, KnownIds, Queued, Unknown, IInv, TypeOK, Entry
  <1>4. \A x \in Active : x \in KnownIds /\ entries'[x] = entries[x]
    BY <1>2 DEF Active, KnownIds, Queued
  <1>5. Beats' = [x \in Active |-> IF x \in {} THEN 0 ELSE Beats[x]]
    <2>1. Beats' = [x \in Active |-> entries'[x].lastSeen]
      BY <1>3 DEF Beats
    <2>2. QED BY <1>4, <2>1 DEF Beats
  <1>6. Beats' = Room!SeenAt(Active, {}, 0)
    BY <1>5, View
  <1>7. queue' = <<>>
    BY DEF Flush
  <1>8. QED BY <1>3, <1>6, <1>7 DEF Room!Flush, Beats, KnownIds

(***************************************************************************)
(* Reconcile is the pass of the contract: the sessions that expire and the *)
(* waiters that are kept are the same, the counter is the number staying,  *)
(* and the heartbeats that survive are those of the tickets that do.       *)
(***************************************************************************)
LEMMA ReconcileRoom ==
  ASSUME IInv, NEW capacity \in Capacities, NEW now \in Times, Reconcile(capacity, now)
  PROVE  Room!Reconcile(capacity, now)
  <1>1. PICK alive, n, p : Pass(capacity, now, alive, n, p)
    BY ReconcileIsPass
  <1>2. Outcome(now, alive, n)
    BY <1>1, PassTickets
  <1> DEFINE staying == Active \ Expired(now)
             promoted == Promoted(alive, n)
             waiting == {alive[i] : i \in DOMAIN alive}
  <1>3. now \in Int /\ \A x \in KnownIds : Beats[x] = entries[x].lastSeen /\ entries[x].lastSeen \in Int
    BY MemoryAssumption DEF IInv, TypeOK, Entry, KnownIds, Beats
  <1>4. Room!Expired(now) = Expired(now)
    <2>1. Room!Expired(now) = {x \in Active : now - Beats[x] > ActiveTTL}
      BY DEF Room!Expired, Beats, KnownIds
    <2>2. \A x \in Active : x \in KnownIds
      BY DEF Active, KnownIds
    <2>3. QED BY <1>3, <2>1, <2>2 DEF Expired, Stale
  <1>5. Room!Kept(now) = DOMAIN queue \ GhostPositions(now)
    <2>1. Room!Kept(now) = {i \in DOMAIN queue : now - Beats[queue[i]] <= QueueTTL}
      BY DEF Room!Kept, Beats, KnownIds
    <2>2. \A i \in DOMAIN queue : queue[i] \in KnownIds
      BY DEF IInv, Consistent, KnownIds
    <2>3. \A i \in DOMAIN queue : now - Beats[queue[i]] <= QueueTTL <=> ~Stale(queue[i], QueueTTL, now)
      BY <1>3, <2>2, MemoryAssumption DEF Stale
    <2>4. QED BY <2>1, <2>3 DEF GhostPositions
  <1>6. alive \in Room!Filtered(queue, Room!Kept(now))
    BY <1>1, <1>5, SameOperators DEF Pass
  <1>7. n = Room!Lesser(Room!Greater(capacity - Room!Cardinality(staying), 0), Len(alive))
    <2>1. Cardinality(staying) = active - Cardinality(Expired(now))
      BY <1>1, PassActive
    <2>2. n = Lesser(Greater(capacity - (active - Cardinality(Expired(now))), 0), Len(alive))
      BY <1>1 DEF Pass
    <2> HIDE DEF staying
    <2>3. QED BY <2>1, <2>2, SameOperators
  <1>8. Active' = staying \cup promoted
    BY <1>1, PassActive
  <1>9. /\ DOMAIN alive = 1..Len(alive) /\ Len(alive) \in Nat
        /\ n \in 0..Len(alive)
        /\ \A i \in 1..n : i \in 1..Len(alive)
    BY <1>1 DEF Pass
  <1>10. KnownIds' = staying \cup waiting
    <2>1. KnownIds' = Queued' \cup Active'
      <3>1. IInv'
        BY ReconcileIInv
      <3>2. QED BY <3>1 DEF IInv, TypeOK, Entry, KnownIds, Queued, Active
    <2>2. Queued' = {queue'[i] : i \in DOMAIN queue'}
      <3>1. IInv'
        BY ReconcileIInv
      <3>2. QED BY <3>1 DEF IInv, Consistent, Queued
    <2>3. {queue'[i] : i \in DOMAIN queue'} = {alive[i] : i \in (n+1)..Len(alive)}
      <3>1. \A i \in DOMAIN queue' : i + n \in (n+1)..Len(alive) /\ queue'[i] = alive[i + n]
        BY <1>2, <1>9 DEF Outcome
      <3>2. \A i \in (n+1)..Len(alive) : i - n \in DOMAIN queue' /\ queue'[i - n] = alive[i]
        <4> SUFFICES ASSUME NEW i \in (n+1)..Len(alive)
                     PROVE  i - n \in DOMAIN queue' /\ queue'[i - n] = alive[i]
          OBVIOUS
        <4>1. i - n \in 1..(Len(alive) - n) /\ (i - n) + n = i
          BY <1>9
        <4>2. QED BY <1>2, <4>1 DEF Outcome
      <3>3. QED BY <3>1, <3>2
    <2>4. waiting = promoted \cup {alive[i] : i \in (n+1)..Len(alive)}
      BY <1>9 DEF Promoted
    <2>5. QED BY <1>8, <2>1, <2>2, <2>3, <2>4
  <1>11. \A x \in staying : x \in KnownIds /\ x \notin promoted /\ entries'[x] = entries[x]
    <2> SUFFICES ASSUME NEW x \in staying
                 PROVE  x \in KnownIds /\ x \notin promoted /\ entries'[x] = entries[x]
      OBVIOUS
    <2>1. x \in Ids /\ x \in KnownIds /\ x \notin Queued /\ x \notin Expired(now)
      BY DEF Active, KnownIds, Queued
    <2>2. x \notin promoted
      BY <1>2, <1>9, <2>1 DEF Outcome, Promoted
    <2>3. x \notin Ghosts(now)
      BY <2>1 DEF Ghosts, GhostPositions, IInv, Consistent, Queued
    <2>4. QED BY <1>1, <2>1, <2>2, <2>3 DEF Pass, Promoted
  <1>12. \A x \in promoted : entries'[x].lastSeen = now
    <2> SUFFICES ASSUME NEW i \in 1..n PROVE entries'[alive[i]].lastSeen = now
      BY DEF Promoted
    <2>1. alive[i] \in Ids /\ entries'[alive[i]] = Admitted(entries[alive[i]], now)
      BY <1>2, <1>9 DEF Outcome, Queued
    <2>2. entries[alive[i]] \in Entry
      BY <2>1 DEF IInv, TypeOK
    <2>3. QED BY <2>1, <2>2 DEF Admitted, Entry
  <1>13. \A x \in waiting \ promoted : x \in KnownIds /\ entries'[x] = entries[x]
    <2> SUFFICES ASSUME NEW i \in 1..Len(alive), alive[i] \notin promoted
                 PROVE  alive[i] \in KnownIds /\ entries'[alive[i]] = entries[alive[i]]
      BY <1>9
    <2>1. i \in (n+1)..Len(alive)
      BY <1>9 DEF Promoted
    <2>2. QED BY <1>2, <2>1 DEF Outcome, Queued, KnownIds
  <1>14. Beats' = [x \in staying \cup waiting |-> IF x \in promoted THEN now ELSE Beats[x]]
    <2>1. Beats' = [x \in staying \cup waiting |-> entries'[x].lastSeen]
      BY <1>10 DEF Beats
    <2> HIDE DEF staying, waiting, promoted
    <2>2. \A x \in staying \cup waiting : entries'[x].lastSeen = IF x \in promoted THEN now ELSE Beats[x]
      BY <1>3, <1>11, <1>12, <1>13
    <2>3. QED BY <2>1, <2>2
  <1>15. Beats' = Room!SeenAt(staying \cup Room!Waiting(alive), promoted, now)
    BY <1>14, View DEF Room!Waiting
  <1>16. queue' = SubSeq(alive, n + 1, Len(alive))
    BY <1>1 DEF Pass
  <1>17. QED
    BY <1>4, <1>6, <1>7, <1>8, <1>15, <1>16, Zenon DEF Room!Reconcile, Promoted, Beats, KnownIds

(***************************************************************************)
(* Every method is a step of the contract, or, like SetCapacity, invisible *)
(* to it.                                                                  *)
(***************************************************************************)
LEMMA NextRoom == IInv /\ [Next]_vars => [Room!RoomNext]_(Room!room)
  <1> SUFFICES ASSUME IInv, [Next]_vars PROVE Room!RoomNext \/ UNCHANGED Room!room
    OBVIOUS
  <1>1. ASSUME NEW capacity \in Capacities, SetCapacity(capacity) PROVE UNCHANGED Room!room
    BY <1>1 DEF SetCapacity, Room!room, Active
  <1>2. ASSUME UNCHANGED vars PROVE UNCHANGED Room!room
    BY <1>2 DEF vars, Room!room, Active
  <1>3. QED
    BY <1>1, <1>2, TryAdmitRoom, EnqueueRoom, HeartbeatRoom, ReconcileRoom, FlushRoom
       DEF Next, Room!RoomNext

(***************************************************************************)
(* The in-memory store implements the contract of store.Store: whatever    *)
(* the numbers of tickets, clock readings and capacities, its list, map,   *)
(* counter and sequence numbers together behave as a plain line, a set of  *)
(* admitted tickets and their heartbeats.                                  *)
(***************************************************************************)
THEOREM MemoryImplementsRoom == Spec => ImplementsRoom
  <1>1. Init => Room!RoomInit
    BY DEF Init, Room!RoomInit, Active, Unknown
  <1>2. QED BY <1>1, InitIInv, NextIInv, NextRoom, PTL DEF Spec, ImplementsRoom, Room!RoomSpec

-----------------------------------------------------------------------------
(* Bisection *)

(***************************************************************************)
(* What the recursive function of sort.Search is asked to be; one exists   *)
(* (it goes to where f begins to hold, or to the nearer end of the range). *)
(***************************************************************************)
Bisects(b, n, f) ==
  b = [r \in (0..n) \X (0..n) |->
        IF r[1] >= r[2] THEN r[1]
        ELSE LET h == (r[1] + r[2]) \div 2
             IN  IF f[h] THEN b[<<r[1], h>>] ELSE b[<<h + 1, r[2]>>]]

(***************************************************************************)
(* sort.Search is such a function, if there is one at all.                 *)
(***************************************************************************)
LEMMA SearchUnfolds ==
  ASSUME NEW n \in Nat, NEW f, NEW g, Bisects(g, n, f)
  PROVE  \E b : Bisects(b, n, f) /\ Search(n, f) = b[<<0, n>>]
  <1> DEFINE c == CHOOSE b : Bisects(b, n, f)
  <1>1. Bisects(c, n, f)
    OBVIOUS
  <1>2. Search(n, f) = c[<<0, n>>]
    BY Zenon DEF Search, Bisects
  <1>3. QED BY <1>1, <1>2

(***************************************************************************)
(* The middle of a range is in it, and not its end.                        *)
(***************************************************************************)
LEMMA Halfway ==
  ASSUME NEW i \in Nat, NEW j \in Nat, i < j
  PROVE  LET h == (i + j) \div 2 IN h \in Nat /\ i <= h /\ h < j
  OBVIOUS

(***************************************************************************)
(* There is such a function.                                               *)
(***************************************************************************)
LEMMA BisectionExists ==
  ASSUME NEW n \in Nat, NEW L \in 0..n, NEW f, \A h \in 0..n - 1 : f[h] <=> h >= L
  PROVE  \E g : Bisects(g, n, f)
  <1> DEFINE Clamp(i, j) == IF L < i THEN i ELSE IF L > j THEN j ELSE L
             G(r) == IF r[1] >= r[2] THEN r[1] ELSE Clamp(r[1], r[2])
             D == (0..n) \X (0..n)
             g == [r \in D |-> G(r)]
  <1>1. ASSUME NEW r \in D
        PROVE  G(r) = IF r[1] >= r[2] THEN r[1]
                      ELSE LET h == (r[1] + r[2]) \div 2
                           IN  IF f[h] THEN g[<<r[1], h>>] ELSE g[<<h + 1, r[2]>>]
    <2>1. PICK i \in 0..n, j \in 0..n : r = <<i, j>>
      OBVIOUS
    <2>2. CASE i >= j
      BY <2>1, <2>2
    <2>3. CASE ~(i >= j)
      <3> DEFINE h == (i + j) \div 2
      <3>1. h \in Nat /\ i <= h /\ h < j /\ i \in Nat /\ j \in Nat
        BY <2>3, Halfway
      <3>2. G(r) = Clamp(i, j)
        BY <2>1, <2>3
      <3> HIDE DEF h
      <3>3. <<i, h>> \in D /\ <<h + 1, j>> \in D /\ h \in 0..n - 1
        BY <3>1
      <3>4. g[<<i, h>>] = (IF i >= h THEN i ELSE Clamp(i, h)) /\ g[<<h + 1, j>>] = (IF h + 1 >= j THEN h + 1 ELSE Clamp(h + 1, j))
        BY <3>3
      <3>5. Clamp(i, j) = IF f[h] THEN g[<<i, h>>] ELSE g[<<h + 1, j>>]
        BY <3>1, <3>3, <3>4
      <3>6. QED BY <2>1, <2>3, <3>2, <3>5 DEF h
    <2>4. QED BY <2>2, <2>3
  <1> HIDE DEF G
  <1>2. g = [r \in D |-> IF r[1] >= r[2] THEN r[1]
                      ELSE LET h == (r[1] + r[2]) \div 2
                           IN  IF f[h] THEN g[<<r[1], h>>] ELSE g[<<h + 1, r[2]>>]]
    BY <1>1, Zenon
  <1>3. Bisects(g, n, f)
    BY <1>2, Zenon DEF Bisects
  <1>4. QED BY <1>3

(***************************************************************************)
(* sort.Search finds the index L at which f begins to hold: by descent on  *)
(* the length of a range around L in which it would not.                   *)
(***************************************************************************)
LEMMA SearchFinds ==
  ASSUME NEW n \in Nat, NEW L \in 0..n, NEW f, \A h \in 0..n - 1 : f[h] <=> h >= L
  PROVE  Search(n, f) = L
  <1>1. PICK g : Bisects(g, n, f)
    BY BisectionExists
  <1>2. PICK b : Bisects(b, n, f) /\ Search(n, f) = b[<<0, n>>]
    BY <1>1, SearchUnfolds
  <1>3. ASSUME NEW i \in 0..n, NEW j \in 0..n
        PROVE  b[<<i, j>>] = IF i >= j THEN i
                             ELSE LET h == (i + j) \div 2
                                  IN  IF f[h] THEN b[<<i, h>>] ELSE b[<<h + 1, j>>]
    <2> DEFINE E(r) == IF r[1] >= r[2] THEN r[1]
                       ELSE LET h == (r[1] + r[2]) \div 2
                            IN  IF f[h] THEN b[<<r[1], h>>] ELSE b[<<h + 1, r[2]>>]
    <2>1. b = [r \in (0..n) \X (0..n) |-> E(r)]
      BY <1>2, Zenon DEF Bisects
    <2> HIDE DEF E
    <2>2. b[<<i, j>>] = E(<<i, j>>)
      BY <2>1
    <2>3. QED BY <2>2 DEF E
  <1> DEFINE Wrong(d) == \E i, j \in 0..n : j - i = d /\ i <= L /\ L <= j /\ b[<<i, j>>] # L
             T == {d \in Nat : Wrong(d)}
  <1>4. ASSUME NEW d \in T PROVE \E e \in T : e < d
    <2>1. PICK i \in 0..n, j \in 0..n : j - i = d /\ i <= L /\ L <= j /\ b[<<i, j>>] # L
      OBVIOUS
    <2>2. ~(i >= j)
      <3>1. CASE i >= j
        <4>1. b[<<i, j>>] = i
          BY <1>3, <3>1
        <4>2. i = L
          BY <2>1, <3>1
        <4>3. QED BY <2>1, <4>1, <4>2
      <3>2. QED BY <3>1
    <2> DEFINE h == (i + j) \div 2
    <2>3. h \in Nat /\ i <= h /\ h < j /\ h \in 0..n - 1
      <3>1. i \in Nat /\ j \in Nat /\ i < j
        BY <2>2
      <3>2. h \in Nat /\ i <= h /\ h < j
        BY <3>1, Halfway
      <3>3. QED BY <3>1, <3>2
    <2>4. b[<<i, j>>] = IF f[h] THEN b[<<i, h>>] ELSE b[<<h + 1, j>>]
      BY <1>3, <2>2
    <2> HIDE DEF h
    <2>5. CASE f[h]
      <3>1. L <= h /\ h - i \in Nat /\ h - i < d /\ h \in 0..n
        BY <2>1, <2>3, <2>5
      <3>2. h - i \in T
        BY <2>1, <2>4, <2>5, <3>1
      <3> HIDE DEF T
      <3>3. QED BY <3>1, <3>2
    <2>6. CASE ~f[h]
      <3>1. h + 1 <= L /\ j - (h + 1) \in Nat /\ j - (h + 1) < d /\ h + 1 \in 0..n
        BY <2>1, <2>3, <2>6
      <3>2. j - (h + 1) \in T
        BY <2>1, <2>4, <2>6, <3>1
      <3> HIDE DEF T
      <3>3. QED BY <3>1, <3>2
    <2>7. QED BY <2>5, <2>6
  <1>5. T \in SUBSET Nat
    OBVIOUS
  <1>6. T = {}
    <2> HIDE DEF T
    <2>1. QED BY <1>4, <1>5, Descent
  <1>7. b[<<0, n>>] = L
    <2>1. n \notin T /\ n - 0 = n /\ 0 \in 0..n /\ n \in 0..n
      <3> HIDE DEF T
      <3>1. QED BY <1>6
    <2>2. ~Wrong(n)
      BY <2>1
    <2>3. QED BY <2>1, <2>2
  <1>8. QED BY <1>2, <1>7

(***************************************************************************)
(* On a monotone predicate sort.Search finds where it begins to hold.      *)
(***************************************************************************)
LEMMA SearchSplits ==
  ASSUME NEW n \in Nat, NEW f, \A i, j \in 0..n - 1 : i < j /\ f[i] => f[j]
  PROVE  /\ Search(n, f) \in 0..n
         /\ \A h \in 0..n - 1 : f[h] <=> h >= Search(n, f)
  <1> DEFINE T == {i \in 0..n : i = n \/ f[i]}
  <1>1. PICK L \in T : \A e \in T : ~(e < L)
    <2>1. T \in SUBSET Nat /\ n \in T
      OBVIOUS
    <2> HIDE DEF T
    <2>2. QED BY <2>1, Descent
  <1>2. L \in 0..n
    OBVIOUS
  <1>3. \A h \in 0..n - 1 : f[h] <=> h >= L
    <2> SUFFICES ASSUME NEW h \in 0..n - 1 PROVE f[h] <=> h >= L
      OBVIOUS
    <2>1. ASSUME f[h] PROVE h >= L
      <3>1. h \in T
        BY <2>1
      <3>2. QED BY <1>1, <1>2, <3>1
    <2>2. ASSUME h >= L PROVE f[h]
      <3>1. L # n /\ f[L] /\ L \in 0..n - 1
        BY <1>1, <2>2
      <3>2. L = h \/ L < h
        BY <1>2, <2>2
      <3>3. QED BY <3>1, <3>2
    <2>3. QED BY <2>1, <2>2
  <1>4. Search(n, f) = L
    BY <1>2, <1>3, SearchFinds
  <1>5. QED BY <1>2, <1>3, <1>4

-----------------------------------------------------------------------------
(* The slice *)

(***************************************************************************)
(* "sorted ascending", and without repetitions.                            *)
(***************************************************************************)
Ascending(s) ==
  /\ s \in Seq(Nat)
  /\ \A i, j \in 1..Len(s) : i < j => s[i] < s[j]

Elements(s) == {s[i] : i \in 1..Len(s)}

(***************************************************************************)
(* The first k elements of s are the ones up to n, or the ones below it.   *)
(***************************************************************************)
LEMMA AboveSplits ==
  ASSUME NEW s, Ascending(s), NEW n \in Int
  PROVE  /\ Above(s, n) \in 0..Len(s)
         /\ \A i \in 1..Len(s) : s[i] > n <=> i > Above(s, n)
  <1>1. s \in Seq(Nat) /\ Len(s) \in Nat /\ \A i \in 1..Len(s) : s[i] \in Nat
    BY DEF Ascending
  <1> DEFINE f == [i \in 0..Len(s) - 1 |-> s[i + 1] > n]
  <1>2. \A i \in 0..Len(s) - 1 : i + 1 \in 1..Len(s) /\ s[i + 1] \in Nat
    BY <1>1
  <1>3. \A i \in 0..Len(s) - 1 : f[i] = (s[i + 1] > n)
    BY Zenon
  <1>4. Above(s, n) = Search(Len(s), f)
    BY DEF Above
  <1> HIDE DEF f
  <1>5. ASSUME NEW i \in 0..Len(s) - 1, NEW j \in 0..Len(s) - 1, i < j, f[i] PROVE f[j]
    <2>1. s[i + 1] > n
      BY <1>3, <1>5, Zenon
    <2>2. s[j + 1] > n
      BY <1>1, <1>2, <1>5, <2>1 DEF Ascending
    <2>3. QED BY <1>3, <2>2, Zenon
  <1> DEFINE k == Search(Len(s), f)
  <1>6. k \in 0..Len(s) /\ \A h \in 0..Len(s) - 1 : f[h] <=> h >= k
    BY <1>1, <1>5, SearchSplits
  <1> HIDE DEF k
  <1>7. ASSUME NEW i \in 1..Len(s) PROVE s[i] > n <=> i > k
    <2>1. i - 1 \in 0..Len(s) - 1 /\ (i - 1) + 1 = i /\ (i - 1 >= k <=> i > k)
      BY <1>1, <1>6
    <2>2. f[i - 1] <=> s[i] > n
      BY <1>3, <2>1, Zenon
    <2>3. f[i - 1] <=> i > k
      BY <1>6, <2>1
    <2>4. QED BY <2>2, <2>3
  <1>8. QED BY <1>4, <1>6, <1>7 DEF k

(***************************************************************************)
(* The numbers from n on are the ones above n - 1.                         *)
(***************************************************************************)
LEMMA FromIsAbove ==
  ASSUME NEW s, Ascending(s), NEW n \in Int
  PROVE  From(s, n) = Above(s, n - 1)
  <1>1. ASSUME NEW i \in 0..Len(s) - 1 PROVE (s[i + 1] >= n) = (s[i + 1] > n - 1)
    <2>1. Len(s) \in Nat /\ i + 1 \in 1..Len(s) /\ s[i + 1] \in Nat
      BY DEF Ascending
    <2>2. QED BY <2>1
  <1>2. [i \in 0..Len(s) - 1 |-> s[i + 1] >= n] = [i \in 0..Len(s) - 1 |-> s[i + 1] > n - 1]
    BY <1>1, Zenon
  <1>3. QED BY <1>2 DEF From, Above

(***************************************************************************)
(* addHoleLocked: a new hole gets into its place, wherever it is.          *)
(***************************************************************************)
LEMMA AddHoleInserts ==
  ASSUME NEW s, Ascending(s), NEW n \in Nat, n \notin Elements(s)
  PROVE  Ascending(AddHole(s, n)) /\ Elements(AddHole(s, n)) = Elements(s) \cup {n}
  <1>1. s \in Seq(Nat) /\ Len(s) \in Nat /\ \A i \in 1..Len(s) : s[i] \in Nat /\ s[i] # n
    BY DEF Ascending, Elements
  <1> DEFINE k == IF s = <<>> \/ s[Len(s)] < n THEN Len(s) ELSE Above(s, n)
             t == AddHole(s, n)
  <1>2. k \in 0..Len(s) /\ (\A i \in 1..Len(s) : IF i <= k THEN s[i] < n ELSE s[i] > n)
    <2>1. CASE s = <<>> \/ s[Len(s)] < n
      <3>1. k = Len(s)
        BY <2>1
      <3> HIDE DEF k
      <3>2. ASSUME NEW i \in 1..Len(s) PROVE s[i] < n
        <4>1. Len(s) \in 1..Len(s) /\ s[Len(s)] < n /\ (i = Len(s) \/ i < Len(s))
          BY <1>1, <2>1
        <4>2. QED BY <1>1, <4>1 DEF Ascending
      <3>3. QED BY <1>1, <3>1, <3>2
    <2>2. CASE ~(s = <<>> \/ s[Len(s)] < n)
      <3>1. k = Above(s, n)
        BY <2>2
      <3> HIDE DEF k
      <3>2. k \in 0..Len(s) /\ \A i \in 1..Len(s) : s[i] > n <=> i > k
        <4>1. n \in Int
          OBVIOUS
        <4>2. QED BY <3>1, <4>1, AboveSplits
      <3>3. QED BY <1>1, <3>2
    <2>3. QED BY <2>1, <2>2
  <1>3. /\ t \in Seq(Nat) /\ Len(t) = Len(s) + 1
        /\ \A i \in 1..Len(s) + 1 :
             t[i] = IF i <= k THEN s[i] ELSE IF i = k + 1 THEN n ELSE s[i - 1]
    <2>1. CASE s = <<>> \/ s[Len(s)] < n
      <3>1. t = Append(s, n) /\ k = Len(s)
        BY <2>1 DEF AddHole
      <3> HIDE DEF t, k
      <3>2. QED BY <1>1, <3>1
    <2>2. CASE ~(s = <<>> \/ s[Len(s)] < n)
      <3>1. t = InsertHole(s, k, n)
        BY <2>2 DEF AddHole
      <3> HIDE DEF t, k
      <3>2. t = SubSeq(s, 1, k) \o <<n>> \o SubSeq(s, k + 1, Len(s))
        BY <3>1 DEF InsertHole
      <3> DEFINE a == SubSeq(s, 1, k)
                 z == SubSeq(s, k + 1, Len(s))
      <3>3. a \in Seq(Nat) /\ Len(a) = k /\ \A i \in 1..k : a[i] = s[i]
        BY <1>1, <1>2
      <3>4. z \in Seq(Nat) /\ Len(z) = Len(s) - k /\ \A i \in 1..Len(s) - k : z[i] = s[i + k]
        BY <1>1, <1>2
      <3> HIDE DEF a, z
      <3>5. t = a \o <<n>> \o z
        BY <3>2 DEF a, z
      <3> DEFINE u == a \o <<n>>
      <3>6. u \in Seq(Nat) /\ Len(u) = k + 1 /\ u[k + 1] = n /\ \A i \in 1..k : u[i] = a[i]
        BY <1>2, <3>3
      <3>7. t = u \o z
        BY <3>5
      <3> HIDE DEF u
      <3>8. /\ t \in Seq(Nat) /\ Len(t) = Len(s) + 1
            /\ \A i \in 1..Len(s) + 1 : t[i] = IF i <= k + 1 THEN u[i] ELSE z[i - (k + 1)]
        <4>1. Len(u) + Len(z) = Len(s) + 1
          BY <1>1, <1>2, <3>4, <3>6
        <4>2. /\ u \o z \in Seq(Nat) /\ Len(u \o z) = Len(s) + 1
              /\ \A i \in 1..Len(s) + 1 : (u \o z)[i] = IF i <= k + 1 THEN u[i] ELSE z[i - (k + 1)]
          <5>1. u \in Seq(Nat) /\ z \in Seq(Nat)
            BY <3>4, <3>6
          <5>2. /\ u \o z \in Seq(Nat) /\ Len(u \o z) = Len(u) + Len(z)
                /\ \A i \in 1..Len(u) + Len(z) : (u \o z)[i] = IF i <= Len(u) THEN u[i] ELSE z[i - Len(u)]
            BY <5>1, Concatenated
          <5>3. QED BY <3>6, <4>1, <5>2, Zenon
        <4>3. QED BY <3>7, <4>2
      <3>9. ASSUME NEW i \in 1..Len(s) + 1
            PROVE  t[i] = IF i <= k THEN s[i] ELSE IF i = k + 1 THEN n ELSE s[i - 1]
        <4>1. CASE i <= k
          <5>1. i <= k + 1 /\ i \in 1..k
            BY <1>2, <4>1
          <5>2. t[i] = u[i] /\ u[i] = a[i] /\ a[i] = s[i]
            BY <3>3, <3>6, <3>8, <5>1
          <5>3. QED BY <4>1, <5>2
        <4>2. CASE i = k + 1
          BY <1>2, <3>6, <3>8, <4>2
        <4>3. CASE i > k + 1
          <5>1. i - (k + 1) \in 1..Len(s) - k /\ (i - (k + 1)) + k = i - 1
            BY <1>1, <1>2, <4>3
          <5>2. t[i] = z[i - (k + 1)]
            BY <1>2, <3>8, <4>3
          <5>3. z[i - (k + 1)] = s[i - 1]
            BY <3>4, <5>1
          <5>4. QED BY <1>2, <4>3, <5>2, <5>3
        <4>4. QED BY <1>2, <4>1, <4>2, <4>3
      <3>10. QED BY <3>8, <3>9
    <2>3. QED BY <2>1, <2>2
  <1> HIDE DEF t, k
  <1>4. Ascending(t)
    <2>1. ASSUME NEW i \in 1..Len(t), NEW j \in 1..Len(t), i < j PROVE t[i] < t[j]
      <3>1. i \in 1..Len(s) + 1 /\ j \in 1..Len(s) + 1
        BY <1>3
      <3>2. CASE j <= k
        <4>1. i <= k /\ i \in 1..Len(s) /\ j \in 1..Len(s)
          BY <1>1, <1>2, <2>1, <3>1, <3>2
        <4>2. t[i] = s[i] /\ t[j] = s[j]
          BY <1>3, <3>1, <3>2, <4>1
        <4>3. QED BY <2>1, <4>1, <4>2 DEF Ascending
      <3>3. CASE j = k + 1
        <4>1. t[i] = s[i] /\ t[j] = n /\ i \in 1..Len(s) /\ i <= k
          BY <1>1, <1>2, <1>3, <2>1, <3>1, <3>3
        <4>2. QED BY <1>2, <4>1
      <3>4. CASE j > k + 1
        <4>1. t[j] = s[j - 1] /\ j - 1 \in 1..Len(s) /\ j - 1 > k /\ s[j - 1] > n
          BY <1>1, <1>2, <1>3, <3>1, <3>4
        <4>2. CASE i <= k
          <5>1. t[i] = s[i] /\ i \in 1..Len(s) /\ s[i] < n
            BY <1>1, <1>2, <1>3, <3>1, <4>2
          <5>2. QED BY <1>1, <4>1, <5>1
        <4>3. CASE i = k + 1
          <5>1. t[i] = n
            BY <1>2, <1>3, <3>1, <4>3
          <5>2. QED BY <1>1, <4>1, <5>1
        <4>4. CASE i > k + 1
          <5>1. t[i] = s[i - 1] /\ i - 1 \in 1..Len(s) /\ i - 1 < j - 1
            BY <1>1, <1>2, <1>3, <2>1, <3>1, <4>4
          <5>2. QED BY <4>1, <5>1 DEF Ascending
        <4>5. QED BY <1>2, <4>2, <4>3, <4>4
      <3>5. QED BY <1>2, <3>2, <3>3, <3>4
    <2>2. QED BY <1>3, <2>1 DEF Ascending
  <1>5. ASSUME NEW x \in Elements(t) PROVE x \in Elements(s) \cup {n}
    <2>1. PICK i \in 1..Len(t) : t[i] = x
      BY DEF Elements
    <2>2. CASE i <= k
      <3>1. i \in 1..Len(s) /\ s[i] = x
        BY <1>1, <1>2, <1>3, <2>1, <2>2
      <3>2. QED BY <3>1 DEF Elements
    <2>3. CASE i = k + 1
      BY <1>1, <1>2, <1>3, <2>1, <2>3
    <2>4. CASE i > k + 1
      <3>1. i - 1 \in 1..Len(s) /\ s[i - 1] = x
        BY <1>1, <1>2, <1>3, <2>1, <2>4
      <3>2. QED BY <3>1 DEF Elements
    <2>5. QED BY <1>2, <2>2, <2>3, <2>4
  <1>6. ASSUME NEW x \in Elements(s) \cup {n} PROVE x \in Elements(t)
    <2>1. CASE x = n
      <3>1. k + 1 \in 1..Len(t) /\ t[k + 1] = n
        BY <1>1, <1>2, <1>3
      <3>2. QED BY <2>1, <3>1 DEF Elements
    <2>2. CASE x \in Elements(s)
      <3>1. PICK i \in 1..Len(s) : s[i] = x
        BY <2>2 DEF Elements
      <3>2. CASE i <= k
        <4>1. i \in 1..Len(t) /\ t[i] = x
          BY <1>1, <1>2, <1>3, <3>1, <3>2
        <4>2. QED BY <4>1 DEF Elements
      <3>3. CASE i > k
        <4>1. i + 1 \in 1..Len(t) /\ t[i + 1] = x
          BY <1>1, <1>2, <1>3, <3>1, <3>3
        <4>2. QED BY <4>1 DEF Elements
      <3>4. QED BY <1>2, <3>2, <3>3
    <2>3. QED BY <2>1, <2>2
  <1>7. QED BY <1>4, <1>5, <1>6 DEF t

-----------------------------------------------------------------------------
(* The scan for ghosts *)

(***************************************************************************)
(* What the recursive function of the scan is asked to be.                 *)
(***************************************************************************)
Scans(u, s, N, ghosts) ==
  u = [n \in 0..N |-> IF n = 0 THEN s
                      ELSE IF n \in ghosts THEN AddHole(u[n - 1], n) ELSE u[n - 1]]

(***************************************************************************)
(* The recursion over the numbers has a solution.                          *)
(***************************************************************************)
LEMMA ScanExists ==
  ASSUME NEW s, NEW N \in Nat, NEW ghosts
  PROVE  \E u : Scans(u, s, N, ghosts)
  <1> DEFINE T == {m \in Nat : ~\E u : Scans(u, s, m, ghosts)}
  <1>1. ASSUME NEW m \in T PROVE \E e \in T : e < m
    <2>1. m # 0
      <3> DEFINE u == [n \in 0..0 |-> s]
      <3>1. \A n \in 0..0 : n = 0
        OBVIOUS
      <3>2. u = [n \in 0..0 |-> IF n = 0 THEN s
                                ELSE IF n \in ghosts THEN AddHole(u[n - 1], n) ELSE u[n - 1]]
        BY <3>1, Zenon
      <3>3. Scans(u, s, 0, ghosts)
        BY <3>2, Zenon DEF Scans
      <3>4. QED BY <3>3
    <2>2. m - 1 \in Nat /\ m - 1 < m /\ m \in Nat
      BY <2>1
    <2>3. ASSUME NEW u, Scans(u, s, m - 1, ghosts) PROVE FALSE
      <3> DEFINE Then(v, n) == IF n = 0 THEN s
                               ELSE IF n \in ghosts THEN AddHole(v[n - 1], n) ELSE v[n - 1]
                 w == [n \in 0..m |-> IF n = m THEN Then(u, m) ELSE u[n]]
      <3>1. \A n \in 0..m - 1 : u[n] = Then(u, n)
        <4>1. u = [n \in 0..m - 1 |-> Then(u, n)]
          BY <2>3, Zenon DEF Scans
        <4> HIDE DEF Then
        <4>2. QED BY <4>1, Zenon
      <3>2. \A n \in 0..m - 1 : w[n] = u[n]
        BY <2>2
      <3>3. ASSUME NEW n \in 0..m PROVE Then(w, n) = Then(u, n)
        <4>1. n # 0 => n - 1 \in 0..m - 1
          BY <2>2
        <4> HIDE DEF w
        <4>2. QED BY <3>2, <4>1
      <3>4. ASSUME NEW n \in 0..m PROVE (IF n = m THEN Then(u, m) ELSE u[n]) = Then(w, n)
        <4>1. n = m \/ n \in 0..m - 1
          BY <2>2
        <4> HIDE DEF w, Then
        <4>2. QED BY <3>1, <3>3, <4>1
      <3>5. w = [n \in 0..m |-> Then(w, n)]
        BY <3>4, Zenon
      <3>6. Scans(w, s, m, ghosts)
        BY <3>5, Zenon DEF Scans
      <3>7. QED BY <3>6
    <2>4. m - 1 \in T
      BY <2>2, <2>3
    <2> HIDE DEF T
    <2>5. QED BY <2>2, <2>4
  <1>2. T \in SUBSET Nat
    OBVIOUS
  <1>3. T = {}
    <2> HIDE DEF T
    <2>1. QED BY <1>1, <1>2, Descent
  <1>4. N \notin T
    <2> HIDE DEF T
    <2>1. QED BY <1>3
  <1>5. QED BY <1>4

(***************************************************************************)
(* After the scan the slice is still ascending and has the ghosts, too.    *)
(***************************************************************************)
LEMMA ScanAdds ==
  ASSUME NEW s, NEW top \in Nat, Ascending(s), NEW ghosts \in SUBSET (1..top),
         ghosts \cap Elements(s) = {}
  PROVE  /\ Ascending(Scanned(s, top, ghosts))
         /\ Elements(Scanned(s, top, ghosts)) = Elements(s) \cup ghosts
  <1>1. \A g \in ghosts : g \in Nat /\ 1 <= g /\ g <= top
    OBVIOUS
  <1>2. PICK u : Scans(u, s, top, ghosts) /\ Scanned(s, top, ghosts) = u[top]
    <2> DEFINE c == CHOOSE u : Scans(u, s, top, ghosts)
    <2>1. Scans(c, s, top, ghosts)
      BY ScanExists
    <2>2. Scanned(s, top, ghosts) = c[top]
      BY Zenon DEF Scanned, Scans
    <2>3. QED BY <2>1, <2>2
  <1>3. ASSUME NEW n \in 0..top
        PROVE  u[n] = IF n = 0 THEN s
                      ELSE IF n \in ghosts THEN AddHole(u[n - 1], n) ELSE u[n - 1]
    BY <1>2, Zenon DEF Scans
  <1> DEFINE Upto(n) == Elements(s) \cup {g \in ghosts : g <= n}
             Right(n) == Ascending(u[n]) /\ Elements(u[n]) = Upto(n)
             T == {n \in 0..top : ~Right(n)}
  <1>4. ASSUME NEW n \in T PROVE \E e \in T : e < n
    <2>1. n \in 0..top /\ ~Right(n)
      OBVIOUS
    <2>2. n # 0
      <3>1. {g \in ghosts : g <= 0} = {}
        <4>1. \A g \in ghosts : ~(g <= 0)
          BY <1>1
        <4>2. QED BY <4>1
      <3>2. n = 0 => u[n] = s
        BY <1>3, <2>1
      <3>3. QED BY <2>1, <3>1, <3>2
    <2>3. n - 1 \in 0..top /\ n - 1 < n /\ n \in Nat
      BY <2>1, <2>2
    <2>4. ASSUME Right(n - 1) PROVE FALSE
      <3>1. CASE n \in ghosts
        <4>1. u[n] = AddHole(u[n - 1], n)
          BY <1>3, <2>1, <2>2, <3>1
        <4>2. n \notin Elements(u[n - 1])
          BY <2>3, <2>4, <3>1
        <4>3. Ascending(u[n]) /\ Elements(u[n]) = Upto(n - 1) \cup {n}
          BY <2>3, <2>4, <4>1, <4>2, AddHoleInserts
        <4>4. Upto(n) = Upto(n - 1) \cup {n}
          <5>1. \A g \in ghosts : g <= n <=> g <= n - 1 \/ g = n
            BY <2>3
          <5>2. QED BY <3>1, <5>1
        <4>5. QED BY <2>1, <4>3, <4>4
      <3>2. CASE n \notin ghosts
        <4>1. u[n] = u[n - 1]
          BY <1>3, <2>1, <2>2, <3>2
        <4>2. Upto(n) = Upto(n - 1)
          <5>1. \A g \in ghosts : g <= n <=> g <= n - 1
            BY <2>3, <3>2
          <5>2. QED BY <5>1
        <4>3. QED BY <2>1, <2>4, <4>1, <4>2
      <3>3. QED BY <3>1, <3>2
    <2>5. n - 1 \in T
      BY <2>3, <2>4
    <2> HIDE DEF T
    <2>6. QED BY <2>3, <2>5
  <1>5. T \in SUBSET Nat
    OBVIOUS
  <1>6. T = {}
    <2> HIDE DEF T
    <2>1. QED BY <1>4, <1>5, Descent
  <1>7. top \notin T
    <2> HIDE DEF T
    <2>1. QED BY <1>6
  <1>8. Right(top)
    BY <1>7
  <1>9. Upto(top) = Elements(s) \cup ghosts
    BY <1>1
  <1>10. QED BY <1>2, <1>8, <1>9

-----------------------------------------------------------------------------
(* The invariant of the slice *)

(***************************************************************************)
(* The front of the line.                                                  *)
(***************************************************************************)
LEMMA LeastOf ==
  ASSUME NEW S \in SUBSET Nat, S # {}
  PROVE  Least(S) \in S /\ \A m \in S : Least(S) <= m
  <1>1. PICK x \in S : \A m \in S : ~(m < x)
    BY Descent
  <1>2. \A m \in S : x <= m
    BY <1>1
  <1>3. QED BY <1>1, <1>2, Zenon DEF Least

(***************************************************************************)
(* pruneHolesLocked drops the holes the front has moved past.              *)
(***************************************************************************)
LEMMA PruneDrops ==
  ASSUME NEW s, Ascending(s), NEW S \in SUBSET Nat
  PROVE  /\ Ascending(PruneHoles(s, S))
         /\ Elements(PruneHoles(s, S)) = IF S = {} THEN {} ELSE {h \in Elements(s) : h > Least(S)}
  <1>1. CASE S = {}
    <2>1. PruneHoles(s, S) = <<>>
      BY <1>1 DEF PruneHoles
    <2>2. Ascending(<<>>) /\ Elements(<<>>) = {}
      BY DEF Ascending, Elements
    <2>3. QED BY <1>1, <2>1, <2>2
  <1>2. CASE S # {}
    <2> DEFINE least == Least(S)
               k == Above(s, least)
               t == PruneHoles(s, S)
    <2>1. least \in Int
      <3>1. least \in S
        BY <1>2, LeastOf
      <3> HIDE DEF least
      <3>2. QED BY <3>1
    <2>2. t = SubSeq(s, k + 1, Len(s))
      BY <1>2 DEF PruneHoles
    <2> HIDE DEF least
    <2>3. k \in 0..Len(s) /\ \A i \in 1..Len(s) : s[i] > least <=> i > k
      BY <2>1, AboveSplits
    <2>4. s \in Seq(Nat) /\ Len(s) \in Nat /\ \A i, j \in 1..Len(s) : i < j => s[i] < s[j]
      BY DEF Ascending
    <2> HIDE DEF k, t
    <2>5. /\ t \in Seq(Nat) /\ Len(t) = Len(s) - k
          /\ \A i \in 1..Len(s) - k : t[i] = s[i + k] /\ i + k \in 1..Len(s)
      BY <2>2, <2>3, <2>4
    <2>6. Ascending(t)
      <3>1. ASSUME NEW i \in 1..Len(t), NEW j \in 1..Len(t), i < j PROVE t[i] < t[j]
        <4>1. /\ t[i] = s[i + k] /\ i + k \in 1..Len(s)
              /\ t[j] = s[j + k] /\ j + k \in 1..Len(s)
              /\ i + k < j + k
          BY <2>3, <2>5, <3>1
        <4>2. QED BY <2>4, <4>1
      <3>2. QED BY <2>5, <3>1 DEF Ascending
    <2>7. ASSUME NEW h \in Elements(t) PROVE h \in Elements(s) /\ h > least
      <3>1. PICK i \in 1..Len(s) - k : t[i] = h
        BY <2>5 DEF Elements
      <3>2. i + k \in 1..Len(s) /\ s[i + k] = h /\ i + k > k
        BY <2>3, <2>5, <3>1
      <3>3. QED BY <2>3, <3>2 DEF Elements
    <2>8. ASSUME NEW h \in Elements(s), h > least PROVE h \in Elements(t)
      <3>1. PICK i \in 1..Len(s) : s[i] = h
        BY DEF Elements
      <3>2. i > k
        BY <2>3, <2>8, <3>1
      <3>3. i - k \in 1..Len(t) /\ t[i - k] = h
        BY <2>3, <2>4, <2>5, <3>1, <3>2
      <3>4. QED BY <3>3 DEF Elements
    <2>9. Elements(t) = {h \in Elements(s) : h > least}
      BY <2>7, <2>8
    <2>10. QED BY <1>2, <2>6, <2>9 DEF t, least
  <1>3. QED BY <1>1, <1>2

(***************************************************************************)
(* The inductive invariant of the slice: the numbers in the line were      *)
(* given out, and the slice is ascending and has the gaps behind the       *)
(* front.                                                                  *)
(***************************************************************************)
Gaps == IF queued = {} THEN {} ELSE (Least(queued)..lastSeq) \ queued

SliceInv ==
  /\ lastSeq \in Nat
  /\ queued \subseteq 1..lastSeq
  /\ Ascending(slice)
  /\ Elements(slice) = Gaps

(***************************************************************************)
(* Promotions move the front past the promoted; what is missing behind it  *)
(* then was missing before or is a ghost that left just now.               *)
(***************************************************************************)
LEMMA SliceReconciled ==
  ASSUME SliceInv, NEW ghosts \in SUBSET queued, NEW promoted \in SUBSET (queued \ ghosts),
         ReconcileSlice(ghosts, promoted)
  PROVE  SliceInv'
  <1>1. /\ lastSeq \in Nat /\ queued \subseteq 1..lastSeq
        /\ Ascending(slice) /\ Elements(slice) = Gaps
    BY DEF SliceInv
  <1>2. /\ \A p \in promoted, m \in queued \ (ghosts \cup promoted) : p < m
        /\ queued' = queued \ (ghosts \cup promoted)
        /\ slice' = PruneHoles(Scanned(slice, lastSeq, ghosts), queued')
        /\ lastSeq' = lastSeq
    BY DEF ReconcileSlice
  <1>3. /\ Ascending(Scanned(slice, lastSeq, ghosts))
        /\ Elements(Scanned(slice, lastSeq, ghosts)) = Gaps \cup ghosts
    <2>1. ghosts \cap Elements(slice) = {}
      BY <1>1 DEF Gaps
    <2>2. ghosts \in SUBSET (1..lastSeq)
      BY <1>1
    <2>3. QED BY <1>1, <2>1, <2>2, ScanAdds
  <1>4. queued' \subseteq 1..lastSeq /\ queued' \in SUBSET Nat
    BY <1>1, <1>2
  <1> DEFINE S == queued'
  <1>5. /\ Ascending(slice')
        /\ Elements(slice') = IF S = {} THEN {} ELSE {h \in Gaps \cup ghosts : h > Least(S)}
    <2> DEFINE z == Scanned(slice, lastSeq, ghosts)
    <2>1. Ascending(z) /\ Elements(z) = Gaps \cup ghosts /\ S \in SUBSET Nat /\ slice' = PruneHoles(z, S)
      BY <1>2, <1>3, <1>4
    <2> HIDE DEF z, S
    <2>2. /\ Ascending(PruneHoles(z, S))
          /\ Elements(PruneHoles(z, S)) = IF S = {} THEN {} ELSE {h \in Elements(z) : h > Least(S)}
      BY <2>1, PruneDrops
    <2>3. QED BY <2>1, <2>2
  <1>6. ASSUME S # {} PROVE {h \in Gaps \cup ghosts : h > Least(S)} = (Least(S)..lastSeq) \ S
    <2> DEFINE new == Least(S)
               old == Least(queued)
    <2>1. new \in S /\ \A m \in S : new <= m
      BY <1>4, <1>6, LeastOf
    <2>2. queued \in SUBSET Nat /\ queued # {}
      BY <1>1, <1>2, <1>6
    <2>3. old \in queued /\ \A m \in queued : old <= m
      BY <2>2, LeastOf
    <2>4. Gaps = (old..lastSeq) \ queued
      BY <2>2 DEF Gaps
    <2> HIDE DEF new, old
    <2>5. /\ new \in Nat /\ old \in Nat /\ new \in queued /\ old <= new
          /\ new \notin ghosts /\ \A p \in promoted : p < new
      BY <1>2, <2>1, <2>2, <2>3
    <2>6. \A h \in queued : h \in Nat /\ h <= lastSeq
      BY <1>1
    <2>7. ASSUME NEW h \in Gaps \cup ghosts, h > new PROVE h \in (new..lastSeq) \ S
      BY <1>1, <1>2, <2>4, <2>5, <2>6, <2>7
    <2>8. ASSUME NEW h \in (new..lastSeq) \ S PROVE h \in Gaps \cup ghosts /\ h > new
      <3>1. h \in Int /\ new <= h /\ h <= lastSeq /\ h # new
        BY <1>1, <2>1, <2>5
      <3>2. h \notin promoted
        BY <2>5, <2>6, <3>1
      <3>3. CASE h \in queued
        BY <1>2, <2>5, <3>1, <3>2, <3>3
      <3>4. CASE h \notin queued
        BY <1>1, <2>4, <2>5, <3>1, <3>4
      <3>5. QED BY <3>3, <3>4
    <2>9. {h \in Gaps \cup ghosts : h > new} = (new..lastSeq) \ S
      BY <2>7, <2>8
    <2>10. QED BY <2>9 DEF new
  <1>7. Elements(slice') = Gaps'
    BY <1>2, <1>5, <1>6 DEF Gaps
  <1>8. QED BY <1>1, <1>2, <1>4, <1>5, <1>7 DEF SliceInv

(***************************************************************************)
(* A new number is the greatest: it leaves no gap behind the front.        *)
(***************************************************************************)
LEMMA SliceEnqueued ==
  ASSUME SliceInv, EnqueueNumber
  PROVE  SliceInv'
  <1>1. /\ lastSeq \in Nat /\ queued \subseteq 1..lastSeq
        /\ Ascending(slice) /\ Elements(slice) = Gaps
    BY DEF SliceInv
  <1>2. lastSeq' = lastSeq + 1 /\ queued' = queued \cup {lastSeq + 1} /\ slice' = slice
    BY DEF EnqueueNumber
  <1>3. \A m \in queued : m \in Nat /\ 1 <= m /\ m <= lastSeq
    BY <1>1
  <1>4. queued' \subseteq 1..lastSeq' /\ queued' \in SUBSET Nat /\ queued' # {}
    BY <1>1, <1>2, <1>3
  <1> DEFINE new == Least(queued')
  <1>5. new \in queued' /\ \A m \in queued' : new <= m
    <2> DEFINE S == queued'
    <2>1. S \in SUBSET Nat /\ S # {}
      BY <1>4
    <2> HIDE DEF S
    <2>2. Least(S) \in S /\ \A m \in S : Least(S) <= m
      BY <2>1, LeastOf
    <2>3. QED BY <2>2 DEF S
  <1>6. Gaps' = (new..lastSeq + 1) \ queued'
    BY <1>2, <1>4 DEF Gaps
  <1> HIDE DEF new
  <1>7. Gaps' = Gaps
    <2>1. CASE queued = {}
      <3>1. new = lastSeq + 1
        BY <1>2, <1>5, <2>1
      <3>2. QED BY <1>1, <1>2, <1>6, <2>1, <3>1 DEF Gaps
    <2>2. CASE queued # {}
      <3> DEFINE old == Least(queued)
      <3>1. queued \in SUBSET Nat
        BY <1>3
      <3>2. old \in queued /\ \A m \in queued : old <= m
        BY <2>2, <3>1, LeastOf
      <3>3. Gaps = (old..lastSeq) \ queued
        BY <2>2 DEF Gaps
      <3> HIDE DEF old
      <3>4. new = old
        BY <1>1, <1>2, <1>3, <1>5, <3>2
      <3>5. ASSUME NEW h PROVE h \in (old..lastSeq) \ queued <=> h \in (old..lastSeq + 1) \ (queued \cup {lastSeq + 1})
        BY <1>1, <1>3, <3>2
      <3>6. QED BY <1>2, <1>6, <3>3, <3>4, <3>5
    <2>3. QED BY <2>1, <2>2
  <1>8. QED BY <1>1, <1>2, <1>4, <1>7 DEF SliceInv

(***************************************************************************)
(* Every step keeps the invariant of the slice.                            *)
(***************************************************************************)
LEMMA SliceKept == SliceInv /\ [SliceNext]_sliceVars => SliceInv'
  <1> SUFFICES ASSUME SliceInv, [SliceNext]_sliceVars PROVE SliceInv'
    OBVIOUS
  <1>1. ASSUME NEW ghosts \in SUBSET queued, NEW promoted \in SUBSET (queued \ ghosts),
               ReconcileSlice(ghosts, promoted)
        PROVE  SliceInv'
    BY <1>1, SliceReconciled
  <1>2. CASE FlushSlice
    <2>1. queued' = {} /\ slice' = <<>> /\ lastSeq' = lastSeq
      BY <1>2 DEF FlushSlice
    <2>2. Ascending(<<>>) /\ Elements(<<>>) = {}
      BY DEF Ascending, Elements
    <2>3. QED BY <2>1, <2>2 DEF SliceInv, Gaps
  <1>3. CASE UNCHANGED sliceVars
    BY <1>3 DEF sliceVars, SliceInv, Gaps
  <1>4. QED BY <1>1, <1>2, <1>3, SliceEnqueued DEF SliceNext

(***************************************************************************)
(* The invariant of the slice holds always.                                *)
(***************************************************************************)
LEMMA SliceInvariant == SliceSpec => []SliceInv
  <1>1. SliceInit => SliceInv
    <2>1. Ascending(<<>>) /\ Elements(<<>>) = {}
      BY DEF Ascending, Elements
    <2>2. QED BY <2>1 DEF SliceInit, SliceInv, Gaps
  <1>2. QED BY <1>1, SliceKept, PTL DEF SliceSpec

(***************************************************************************)
(* SliceIsGaps: after any evictions, promotions and flushes, any number of *)
(* them, the slice is strictly ascending and has exactly the numbers that  *)
(* are missing from the line behind its front.                             *)
(***************************************************************************)
THEOREM SliceAlwaysGaps == SliceSpec => []SliceIsGaps
  <1>1. SliceInv => SliceIsGaps
    <2> SUFFICES ASSUME SliceInv PROVE SliceIsGaps
      OBVIOUS
    <2>1. slice \in Seq(Nat) /\ Len(slice) \in Nat /\ DOMAIN slice = 1..Len(slice)
      BY DEF SliceInv, Ascending
    <2>2. ASSUME NEW i \in 1..Len(slice) - 1 PROVE slice[i] < slice[i + 1]
      <3>1. i \in 1..Len(slice) /\ i + 1 \in 1..Len(slice) /\ i < i + 1
        BY <2>1
      <3>2. QED BY <3>1 DEF SliceInv, Ascending
    <2>3. {slice[i] : i \in DOMAIN slice} = Gaps
      BY <2>1 DEF SliceInv, Elements
    <2>4. QED BY <2>2, <2>3 DEF SliceIsGaps, Gaps
  <1>2. QED BY <1>1, SliceInvariant, PTL

(***************************************************************************)
(* PositionIsRank: the position that two bisections of the slice compute   *)
(* is the rank in the line, however long the line and the slice are.       *)
(***************************************************************************)
THEOREM PositionAlwaysRank == SliceSpec => []PositionIsRank
  <1>1. ASSUME SliceInv, NEW n \in queued
        PROVE  SlicePosition(n) = Cardinality({m \in queued : m <= n})
    <2>1. /\ lastSeq \in Nat /\ queued \in SUBSET Nat /\ queued # {}
          /\ \A m \in queued : m \in Nat /\ m <= lastSeq
          /\ Ascending(slice) /\ Elements(slice) = (Least(queued)..lastSeq) \ queued
      BY <1>1 DEF SliceInv, Gaps
    <2> DEFINE front == Least(queued)
               lo == Above(slice, front)
               hi == From(slice, n)
               holed == {slice[i] : i \in 1..hi}
               upto == {m \in queued : m <= n}
    <2>2. front \in queued /\ \A m \in queued : front <= m
      BY <2>1, LeastOf
    <2>3. SlicePosition(n) = n - front + 1 - (hi - lo)
      BY DEF SlicePosition
    <2>4. Elements(slice) = (front..lastSeq) \ queued
      BY <2>1
    <2> HIDE DEF front
    <2>5. front \in Nat /\ n \in Nat /\ n - 1 \in Int /\ front <= n /\ n <= lastSeq
      BY <2>1, <2>2
    <2>6. Len(slice) \in Nat /\ \A i \in 1..Len(slice) : slice[i] \in Elements(slice) /\ slice[i] \in Nat
      BY <2>1 DEF Ascending, Elements
    <2>7. lo \in 0..Len(slice) /\ \A i \in 1..Len(slice) : slice[i] > front <=> i > lo
      BY <2>1, <2>5, AboveSplits
    <2>8. hi \in 0..Len(slice) /\ \A i \in 1..Len(slice) : slice[i] > n - 1 <=> i > hi
      <3>1. hi = Above(slice, n - 1)
        BY <2>1, <2>5, FromIsAbove
      <3> HIDE DEF hi
      <3>2. QED BY <2>1, <2>5, <3>1, AboveSplits
    <2> HIDE DEF lo, hi
    <2>9. lo = 0
      <3>1. CASE lo # 0
        <4>1. lo \in 1..Len(slice) /\ ~(slice[lo] > front)
          BY <2>6, <2>7, <3>1
        <4>2. slice[lo] \in (front..lastSeq) \ queued
          BY <2>4, <2>6, <4>1
        <4>3. QED BY <2>2, <2>5, <4>1, <4>2
      <3>2. QED BY <3>1
    <2>10. IsFiniteSet(holed) /\ Cardinality(holed) = hi
      <3>1. \A i, j \in 1..hi : i # j => slice[i] # slice[j]
        <4> SUFFICES ASSUME NEW i \in 1..hi, NEW j \in 1..hi, i # j PROVE slice[i] # slice[j]
          OBVIOUS
        <4>1. i \in 1..Len(slice) /\ j \in 1..Len(slice) /\ (i < j \/ j < i)
          BY <2>6, <2>8
        <4>2. slice[i] < slice[j] \/ slice[j] < slice[i]
          BY <2>1, <4>1 DEF Ascending
        <4>3. QED BY <2>6, <4>1, <4>2
      <3>2. hi \in Nat
        BY <2>8
      <3>3. QED BY <3>1, <3>2, CountDistinct
    <2>11. \A x : x \in holed <=> x \in (front..n) \ queued
      <3>1. ASSUME NEW i \in 1..hi PROVE slice[i] \in (front..n) \ queued
        <4>1. i \in 1..Len(slice) /\ ~(i > hi)
          BY <2>6, <2>8
        <4>2. slice[i] \in (front..lastSeq) \ queued /\ ~(slice[i] > n - 1) /\ slice[i] \in Nat
          BY <2>4, <2>6, <2>8, <4>1
        <4>3. QED BY <2>5, <4>2
      <3>2. ASSUME NEW x \in (front..n) \ queued PROVE x \in holed
        <4>1. x \in Elements(slice)
          BY <2>1, <2>4, <2>5
        <4>2. PICK i \in 1..Len(slice) : slice[i] = x
          BY <4>1 DEF Elements
        <4>3. ~(x > n - 1)
          BY <1>1, <2>5
        <4>4. i \in 1..hi
          BY <2>6, <2>8, <4>2, <4>3
        <4>5. QED BY <4>2, <4>4
      <3>3. QED BY <3>1, <3>2
    <2>12. holed \cup upto = front..n /\ holed \cap upto = {}
      <3> HIDE DEF holed
      <3>1. \A x : x \in upto <=> x \in queued /\ x \in front..n
        <4>1. \A m \in queued : m <= n <=> m \in front..n
          BY <2>1, <2>2, <2>5
        <4>2. QED BY <4>1
      <3> HIDE DEF upto
      <3>2. QED BY <2>11, <3>1
    <2> HIDE DEF holed, upto
    <2>13. IsFiniteSet(front..n) /\ Cardinality(front..n) = n - front + 1
      BY <2>5, FS_Interval
    <2>14. IsFiniteSet(upto)
      <3>1. upto \in SUBSET (front..n)
        BY <2>12
      <3>2. QED BY <2>13, <3>1, FS_Subset
    <2>15. Cardinality(upto) \in Nat /\ Cardinality(front..n) = Cardinality(holed) + Cardinality(upto)
      <3>1. Cardinality({}) = 0
        BY FS_EmptySet
      <3>2. Cardinality(holed \cup upto) = Cardinality(holed) + Cardinality(upto) - Cardinality(holed \cap upto)
        BY <2>10, <2>14, FS_Union
      <3>3. Cardinality(upto) \in Nat /\ Cardinality(holed) \in Nat
        BY <2>10, <2>14, FS_CardinalityType
      <3>4. Cardinality(holed \cap upto) = 0 /\ Cardinality(holed \cup upto) = Cardinality(front..n)
        BY <2>12, <3>1
      <3>5. QED BY <3>2, <3>3, <3>4
    <2>16. SlicePosition(n) = Cardinality(upto)
      BY <2>3, <2>5, <2>8, <2>9, <2>10, <2>13, <2>15
    <2>17. QED BY <2>16 DEF upto
  <1>2. SliceInv => PositionIsRank
    BY <1>1, Zenon DEF PositionIsRank
  <1>3. QED BY <1>2, SliceInvariant, PTL

-----------------------------------------------------------------------------
(* The store with its slice *)

(***************************************************************************)
(* Sequence numbers: of the waiters, and of the ghosts among them.         *)
(***************************************************************************)
Numbers == {entries[queue[i]].seq : i \in DOMAIN queue}

GhostNumbers(now) == {entries[queue[i]].seq : i \in GhostPositions(now)}

(***************************************************************************)
(* The store as it is coded: Reconcile scans and prunes the slice, Flush   *)
(* empties it, and nothing else writes it.  The set of MemoryStore goes    *)
(* along, for comparison.                                                  *)
(***************************************************************************)
SliceNextStep ==
  \/ \E capacity \in Capacities, now \in Times :
       /\ Reconcile(capacity, now)
       /\ slice' = PruneHoles(Scanned(slice, nextSeq, GhostNumbers(now)), Numbers')
  \/ Flush /\ slice' = <<>>
  \/ /\ \/ \E id \in Ids, now \in Times :
             \/ \E capacity \in Capacities : TryAdmit(id, capacity, now)
             \/ Enqueue(id, now)
             \/ Lookup(id, now)
             \/ Touch(id, now)
        \/ \E capacity \in Capacities : SetCapacity(capacity)
     /\ UNCHANGED slice

SliceStore == Init /\ slice = <<>> /\ [][SliceNextStep]_<<vars, slice>>

SliceIsSet == Ascending(slice) /\ Elements(slice) = holes

Numbered == \A i \in DOMAIN queue : entries[queue[i]].seq # 0

(***************************************************************************)
(* Numbers are given out from 1 on.                                        *)
(***************************************************************************)
LEMMA NumberedNext == IInv /\ Numbered /\ [Next]_vars => Numbered'
  <1> SUFFICES ASSUME IInv, Numbered, [Next]_vars PROVE Numbered'
    OBVIOUS
  <1>1. entries \in [Ids -> Entry] /\ queue \in Seq(Ids) /\ nextSeq \in Nat /\ Len(queue) \in Nat
    BY MemoryAssumption DEF IInv, TypeOK
  <1>2. ASSUME queue' = queue, \A i \in DOMAIN queue : entries'[queue[i]].seq = entries[queue[i]].seq
        PROVE  Numbered'
    BY <1>2 DEF Numbered
  <1>3. ASSUME NEW id \in Ids, NEW now, queue' = queue, entries' = Refreshed(id, now) \/ entries' = entries
        PROVE  Numbered'
    <2>1. \A x \in Ids : entries'[x].seq = entries[x].seq
      <3>1. CASE entries' = Refreshed(id, now)
        BY <1>1, <3>1 DEF Refreshed, Entry
      <3>2. QED BY <1>3, <3>1
    <2>2. \A i \in DOMAIN queue : queue[i] \in Ids
      BY <1>1
    <2>3. QED BY <1>2, <1>3, <2>1, <2>2
  <1>4. ASSUME NEW id \in Ids, NEW now \in Times, NEW capacity \in Capacities, TryAdmit(id, capacity, now)
        PROVE  Numbered'
    <2>1. CASE queue' = <<>>
      BY <2>1 DEF Numbered
    <2>2. CASE queue' # <<>>
      <3>1. queue' = queue /\ (entries' = Refreshed(id, now) \/ entries' = entries)
        BY <1>4, <2>2 DEF TryAdmit, MayAdmit, vars
      <3>2. QED BY <1>3, <3>1
    <2>3. QED BY <2>1, <2>2
  <1>5. ASSUME NEW id \in Ids, NEW now \in Times, Enqueue(id, now)
        PROVE  Numbered'
    <2>1. CASE entries[id].status # "unknown"
      <3>1. queue' = queue /\ entries' = Refreshed(id, now)
        BY <1>5, <2>1 DEF Enqueue
      <3>2. QED BY <1>3, <3>1
    <2>2. CASE entries[id].status = "unknown"
      <3> DEFINE e == [status |-> "queued", since |-> now, lastSeen |-> now, seq |-> nextSeq + 1]
      <3>1. entries' = [entries EXCEPT ![id] = e] /\ queue' = Append(queue, id)
        BY <1>5, <2>2 DEF Enqueue
      <3>2. e.seq # 0
        BY <1>1
      <3> HIDE DEF e
      <3>3. ASSUME NEW i \in DOMAIN queue' PROVE entries'[queue'[i]].seq # 0
        <4>1. (i \in DOMAIN queue /\ queue'[i] = queue[i]) \/ queue'[i] = id
          BY <1>1, <3>1
        <4>2. CASE queue'[i] = id
          BY <1>1, <3>1, <3>2, <4>2
        <4>3. CASE queue'[i] # id
          <5>1. i \in DOMAIN queue /\ queue'[i] = queue[i] /\ queue[i] \in Ids
            BY <1>1, <4>1, <4>3
          <5>2. entries'[queue[i]] = entries[queue[i]]
            BY <1>1, <3>1, <4>3, <5>1
          <5>3. QED BY <5>1, <5>2 DEF Numbered
        <4>4. QED BY <4>2, <4>3
      <3>4. QED BY <3>3 DEF Numbered
    <2>3. QED BY <2>1, <2>2
  <1>6. ASSUME NEW capacity \in Capacities, NEW now \in Times, Reconcile(capacity, now)
        PROVE  Numbered'
    <2>1. PICK alive, n, p : Pass(capacity, now, alive, n, p)
      BY <1>6, ReconcileIsPass
    <2>2. Outcome(now, alive, n)
      BY <2>1, PassTickets
    <2>3. ASSUME NEW i \in DOMAIN queue' PROVE entries'[queue'[i]].seq # 0
      <3>1. n \in Nat /\ Len(alive) \in Nat /\ i \in 1..(Len(alive) - n)
        BY <2>1, <2>2 DEF Pass, Outcome
      <3>2. i + n \in (n + 1)..Len(alive) /\ i + n \in 1..Len(alive)
        BY <3>1
      <3>3. entries'[queue'[i]] = entries[alive[i + n]]
        BY <2>2, <3>1, <3>2 DEF Outcome
      <3>4. p[i + n] \in DOMAIN queue /\ alive[i + n] = queue[p[i + n]]
        BY <2>1, <3>2 DEF Pass, Selects
      <3>5. QED BY <3>3, <3>4 DEF Numbered
    <2>4. QED BY <2>3 DEF Numbered
  <1>7. CASE Flush
    BY <1>7 DEF Flush, Numbered
  <1>8. ASSUME NEW id \in Ids, NEW now \in Times, Lookup(id, now) \/ Touch(id, now) PROVE Numbered'
    BY <1>3, <1>8 DEF Lookup, Touch
  <1>9. ASSUME UNCHANGED <<entries, queue>> PROVE Numbered'
    BY <1>9 DEF Numbered
  <1>10. QED BY <1>4, <1>5, <1>6, <1>7, <1>8, <1>9 DEF Next, SetCapacity, vars

(***************************************************************************)
(* A reconcile does to the slice what it does to the set.                  *)
(***************************************************************************)
LEMMA ReconcileSet ==
  ASSUME IInv, IInv', Numbered, SliceIsSet, NEW capacity \in Capacities, NEW now \in Times,
         Reconcile(capacity, now), slice' = PruneHoles(Scanned(slice, nextSeq, GhostNumbers(now)), Numbers')
  PROVE  SliceIsSet'
  <1>1. holes' = Pruned(holes \cup GhostNumbers(now), queue', entries')
    <2>1. PICK alive, n, p : Pass(capacity, now, alive, n, p)
      BY ReconcileIsPass
    <2>2. QED BY <2>1 DEF Pass, GhostNumbers
  <1>2. /\ nextSeq \in Nat /\ GhostNumbers(now) \in SUBSET (1..nextSeq)
        /\ GhostNumbers(now) \cap Elements(slice) = {}
    <2>1. nextSeq \in Nat
      BY MemoryAssumption DEF IInv, TypeOK
    <2>2. ASSUME NEW i \in GhostPositions(now)
          PROVE  entries[queue[i]].seq \in 1..nextSeq /\ entries[queue[i]].seq \notin holes
      <3>1. i \in DOMAIN queue
        BY DEF GhostPositions
      <3>2. queue # <<>> /\ entries[queue[i]].seq \in Front..nextSeq /\ entries[queue[i]].seq \notin holes
        BY <3>1 DEF IInv, SeqPartition
      <3>3. entries[queue[i]].seq \in Nat
        BY <3>1 DEF IInv, TypeOK, Entry
      <3>4. QED BY <2>1, <3>1, <3>2, <3>3 DEF Numbered
    <2>3. QED BY <2>1, <2>2 DEF GhostNumbers, SliceIsSet
  <1> DEFINE z == Scanned(slice, nextSeq, GhostNumbers(now))
             S == Numbers'
  <1>3. Ascending(z) /\ Elements(z) = holes \cup GhostNumbers(now)
    BY <1>2, ScanAdds DEF SliceIsSet
  <1>4. S \in SUBSET Nat /\ slice' = PruneHoles(z, S)
    <2>1. \A i \in DOMAIN queue' : entries'[queue'[i]].seq \in Nat
      BY DEF IInv, TypeOK, Entry
    <2>2. QED BY <2>1 DEF Numbers
  <1>5. queue' = <<>> <=> S = {}
    <2>1. queue' = <<>> <=> DOMAIN queue' = {}
      BY DEF IInv, TypeOK
    <2>2. QED BY <2>1 DEF Numbers
  <1>6. ASSUME S # {} PROVE Least(S) = entries'[queue'[1]].seq
    <2> DEFINE first == entries'[queue'[1]].seq
    <2>1. Len(queue') \in Nat /\ DOMAIN queue' = 1..Len(queue') /\ 1 \in DOMAIN queue'
      BY <1>5, <1>6 DEF IInv, TypeOK
    <2>2. first \in S
      BY <2>1 DEF Numbers
    <2>3. ASSUME NEW i \in DOMAIN queue' PROVE first <= entries'[queue'[i]].seq
      <3>1. i = 1 \/ 1 < i
        BY <2>1
      <3>2. first \in Nat /\ entries'[queue'[i]].seq \in Nat
        <4>1. entries' \in [Ids -> Entry] /\ queue' \in Seq(Ids)
          BY DEF IInv, TypeOK
        <4>2. queue'[1] \in Ids /\ queue'[i] \in Ids
          BY <2>1, <4>1
        <4>3. QED BY <4>1, <4>2 DEF Entry
      <3>3. 1 < i => first < entries'[queue'[i]].seq
        BY <2>1 DEF IInv, SeqPartition
      <3>4. QED BY <3>1, <3>2, <3>3
    <2>4. \A m \in S : first <= m
      BY <2>3 DEF Numbers
    <2> HIDE DEF S, first
    <2>5. Least(S) \in S /\ \A m \in S : Least(S) <= m
      BY <1>4, <1>6, LeastOf
    <2>6. Least(S) <= first /\ first <= Least(S) /\ first \in Nat /\ Least(S) \in Nat
      BY <1>4, <2>2, <2>4, <2>5
    <2>7. QED BY <2>6 DEF first
  <1> HIDE DEF z, S
  <1>7. /\ Ascending(slice')
        /\ Elements(slice') = IF S = {} THEN {} ELSE {h \in Elements(z) : h > Least(S)}
    BY <1>3, <1>4, PruneDrops
  <1>8. QED BY <1>1, <1>3, <1>5, <1>6, <1>7 DEF SliceIsSet, Pruned

(***************************************************************************)
(* What every state of the store with its slice satisfies.                 *)
(***************************************************************************)
SliceStoreInv == IInv /\ Numbered /\ SliceIsSet

(***************************************************************************)
(* Every step of the store keeps its slice and the set together.           *)
(***************************************************************************)
LEMMA SliceStoreInvariant == SliceStore => []SliceStoreInv
  <1>1. Init /\ slice = <<>> => SliceStoreInv
    <2> SUFFICES ASSUME Init, slice = <<>> PROVE SliceStoreInv
      OBVIOUS
    <2>1. Ascending(<<>>) /\ Elements(<<>>) = {}
      BY DEF Ascending, Elements
    <2>2. QED BY <2>1, InitIInv DEF Init, Numbered, SliceIsSet, SliceStoreInv
  <1>2. SliceStoreInv /\ [SliceNextStep]_<<vars, slice>> => SliceStoreInv'
    <2> SUFFICES ASSUME IInv, Numbered, SliceIsSet, [SliceNextStep]_<<vars, slice>> PROVE SliceStoreInv'
      BY DEF SliceStoreInv
    <2>1. [Next]_vars
      BY DEF SliceNextStep, Next, vars
    <2>2. IInv' /\ Numbered'
      BY <2>1, NextIInv, NumberedNext
    <2>3. ASSUME NEW capacity \in Capacities, NEW now \in Times, Reconcile(capacity, now),
                 slice' = PruneHoles(Scanned(slice, nextSeq, GhostNumbers(now)), Numbers')
          PROVE  SliceIsSet'
      BY <2>2, <2>3, ReconcileSet
    <2>4. ASSUME Flush, slice' = <<>> PROVE SliceIsSet'
      <3>1. Ascending(<<>>) /\ Elements(<<>>) = {}
        BY DEF Ascending, Elements
      <3>2. slice' = <<>> /\ holes' = {}
        BY <2>4 DEF Flush
      <3>3. QED BY <3>1, <3>2 DEF SliceIsSet
    <2>5. ASSUME holes' = holes, slice' = slice PROVE SliceIsSet'
      BY <2>5 DEF SliceIsSet
    <2>6. SliceIsSet'
      BY <2>3, <2>4, <2>5 DEF SliceNextStep, TryAdmit, Enqueue, Lookup, Touch, SetCapacity, vars
    <2>7. QED BY <2>2, <2>6 DEF SliceStoreInv
  <1>3. QED BY <1>1, <1>2, PTL DEF SliceStore

(***************************************************************************)
(* The slice is the set: MemoryStore's abstraction of s.holes is exact,    *)
(* whatever the store went through.                                        *)
(***************************************************************************)
THEOREM SliceAlwaysSet == SliceStore => []SliceIsSet
  <1>1. SliceStoreInv => SliceIsSet
    BY DEF SliceStoreInv
  <1>2. QED BY <1>1, SliceStoreInvariant, PTL

(***************************************************************************)
(* snapshotLocked as it is coded: two bisections of the slice.             *)
(***************************************************************************)
StorePosition(id) ==
  entries[id].seq - Front + 1 - (From(slice, entries[id].seq) - Above(slice, Front))

SlicePositionExact == \A i \in DOMAIN queue : StorePosition(queue[i]) = i

(***************************************************************************)
(* The position the store reports by bisecting its slice of holes is the   *)
(* waiter's true place in the line ("exact", memory.go:213), after any     *)
(* admissions, evictions from the middle, promotions and flushes.          *)
(***************************************************************************)
THEOREM SlicePositionsExact == SliceStore => []SlicePositionExact
  <1>1. ASSUME IInv, SliceIsSet, NEW i \in DOMAIN queue PROVE StorePosition(queue[i]) = i
    <2> DEFINE n == entries[queue[i]].seq
               front == Front
               lo == Above(slice, front)
               hi == From(slice, n)
               holed == {slice[k] : k \in 1..hi}
    <2>1. Ascending(slice) /\ Elements(slice) = holes
      BY <1>1 DEF SliceIsSet
    <2>2. n - front + 1 - Cardinality(Between(front, n)) = i
      BY <1>1, PositionFromIInv DEF PositionExact, Position
    <2>3. StorePosition(queue[i]) = n - front + 1 - (hi - lo)
      BY DEF StorePosition
    <2>4. entries \in [Ids -> Entry] /\ queue \in Seq(Ids) /\ Len(queue) \in Nat /\ nextSeq \in Nat
      BY <1>1, MemoryAssumption DEF IInv, TypeOK
    <2>5. 1 \in DOMAIN queue /\ queue[1] \in Ids /\ queue[i] \in Ids /\ queue # <<>>
      BY <1>1, <2>4
    <2>6. front \in Nat /\ n \in Nat
      BY <2>4, <2>5 DEF Entry, Front
    <2>7. \A h \in holes : h \in front..nextSeq /\ h # front
      BY <1>1, <2>5 DEF IInv, SeqPartition, Front
    <2>8. n \notin holes
      BY <1>1 DEF IInv, SeqPartition
    <2> HIDE DEF n, front
    <2>9. Len(slice) \in Nat /\ \A k \in 1..Len(slice) : slice[k] \in holes /\ slice[k] \in Nat
      BY <2>1 DEF Ascending, Elements
    <2>10. lo \in 0..Len(slice) /\ \A k \in 1..Len(slice) : slice[k] > front <=> k > lo
      BY <2>1, <2>6, AboveSplits
    <2>11. hi \in 0..Len(slice) /\ \A k \in 1..Len(slice) : slice[k] > n - 1 <=> k > hi
      <3>1. n \in Int /\ n - 1 \in Int
        BY <2>6
      <3>2. hi = Above(slice, n - 1)
        BY <2>1, <3>1, FromIsAbove
      <3> HIDE DEF hi
      <3>3. QED BY <2>1, <3>1, <3>2, AboveSplits
    <2> HIDE DEF lo, hi
    <2>12. lo = 0
      <3>1. CASE lo # 0
        <4>1. lo \in 1..Len(slice) /\ ~(slice[lo] > front)
          BY <2>9, <2>10, <3>1
        <4>2. slice[lo] \in front..nextSeq /\ slice[lo] # front
          BY <2>7, <2>9, <4>1
        <4>3. QED BY <2>4, <2>6, <4>1, <4>2
      <3>2. QED BY <3>1
    <2>13. Cardinality(holed) = hi
      <3>1. \A j, k \in 1..hi : j # k => slice[j] # slice[k]
        <4> SUFFICES ASSUME NEW j \in 1..hi, NEW k \in 1..hi, j # k PROVE slice[j] # slice[k]
          OBVIOUS
        <4>1. j \in 1..Len(slice) /\ k \in 1..Len(slice) /\ (j < k \/ k < j)
          BY <2>9, <2>11
        <4>2. slice[j] < slice[k] \/ slice[k] < slice[j]
          BY <2>1, <4>1 DEF Ascending
        <4>3. QED BY <2>9, <4>1, <4>2
      <3>2. hi \in Nat
        BY <2>11
      <3>3. QED BY <3>1, <3>2, CountDistinct
    <2>14. holed = Between(front, n)
      <3>1. ASSUME NEW k \in 1..hi PROVE slice[k] \in Between(front, n)
        <4>1. k \in 1..Len(slice) /\ ~(k > hi)
          BY <2>9, <2>11
        <4>2. slice[k] \in holes /\ slice[k] \in Nat /\ ~(slice[k] > n - 1)
          BY <2>9, <2>11, <4>1
        <4>3. slice[k] \in front..nextSeq /\ slice[k] # front
          BY <2>7, <4>2
        <4>4. front < slice[k] /\ slice[k] < n
          BY <2>4, <2>6, <4>2, <4>3
        <4>5. QED BY <4>2, <4>4 DEF Between
      <3>2. ASSUME NEW x \in Between(front, n) PROVE x \in holed
        <4>1. x \in holes /\ x < n
          BY DEF Between
        <4>2. PICK k \in 1..Len(slice) : slice[k] = x
          BY <2>1, <4>1 DEF Elements
        <4>3. ~(slice[k] > n - 1)
          BY <2>6, <2>9, <4>1, <4>2
        <4>4. k \in 1..hi
          BY <2>9, <2>11, <4>2, <4>3
        <4>5. QED BY <4>2, <4>4
      <3>3. QED BY <3>1, <3>2
    <2> HIDE DEF holed
    <2>15. QED BY <2>2, <2>3, <2>6, <2>11, <2>12, <2>13, <2>14
  <1>2. SliceStoreInv => SlicePositionExact
    BY <1>1 DEF SliceStoreInv, SlicePositionExact
  <1>3. QED BY <1>2, SliceStoreInvariant, PTL
=============================================================================
