-------------------------- MODULE ControllerProofs --------------------------
(***************************************************************************)
(* Of what the controller keeps besides the store:                         *)
(*  - the run-time capacity: the one in use is never below 1, and a        *)
(*    replica which refreshed since the key last changed uses what the key *)
(*    asks for, for any number of replicas, writers, changes and faults;   *)
(*  - the metrics it records: the registry is exact whenever nobody is     *)
(*    recording, and a scrape is off by no more than what was being        *)
(*    recorded, for any number of goroutines, buckets, calls and scrapes.  *)
(***************************************************************************)
EXTENDS CapacityChannel, Metrics, LinesProofs

-----------------------------------------------------------------------------
(* The run-time capacity *)

(***************************************************************************)
(* What the key may hold, and so what a refresh may have read of it.       *)
(***************************************************************************)
Keys == Values \cup {Absent, Unreadable, 0}

Janitors == [pc : {"down", "get", "store", "draining"}, got : Keys, current : BOOLEAN]

Puts == {NoPut} \cup [pc : {"store", "local"}, n : {n \in Values : n >= 1}]

(***************************************************************************)
(* The types, with the replicas a server or a PUT belongs to running.      *)
(***************************************************************************)
Typed ==
  /\ override \in Keys
  /\ effective \in [Replicas -> Nat \ {0}]
  /\ janitor \in [Replicas -> Janitors]
  /\ put \in [Writers -> Puts]
  /\ \A w \in Writers : put[w] # NoPut => Up(Host[w])
  /\ serving \in SUBSET Replicas
  /\ \A r \in serving : janitor[r].pc \in {"get", "store"}
  /\ settled \in SUBSET Replicas
  /\ writes \in 0..MaxWrites
  /\ faults \in 0..MaxFaults

(***************************************************************************)
(* What a refresh read is what the key still holds, unless the key changed *)
(* since or the read failed.                                               *)
(***************************************************************************)
ReadIsCurrent ==
  \A r \in Replicas :
    janitor[r].pc = "store" /\ janitor[r].current => janitor[r].got \in {override, Unreadable}

(***************************************************************************)
(* A settled replica runs, uses what the key asks for, and nothing that is *)
(* still under way in it can bring an older value back: its next refresh   *)
(* began after the key changed, and it hosts no PUT that is half done.     *)
(***************************************************************************)
SettledStays ==
  \A r \in settled :
    /\ effective[r] = Wanted(r)
    /\ janitor[r].pc \in {"get", "store"}
    /\ janitor[r].current
    /\ \A w \in Writers : Host[w] = r => put[w].pc # "local"

IInv == Typed /\ ReadIsCurrent /\ SettledStays

(***************************************************************************)
(* What a refresh makes of its reading is a capacity of at least 1.        *)
(***************************************************************************)
LEMMA AdoptedUsable ==
  ASSUME Typed, NEW r \in Replicas
  PROVE  Adopted(r) \in Nat \ {0}
BY ChannelAssumption DEF Typed, Keys, Janitors, Adopted, Absent, Unreadable

(***************************************************************************)
(* A refresh that read the key as it still is makes the replica use what   *)
(* it should; one that failed changes nothing.                             *)
(***************************************************************************)
LEMMA AdoptedWanted ==
  ASSUME Typed, NEW r \in Replicas,
         janitor[r].got = override \/ (janitor[r].got = Unreadable /\ effective[r] = Wanted(r)),
         janitor[r].got = Unreadable => effective[r] = Wanted(r)
  PROVE  Adopted(r) = Wanted(r)
BY ChannelAssumption DEF Typed, Keys, Janitors, Adopted, Wanted, Absent, Unreadable

(***************************************************************************)
(* The state before the first process starts.                              *)
(***************************************************************************)
LEMMA InitIInv == Init => IInv
<1> SUFFICES ASSUME Init PROVE IInv
  OBVIOUS
<1>1. Typed
  BY ChannelAssumption
  DEF Init, Typed, Keys, Janitors, Puts, Down, NoPut, Absent, Unreadable, Up
<1>2. ReadIsCurrent /\ SettledStays
  BY DEF Init, ReadIsCurrent, SettledStays, Down
<1> QED BY <1>1, <1>2 DEF IInv

(***************************************************************************)
(* Starting a replica and opening its port.                                *)
(***************************************************************************)
LEMMA StartStep ==
  ASSUME IInv, NEW r \in Replicas, Start(r) \/ Listen(r)
  PROVE  IInv'
<1> USE DEF IInv
<1>1. CASE Start(r)
  <2> USE <1>1 DEF Start
  <2>1. Typed'
    BY ChannelAssumption DEF Typed, Keys, Janitors, Puts, Up, Absent, Unreadable
  <2>2. ReadIsCurrent'
    BY DEF ReadIsCurrent, Typed
  <2>3. SettledStays'
    BY DEF SettledStays, Typed, Up, Wanted
  <2> QED BY <2>1, <2>2, <2>3
<1>2. CASE Listen(r)
  BY <1>2 DEF Listen, Typed, Up, ReadIsCurrent, SettledStays, Wanted
<1> QED BY <1>1, <1>2

(***************************************************************************)
(* A replica that goes away is not settled any more, and takes its PUTs    *)
(* with it when the process ends.                                          *)
(***************************************************************************)
LEMMA StopStep ==
  ASSUME IInv, NEW r \in Replicas, Shutdown(r) \/ Exit(r) \/ Crash(r)
  PROVE  IInv'
<1> USE DEF IInv
<1>1. Down \in Janitors /\ [Down EXCEPT !.pc = "draining"] \in Janitors
  BY DEF Down, Janitors, Keys
<1>2. CASE Shutdown(r)
  <2> USE <1>2 DEF Shutdown
  <2>1. Typed'
    BY <1>1, ChannelAssumption DEF Typed, Down, Up
  <2>2. ReadIsCurrent' /\ SettledStays'
    BY DEF ReadIsCurrent, SettledStays, Typed, Down, Wanted
  <2> QED BY <2>1, <2>2
<1>3. CASE Exit(r)
  <2> USE <1>3 DEF Exit
  <2>1. Typed'
    BY <1>1, ChannelAssumption DEF Typed, Down, Up, Puts
  <2>2. ReadIsCurrent' /\ SettledStays'
    BY DEF ReadIsCurrent, SettledStays, Typed, Down, Wanted
  <2> QED BY <2>1, <2>2
<1>4. CASE Crash(r)
  <2> USE <1>4 DEF Crash
  <2>1. Typed'
    BY <1>1, ChannelAssumption DEF Typed, Down, Up, Puts
  <2>2. ReadIsCurrent' /\ SettledStays'
    BY DEF ReadIsCurrent, SettledStays, Typed, Down, Wanted
  <2> QED BY <2>1, <2>2
<1> QED BY <1>2, <1>3, <1>4

(***************************************************************************)
(* A change of the key makes every reading of it out of date, so that      *)
(* nothing is left to show of ReadIsCurrent and SettledStays.              *)
(***************************************************************************)
LEMMA WriteStep ==
  ASSUME IInv, NEW v \in Keys, Write(v)
  PROVE  /\ override' \in Keys /\ writes' \in 0..MaxWrites /\ settled' = {}
         /\ janitor' \in [Replicas -> Janitors]
         /\ \A r \in Replicas : janitor'[r].pc = janitor[r].pc
         /\ ReadIsCurrent' /\ SettledStays'
<1>1. \A r \in Replicas : janitor'[r] \in Janitors /\ janitor'[r].pc = janitor[r].pc
                          /\ ~janitor'[r].current
  BY DEF IInv, Typed, Write, Janitors
<1> QED BY <1>1, ChannelAssumption DEF IInv, Typed, Write, ReadIsCurrent, SettledStays

(***************************************************************************)
(* A PUT arrives, writes the key or fails, and a change of it by hand.     *)
(***************************************************************************)
LEMMA PutStep ==
  ASSUME IInv,
         \/ KeyChanged
         \/ \E w \in Writers : Put(w) \/ PutFails(w) \/ \E n \in Values : PutArrives(w, n)
  PROVE  IInv'
<1>1. CASE KeyChanged
  <2>1. PICK v \in {Absent, Unreadable, 0} : Write(v)
    BY <1>1 DEF KeyChanged
  <2>2. v \in Keys
    BY DEF Keys
  <2> QED BY <1>1, <2>1, <2>2, WriteStep, ChannelAssumption DEF KeyChanged, IInv, Typed, Up
<1>2. ASSUME NEW w \in Writers, NEW n \in Values, PutArrives(w, n) PROVE IInv'
  <2>1. [pc |-> "store", n |-> n] \in Puts /\ Up(Host[w])
    BY <1>2, ChannelAssumption DEF PutArrives, IInv, Typed, Puts, Up
  <2>2. Typed'
    BY <1>2, <2>1, ChannelAssumption DEF PutArrives, IInv, Typed, Up
  <2>3. ReadIsCurrent' /\ SettledStays'
    BY <1>2 DEF PutArrives, IInv, Typed, ReadIsCurrent, SettledStays, Wanted
  <2> QED BY <2>2, <2>3 DEF IInv
<1>3. ASSUME NEW w \in Writers, put[w].pc = "store"
      PROVE  put[w].n \in Keys /\ Up(Host[w]) /\ NoPut \in Puts
             /\ [put[w] EXCEPT !.pc = "local"] \in Puts
  <2>1. put[w] \in Puts /\ put[w] # NoPut
    BY <1>3 DEF IInv, Typed, NoPut
  <2>2. put[w] \in [pc : {"store", "local"}, n : {n \in Values : n >= 1}]
    BY <2>1 DEF Puts
  <2> QED BY <2>1, <2>2 DEF IInv, Typed, Puts, Keys
<1>4. ASSUME NEW w \in Writers, Put(w) PROVE IInv'
  <2>1. Write(put[w].n) /\ put[w].pc = "store"
    BY <1>4 DEF Put
  <2> QED BY <1>3, <1>4, <2>1, WriteStep, ChannelAssumption DEF Put, IInv, Typed, Up
<1>5. ASSUME NEW w \in Writers, PutFails(w) PROVE IInv'
  <2>1. put[w].pc = "store" /\ faults' \in 0..MaxFaults
    BY <1>5, ChannelAssumption DEF PutFails, IInv, Typed
  <2>2. put' \in [Writers -> Puts] /\ \A v \in Writers : v # w => put'[v] = put[v]
    BY <1>3, <1>5, <2>1 DEF PutFails, IInv, Typed
  <2>3. put'[w] = NoPut
    BY <1>5 DEF PutFails, IInv, Typed
  <2>4. CASE Write(put[w].n)
    BY <1>3, <1>5, <2>1, <2>2, <2>3, <2>4, WriteStep, ChannelAssumption DEF PutFails, IInv, Typed, Up
  <2>5. CASE UNCHANGED <<override, janitor, writes, settled>>
    <3>1. Typed'
      BY <1>5, <2>1, <2>2, <2>3, <2>5, ChannelAssumption DEF PutFails, IInv, Typed, Up
    <3>2. ReadIsCurrent' /\ SettledStays'
      BY <1>5, <2>2, <2>3, <2>5
      DEF PutFails, IInv, Typed, ReadIsCurrent, SettledStays, Wanted, NoPut
    <3> QED BY <3>1, <3>2 DEF IInv
  <2> QED BY <1>5, <2>4, <2>5 DEF PutFails
<1> QED BY <1>1, <1>2, <1>4, <1>5

(***************************************************************************)
(* The local half: the replica it runs on is not settled.                  *)
(***************************************************************************)
LEMMA PutLocalStep ==
  ASSUME IInv, NEW w \in Writers, PutLocal(w)
  PROVE  IInv'
<1> DEFINE r == Host[w]
<1>1. put[w] # NoPut /\ put[w].n \in Nat \ {0} /\ r \in Replicas /\ r \notin settled
  <2>1. put[w] \in Puts /\ put[w].pc = "local"
    BY DEF PutLocal, IInv, Typed
  <2>2. put[w] # NoPut
    BY <2>1 DEF NoPut
  <2>3. put[w].n \in Values /\ put[w].n >= 1
    BY <2>1, <2>2 DEF Puts
  <2>4. put[w].n \in Nat \ {0}
    <3>1. Values \subseteq Nat
      BY ChannelAssumption
    <3>2. \A n \in Values : n >= 1 => n \in Nat \ {0}
      BY <3>1
    <3> QED BY ONLY <2>3, <3>2
  <2>5. r \in Replicas
    BY ChannelAssumption
  <2> QED BY <2>1, <2>2, <2>4, <2>5 DEF IInv, SettledStays
<1>2. Typed'
  BY <1>1, ChannelAssumption DEF PutLocal, IInv, Typed, Puts, Up
<1>3. ReadIsCurrent' /\ SettledStays'
  BY <1>1 DEF PutLocal, IInv, Typed, ReadIsCurrent, SettledStays, Wanted
<1> QED BY <1>2, <1>3 DEF IInv

(***************************************************************************)
(* The two halves of refreshCapacity.                                      *)
(***************************************************************************)
LEMMA RefreshStep ==
  ASSUME IInv, NEW r \in Replicas, Refresh(r)
  PROVE  IInv'
<1>1. PICK got \in {override, Unreadable} :
        janitor' = [janitor EXCEPT ![r].got = got, ![r].pc = "store"]
  BY DEF Refresh
<1>2. got \in Keys
  BY DEF IInv, Typed, Keys
<1>3. Typed'
  BY <1>1, <1>2, ChannelAssumption DEF Refresh, IInv, Typed, Janitors, Up
<1>4. ReadIsCurrent' /\ SettledStays'
  BY <1>1 DEF Refresh, IInv, Typed, Janitors, ReadIsCurrent, SettledStays, Wanted
<1> QED BY <1>3, <1>4 DEF IInv

(***************************************************************************)
(* What a refresh read too early does not make the replica settled, and    *)
(* one that was settled stays so.                                          *)
(***************************************************************************)
LEMMA AdoptStep ==
  ASSUME IInv, NEW r \in Replicas, Adopt(r)
  PROVE  IInv'
<1>1. Adopted(r) \in Nat \ {0}
  BY AdoptedUsable DEF IInv
<1>2. Typed'
  <2>1. effective' \in [Replicas -> Nat \ {0}] /\ UNCHANGED <<override, serving, put, writes, faults>>
    BY <1>1 DEF Adopt, IInv, Typed
  <2>2. janitor' \in [Replicas -> Janitors] /\ settled' \in SUBSET Replicas
    BY DEF Adopt, IInv, Typed, Janitors, Keys
  <2>3. \A q \in Replicas : janitor'[q].pc = IF q = r THEN "get" ELSE janitor[q].pc
    BY DEF Adopt, IInv, Typed, Janitors
  <2>4. janitor[r].pc = "store"
    BY DEF Adopt
  <2>5. \A q \in Replicas : Up(q)' <=> Up(q)
    BY ONLY <2>3, <2>4 DEF Up
  <2> QED BY <2>1, <2>2, <2>3, <2>4, <2>5, ChannelAssumption DEF IInv, Typed
<1>3. ReadIsCurrent'
  BY DEF Adopt, IInv, Typed, Janitors, ReadIsCurrent
<1>4. SettledStays'
  <2> SUFFICES ASSUME NEW q \in settled'
               PROVE  /\ effective'[q] = Wanted(q)'
                      /\ janitor'[q].pc \in {"get", "store"}
                      /\ janitor'[q].current
                      /\ \A w \in Writers : Host[w] = q => put'[w].pc # "local"
    BY DEF SettledStays
  <2>1. Wanted(q)' = Wanted(q) /\ q \in Replicas /\ put' = put
    BY <1>2 DEF Adopt, Wanted, Typed
  <2>2. CASE q # r
    BY <2>1, <2>2 DEF Adopt, IInv, Typed, SettledStays
  <2>3. CASE q = r
    <3>1. janitor[r].pc = "store" /\ janitor[r].current
      BY <2>3 DEF Adopt, IInv, SettledStays
    <3>2. janitor[r].got \in {override, Unreadable}
      BY <3>1 DEF IInv, ReadIsCurrent
    <3>3. janitor[r].got = Unreadable => effective[r] = Wanted(r)
      BY <2>3 DEF Adopt, IInv, SettledStays
    <3>4. Adopted(r) = Wanted(r)
      BY <3>2, <3>3, AdoptedWanted DEF IInv
    <3>5. \A w \in Writers : Host[w] = q => put[w].pc # "local"
      BY <2>3 DEF Adopt, IInv, SettledStays
    <3> QED BY <2>1, <2>3, <3>4, <3>5 DEF Adopt, IInv, Typed, Janitors
  <2> QED BY <2>2, <2>3
<1> QED BY <1>2, <1>3, <1>4 DEF IInv

(***************************************************************************)
(* Every step.                                                             *)
(***************************************************************************)
LEMMA NextIInv == IInv /\ [Next]_vars => IInv'
<1> SUFFICES ASSUME IInv, [Next]_vars PROVE IInv'
  OBVIOUS
<1>1. CASE UNCHANGED vars
  BY <1>1 DEF vars, IInv, Typed, ReadIsCurrent, SettledStays, Up, Wanted
<1>2. CASE Next
  BY <1>2, StartStep, StopStep, PutStep, PutLocalStep, RefreshStep, AdoptStep DEF Next
<1> QED BY <1>1, <1>2

(***************************************************************************)
(* The inductive invariant.                                                *)
(***************************************************************************)
THEOREM ChannelInvariant == Spec => []IInv
BY InitIInv, NextIInv, PTL DEF Spec

(***************************************************************************)
(* Type correctness of the channel between SetCapacity and                 *)
(* refreshCapacity.                                                        *)
(***************************************************************************)
THEOREM TypeCorrect == Spec => []TypeOK
<1>1. IInv => TypeOK
  BY ChannelAssumption DEF IInv, Typed, TypeOK, Puts, Janitors, Keys, Up
<1> QED BY <1>1, ChannelInvariant, PTL

(***************************************************************************)
(* c.capacity is at least 1 on every replica, whatever the key holds and   *)
(* whatever fails.                                                         *)
(***************************************************************************)
THEOREM AlwaysUsable == Spec => []CapacityUsable
<1>1. IInv => CapacityUsable
  BY DEF IInv, Typed, CapacityUsable
<1> QED BY <1>1, ChannelInvariant, PTL

(***************************************************************************)
(* A replica that went through one refresh since the key last changed uses *)
(* the override, and no failed refresh, late PUT or out-of-date reading    *)
(* takes it away.                                                          *)
(***************************************************************************)
THEOREM AlwaysAdopted == Spec => []OverrideAdopted
<1>1. IInv => OverrideAdopted
  BY DEF IInv, SettledStays, OverrideAdopted
<1> QED BY <1>1, ChannelInvariant, PTL

-----------------------------------------------------------------------------
(* Sums *)

(***************************************************************************)
(* The running totals of WriteTo: none of no bucket, and each is the one   *)
(* before it and its bucket.                                               *)
(***************************************************************************)
LEMMA CumulativeUnfolds ==
  ASSUME NEW m \in Nat, NEW n \in 0..m, NEW f \in [1..m -> Int]
  PROVE  \E u \in [0..n -> Int] :
            /\ u[0] = 0
            /\ \A j \in 1..n : u[j] = u[j - 1] + f[j]
            /\ Cumulative(f, n) = u[n]
  <1>0. n \in Nat /\ \A j \in 1..n : j \in 1..m
    OBVIOUS
  <1> DEFINE Totals(u) == u = [j \in 0..n |-> IF j = 0 THEN 0 ELSE u[j - 1] + f[j]]
             D == Int
             none == 0
             G == [j \in 1..n |-> [t \in Int |-> t + f[j]]]
  <1>1. \E u : Totals(u)
    <2>1. Makes(G, n, D) /\ none \in D
      BY DEF Makes
    <2>2. PICK u : Iterates(u, none, G, n, D)
      <3> HIDE DEF G, D, none
      <3>1. QED BY <1>0, <2>1, Recursion
    <2>3. u \in [0..n -> Int] /\ u[0] = 0 /\ \A j \in 1..n : u[j] = G[j][u[j - 1]]
      BY <2>2 DEF Iterates
    <2>4. ASSUME NEW j \in 1..n PROVE u[j] = u[j - 1] + f[j]
      <3>1. j - 1 \in 0..n
        OBVIOUS
      <3>2. u[j - 1] \in Int
        BY <2>3, <3>1
      <3>3. G[j][u[j - 1]] = u[j - 1] + f[j]
        BY <3>2
      <3> HIDE DEF G
      <3>4. QED BY <2>3, <3>3
    <2>5. ASSUME NEW j \in 0..n PROVE u[j] = IF j = 0 THEN 0 ELSE u[j - 1] + f[j]
      <3>1. j = 0 \/ j \in 1..n
        OBVIOUS
      <3>2. QED BY <2>3, <2>4, <3>1
    <2>6. Totals(u)
      BY <2>3, <2>5, Zenon
    <2> HIDE DEF Totals
    <2>7. QED BY <2>6
  <1> DEFINE c == CHOOSE u : Totals(u)
  <1>2. Totals(c)
    BY <1>1, Zenon
  <1>3. Cumulative(f, n) = c[n]
    BY Zenon DEF Cumulative
  <1> HIDE DEF c
  <1>4. \A j \in 0..n : c[j] = IF j = 0 THEN 0 ELSE c[j - 1] + f[j]
    BY <1>2, Zenon
  <1>5. c[0] = 0 /\ \A j \in 1..n : c[j] = c[j - 1] + f[j]
    <2>1. 0 \in 0..n /\ \A j \in 1..n : j \in 0..n /\ j # 0
      OBVIOUS
    <2> HIDE DEF Totals
    <2>2. QED BY <1>4, <2>1
  <1>6. c \in [0..n -> Int]
    <2> DEFINE S == {j \in 0..n : c[j] \in Int}
    <2>1. 0 \in S
      BY <1>5
    <2>2. \A j \in 1..n : j - 1 \in S => j \in S
      BY <1>5
    <2>3. \A j \in 0..n : j \in S
      <3> HIDE DEF S
      <3>1. QED BY <2>1, <2>2, <1>0, Climb
    <2>4. \A j \in 0..n : c[j] \in Int
      BY <2>3
    <2>5. DOMAIN c = 0..n /\ c = [j \in 0..n |-> c[j]]
      BY <1>2, Zenon
    <2> HIDE DEF Totals
    <2>6. QED BY <2>4, <2>5
  <1>7. QED BY <1>3, <1>5, <1>6

Row(f, m) == f \in [1..m -> Int]

Sums(h, f, g, n) == \A j \in 1..n : h[j] = f[j] + g[j]

Dominates(g, f, n) == \A j \in 1..n : f[j] <= g[j]

(***************************************************************************)
(* Totals add up.                                                          *)
(***************************************************************************)
LEMMA CumulativeAdds ==
  ASSUME NEW m \in Nat, NEW n \in 0..m, NEW f, NEW g, NEW h,
         Row(f, m), Row(g, m), Row(h, m), Sums(h, f, g, n)
  PROVE  /\ Cumulative(h, n) = Cumulative(f, n) + Cumulative(g, n)
         /\ Cumulative(f, n) \in Int /\ Cumulative(g, n) \in Int /\ Cumulative(h, n) \in Int
  <1>0. /\ n \in Nat /\ \A j \in 1..n : j \in 1..m /\ h[j] = f[j] + g[j]
        /\ f \in [1..m -> Int] /\ g \in [1..m -> Int] /\ h \in [1..m -> Int]
    BY DEF Row, Sums
  <1>1. PICK u \in [0..n -> Int] : /\ u[0] = 0 /\ \A j \in 1..n : u[j] = u[j - 1] + f[j]
                                   /\ Cumulative(f, n) = u[n]
    BY <1>0, CumulativeUnfolds
  <1>2. PICK v \in [0..n -> Int] : /\ v[0] = 0 /\ \A j \in 1..n : v[j] = v[j - 1] + g[j]
                                   /\ Cumulative(g, n) = v[n]
    BY <1>0, CumulativeUnfolds
  <1>3. PICK w \in [0..n -> Int] : /\ w[0] = 0 /\ \A j \in 1..n : w[j] = w[j - 1] + h[j]
                                   /\ Cumulative(h, n) = w[n]
    BY <1>0, CumulativeUnfolds
  <1> DEFINE S == {j \in 0..n : w[j] = u[j] + v[j]}
  <1>4. 0 \in S
    BY <1>1, <1>2, <1>3
  <1>5. ASSUME NEW j \in 1..n, j - 1 \in S PROVE j \in S
    <2>1. j \in 0..n /\ j - 1 \in 0..n /\ w[j - 1] = u[j - 1] + v[j - 1]
      BY <1>5
    <2>2. w[j] = u[j] + v[j]
      <3> DEFINE a == u[j - 1]
                 b == v[j - 1]
                 c == f[j]
                 d == g[j]
      <3>1. u[j] = a + c /\ v[j] = b + d /\ w[j] = w[j - 1] + h[j]
        BY <1>1, <1>2, <1>3
      <3>2. a \in Int /\ b \in Int /\ c \in Int /\ d \in Int /\ h[j] = c + d /\ w[j - 1] = a + b
        BY <1>0, <1>1, <1>2, <2>1
      <3> HIDE DEF a, b, c, d
      <3>3. w[j] = (a + b) + (c + d) /\ u[j] + v[j] = (a + c) + (b + d)
        BY <3>1, <3>2
      <3>4. (a + b) + (c + d) = (a + c) + (b + d)
        BY <3>2
      <3>5. QED BY <3>3, <3>4
    <2>3. QED BY <2>1, <2>2
  <1>6. n \in S
    <2>1. n \in 0..n
      OBVIOUS
    <2> HIDE DEF S
    <2>2. QED BY <1>4, <1>5, <2>1, <1>0, Climb
  <1>7. QED BY <1>1, <1>2, <1>3, <1>6

(***************************************************************************)
(* Larger buckets, larger totals.                                          *)
(***************************************************************************)
LEMMA CumulativeGrows ==
  ASSUME NEW m \in Nat, NEW n \in 0..m, NEW f, NEW g,
         Row(f, m), Row(g, m), Dominates(g, f, n)
  PROVE  /\ Cumulative(f, n) <= Cumulative(g, n)
         /\ Cumulative(f, n) \in Int /\ Cumulative(g, n) \in Int
  <1>0. /\ n \in Nat /\ \A j \in 1..n : j \in 1..m /\ f[j] <= g[j]
        /\ f \in [1..m -> Int] /\ g \in [1..m -> Int]
    BY DEF Row, Dominates
  <1>1. PICK u \in [0..n -> Int] : /\ u[0] = 0 /\ \A j \in 1..n : u[j] = u[j - 1] + f[j]
                                   /\ Cumulative(f, n) = u[n]
    BY <1>0, CumulativeUnfolds
  <1>2. PICK v \in [0..n -> Int] : /\ v[0] = 0 /\ \A j \in 1..n : v[j] = v[j - 1] + g[j]
                                   /\ Cumulative(g, n) = v[n]
    BY <1>0, CumulativeUnfolds
  <1> DEFINE S == {j \in 0..n : u[j] <= v[j]}
  <1>4. 0 \in S
    BY <1>1, <1>2
  <1>5. ASSUME NEW j \in 1..n, j - 1 \in S PROVE j \in S
    <2>1. j \in 0..n /\ j - 1 \in 0..n /\ u[j - 1] <= v[j - 1]
      BY <1>5
    <2>2. u[j] <= v[j]
      <3>1. u[j] = u[j - 1] + f[j] /\ v[j] = v[j - 1] + g[j]
        BY <1>1, <1>2
      <3>2. u[j - 1] \in Int /\ v[j - 1] \in Int /\ f[j] \in Int /\ g[j] \in Int /\ f[j] <= g[j]
        BY <1>0, <1>1, <1>2, <2>1
      <3>3. QED BY <2>1, <3>1, <3>2
    <2>3. QED BY <2>1, <2>2
  <1>6. n \in S
    <2>1. n \in 0..n
      OBVIOUS
    <2> HIDE DEF S
    <2>2. QED BY <1>4, <1>5, <2>1, <1>0, Climb
  <1>7. QED BY <1>1, <1>2, <1>6

(***************************************************************************)
(* One wait in bucket b is counted from bucket b on.                       *)
(***************************************************************************)
LEMMA CumulativeOne ==
  ASSUME NEW m \in Nat, NEW n \in 0..m, NEW f \in [1..m -> Int],
         NEW b \in Int, b >= 1,
         \A j \in 1..n : f[j] = IF j = b THEN 1 ELSE 0
  PROVE  Cumulative(f, n) = IF b <= n THEN 1 ELSE 0
  <1>0. n \in Nat /\ \A j \in 1..n : j \in 1..m
    OBVIOUS
  <1>1. PICK u \in [0..n -> Int] : /\ u[0] = 0 /\ \A j \in 1..n : u[j] = u[j - 1] + f[j]
                                   /\ Cumulative(f, n) = u[n]
    BY CumulativeUnfolds
  <1> DEFINE S == {j \in 0..n : u[j] = IF b <= j THEN 1 ELSE 0}
  <1>4. 0 \in S
    BY <1>1
  <1>5. ASSUME NEW j \in 1..n, j - 1 \in S PROVE j \in S
    <2>1. j \in 0..n /\ j - 1 \in 0..n /\ u[j - 1] = IF b <= j - 1 THEN 1 ELSE 0
      BY <1>5
    <2>2. u[j] = IF b <= j THEN 1 ELSE 0
      <3>1. u[j] = u[j - 1] + f[j] /\ u[j - 1] \in Int
        BY <1>1, <2>1
      <3>2. CASE j = b
        BY <2>1, <3>1, <3>2
      <3>3. CASE j # b
        BY <2>1, <3>1, <3>3
      <3>4. QED BY <3>2, <3>3
    <2>3. QED BY <2>1, <2>2
  <1>6. n \in S
    <2>1. n \in 0..n
      OBVIOUS
    <2> HIDE DEF S
    <2>2. QED BY <1>4, <1>5, <2>1, <1>0, Climb
  <1>7. QED BY <1>1, <1>6

(***************************************************************************)
(* Empty buckets add up to nothing.                                        *)
(***************************************************************************)
LEMMA CumulativeZero ==
  ASSUME NEW m \in Nat, NEW n \in 0..m, NEW f \in [1..m -> Int],
         \A j \in 1..n : f[j] = 0
  PROVE  Cumulative(f, n) = 0
  <1>0. Row(f, m) /\ Sums(f, f, f, n)
    <2>1. \A j \in 1..n : j \in 1..m /\ f[j] = f[j] + f[j]
      OBVIOUS
    <2>2. QED BY <2>1 DEF Row, Sums
  <1>1. /\ Cumulative(f, n) = Cumulative(f, n) + Cumulative(f, n)
        /\ Cumulative(f, n) \in Int
    BY <1>0, CumulativeAdds
  <1>2. QED BY <1>1

-----------------------------------------------------------------------------
(* The cells *)

(***************************************************************************)
(* The order in which a scrape loads the cells.                            *)
(***************************************************************************)
LEMMA Order ==
  ASSUME Setup
  PROVE  /\ Beyond \in Nat /\ Beyond >= 1
         /\ DOMAIN WriteTo = 1..(Beyond + 8) /\ Len(WriteTo) = Beyond + 8
         /\ WriteTo[1] = Admissions
         /\ WriteTo[2] = Cell("expirations") /\ WriteTo[3] = Cell("evictions")
         /\ WriteTo[4] = Cell("proxied") /\ WriteTo[5] = Cell("queued")
         /\ WriteTo[6] = Cell("admin")
         /\ \A j \in 1..Beyond : WriteTo[j + 6] = Bucket(j)
         /\ WriteTo[Beyond + 7] = Sum
         /\ WriteTo[Beyond + 8] = Total
  <1>1. Len(Bounds) \in Nat
    BY DEF Setup
  <1>2. Beyond \in Nat /\ Beyond >= 1
    BY <1>1 DEF Beyond
  <1> DEFINE n == Beyond
             a == << Admissions, Cell("expirations"), Cell("evictions"),
                     Cell("proxied"), Cell("queued"), Cell("admin") >>
             b == [i \in 1..n |-> Bucket(i)]
             c == << Sum, Total >>
             C == {a[i] : i \in 1..6} \cup {b[i] : i \in 1..n} \cup {c[i] : i \in 1..2}
  <1>3. WriteTo = a \o b \o c
    BY DEF WriteTo
  <1>4. /\ a \in Seq(C) /\ Len(a) = 6
        /\ a[1] = Admissions /\ a[2] = Cell("expirations") /\ a[3] = Cell("evictions")
        /\ a[4] = Cell("proxied") /\ a[5] = Cell("queued") /\ a[6] = Cell("admin")
    OBVIOUS
  <1>5. c \in Seq(C) /\ Len(c) = 2 /\ c[1] = Sum /\ c[2] = Total
    OBVIOUS
  <1>6. b \in Seq(C) /\ Len(b) = n /\ \A i \in 1..n : b[i] = Bucket(i)
    BY <1>2
  <1> HIDE DEF n, a, b, c, C
  <1>7. /\ a \o b \in Seq(C) /\ Len(a \o b) = 6 + n
        /\ \A i \in 1..6 : (a \o b)[i] = a[i]
        /\ \A i \in 1..n : (a \o b)[i + 6] = b[i]
    <2>1. /\ a \o b \in Seq(C) /\ Len(a \o b) = Len(a) + Len(b) /\ n \in Nat
          /\ \A i \in 1..Len(a) + Len(b) : (a \o b)[i] = IF i <= Len(a) THEN a[i] ELSE b[i - Len(a)]
      BY <1>2, <1>4, <1>6, Concatenated DEF n
    <2>2. Len(a) = 6 /\ Len(b) = n /\ Len(a \o b) = 6 + n
      BY <1>4, <1>6, <2>1
    <2>3. ASSUME NEW i \in 1..6 PROVE (a \o b)[i] = a[i]
      BY <2>1, <2>2
    <2>4. ASSUME NEW i \in 1..n PROVE (a \o b)[i + 6] = b[i]
      <3>1. i + 6 \in 1..6 + n /\ ~(i + 6 <= 6) /\ i + 6 - 6 = i
        BY <2>1
      <3>2. QED BY <2>1, <2>2, <3>1
    <2>5. QED BY <2>1, <2>2, <2>3, <2>4
  <1> DEFINE d == a \o b
  <1> HIDE DEF d
  <1>8. d \in Seq(C) /\ Len(d) = 6 + n /\ n \in Nat
    BY <1>2, <1>7 DEF d, n
  <1>9. /\ d \o c \in Seq(C) /\ Len(d \o c) = n + 8 /\ DOMAIN (d \o c) = 1..(n + 8)
        /\ \A i \in 1..(n + 6) : (d \o c)[i] = d[i]
        /\ (d \o c)[n + 7] = c[1] /\ (d \o c)[n + 8] = c[2]
    <2>1. /\ d \o c \in Seq(C) /\ Len(d \o c) = Len(d) + Len(c)
          /\ \A i \in 1..Len(d) + Len(c) : (d \o c)[i] = IF i <= Len(d) THEN d[i] ELSE c[i - Len(d)]
      BY <1>5, <1>8, Concatenated
    <2>2. Len(d) = n + 6 /\ Len(c) = 2 /\ Len(d \o c) = n + 8 /\ DOMAIN (d \o c) = 1..Len(d \o c)
      BY <1>5, <1>8, <2>1
    <2>3. ASSUME NEW i \in 1..(n + 6) PROVE (d \o c)[i] = d[i]
      BY <1>8, <2>1, <2>2
    <2>4. (d \o c)[n + 7] = c[1] /\ (d \o c)[n + 8] = c[2]
      <3>1. /\ n + 7 \in 1..(n + 6) + 2 /\ ~(n + 7 <= n + 6) /\ (n + 7) - (n + 6) = 1
            /\ n + 8 \in 1..(n + 6) + 2 /\ ~(n + 8 <= n + 6) /\ (n + 8) - (n + 6) = 2
        BY <1>8
      <3>2. QED BY <2>1, <2>2, <3>1
    <2>5. QED BY <2>1, <2>2, <2>3, <2>4
  <1>10. WriteTo = d \o c
    BY <1>3 DEF d
  <1>11. \A i \in 1..6 : WriteTo[i] = a[i]
    <2>1. \A i \in 1..6 : i \in 1..(n + 6)
      BY <1>8
    <2>2. QED BY <1>7, <1>9, <1>10, <2>1 DEF d
  <1>12. ASSUME NEW i \in 1..n PROVE WriteTo[i + 6] = Bucket(i)
    <2>1. i + 6 \in 1..(n + 6)
      BY <1>8
    <2>2. QED BY <1>6, <1>7, <1>9, <1>10, <2>1 DEF d
  <1>13. /\ WriteTo[1] = a[1] /\ WriteTo[2] = a[2] /\ WriteTo[3] = a[3]
         /\ WriteTo[4] = a[4] /\ WriteTo[5] = a[5] /\ WriteTo[6] = a[6]
    BY <1>11
  <1>14. /\ DOMAIN WriteTo = 1..(n + 8) /\ Len(WriteTo) = n + 8
         /\ WriteTo[n + 7] = Sum /\ WriteTo[n + 8] = Total
    BY <1>5, <1>9, <1>10
  <1>15. QED BY <1>2, <1>4, <1>12, <1>13, <1>14 DEF n

(***************************************************************************)
(* No two names for a cell.                                                *)
(***************************************************************************)
LEMMA Names ==
  /\ Total # Sum /\ Total # Admissions /\ Sum # Admissions
  /\ \A j : Bucket(j) # Total /\ Bucket(j) # Sum /\ Bucket(j) # Admissions
  /\ \A i, j : Bucket(i) = Bucket(j) => i = j
  /\ \A x \in {"expirations", "evictions", "proxied", "queued", "admin"} :
       /\ Cell(x) # Sum /\ Cell(x) # Total /\ Cell(x) # Admissions
       /\ \A j : Cell(x) # Bucket(j)
  BY DEF Total, Sum, Admissions, Bucket, Cell

(***************************************************************************)
(* The cells are the ones recorded into.                                   *)
(***************************************************************************)
LEMMA AllCells ==
  ASSUME Setup
  PROVE  /\ Total \in Cells /\ Sum \in Cells /\ Admissions \in Cells
         /\ \A j \in 1..Beyond : Bucket(j) \in Cells
         /\ \A x \in {"expirations", "evictions", "proxied", "queued", "admin"} : Cell(x) \in Cells
  <1> DEFINE n == Beyond
  <1>1. n \in Nat /\ DOMAIN WriteTo = 1..(n + 8)
    BY Order
  <1>2. ASSUME NEW i \in 1..(n + 8) PROVE WriteTo[i] \in Cells
    BY <1>1 DEF Cells
  <1>3. /\ 1 \in 1..(n + 8) /\ 2 \in 1..(n + 8) /\ 3 \in 1..(n + 8) /\ 4 \in 1..(n + 8)
        /\ 5 \in 1..(n + 8) /\ 6 \in 1..(n + 8) /\ n + 7 \in 1..(n + 8) /\ n + 8 \in 1..(n + 8)
        /\ \A j \in 1..n : j + 6 \in 1..(n + 8)
    BY <1>1
  <1>4. QED BY <1>2, <1>3, Order

-----------------------------------------------------------------------------
(* What is left to record *)

(***************************************************************************)
(* Accounts: one for each cell, and one more that counts observations.     *)
(***************************************************************************)
Open == <<"open", 0>>

Books == Cells \cup {Open}

Adds == {a \in [cell : Cells, n : Int] : a.cell # Sum => a.n >= 0}

(***************************************************************************)
(* What the add a puts on account c.  Adding to the sum, the last of the   *)
(* four adds of an observation, finishes it.                               *)
(***************************************************************************)
Weight(a, c) ==
  IF c = Open THEN IF a.cell = Sum THEN 1 ELSE 0
  ELSE IF a.cell = c THEN a.n ELSE 0

Nil == [c \in Books |-> 0]

Plus(v, w) == [c \in Books |-> v[c] + w[c]]

Once(a) == [c \in Books |-> Weight(a, c)]

Buckets(v) == [j \in 1..Beyond |-> v[Bucket(j)]]

(***************************************************************************)
(* What is left of some observations, when each of them records its        *)
(* admission, its bucket and its count before its sum.                     *)
(***************************************************************************)
Behind(v) ==
  /\ v \in [Books -> Int]
  /\ v[Admissions] \in 0..v[Open]
  /\ v[Total] \in 0..v[Open]
  /\ \A j \in 1..Beyond : v[Bucket(j)] >= 0
  /\ Cumulative(Buckets(v), Beyond) <= v[Open]

(***************************************************************************)
(* The accounts there are.                                                 *)
(***************************************************************************)
LEMMA AllBooks ==
  ASSUME Setup
  PROVE  /\ Total \in Books /\ Sum \in Books /\ Admissions \in Books /\ Open \in Books
         /\ \A j \in 1..Beyond : Bucket(j) \in Books
         /\ Open # Total /\ Open # Sum /\ Open # Admissions
         /\ \A j : Bucket(j) # Open
         /\ \A x \in {"expirations", "evictions", "proxied", "queued", "admin"} : Cell(x) # Open
  BY AllCells DEF Books, Open, Total, Sum, Admissions, Bucket, Cell

(***************************************************************************)
(* The buckets of accounts are buckets of integers.                        *)
(***************************************************************************)
LEMMA BucketsTyped ==
  ASSUME Setup, NEW v \in [Books -> Int]
  PROVE  Buckets(v) \in [1..Beyond -> Int] /\ \A j \in 1..Beyond : Buckets(v)[j] = v[Bucket(j)]
  BY AllBooks DEF Buckets

(***************************************************************************)
(* The same of two parts and of the whole.                                 *)
(***************************************************************************)
LEMMA PlusBuckets ==
  ASSUME Setup, NEW v \in [Books -> Int], NEW w \in [Books -> Int], NEW i \in 0..Beyond
  PROVE  /\ Plus(v, w) \in [Books -> Int]
         /\ Cumulative(Buckets(Plus(v, w)), i) = Cumulative(Buckets(v), i) + Cumulative(Buckets(w), i)
         /\ Cumulative(Buckets(v), i) \in Int /\ Cumulative(Buckets(w), i) \in Int
  <1> DEFINE p == Plus(v, w)
             m == Beyond
  <1>1. p \in [Books -> Int] /\ \A c \in Books : p[c] = v[c] + w[c]
    BY DEF Plus
  <1> HIDE DEF p
  <1>2. m \in Nat /\ \A j \in 1..m : Bucket(j) \in Books
    BY AllBooks, Order
  <1>3. /\ Buckets(v) \in [1..m -> Int] /\ \A j \in 1..m : Buckets(v)[j] = v[Bucket(j)]
        /\ Buckets(w) \in [1..m -> Int] /\ \A j \in 1..m : Buckets(w)[j] = w[Bucket(j)]
        /\ Buckets(p) \in [1..m -> Int] /\ \A j \in 1..m : Buckets(p)[j] = p[Bucket(j)]
    BY <1>1, BucketsTyped
  <1>4. \A j \in 1..m : Buckets(p)[j] = Buckets(v)[j] + Buckets(w)[j]
    BY <1>1, <1>2, <1>3
  <1>5. i \in 0..m /\ \A j \in 1..i : j \in 1..m
    BY <1>2
  <1> HIDE DEF m
  <1>6. /\ Cumulative(Buckets(p), i) = Cumulative(Buckets(v), i) + Cumulative(Buckets(w), i)
        /\ Cumulative(Buckets(v), i) \in Int /\ Cumulative(Buckets(w), i) \in Int
    <2> DEFINE f == Buckets(v)
               g == Buckets(w)
               h == Buckets(p)
    <2>1. Row(f, m) /\ Row(g, m) /\ Row(h, m)
      BY <1>3 DEF Row
    <2>2. Sums(h, f, g, i)
      BY <1>4, <1>5 DEF Sums
    <2> HIDE DEF f, g, h
    <2>3. /\ Cumulative(h, i) = Cumulative(f, i) + Cumulative(g, i)
          /\ Cumulative(f, i) \in Int /\ Cumulative(g, i) \in Int
      BY <1>2, <1>5, <2>1, <2>2, CumulativeAdds
    <2>4. QED BY <2>3 DEF f, g, h
  <1>7. QED BY <1>1, <1>6 DEF p

(***************************************************************************)
(* What is left of the observations of two parts.                          *)
(***************************************************************************)
LEMMA PlusBehind ==
  ASSUME Setup, NEW v, NEW w, Behind(v), Behind(w)
  PROVE  Behind(Plus(v, w))
  <1> DEFINE p == Plus(v, w)
             m == Beyond
  <1>1. v \in [Books -> Int] /\ w \in [Books -> Int]
    BY DEF Behind
  <1>2. p \in [Books -> Int] /\ \A c \in Books : p[c] = v[c] + w[c]
    BY <1>1 DEF Plus
  <1>3. m \in Nat /\ m \in 0..m
    BY Order
  <1>4. /\ Cumulative(Buckets(p), m) = Cumulative(Buckets(v), m) + Cumulative(Buckets(w), m)
        /\ Cumulative(Buckets(v), m) \in Int /\ Cumulative(Buckets(w), m) \in Int
    BY <1>1, <1>3, PlusBuckets
  <1> HIDE DEF p
  <1>5. /\ p[Admissions] = v[Admissions] + w[Admissions] /\ p[Total] = v[Total] + w[Total]
        /\ p[Open] = v[Open] + w[Open] /\ v[Open] \in Int /\ w[Open] \in Int
    BY <1>1, <1>2, AllBooks
  <1>6. p[Admissions] \in 0..p[Open] /\ p[Total] \in 0..p[Open]
    BY <1>5 DEF Behind
  <1>7. ASSUME NEW j \in 1..m PROVE p[Bucket(j)] >= 0
    <2>1. Bucket(j) \in Books /\ v[Bucket(j)] >= 0 /\ w[Bucket(j)] >= 0
      BY AllBooks DEF Behind
    <2>2. QED BY <1>1, <1>2, <2>1
  <1>8. Cumulative(Buckets(p), m) <= p[Open]
    <2>1. Cumulative(Buckets(v), m) <= v[Open] /\ Cumulative(Buckets(w), m) <= w[Open]
      BY DEF Behind
    <2>2. QED BY <1>4, <1>5, <2>1
  <1>9. QED BY <1>2, <1>6, <1>7, <1>8 DEF Behind, p

(***************************************************************************)
(* Of nothing, nothing is left.                                            *)
(***************************************************************************)
LEMMA NilBehind ==
  ASSUME Setup
  PROVE  /\ Nil \in [Books -> Int] /\ Behind(Nil)
         /\ \A i \in 0..Beyond : Cumulative(Buckets(Nil), i) = 0
  <1> DEFINE m == Beyond
  <1>1. Nil \in [Books -> Int] /\ \A c \in Books : Nil[c] = 0
    BY DEF Nil
  <1>2. m \in Nat /\ m \in 0..m
    BY Order
  <1>3. Buckets(Nil) \in [1..m -> Int] /\ \A j \in 1..m : Buckets(Nil)[j] = 0
    BY <1>1, AllBooks DEF Buckets
  <1>4. ASSUME NEW i \in 0..m PROVE Cumulative(Buckets(Nil), i) = 0
    <2>1. \A j \in 1..i : j \in 1..m
      BY <1>2
    <2> HIDE DEF m
    <2>2. QED BY <1>2, <1>3, <2>1, CumulativeZero
  <1>5. QED BY <1>1, <1>2, <1>4, AllBooks DEF Behind

(***************************************************************************)
(* Accounts add up like numbers.                                           *)
(***************************************************************************)
LEMMA PlusRules ==
  ASSUME NEW u \in [Books -> Int], NEW v \in [Books -> Int], NEW w \in [Books -> Int]
  PROVE  /\ Plus(u, v) \in [Books -> Int] /\ \A c \in Books : Plus(u, v)[c] = u[c] + v[c]
         /\ Plus(Plus(u, v), w) = Plus(u, Plus(v, w))
         /\ Plus(Nil, v) = v /\ Plus(v, Nil) = v
         /\ Plus(u, v) = Plus(v, u)
  <1>1. \A x, y \in [Books -> Int] : /\ Plus(x, y) \in [Books -> Int]
                                     /\ \A c \in Books : Plus(x, y)[c] = x[c] + y[c]
    BY DEF Plus
  <1>2. Nil \in [Books -> Int] /\ \A c \in Books : Nil[c] = 0
    BY DEF Nil
  <1>3. ASSUME NEW x \in [Books -> Int], NEW y \in [Books -> Int], \A c \in Books : x[c] = y[c]
        PROVE  x = y
    BY <1>3
  <1>4. Plus(Plus(u, v), w) = Plus(u, Plus(v, w))
    <2>1. Plus(Plus(u, v), w) \in [Books -> Int] /\ Plus(u, Plus(v, w)) \in [Books -> Int]
      BY <1>1
    <2>2. ASSUME NEW c \in Books PROVE Plus(Plus(u, v), w)[c] = Plus(u, Plus(v, w))[c]
      <3>1. Plus(Plus(u, v), w)[c] = Plus(u, v)[c] + w[c] /\ Plus(u, Plus(v, w))[c] = u[c] + Plus(v, w)[c]
        BY <1>1
      <3>2. Plus(u, v)[c] = u[c] + v[c] /\ Plus(v, w)[c] = v[c] + w[c]
        BY <1>1
      <3>3. u[c] \in Int /\ v[c] \in Int /\ w[c] \in Int
        OBVIOUS
      <3>4. QED BY <3>1, <3>2, <3>3
    <2>3. QED BY <1>3, <2>1, <2>2
  <1>5. Plus(Nil, v) = v /\ Plus(v, Nil) = v
    <2>1. Plus(Nil, v) \in [Books -> Int] /\ Plus(v, Nil) \in [Books -> Int]
      BY <1>1, <1>2
    <2>2. \A c \in Books : Plus(Nil, v)[c] = v[c] /\ Plus(v, Nil)[c] = v[c]
      BY <1>1, <1>2
    <2>3. QED BY <1>3, <2>1, <2>2
  <1>6. Plus(u, v) = Plus(v, u)
    <2>1. Plus(u, v) \in [Books -> Int] /\ Plus(v, u) \in [Books -> Int]
      BY <1>1
    <2>2. \A c \in Books : Plus(u, v)[c] = Plus(v, u)[c]
      BY <1>1
    <2>3. QED BY <1>3, <2>1, <2>2
  <1>7. QED BY <1>1, <1>4, <1>5, <1>6

(***************************************************************************)
(* t[k] is what the adds of s from the k-th on put on the accounts.        *)
(***************************************************************************)
Suffixes(t, s) ==
  /\ s \in Seq(Adds)
  /\ t \in [1..Len(s) + 1 -> [Books -> Int]]
  /\ t[Len(s) + 1] = Nil
  /\ \A k \in 1..Len(s) : t[k] = Plus(Once(s[k]), t[k + 1])
  /\ \A k \in 1..Len(s) + 1 : Behind(t[k])

Weighs(s, v) == \E t : Suffixes(t, s) /\ t[1] = v

(***************************************************************************)
(* A goroutine with nothing to record.                                     *)
(***************************************************************************)
LEMMA WeighsNothing ==
  ASSUME Setup
  PROVE  Weighs(<<>>, Nil) /\ \A v : Weighs(<<>>, v) => v = Nil
  <1> DEFINE t == [k \in 1..1 |-> Nil]
  <1>1. Len(<<>>) = 0 /\ <<>> \in Seq(Adds) /\ 1..0 + 1 = 1..1 /\ 1..0 = {} /\ \A k \in 1..1 : k = 1
    OBVIOUS
  <1>2. Suffixes(t, <<>>) /\ t[1] = Nil
    <2>1. t \in [1..1 -> [Books -> Int]] /\ \A k \in 1..1 : t[k] = Nil
      BY NilBehind
    <2> HIDE DEF t
    <2>2. QED BY <1>1, <2>1, NilBehind DEF Suffixes
  <1>3. ASSUME NEW v, Weighs(<<>>, v) PROVE v = Nil
    BY <1>1, <1>3 DEF Weighs, Suffixes
  <1> HIDE DEF t
  <1>4. QED BY <1>2, <1>3 DEF Weighs

(***************************************************************************)
(* The type of what is left.                                               *)
(***************************************************************************)
LEMMA WeighsTyped ==
  ASSUME NEW s, NEW v, Weighs(s, v)
  PROVE  s \in Seq(Adds) /\ Len(s) \in Nat /\ v \in [Books -> Int] /\ Behind(v)
  <1>1. PICK t : Suffixes(t, s) /\ t[1] = v
    BY DEF Weighs
  <1>2. s \in Seq(Adds) /\ Len(s) \in Nat
    BY <1>1 DEF Suffixes
  <1>3. 1 \in 1..Len(s) + 1
    BY <1>2
  <1>4. QED BY <1>1, <1>2, <1>3 DEF Suffixes

(***************************************************************************)
(* An add that is made is no longer left.                                  *)
(***************************************************************************)
LEMMA WeighsTail ==
  ASSUME NEW s, NEW v, Weighs(s, v), s # <<>>
  PROVE  /\ Head(s) \in Adds
         /\ \E w \in [Books -> Int] : Weighs(Tail(s), w) /\ v = Plus(Once(Head(s)), w)
  <1>1. PICK t : Suffixes(t, s) /\ t[1] = v
    BY DEF Weighs
  <1> DEFINE n == Len(s)
             r == Tail(s)
             u == [k \in 1..n |-> t[k + 1]]
  <1>2. /\ s \in Seq(Adds) /\ n \in Nat /\ n >= 1 /\ Head(s) = s[1] /\ s[1] \in Adds
        /\ r \in Seq(Adds) /\ Len(r) = n - 1 /\ \A k \in 1..n - 1 : r[k] = s[k + 1]
    BY <1>1 DEF Suffixes
  <1>3. /\ t \in [1..n + 1 -> [Books -> Int]] /\ t[n + 1] = Nil
        /\ \A k \in 1..n : t[k] = Plus(Once(s[k]), t[k + 1])
        /\ \A k \in 1..n + 1 : Behind(t[k])
    BY <1>1 DEF Suffixes
  <1> HIDE DEF n, r
  <1>4. (n - 1) + 1 = n /\ \A k \in 1..n : k + 1 \in 1..n + 1
    BY <1>2
  <1>5. u \in [1..n -> [Books -> Int]] /\ \A k \in 1..n : u[k] = t[k + 1]
    BY <1>3, <1>4
  <1> HIDE DEF u
  <1>6. u[n] = Nil /\ \A k \in 1..n : Behind(u[k])
    BY <1>2, <1>3, <1>4, <1>5
  <1>7. ASSUME NEW k \in 1..n - 1 PROVE u[k] = Plus(Once(r[k]), u[k + 1])
    <2>1. k \in 1..n /\ k + 1 \in 1..n
      BY <1>2
    <2>2. u[k] = t[k + 1] /\ u[k + 1] = t[(k + 1) + 1] /\ r[k] = s[k + 1]
      BY <1>2, <1>5, <2>1
    <2>3. QED BY <1>3, <2>1, <2>2
  <1>8. Suffixes(u, r)
    BY <1>2, <1>4, <1>5, <1>6, <1>7 DEF Suffixes
  <1>9. v = Plus(Once(s[1]), u[1]) /\ u[1] \in [Books -> Int]
    <2>1. 1 \in 1..n /\ 1 + 1 = 2
      BY <1>2
    <2>2. u[1] = t[2] /\ t[1] = Plus(Once(s[1]), t[2])
      BY <1>3, <1>5, <2>1
    <2>3. QED BY <1>1, <1>5, <2>1, <2>2
  <1>10. Weighs(r, u[1])
    BY <1>8 DEF Weighs
  <1>11. QED BY <1>2, <1>9, <1>10 DEF r

(***************************************************************************)
(* One add before others.                                                  *)
(***************************************************************************)
LEMMA WeighsCons ==
  ASSUME Setup, NEW r \in Seq(Adds), r # <<>>, NEW v, Weighs(Tail(r), v),
         Behind(Plus(Once(Head(r)), v))
  PROVE  Weighs(r, Plus(Once(Head(r)), v))
  <1> DEFINE s == Tail(r)
             a == Head(r)
             n == Len(s)
             p == Plus(Once(a), v)
  <1>1. PICK t : Suffixes(t, s) /\ t[1] = v
    BY DEF Weighs
  <1> DEFINE u == [k \in 1..n + 2 |-> IF k = 1 THEN p ELSE t[k - 1]]
  <1>2. n \in Nat
    BY <1>1 DEF Suffixes
  <1>3. /\ t \in [1..n + 1 -> [Books -> Int]] /\ t[n + 1] = Nil
        /\ \A k \in 1..n : t[k] = Plus(Once(s[k]), t[k + 1])
        /\ \A k \in 1..n + 1 : Behind(t[k])
    BY <1>1 DEF Suffixes
  <1>4. p \in [Books -> Int] /\ Behind(p)
    BY DEF Behind
  <1>5. r \in Seq(Adds) /\ Len(r) = n + 1 /\ r[1] = a /\ \A k \in 1..n : r[k + 1] = s[k]
    OBVIOUS
  <1> HIDE DEF p, n, s, a
  <1>6. ASSUME NEW k \in 1..n + 2
        PROVE  /\ k # 1 => k - 1 \in 1..n + 1 /\ u[k] = t[k - 1]
               /\ k = 1 => u[k] = p
               /\ u[k] \in [Books -> Int] /\ Behind(u[k])
    <2>1. k # 1 => k - 1 \in 1..n + 1
      BY <1>2
    <2>2. (k # 1 => u[k] = t[k - 1]) /\ (k = 1 => u[k] = p)
      OBVIOUS
    <2> HIDE DEF u
    <2>3. QED BY <1>3, <1>4, <2>1, <2>2
  <1>7. u \in [1..n + 2 -> [Books -> Int]]
    BY <1>6
  <1> HIDE DEF u
  <1>8. /\ (n + 1) + 1 = n + 2 /\ n + 2 \in 1..n + 2 /\ 1 \in 1..n + 2 /\ 2 \in 1..n + 2 /\ n + 2 # 1
        /\ (n + 2) - 1 = n + 1 /\ 2 - 1 = 1 /\ 2 # 1 /\ 1 + 1 = 2
    BY <1>2
  <1>9. u[n + 2] = Nil /\ u[1] = p /\ u[2] = v
    BY <1>1, <1>3, <1>6, <1>8
  <1>10. ASSUME NEW k \in 1..n + 1 PROVE u[k] = Plus(Once(r[k]), u[k + 1])
    <2>1. CASE k = 1
      BY <1>5, <1>8, <1>9, <2>1 DEF p
    <2>2. CASE k # 1
      <3>1. k - 1 \in 1..n /\ k \in 1..n + 2 /\ k + 1 \in 1..n + 2 /\ k + 1 # 1 /\ (k + 1) - 1 = (k - 1) + 1
            /\ (k - 1) + 1 = k
        BY <1>2, <2>2
      <3>2. u[k] = t[k - 1] /\ u[k + 1] = t[(k - 1) + 1] /\ r[k] = s[k - 1]
        BY <1>5, <1>6, <2>2, <3>1
      <3>3. t[k - 1] = Plus(Once(s[k - 1]), t[(k - 1) + 1])
        BY <1>3, <3>1
      <3>4. QED BY <3>2, <3>3
    <2>3. QED BY <2>1, <2>2
  <1>11. Suffixes(u, r)
    BY <1>5, <1>6, <1>7, <1>8, <1>9, <1>10 DEF Suffixes
  <1>12. Weighs(r, p)
    BY <1>9, <1>11 DEF Weighs
  <1>13. QED BY <1>12 DEF p, a

(***************************************************************************)
(* What the adds of one call and of the next one put on the accounts.      *)
(***************************************************************************)
LEMMA WeighsConcat ==
  ASSUME Setup, NEW s, NEW v, Weighs(s, v), NEW z, NEW w, Weighs(z, w)
  PROVE  Weighs(s \o z, Plus(v, w))
  <1>1. PICK t : Suffixes(t, s) /\ t[1] = v
    BY DEF Weighs
  <1>2. PICK y : Suffixes(y, z) /\ y[1] = w
    BY DEF Weighs
  <1> DEFINE n == Len(s)
             m == Len(z)
             r == s \o z
             u == [k \in 1..(n + m) + 1 |-> IF k <= n THEN Plus(t[k], w) ELSE y[k - n]]
  <1>3. /\ s \in Seq(Adds) /\ n \in Nat /\ t \in [1..n + 1 -> [Books -> Int]] /\ t[n + 1] = Nil
        /\ \A k \in 1..n : t[k] = Plus(Once(s[k]), t[k + 1])
        /\ \A k \in 1..n + 1 : Behind(t[k])
    BY <1>1 DEF Suffixes
  <1>4. /\ z \in Seq(Adds) /\ m \in Nat /\ y \in [1..m + 1 -> [Books -> Int]] /\ y[m + 1] = Nil
        /\ \A k \in 1..m : y[k] = Plus(Once(z[k]), y[k + 1])
        /\ \A k \in 1..m + 1 : Behind(y[k])
    BY <1>2 DEF Suffixes
  <1>5. w \in [Books -> Int] /\ Behind(w) /\ v \in [Books -> Int]
    BY WeighsTyped
  <1>6. /\ r \in Seq(Adds) /\ Len(r) = n + m
        /\ \A i \in 1..n + m : r[i] = IF i <= n THEN s[i] ELSE z[i - n]
    BY <1>3, <1>4, Concatenated
  <1> HIDE DEF n, m, r
  <1>7. ASSUME NEW k \in 1..(n + m) + 1
        PROVE  /\ k <= n => k \in 1..n + 1 /\ k \in 1..n /\ u[k] = Plus(t[k], w)
               /\ ~(k <= n) => k - n \in 1..m + 1 /\ u[k] = y[k - n]
               /\ u[k] \in [Books -> Int] /\ Behind(u[k])
    <2>1. (k <= n => k \in 1..n + 1 /\ k \in 1..n) /\ (~(k <= n) => k - n \in 1..m + 1)
      BY <1>3, <1>4
    <2>2. (k <= n => u[k] = Plus(t[k], w)) /\ (~(k <= n) => u[k] = y[k - n])
      OBVIOUS
    <2> HIDE DEF u
    <2>3. CASE k <= n
      <3>1. Behind(t[k]) /\ t[k] \in [Books -> Int]
        BY <1>3, <2>1, <2>3
      <3>2. Plus(t[k], w) \in [Books -> Int] /\ Behind(Plus(t[k], w))
        BY <1>5, <3>1, PlusBehind, PlusRules
      <3>3. QED BY <2>1, <2>2, <2>3, <3>2
    <2>4. CASE ~(k <= n)
      BY <1>4, <2>1, <2>2, <2>4
    <2>5. QED BY <2>3, <2>4
  <1>8. u \in [1..(n + m) + 1 -> [Books -> Int]]
    BY <1>7
  <1> HIDE DEF u
  <1>9. u[(n + m) + 1] = Nil
    <2>1. (n + m) + 1 \in 1..(n + m) + 1 /\ ~((n + m) + 1 <= n) /\ ((n + m) + 1) - n = m + 1
      BY <1>3, <1>4
    <2>2. QED BY <1>4, <1>7, <2>1
  <1>10. u[1] = Plus(v, w)
    <2>1. 1 \in 1..(n + m) + 1
      BY <1>3, <1>4
    <2>2. CASE 1 <= n
      BY <1>1, <1>7, <2>1, <2>2
    <2>3. CASE ~(1 <= n)
      <3>1. n = 0 /\ 1 - n = 1 /\ n + 1 = 1
        BY <1>3, <2>3
      <3>2. u[1] = w /\ v = Nil
        BY <1>1, <1>2, <1>3, <1>7, <2>1, <2>3, <3>1
      <3>3. QED BY <1>5, <3>2, PlusRules
    <2>4. QED BY <2>2, <2>3
  <1>11. ASSUME NEW k \in 1..n + m PROVE u[k] = Plus(Once(r[k]), u[k + 1])
    <2>1. k \in 1..(n + m) + 1 /\ k + 1 \in 1..(n + m) + 1
      BY <1>3, <1>4
    <2>2. CASE k <= n
      <3>1. /\ u[k] = Plus(t[k], w) /\ r[k] = s[k] /\ s[k] \in Adds
            /\ t[k] = Plus(Once(s[k]), t[k + 1]) /\ t[k + 1] \in [Books -> Int]
        <4>1. k \in 1..n /\ k + 1 \in 1..n + 1
          BY <1>3, <2>2
        <4>2. QED BY <1>3, <1>6, <1>7, <2>1, <2>2, <4>1
      <3>2. u[k + 1] = Plus(t[k + 1], w)
        <4>1. CASE k + 1 <= n
          BY <1>7, <2>1, <4>1
        <4>2. CASE ~(k + 1 <= n)
          <5>1. k = n /\ (k + 1) - n = 1
            BY <1>3, <2>2, <4>2
          <5>2. u[k + 1] = w /\ t[k + 1] = Nil
            BY <1>2, <1>3, <1>7, <2>1, <4>2, <5>1
          <5>3. QED BY <1>5, <5>2, PlusRules
        <4>3. QED BY <4>1, <4>2
      <3>3. Once(s[k]) \in [Books -> Int]
        BY <3>1 DEF Once, Weight, Adds
      <3>4. QED BY <1>5, <3>1, <3>2, <3>3, PlusRules
    <2>3. CASE ~(k <= n)
      <3>1. k - n \in 1..m /\ ~(k + 1 <= n) /\ (k + 1) - n = (k - n) + 1
        BY <1>3, <1>4, <2>3
      <3>2. u[k] = y[k - n] /\ u[k + 1] = y[(k - n) + 1] /\ r[k] = z[k - n]
        BY <1>6, <1>7, <2>1, <2>3, <3>1
      <3>3. QED BY <1>4, <3>1, <3>2
    <2>4. QED BY <2>2, <2>3
  <1>12. Suffixes(u, r)
    BY <1>6, <1>7, <1>8, <1>9, <1>11 DEF Suffixes
  <1>13. QED BY <1>10, <1>12 DEF Weighs, r

-----------------------------------------------------------------------------
(* What is recorded *)

(***************************************************************************)
(* The bucket of a wait: the first whose bound is not below it.            *)
(***************************************************************************)
LEMMA BucketFits ==
  ASSUME Setup, NEW wait \in Int
  PROVE  /\ BucketOf(wait) \in 1..Beyond
         /\ \A i \in 1..Beyond : BucketOf(wait) <= i <=> i = Beyond \/ wait <= Bounds[i]
  <1> DEFINE n == Len(Bounds)
             fits == {i \in DOMAIN Bounds : wait <= Bounds[i]}
             b == BucketOf(wait)
  <1>1. /\ Bounds \in Seq(Int) /\ n \in Nat /\ DOMAIN Bounds = 1..n /\ Beyond = n + 1
        /\ \A i \in 1..n : Bounds[i] \in Int
        /\ \A i, j \in 1..n : i < j => Bounds[i] < Bounds[j]
    BY DEF Setup, Beyond
  <1>2. CASE fits = {}
    <2>1. b = n + 1
      BY <1>1, <1>2 DEF BucketOf
    <2> HIDE DEF b
    <2>2. ASSUME NEW i \in 1..n + 1 PROVE b <= i <=> i = n + 1 \/ wait <= Bounds[i]
      <3>1. i = n + 1 \/ (i \in 1..n /\ ~(wait <= Bounds[i]) /\ i # n + 1 /\ ~(n + 1 <= i))
        BY <1>1, <1>2
      <3>2. QED BY <1>1, <2>1, <3>1
    <2>3. n + 1 \in 1..n + 1
      BY <1>1
    <2> HIDE DEF n, fits
    <2>4. QED BY <1>1, <2>1, <2>2, <2>3 DEF b
  <1>3. CASE fits # {}
    <2>1. fits \in SUBSET Nat
      BY <1>1
    <2>2. PICK f \in fits : \A j \in fits : f <= j
      <3> HIDE DEF fits
      <3>1. PICK f \in fits : \A j \in fits : ~(j < f)
        BY <1>3, <2>1, Descent
      <3>2. QED BY <2>1, <3>1
    <2>3. b = CHOOSE i \in fits : \A j \in fits : i <= j
      BY <1>3 DEF BucketOf
    <2>4. b \in fits /\ \A j \in fits : b <= j
      <3> HIDE DEF fits, b
      <3>1. QED BY <2>2, <2>3, Zenon
    <2> HIDE DEF b
    <2>5. b \in 1..n /\ wait <= Bounds[b]
      BY <1>1, <2>4
    <2>6. ASSUME NEW i \in 1..n + 1 PROVE b <= i <=> i = n + 1 \/ wait <= Bounds[i]
      <3>1. CASE i = n + 1
        BY <1>1, <2>5, <3>1
      <3>2. CASE i # n + 1
        <4>1. i \in 1..n
          BY <1>1, <3>2
        <4>2. wait <= Bounds[i] => b <= i
          BY <1>1, <2>4, <4>1
        <4>3. ASSUME b <= i PROVE wait <= Bounds[i]
          <5>1. b = i \/ b < i
            BY <2>5, <4>1, <4>3
          <5>2. b < i => Bounds[b] < Bounds[i]
            BY <1>1, <2>5, <4>1
          <5>3. Bounds[b] \in Int /\ Bounds[i] \in Int
            BY <1>1, <2>5, <4>1
          <5>4. QED BY <2>5, <5>1, <5>2, <5>3
        <4>4. QED BY <3>2, <4>2, <4>3
      <3>3. QED BY <3>1, <3>2
    <2>7. b \in 1..n + 1
      BY <1>1, <2>5
    <2> HIDE DEF n, fits
    <2>8. QED BY <1>1, <2>6, <2>7 DEF b
  <1>4. QED BY <1>2, <1>3

(***************************************************************************)
(* What is left of one observation, with its sum still to be swapped.      *)
(***************************************************************************)
LEMMA OneBehind ==
  ASSUME Setup, NEW v \in [Books -> Int], NEW b \in 1..Beyond,
         v[Open] = 1, v[Admissions] \in 0..1, v[Total] \in 0..1,
         \/ \A j \in 1..Beyond : v[Bucket(j)] = 0
         \/ \A j \in 1..Beyond : v[Bucket(j)] = IF j = b THEN 1 ELSE 0
  PROVE  Behind(v)
  <1> DEFINE m == Beyond
             f == Buckets(v)
  <1>1. m \in Nat /\ m \in 0..m
    BY Order
  <1>2. f \in [1..m -> Int] /\ \A j \in 1..m : f[j] = v[Bucket(j)]
    BY BucketsTyped
  <1> HIDE DEF f
  <1>3. Cumulative(f, m) \in {0, 1}
    <2>1. CASE \A j \in 1..m : v[Bucket(j)] = 0
      <3>1. \A j \in 1..m : f[j] = 0
        BY <1>2, <2>1
      <3> HIDE DEF m
      <3>2. Cumulative(f, m) = 0
        BY <1>1, <1>2, <3>1, CumulativeZero
      <3>3. QED BY <3>2
    <2>2. CASE \A j \in 1..m : v[Bucket(j)] = IF j = b THEN 1 ELSE 0
      <3>1. (\A j \in 1..m : f[j] = IF j = b THEN 1 ELSE 0) /\ b \in Int /\ b >= 1
        BY <1>1, <1>2, <2>2
      <3> HIDE DEF m
      <3>2. Cumulative(f, m) = IF b <= m THEN 1 ELSE 0
        BY <1>1, <1>2, <3>1, CumulativeOne
      <3>3. QED BY <3>2
    <2>3. QED BY <2>1, <2>2
  <1>4. \A j \in 1..m : v[Bucket(j)] >= 0
    OBVIOUS
  <1>5. Cumulative(f, m) <= v[Open]
    BY <1>3
  <1>6. QED BY <1>4, <1>5 DEF Behind, f

(***************************************************************************)
(* An observation is one admission, one count, one wait, and one for each  *)
(* bound that is not below the wait.                                       *)
(***************************************************************************)
Observes(v, wait) ==
  /\ v \in [Books -> Int]
  /\ v[Admissions] = 1 /\ v[Total] = 1 /\ v[Open] = 1 /\ v[Sum] = wait
  /\ \A i \in 1..Beyond :
       Cumulative(Buckets(v), i) = IF i = Beyond \/ wait <= Bounds[i] THEN 1 ELSE 0

(***************************************************************************)
(* The count of observations is none of the cells.                         *)
(***************************************************************************)
LEMMA OpenApart ==
  ASSUME Setup
  PROVE  Open \notin Cells
  <1> DEFINE n == Beyond
  <1>1. DOMAIN WriteTo = 1..(n + 8) /\ n \in Nat
    BY Order
  <1>2. ASSUME NEW i \in 1..(n + 8) PROVE WriteTo[i] # Open
    <2>1. i \in {1, 2, 3, 4, 5, 6, n + 7, n + 8} \/ (i - 6 \in 1..n /\ (i - 6) + 6 = i)
      BY <1>1
    <2>2. QED BY <2>1, Order, AllBooks
  <1>3. QED BY <1>1, <1>2 DEF Cells

(***************************************************************************)
(* What one add puts on the accounts, added to others.                     *)
(***************************************************************************)
LEMMA OnceAdded ==
  ASSUME Setup, NEW v \in [Books -> Int], NEW cell \in Cells, NEW n \in Int
  PROVE  LET p == Plus(Once(Add(cell, n)), v)
         IN  /\ p \in [Books -> Int]
             /\ p[Open] = v[Open] + IF cell = Sum THEN 1 ELSE 0
             /\ \A c \in Cells : p[c] = v[c] + IF c = cell THEN n ELSE 0
             /\ cell = Sum \/ n >= 0 => Add(cell, n) \in Adds
  <1> DEFINE a == Add(cell, n)
             p == Plus(Once(a), v)
  <1>1. a = [cell |-> cell, n |-> n] /\ a.cell = cell /\ a.n = n
    BY DEF Add
  <1>2. a \in [cell : Cells, n : Int]
    BY <1>1
  <1> HIDE DEF a
  <1>3. Once(a) \in [Books -> Int] /\ \A c \in Books : Once(a)[c] = Weight(a, c)
    BY <1>1 DEF Once, Weight
  <1>4. p \in [Books -> Int] /\ \A c \in Books : p[c] = Weight(a, c) + v[c]
    BY <1>3, PlusRules
  <1> HIDE DEF p
  <1>5. \A c \in Cells : c \in Books /\ c # Open
    BY OpenApart DEF Books
  <1>6. p[Open] = v[Open] + IF cell = Sum THEN 1 ELSE 0
    <2>1. p[Open] = Weight(a, Open) + v[Open] /\ v[Open] \in Int
      BY <1>4, AllBooks
    <2>2. Weight(a, Open) = IF cell = Sum THEN 1 ELSE 0
      BY <1>1 DEF Weight
    <2>3. QED BY <2>1, <2>2
  <1>7. ASSUME NEW c \in Cells PROVE p[c] = v[c] + IF c = cell THEN n ELSE 0
    <2>1. p[c] = Weight(a, c) + v[c] /\ v[c] \in Int
      BY <1>4, <1>5
    <2>2. Weight(a, c) = IF c = cell THEN n ELSE 0
      BY <1>1, <1>5 DEF Weight
    <2>3. QED BY <2>1, <2>2
  <1>8. cell = Sum \/ n >= 0 => a \in Adds
    BY <1>1, <1>2 DEF Adds
  <1>9. QED BY <1>4, <1>6, <1>7, <1>8 DEF p, a

(***************************************************************************)
(* ObserveAdmission records an observation, its sum last.                  *)
(***************************************************************************)
LEMMA ObservationWeighs ==
  ASSUME Setup, NEW wait \in Int
  PROVE  \E v : Weighs(ObserveAdmission(wait), v) /\ Observes(v, wait)
  <1> DEFINE m == Beyond
             b == BucketOf(wait)
             B == Bucket(b)
             a1 == Add(Admissions, 1)
             a2 == Add(B, 1)
             a3 == Add(Total, 1)
             a4 == Add(Sum, wait)
             v4 == Plus(Once(a4), Nil)
             v3 == Plus(Once(a3), v4)
             v2 == Plus(Once(a2), v3)
             v1 == Plus(Once(a1), v2)
  <1>1. m \in Nat /\ m \in 0..m /\ m \in 1..m
    BY Order
  <1>2. b \in 1..m /\ \A i \in 1..m : b <= i <=> i = m \/ wait <= Bounds[i]
    BY BucketFits
  <1> HIDE DEF b
  <1>3. B \in Cells /\ 1 \in Int /\ 1 >= 0
    BY <1>2, AllCells
  <1>4. /\ B # Sum /\ B # Total /\ B # Admissions
        /\ \A j \in 1..m : Bucket(j) = B <=> j = b
    BY Names
  <1> HIDE DEF B
  <1>5. Nil \in [Books -> Int] /\ Nil[Open] = 0 /\ \A c \in Cells : Nil[c] = 0
    BY AllBooks DEF Nil, Books
  <1>6. /\ v4 \in [Books -> Int] /\ a4 \in Adds /\ v4[Open] = Nil[Open] + 1
        /\ \A c \in Cells : v4[c] = Nil[c] + IF c = Sum THEN wait ELSE 0
    BY <1>5, AllCells, OnceAdded
  <1> HIDE DEF v4, a4
  <1>7. /\ v3 \in [Books -> Int] /\ a3 \in Adds /\ v3[Open] = v4[Open] + 0
        /\ \A c \in Cells : v3[c] = v4[c] + IF c = Total THEN 1 ELSE 0
    BY <1>3, <1>6, AllCells, Names, OnceAdded
  <1> HIDE DEF v3, a3
  <1>8. /\ v2 \in [Books -> Int] /\ a2 \in Adds /\ v2[Open] = v3[Open] + 0
        /\ \A c \in Cells : v2[c] = v3[c] + IF c = B THEN 1 ELSE 0
    BY <1>3, <1>4, <1>7, OnceAdded
  <1> HIDE DEF v2, a2
  <1>9. /\ v1 \in [Books -> Int] /\ a1 \in Adds /\ v1[Open] = v2[Open] + 0
        /\ \A c \in Cells : v1[c] = v2[c] + IF c = Admissions THEN 1 ELSE 0
    BY <1>3, <1>8, AllCells, Names, OnceAdded
  <1> HIDE DEF v1, a1
  <1>10. v4[Open] = 1 /\ v3[Open] = 1 /\ v2[Open] = 1 /\ v1[Open] = 1
    BY <1>5, <1>6, <1>7, <1>8, <1>9
  <1>11. /\ v4[Admissions] = 0 /\ v3[Admissions] = 0 /\ v2[Admissions] = 0 /\ v1[Admissions] = 1
         /\ v4[Total] = 0 /\ v3[Total] = 1 /\ v2[Total] = 1 /\ v1[Total] = 1
         /\ v1[Sum] = wait
    BY <1>4, <1>5, <1>6, <1>7, <1>8, <1>9, AllCells, Names
  <1>12. ASSUME NEW j \in 1..m
         PROVE  /\ v4[Bucket(j)] = 0 /\ v3[Bucket(j)] = 0
                /\ v2[Bucket(j)] = IF j = b THEN 1 ELSE 0
                /\ v1[Bucket(j)] = IF j = b THEN 1 ELSE 0
    <2> DEFINE c == Bucket(j)
    <2>1. c \in Cells /\ c # Sum /\ c # Total /\ c # Admissions /\ (c = B <=> j = b)
      BY <1>4, AllCells, Names
    <2> HIDE DEF c
    <2>2. v4[c] = 0
      BY <1>5, <1>6, <2>1
    <2>3. v3[c] = 0
      BY <1>7, <2>1, <2>2
    <2>4. v2[c] = IF j = b THEN 1 ELSE 0
      BY <1>8, <2>1, <2>3
    <2>5. v1[c] = IF j = b THEN 1 ELSE 0
      <3>1. v1[c] = v2[c] + 0 /\ v2[c] \in Int
        BY <1>9, <2>1, <2>4
      <3>2. QED BY <2>4, <3>1
    <2>6. QED BY <2>2, <2>3, <2>4, <2>5 DEF c
  <1>13. Behind(v4) /\ Behind(v3) /\ Behind(v2) /\ Behind(v1)
    <2>1. 0 \in 0..1 /\ 1 \in 0..1
      OBVIOUS
    <2>2. Behind(v4)
      BY <1>2, <1>6, <1>10, <1>11, <1>12, <2>1, OneBehind
    <2>3. Behind(v3)
      BY <1>2, <1>7, <1>10, <1>11, <1>12, <2>1, OneBehind
    <2>4. Behind(v2)
      BY <1>2, <1>8, <1>10, <1>11, <1>12, <2>1, OneBehind
    <2>5. Behind(v1)
      BY <1>2, <1>9, <1>10, <1>11, <1>12, <2>1, OneBehind
    <2>6. QED BY <2>2, <2>3, <2>4, <2>5
  <1> DEFINE s4 == <<a4>>
             s3 == <<a3, a4>>
             s2 == <<a2, a3, a4>>
             s1 == <<a1, a2, a3, a4>>
  <1>14. Weighs(s4, v4)
    <2>1. s4 \in Seq(Adds) /\ s4 # <<>> /\ Tail(s4) = <<>> /\ Head(s4) = a4
      BY <1>6
    <2> HIDE DEF s4
    <2>2. QED BY <1>13, <2>1, WeighsNothing, WeighsCons DEF v4
  <1>15. Weighs(s3, v3)
    <2>1. s3 \in Seq(Adds) /\ s3 # <<>> /\ Tail(s3) = s4 /\ Head(s3) = a3
      BY <1>6, <1>7
    <2> HIDE DEF s3, s4
    <2>2. QED BY <1>13, <1>14, <2>1, WeighsCons DEF v3
  <1>16. Weighs(s2, v2)
    <2>1. s2 \in Seq(Adds) /\ s2 # <<>> /\ Tail(s2) = s3 /\ Head(s2) = a2
      BY <1>6, <1>7, <1>8
    <2> HIDE DEF s2, s3
    <2>2. QED BY <1>13, <1>15, <2>1, WeighsCons DEF v2
  <1>17. Weighs(s1, v1)
    <2>1. s1 \in Seq(Adds) /\ s1 # <<>> /\ Tail(s1) = s2 /\ Head(s1) = a1
      BY <1>6, <1>7, <1>8, <1>9
    <2> HIDE DEF s1, s2
    <2>2. QED BY <1>13, <1>16, <2>1, WeighsCons DEF v1
  <1>18. s1 = ObserveAdmission(wait)
    BY DEF ObserveAdmission, a1, a2, a3, a4, b, B
  <1>19. Observes(v1, wait)
    <2> DEFINE f == Buckets(v1)
    <2>1. f \in [1..m -> Int] /\ \A j \in 1..m : f[j] = IF j = b THEN 1 ELSE 0
      BY <1>9, <1>12, BucketsTyped
    <2> HIDE DEF f
    <2>2. ASSUME NEW i \in 1..m PROVE Cumulative(f, i) = IF i = m \/ wait <= Bounds[i] THEN 1 ELSE 0
      <3>1. i \in 0..m /\ b \in Int /\ b >= 1 /\ \A j \in 1..i : j \in 1..m
        BY <1>1, <1>2
      <3> HIDE DEF m
      <3>2. Cumulative(f, i) = IF b <= i THEN 1 ELSE 0
        BY <1>1, <2>1, <3>1, CumulativeOne
      <3>3. QED BY <1>2, <3>2
    <2>3. QED BY <1>9, <1>10, <1>11, <2>2 DEF Observes, f
  <1> HIDE DEF s1
  <1>20. QED BY <1>17, <1>18, <1>19

(***************************************************************************)
(* What is no observation.                                                 *)
(***************************************************************************)
Plain(v) ==
  /\ v \in [Books -> Int]
  /\ v[Admissions] = 0 /\ v[Total] = 0 /\ v[Open] = 0 /\ v[Sum] = 0
  /\ \A j \in 1..Beyond : v[Bucket(j)] = 0

(***************************************************************************)
(* Nothing is left of it.                                                  *)
(***************************************************************************)
LEMMA PlainBehind ==
  ASSUME Setup, NEW v, Plain(v)
  PROVE  Behind(v) /\ \A i \in 0..Beyond : Cumulative(Buckets(v), i) = 0
  <1> DEFINE m == Beyond
             f == Buckets(v)
  <1>1. m \in Nat /\ m \in 0..m /\ v \in [Books -> Int]
    BY Order DEF Plain
  <1>2. f \in [1..m -> Int] /\ \A j \in 1..m : f[j] = 0
    BY <1>1, BucketsTyped DEF Plain
  <1> HIDE DEF f
  <1>3. ASSUME NEW i \in 0..m PROVE Cumulative(f, i) = 0
    <2>1. \A j \in 1..i : j \in 1..m
      BY <1>1
    <2> HIDE DEF m
    <2>2. QED BY <1>1, <1>2, <2>1, CumulativeZero
  <1>4. Cumulative(f, m) <= v[Open]
    BY <1>1, <1>3 DEF Plain
  <1>5. QED BY <1>1, <1>3, <1>4 DEF Behind, Plain, f

(***************************************************************************)
(* Adds to the other counters are no observations.                         *)
(***************************************************************************)
LEMMA PlainOnce ==
  ASSUME Setup, NEW x \in {"expirations", "evictions", "proxied", "queued", "admin"}, NEW n \in Nat,
         NEW v, Plain(v)
  PROVE  Add(Cell(x), n) \in Adds /\ Plain(Plus(Once(Add(Cell(x), n)), v))
  <1> DEFINE cell == Cell(x)
             p == Plus(Once(Add(cell, n)), v)
  <1>1. /\ cell \in Cells /\ cell # Sum /\ cell # Total /\ cell # Admissions
        /\ \A j : cell # Bucket(j)
    BY AllCells, Names
  <1> HIDE DEF cell
  <1>2. v \in [Books -> Int] /\ n \in Int /\ n >= 0
    BY DEF Plain
  <1>3. /\ p \in [Books -> Int] /\ Add(cell, n) \in Adds
        /\ p[Open] = v[Open] + 0
        /\ \A c \in Cells : p[c] = v[c] + IF c = cell THEN n ELSE 0
    BY <1>1, <1>2, OnceAdded
  <1> HIDE DEF p
  <1>4. p[Open] = 0
    BY <1>3 DEF Plain
  <1>5. p[Admissions] = 0 /\ p[Total] = 0 /\ p[Sum] = 0
    BY <1>1, <1>3, AllCells DEF Plain
  <1>6. ASSUME NEW j \in 1..Beyond PROVE p[Bucket(j)] = 0
    <2>1. Bucket(j) \in Cells /\ Bucket(j) # cell /\ v[Bucket(j)] = 0
      BY <1>1, AllCells DEF Plain
    <2>2. QED BY <1>3, <2>1
  <1>7. QED BY <1>3, <1>4, <1>5, <1>6 DEF Plain, p, cell

(***************************************************************************)
(* AddReconcile and IncRequest record no observation.                      *)
(***************************************************************************)
LEMMA PlainCalls ==
  ASSUME Setup
  PROVE  /\ \A r \in Reports : \E v : Weighs(AddReconcile(r), v) /\ Plain(v)
         /\ \A d \in {"proxied", "queued", "admin"} : \E v : Weighs(IncRequest(d), v) /\ Plain(v)
  <1>1. Plain(Nil)
    BY AllBooks DEF Plain, Nil
  <1>2. ASSUME NEW x \in {"expirations", "evictions", "proxied", "queued", "admin"}, NEW n \in Nat
        PROVE  LET a == Add(Cell(x), n)
               IN a \in Adds /\ Weighs(<<a>>, Plus(Once(a), Nil)) /\ Plain(Plus(Once(a), Nil))
    <2> DEFINE a == Add(Cell(x), n)
               s == <<a>>
    <2>1. a \in Adds /\ Plain(Plus(Once(a), Nil))
      BY <1>1, PlainOnce
    <2> HIDE DEF a
    <2>2. s \in Seq(Adds) /\ s # <<>> /\ Tail(s) = <<>> /\ Head(s) = a
      BY <2>1
    <2> HIDE DEF s
    <2>3. Weighs(s, Plus(Once(a), Nil))
      BY <2>1, <2>2, PlainBehind, WeighsNothing, WeighsCons
    <2>4. QED BY <2>1, <2>3 DEF s, a
  <1>3. ASSUME NEW d \in {"proxied", "queued", "admin"}
        PROVE  \E v : Weighs(IncRequest(d), v) /\ Plain(v)
    <2>1. d \in {"expirations", "evictions", "proxied", "queued", "admin"} /\ 1 \in Nat
      OBVIOUS
    <2>2. QED BY <1>2, <2>1 DEF IncRequest
  <1>4. ASSUME NEW r \in Reports PROVE \E v : Weighs(AddReconcile(r), v) /\ Plain(v)
    <2> DEFINE a == Add(Cell("expirations"), r.expired)
               d == Add(Cell("evictions"), r.evicted)
               s == <<a, d>>
               v == Plus(Once(d), Nil)
               w == Plus(Once(a), v)
    <2>1. r.expired \in Nat /\ r.evicted \in Nat
      BY DEF Setup
    <2>2. d \in Adds /\ Weighs(<<d>>, v) /\ Plain(v)
      BY <1>2, <2>1
    <2> HIDE DEF v
    <2>3. a \in Adds /\ Plain(w)
      BY <2>1, <2>2, PlainOnce
    <2>4. s = AddReconcile(r)
      BY DEF AddReconcile
    <2> HIDE DEF a, d
    <2>5. s \in Seq(Adds) /\ s # <<>> /\ Tail(s) = <<d>> /\ Head(s) = a
      BY <2>2, <2>3
    <2> HIDE DEF s
    <2>6. Weighs(s, w)
      BY <2>2, <2>3, <2>5, PlainBehind, WeighsCons
    <2>7. QED BY <2>3, <2>4, <2>6
  <1>5. QED BY <1>3, <1>4

-----------------------------------------------------------------------------
(* What a histogram is to say *)

Truths == [sum : Int, atMost : [1..Beyond -> Int], finished : Int]

(***************************************************************************)
(* With e on the accounts the histogram says what t does.                  *)
(***************************************************************************)
Told(e, t) ==
  /\ e \in [Books -> Int]
  /\ e[Admissions] = t.atMost[Beyond]
  /\ e[Total] = t.atMost[Beyond]
  /\ e[Open] = t.atMost[Beyond]
  /\ e[Sum] = t.sum
  /\ \A i \in 1..Beyond : Cumulative(Buckets(e), i) = t.atMost[i]

(***************************************************************************)
(* One more wait to tell of.                                               *)
(***************************************************************************)
LEMMA CountedTyped ==
  ASSUME Setup, NEW t \in Truths, NEW wait \in Int
  PROVE  /\ Counted(t, wait) \in Truths
         /\ Counted(t, wait).sum = t.sum + wait
         /\ Counted(t, wait).finished = t.finished
         /\ Counted(t, wait).atMost[Beyond] = t.atMost[Beyond] + 1
         /\ \A i \in 1..Beyond :
              Counted(t, wait).atMost[i] = t.atMost[i] + IF i = Beyond \/ wait <= Bounds[i] THEN 1 ELSE 0
  <1> DEFINE m == Beyond
             more == [i \in 1..m |-> t.atMost[i] + IF i = m \/ wait <= Bounds[i] THEN 1 ELSE 0]
             n == Counted(t, wait)
  <1>1. m \in Nat /\ m \in 1..m
    BY Order
  <1>2. t.sum \in Int /\ t.atMost \in [1..m -> Int] /\ t.finished \in Int
    BY DEF Truths
  <1>3. more \in [1..m -> Int] /\ \A i \in 1..m : more[i] = t.atMost[i] + IF i = m \/ wait <= Bounds[i] THEN 1 ELSE 0
    <2> DEFINE one(i) == IF i = m \/ wait <= Bounds[i] THEN 1 ELSE 0
               old == t.atMost
    <2>1. \A i \in 1..m : one(i) \in Int /\ old[i] \in Int
      <3>1. \A i \in 1..m : old[i] \in Int
        BY <1>2
      <3>2. \A i \in 1..m : one(i) = 1 \/ one(i) = 0
        OBVIOUS
      <3> HIDE DEF one, old
      <3>3. QED BY <3>1, <3>2
    <2>2. more = [i \in 1..m |-> old[i] + one(i)]
      OBVIOUS
    <2> HIDE DEF one, old, more
    <2>3. more \in [1..m -> Int] /\ \A i \in 1..m : more[i] = old[i] + one(i)
      BY <2>1, <2>2
    <2>4. QED BY <2>3 DEF old, one
  <1> HIDE DEF more
  <1>4. n.sum = t.sum + wait /\ n.atMost = more /\ n.finished = t.finished /\ n \in Truths
    <2>1. n = [sum |-> t.sum + wait, atMost |-> more, finished |-> t.finished]
      BY DEF Counted, more
    <2> HIDE DEF n
    <2>2. QED BY <1>2, <1>3, <2>1 DEF Truths
  <1> HIDE DEF n
  <1>5. more[m] = t.atMost[m] + 1
    BY <1>1, <1>3
  <1>6. QED BY <1>3, <1>4, <1>5 DEF n

(***************************************************************************)
(* One more observation.                                                   *)
(***************************************************************************)
LEMMA ToldMore ==
  ASSUME Setup, NEW e, NEW t \in Truths, Told(e, t), NEW wait \in Int, NEW o, Observes(o, wait)
  PROVE  Told(Plus(e, o), Counted(t, wait))
  <1> DEFINE m == Beyond
             n == Counted(t, wait)
             more == n.atMost
             p == Plus(e, o)
  <1>1. m \in Nat /\ m \in 1..m
    BY Order
  <1>3. \A i \in 1..m : more[i] = t.atMost[i] + IF i = m \/ wait <= Bounds[i] THEN 1 ELSE 0
    BY CountedTyped
  <1>4. n.sum = t.sum + wait
    BY CountedTyped
  <1> HIDE DEF n
  <1>5. more[m] = t.atMost[m] + 1
    BY <1>1, <1>3
  <1>6. e \in [Books -> Int] /\ o \in [Books -> Int]
    BY DEF Told, Observes
  <1>7. p \in [Books -> Int] /\ \A c \in Books : p[c] = e[c] + o[c]
    BY <1>6, PlusRules
  <1>8. ASSUME NEW i \in 1..m PROVE Cumulative(Buckets(p), i) = more[i]
    <2>1. i \in 0..m
      BY <1>1
    <2>2. Cumulative(Buckets(p), i) = Cumulative(Buckets(e), i) + Cumulative(Buckets(o), i)
      BY <1>6, <2>1, PlusBuckets
    <2>3. Cumulative(Buckets(e), i) = t.atMost[i]
      BY DEF Told
    <2>4. Cumulative(Buckets(o), i) = IF i = m \/ wait <= Bounds[i] THEN 1 ELSE 0
      BY DEF Observes
    <2>5. QED BY <1>3, <2>2, <2>3, <2>4
  <1> HIDE DEF p
  <1>9. p[Admissions] = more[m] /\ p[Total] = more[m] /\ p[Open] = more[m] /\ p[Sum] = n.sum
    <2>1. /\ p[Admissions] = e[Admissions] + o[Admissions] /\ p[Total] = e[Total] + o[Total]
          /\ p[Open] = e[Open] + o[Open] /\ p[Sum] = e[Sum] + o[Sum]
      BY <1>7, AllBooks
    <2>2. QED BY <1>4, <1>5, <2>1 DEF Told, Observes
  <1>10. QED BY <1>7, <1>8, <1>9 DEF Told, n, p

(***************************************************************************)
(* What is no observation changes nothing of it.                           *)
(***************************************************************************)
LEMMA ToldPlain ==
  ASSUME Setup, NEW e, NEW t \in Truths, Told(e, t), NEW v, Plain(v)
  PROVE  Told(Plus(e, v), t)
  <1> DEFINE m == Beyond
             p == Plus(e, v)
  <1>1. m \in Nat /\ m \in 1..m
    BY Order
  <1>2. e \in [Books -> Int] /\ v \in [Books -> Int]
    BY DEF Told, Plain
  <1>3. p \in [Books -> Int] /\ \A c \in Books : p[c] = e[c] + v[c]
    BY <1>2, PlusRules
  <1>4. ASSUME NEW i \in 1..m PROVE Cumulative(Buckets(p), i) = t.atMost[i]
    <2>1. i \in 0..m
      BY <1>1
    <2>2. /\ Cumulative(Buckets(p), i) = Cumulative(Buckets(e), i) + Cumulative(Buckets(v), i)
          /\ Cumulative(Buckets(e), i) \in Int
      BY <1>2, <2>1, PlusBuckets
    <2>3. Cumulative(Buckets(v), i) = 0
      BY <2>1, PlainBehind
    <2>4. QED BY <2>2, <2>3 DEF Told
  <1> HIDE DEF p
  <1>5. p[Admissions] = e[Admissions] /\ p[Total] = e[Total] /\ p[Open] = e[Open] /\ p[Sum] = e[Sum]
    BY <1>2, <1>3, AllBooks DEF Plain
  <1>6. QED BY <1>3, <1>4, <1>5 DEF Told, p

(***************************************************************************)
(* The waits are told one after the other.                                 *)
(***************************************************************************)
LEMMA ObservedUnfolds ==
  ASSUME Setup, truth \in Truths, NEW ws \in Seq(Int)
  PROVE  \E u : /\ u \in [0..Len(ws) -> Truths]
                /\ u[0] = truth
                /\ \A k \in 1..Len(ws) : u[k] = Counted(u[k - 1], ws[k])
                /\ Observed(ws) = u[Len(ws)]
  <1> DEFINE n == Len(ws)
             Tells(u) == u = [k \in 0..n |-> IF k = 0 THEN truth ELSE Counted(u[k - 1], ws[k])]
             G == [k \in 1..n |-> [t \in Truths |-> Counted(t, ws[k])]]
             b == truth
  <1>1. n \in Nat /\ \A k \in 1..n : ws[k] \in Int
    OBVIOUS
  <1>2. \A k \in 1..n : \A t \in Truths : Counted(t, ws[k]) \in Truths
    BY <1>1, CountedTyped
  <1>3. \E u : Tells(u)
    <2>1. Makes(G, n, Truths) /\ b \in Truths
      BY <1>2 DEF Makes
    <2>2. PICK u : Iterates(u, b, G, n, Truths)
      <3> HIDE DEF G, b, n
      <3>1. QED BY <1>1, <2>1, Recursion
    <2>3. u \in [0..n -> Truths] /\ u[0] = truth /\ \A k \in 1..n : u[k] = G[k][u[k - 1]]
      BY <2>2 DEF Iterates
    <2>4. ASSUME NEW k \in 1..n PROVE u[k] = Counted(u[k - 1], ws[k])
      <3>1. u[k - 1] \in Truths
        BY <1>1, <2>3
      <3>2. G[k][u[k - 1]] = Counted(u[k - 1], ws[k])
        BY <3>1
      <3> HIDE DEF G
      <3>3. QED BY <2>3, <3>2
    <2>5. ASSUME NEW k \in 0..n PROVE u[k] = IF k = 0 THEN truth ELSE Counted(u[k - 1], ws[k])
      <3>1. k = 0 \/ k \in 1..n
        BY <1>1
      <3>2. QED BY <2>3, <2>4, <3>1
    <2>6. Tells(u)
      BY <2>3, <2>5, Zenon
    <2> HIDE DEF Tells
    <2>7. QED BY <2>6
  <1> DEFINE c == CHOOSE u : Tells(u)
  <1>4. Tells(c)
    BY <1>3, Zenon
  <1>5. Observed(ws) = c[n]
    BY Zenon DEF Observed
  <1> HIDE DEF c
  <1>6. \A k \in 0..n : c[k] = IF k = 0 THEN truth ELSE Counted(c[k - 1], ws[k])
    BY <1>4, Zenon
  <1>7. DOMAIN c = 0..n /\ c = [k \in 0..n |-> c[k]]
    BY <1>4, Zenon
  <1> HIDE DEF Tells
  <1>8. c[0] = truth /\ \A k \in 1..n : c[k] = Counted(c[k - 1], ws[k])
    <2>1. 0 \in 0..n /\ \A k \in 1..n : k \in 0..n /\ k # 0
      BY <1>1
    <2>2. QED BY <1>6, <2>1
  <1>9. \A k \in 0..n : c[k] \in Truths
    <2> DEFINE S == {k \in 0..n : c[k] \in Truths}
    <2>1. 0 \in S
      BY <1>1, <1>8
    <2>2. ASSUME NEW k \in 1..n, k - 1 \in S PROVE k \in S
      <3>1. c[k - 1] \in Truths /\ k \in 0..n
        BY <1>1, <2>2
      <3>2. QED BY <1>2, <1>8, <3>1
    <2> HIDE DEF S
    <2>3. \A k \in 0..n : k \in S
      BY <1>1, <2>1, <2>2, Climb
    <2>4. QED BY <2>3 DEF S
  <1>10. c \in [0..n -> Truths]
    BY <1>7, <1>9
  <1>11. QED BY <1>5, <1>8, <1>10

(***************************************************************************)
(* The controller records the waits one after the other.                   *)
(***************************************************************************)
LEMMA ReconciledUnfolds ==
  ASSUME Setup, NEW r \in Reports
  PROVE  \E u : /\ u[0] = AddReconcile(r)
                /\ \A k \in 1..Len(r.waits) : u[k] = u[k - 1] \o ObserveAdmission(r.waits[k])
                /\ Reconciled(r) = u[Len(r.waits)]
  <1> DEFINE n == Len(r.waits)
             Tells(u) == u = [k \in 0..n |-> IF k = 0 THEN AddReconcile(r)
                                             ELSE u[k - 1] \o ObserveAdmission(r.waits[k])]
             D == Seq(Adds)
             G == [k \in 1..n |-> [t \in D |-> t \o ObserveAdmission(r.waits[k])]]
             b == AddReconcile(r)
  <1>1. n \in Nat /\ \A k \in 1..n : r.waits[k] \in Int
    BY DEF Setup
  <1>2. ASSUME NEW k \in 1..n, NEW t \in D PROVE t \o ObserveAdmission(r.waits[k]) \in D
    <2>1. ObserveAdmission(r.waits[k]) \in D
      BY <1>1, ObservationWeighs, WeighsTyped
    <2>2. QED BY <2>1, Concatenated
  <1>3. \E u : Tells(u)
    <2>1. b \in D
      BY PlainCalls, WeighsTyped
    <2>2. Makes(G, n, D)
      <3> HIDE DEF D, n
      <3>1. QED BY <1>2 DEF Makes
    <2>3. PICK u : Iterates(u, b, G, n, D)
      <3> HIDE DEF G, b, n, D
      <3>1. QED BY <1>1, <2>1, <2>2, Recursion
    <2>4. u \in [0..n -> D] /\ u[0] = b /\ \A k \in 1..n : u[k] = G[k][u[k - 1]]
      BY <2>3 DEF Iterates
    <2>5. ASSUME NEW k \in 1..n PROVE u[k] = u[k - 1] \o ObserveAdmission(r.waits[k])
      <3>1. k - 1 \in 0..n
        BY <1>1
      <3>2. u[k - 1] \in D
        BY <2>4, <3>1
      <3> HIDE DEF D, n
      <3>3. G[k][u[k - 1]] = u[k - 1] \o ObserveAdmission(r.waits[k])
        BY <3>2
      <3> HIDE DEF G
      <3>4. QED BY <2>4, <3>3
    <2>6. ASSUME NEW k \in 0..n
          PROVE  u[k] = IF k = 0 THEN AddReconcile(r) ELSE u[k - 1] \o ObserveAdmission(r.waits[k])
      <3>1. k = 0 \/ k \in 1..n
        BY <1>1
      <3>2. QED BY <2>4, <2>5, <3>1
    <2>7. Tells(u)
      BY <2>4, <2>6, Zenon
    <2> HIDE DEF Tells
    <2>8. QED BY <2>7
  <1> DEFINE c == CHOOSE u : Tells(u)
  <1>4. Tells(c)
    BY <1>3, Zenon
  <1>5. Reconciled(r) = c[n]
    BY Zenon DEF Reconciled
  <1> HIDE DEF c
  <1>6. \A k \in 0..n : c[k] = IF k = 0 THEN AddReconcile(r)
                               ELSE c[k - 1] \o ObserveAdmission(r.waits[k])
    BY <1>4, Zenon
  <1> HIDE DEF Tells
  <1>7. c[0] = AddReconcile(r) /\ \A k \in 1..n : c[k] = c[k - 1] \o ObserveAdmission(r.waits[k])
    <2>1. 0 \in 0..n /\ \A k \in 1..n : k \in 0..n /\ k # 0
      BY <1>1
    <2>2. QED BY <1>6, <2>1
  <1>8. QED BY <1>5, <1>7

(***************************************************************************)
(* A call records with todo the observations of the waits ws, and nothing  *)
(* else of them: v is what it puts on the accounts.                        *)
(***************************************************************************)
Tells(todo, ws, v, e) ==
  /\ Weighs(todo, v)
  /\ Told(Plus(e, v), Observed(ws))
  /\ Observed(ws) \in Truths
  /\ Observed(ws).atMost[Beyond] = truth.atMost[Beyond] + Len(ws)
  /\ Observed(ws).finished = truth.finished

(***************************************************************************)
(* A pass of the janitor, with however many promotions.                    *)
(***************************************************************************)
LEMMA ReconcileTells ==
  ASSUME Setup, truth \in Truths, NEW e, Told(e, truth), NEW r \in Reports
  PROVE  \E v : Tells(Reconciled(r), r.waits, v, e)
  <1> DEFINE ws == r.waits
             n == Len(ws)
             m == Beyond
  <1>1. ws \in Seq(Int) /\ n \in Nat /\ \A k \in 1..n : ws[k] \in Int
    BY DEF Setup
  <1>2. PICK u : /\ u \in [0..n -> Truths]
                 /\ u[0] = truth
                 /\ \A k \in 1..n : u[k] = Counted(u[k - 1], ws[k])
                 /\ Observed(ws) = u[n]
    BY <1>1, ObservedUnfolds
  <1>3. PICK s : /\ s[0] = AddReconcile(r)
                 /\ \A k \in 1..n : s[k] = s[k - 1] \o ObserveAdmission(ws[k])
                 /\ Reconciled(r) = s[n]
    BY ReconciledUnfolds
  <1>4. e \in [Books -> Int] /\ truth.atMost[m] \in Int
    <2>1. m \in 1..m
      BY Order
    <2>2. QED BY <2>1 DEF Told, Truths
  <1> HIDE DEF ws, n
  <1> DEFINE Right(k, v) == /\ Weighs(s[k], v)
                            /\ Told(Plus(e, v), u[k])
                            /\ u[k].atMost[m] = truth.atMost[m] + k
                            /\ u[k].finished = truth.finished
             S == {k \in 0..n : \E v : Right(k, v)}
  <1>5. 0 \in S
    <2>1. PICK v : Weighs(AddReconcile(r), v) /\ Plain(v)
      BY PlainCalls
    <2>2. Told(Plus(e, v), truth)
      BY <2>1, ToldPlain
    <2>3. Right(0, v)
      BY <1>2, <1>3, <1>4, <2>1, <2>2
    <2>4. QED BY <1>1, <2>3
  <1>6. ASSUME NEW k \in 1..n, k - 1 \in S PROVE k \in S
    <2>1. PICK v : Right(k - 1, v)
      BY <1>6
    <2>2. k \in 0..n /\ ws[k] \in Int /\ u[k - 1] \in Truths /\ k \in Int /\ (k - 1) + 1 = k
      <3>1. k \in 0..n /\ k - 1 \in 0..n /\ k \in Int /\ (k - 1) + 1 = k
        BY <1>1
      <3>2. QED BY <1>1, <1>2, <3>1
    <2>3. PICK o : Weighs(ObserveAdmission(ws[k]), o) /\ Observes(o, ws[k])
      BY <2>2, ObservationWeighs
    <2>4. v \in [Books -> Int] /\ o \in [Books -> Int]
      BY <2>1, <2>3, WeighsTyped
    <2>5. Weighs(s[k], Plus(v, o))
      BY <1>3, <2>1, <2>3, WeighsConcat
    <2>6. Told(Plus(Plus(e, v), o), u[k])
      BY <1>2, <2>1, <2>2, <2>3, ToldMore
    <2>7. Plus(Plus(e, v), o) = Plus(e, Plus(v, o))
      BY <1>4, <2>4, PlusRules
    <2>8. u[k].atMost[m] = u[k - 1].atMost[m] + 1 /\ u[k].finished = u[k - 1].finished
      <3>1. u[k] = Counted(u[k - 1], ws[k])
        BY <1>2
      <3> DEFINE t == u[k - 1]
                 x == ws[k]
      <3>2. t \in Truths /\ x \in Int
        BY <2>2
      <3> HIDE DEF t, x
      <3>3. Counted(t, x).atMost[m] = t.atMost[m] + 1 /\ Counted(t, x).finished = t.finished
        BY <3>2, CountedTyped
      <3>4. QED BY <3>1, <3>3 DEF t, x
    <2>9. u[k].atMost[m] = truth.atMost[m] + k
      <3>1. u[k - 1].atMost[m] = truth.atMost[m] + (k - 1)
        BY <2>1
      <3> DEFINE x == truth.atMost[m]
      <3>2. x \in Int /\ u[k].atMost[m] = (x + (k - 1)) + 1
        BY <1>4, <2>8, <3>1
      <3> HIDE DEF x
      <3>3. (x + (k - 1)) + 1 = x + k
        BY <2>2, <3>2
      <3>4. QED BY <3>2, <3>3 DEF x
    <2>10. Right(k, Plus(v, o))
      BY <2>1, <2>5, <2>6, <2>7, <2>8, <2>9
    <2> HIDE DEF Right
    <2>11. QED BY <2>2, <2>10
  <1>7. n \in S
    <2> HIDE DEF S
    <2>1. n \in 0..n
      BY <1>1
    <2>2. QED BY <1>1, <1>5, <1>6, <2>1, Climb
  <1>8. PICK v : Right(n, v)
    BY <1>7
  <1>9. u[n] \in Truths
    BY <1>1, <1>2
  <1>10. Tells(Reconciled(r), ws, v, e)
    BY <1>2, <1>3, <1>8, <1>9 DEF Tells, n
  <1>11. QED BY <1>10 DEF ws

(***************************************************************************)
(* An admission at once, after no wait.                                    *)
(***************************************************************************)
LEMMA AdmitTells ==
  ASSUME Setup, truth \in Truths, NEW e, Told(e, truth)
  PROVE  \E v : Tells(ObserveAdmission(0), <<0>>, v, e)
  <1> DEFINE ws == <<0>>
  <1>1. ws \in Seq(Int) /\ Len(ws) = 1 /\ ws[1] = 0 /\ 0 \in Int
    OBVIOUS
  <1> HIDE DEF ws
  <1>2. PICK u : /\ u[0] = truth
                 /\ \A k \in 1..Len(ws) : u[k] = Counted(u[k - 1], ws[k])
                 /\ Observed(ws) = u[Len(ws)]
    BY <1>1, ObservedUnfolds
  <1>3. Observed(ws) = Counted(truth, 0)
    <2>1. 1 \in 1..Len(ws) /\ 1 - 1 = 0
      BY <1>1
    <2>2. QED BY <1>1, <1>2, <2>1
  <1>4. PICK o : Weighs(ObserveAdmission(0), o) /\ Observes(o, 0)
    BY <1>1, ObservationWeighs
  <1>5. /\ Counted(truth, 0) \in Truths /\ Told(Plus(e, o), Counted(truth, 0))
        /\ Counted(truth, 0).atMost[Beyond] = truth.atMost[Beyond] + 1
        /\ Counted(truth, 0).finished = truth.finished
    BY <1>1, <1>4, ToldMore, CountedTyped
  <1>6. Tells(ObserveAdmission(0), ws, o, e)
    BY <1>1, <1>3, <1>4, <1>5 DEF Tells
  <1>7. QED BY <1>6 DEF ws

(***************************************************************************)
(* A decision of the gatekeeper.                                           *)
(***************************************************************************)
LEMMA DecideTells ==
  ASSUME Setup, truth \in Truths, NEW e, Told(e, truth), NEW d \in {"proxied", "queued", "admin"}
  PROVE  \E v : Tells(IncRequest(d), <<>>, v, e)
  <1> DEFINE ws == <<>>
  <1>1. ws \in Seq(Int) /\ Len(ws) = 0
    OBVIOUS
  <1> HIDE DEF ws
  <1>2. Observed(ws) = truth
    <2>1. PICK u : u[0] = truth /\ Observed(ws) = u[Len(ws)]
      BY <1>1, ObservedUnfolds
    <2>2. QED BY <1>1, <2>1
  <1>3. PICK v : Weighs(IncRequest(d), v) /\ Plain(v)
    BY PlainCalls
  <1>4. Told(Plus(e, v), truth)
    BY <1>3, ToldPlain
  <1>5. truth.atMost[Beyond] \in Int
    BY Order DEF Truths
  <1>6. Tells(IncRequest(d), ws, v, e)
    BY <1>1, <1>2, <1>3, <1>4, <1>5 DEF Tells
  <1>7. QED BY <1>6 DEF ws

-----------------------------------------------------------------------------
(* The goroutines' accounts together *)

(***************************************************************************)
(* The goroutines in some order.                                           *)
(***************************************************************************)
Enumerates(f, n) ==
  /\ n \in Nat
  /\ f \in [1..n -> Goroutines]
  /\ \A i, j \in 1..n : f[i] = f[j] => i = j
  /\ \A g \in Goroutines : \E i \in 1..n : f[i] = g

(***************************************************************************)
(* There are finitely many of them.                                        *)
(***************************************************************************)
LEMMA Enumerated ==
  ASSUME Setup
  PROVE  \E n, f : Enumerates(f, n)
  <1>1. IsFiniteSet(Goroutines)
    BY DEF Setup
  <1>2. PICK n \in Nat : ExistsBijection(1..n, Goroutines)
    BY <1>1, FS_NatBijection
  <1>3. PICK f : f \in Bijection(1..n, Goroutines)
    BY <1>2 DEF ExistsBijection
  <1>4. Enumerates(f, n)
    BY <1>3 DEF Enumerates, Bijection, Injection, Surjection, IsInjective
  <1>5. QED BY <1>4

(***************************************************************************)
(* t[k] is what is left to the first k goroutines together, w[g] what is   *)
(* left to goroutine g.                                                    *)
(***************************************************************************)
Sheet(t, w, f, n) ==
  /\ w \in [Goroutines -> [Books -> Int]]
  /\ t \in [0..n -> [Books -> Int]]
  /\ t[0] = Nil
  /\ \A k \in 1..n : t[k] = Plus(t[k - 1], w[f[k]])

(***************************************************************************)
(* All together are behind as each of them is, and if nothing is left to   *)
(* any of them, nothing is left.                                           *)
(***************************************************************************)
LEMMA SheetBehind ==
  ASSUME Setup, NEW f, NEW n, Enumerates(f, n), NEW t, NEW w, Sheet(t, w, f, n),
         \A g \in Goroutines : Behind(w[g])
  PROVE  /\ t[n] \in [Books -> Int] /\ Behind(t[n])
         /\ (\A g \in Goroutines : w[g] = Nil) => t[n] = Nil
  <1>1. n \in Nat /\ n \in 0..n /\ \A k \in 1..n : f[k] \in Goroutines /\ k - 1 \in 0..n /\ k \in 0..n
    BY DEF Enumerates
  <1>2. /\ w \in [Goroutines -> [Books -> Int]] /\ t \in [0..n -> [Books -> Int]] /\ t[0] = Nil
        /\ \A k \in 1..n : t[k] = Plus(t[k - 1], w[f[k]])
    BY DEF Sheet
  <1>3. Behind(t[n])
    <2> DEFINE S == {k \in 0..n : Behind(t[k])}
    <2>1. 0 \in S
      BY <1>1, <1>2, NilBehind
    <2>2. ASSUME NEW k \in 1..n, k - 1 \in S PROVE k \in S
      <3>1. Behind(t[k - 1]) /\ Behind(w[f[k]]) /\ t[k] = Plus(t[k - 1], w[f[k]])
        BY <1>1, <1>2, <2>2
      <3>2. Behind(t[k])
        BY <3>1, PlusBehind
      <3>3. QED BY <1>1, <3>2
    <2> HIDE DEF S
    <2>3. n \in S
      BY <1>1, <2>1, <2>2, Climb
    <2>4. QED BY <2>3 DEF S
  <1>4. ASSUME \A g \in Goroutines : w[g] = Nil PROVE t[n] = Nil
    <2> DEFINE S == {k \in 0..n : t[k] = Nil}
    <2>1. 0 \in S
      BY <1>1, <1>2
    <2>2. ASSUME NEW k \in 1..n, k - 1 \in S PROVE k \in S
      <3>1. t[k - 1] = Nil /\ w[f[k]] = Nil /\ t[k] = Plus(t[k - 1], w[f[k]])
        BY <1>1, <1>2, <1>4, <2>2
      <3>2. t[k] = Nil
        BY <3>1, NilBehind, PlusRules
      <3>3. QED BY <1>1, <3>2
    <2> HIDE DEF S
    <2>3. n \in S
      BY <1>1, <2>1, <2>2, Climb
    <2>4. QED BY <2>3 DEF S
  <1>5. QED BY <1>1, <1>2, <1>3, <1>4

(***************************************************************************)
(* What one goroutine has more or less left, all together have.            *)
(***************************************************************************)
LEMMA SheetChanges ==
  ASSUME NEW f, NEW n, Enumerates(f, n), NEW t, NEW w, Sheet(t, w, f, n),
         NEW g \in Goroutines, NEW d \in [Books -> Int]
  PROVE  \E y, z : /\ Sheet(y, z, f, n)
                   /\ z[g] = Plus(w[g], d) /\ \A x \in Goroutines : x # g => z[x] = w[x]
                   /\ y[n] = Plus(t[n], d)
  <1>1. n \in Nat /\ n \in 0..n /\ 0 \in 0..n /\ \A k \in 1..n : f[k] \in Goroutines
    BY DEF Enumerates
  <1>2. /\ w \in [Goroutines -> [Books -> Int]] /\ t \in [0..n -> [Books -> Int]] /\ t[0] = Nil
        /\ \A k \in 1..n : t[k] = Plus(t[k - 1], w[f[k]])
    BY DEF Sheet
  <1>3. PICK i \in 1..n : f[i] = g
    BY DEF Enumerates
  <1>4. \A k \in 1..n : f[k] = g <=> k = i
    BY <1>3 DEF Enumerates
  <1> DEFINE z == [w EXCEPT ![g] = Plus(w[g], d)]
             y == [k \in 0..n |-> IF i <= k THEN Plus(t[k], d) ELSE t[k]]
  <1>5. /\ \A k \in 0..n : t[k] \in [Books -> Int] /\ Plus(t[k], d) \in [Books -> Int]
        /\ w[g] \in [Books -> Int] /\ Plus(w[g], d) \in [Books -> Int]
    BY <1>2, PlusRules
  <1>6. z \in [Goroutines -> [Books -> Int]] /\ z[g] = Plus(w[g], d) /\ \A x \in Goroutines : x # g => z[x] = w[x]
    BY <1>2, <1>5
  <1>7. y \in [0..n -> [Books -> Int]]
    BY <1>5
  <1>8. \A k \in 0..n : y[k] = IF i <= k THEN Plus(t[k], d) ELSE t[k]
    OBVIOUS
  <1> HIDE DEF y, z
  <1>9. y[0] = Nil /\ y[n] = Plus(t[n], d)
    <2>1. ~(i <= 0) /\ i <= n
      BY <1>1
    <2>2. QED BY <1>1, <1>2, <1>8, <2>1
  <1>10. ASSUME NEW k \in 1..n PROVE y[k] = Plus(y[k - 1], z[f[k]])
    <2> DEFINE a == t[k - 1]
               b == w[f[k]]
    <2>1. k \in 0..n /\ k - 1 \in 0..n /\ f[k] \in Goroutines
      BY <1>1
    <2>2. a \in [Books -> Int] /\ b \in [Books -> Int] /\ t[k] = Plus(a, b)
      BY <1>2, <2>1
    <2>3. CASE k < i
      <3>1. ~(i <= k) /\ ~(i <= k - 1) /\ k # i
        BY <2>3
      <3>2. y[k] = t[k] /\ y[k - 1] = a /\ z[f[k]] = b
        BY <1>4, <1>6, <1>8, <2>1, <3>1
      <3>3. QED BY <2>2, <3>2
    <2>4. CASE k = i
      <3>1. i <= k /\ ~(i <= k - 1)
        BY <2>4
      <3>2. y[k] = Plus(t[k], d) /\ y[k - 1] = a /\ z[f[k]] = Plus(b, d)
        BY <1>3, <1>6, <1>8, <2>1, <2>4, <3>1
      <3> HIDE DEF a, b
      <3>3. Plus(Plus(a, b), d) = Plus(a, Plus(b, d))
        BY <2>2, PlusRules
      <3>4. QED BY <2>2, <3>2, <3>3
    <2>5. CASE k > i
      <3>1. i <= k /\ i <= k - 1 /\ k # i
        BY <2>5
      <3>2. y[k] = Plus(t[k], d) /\ y[k - 1] = Plus(a, d) /\ z[f[k]] = b
        BY <1>4, <1>6, <1>8, <2>1, <3>1
      <3> HIDE DEF a, b
      <3>3. Plus(Plus(a, b), d) = Plus(a, Plus(b, d)) /\ Plus(b, d) = Plus(d, b)
            /\ Plus(a, Plus(d, b)) = Plus(Plus(a, d), b)
        BY <2>2, PlusRules
      <3>4. QED BY <2>2, <3>2, <3>3
    <2>6. QED BY <2>3, <2>4, <2>5
  <1>11. Sheet(y, z, f, n)
    BY <1>6, <1>7, <1>9, <1>10 DEF Sheet
  <1>12. QED BY <1>6, <1>9, <1>11

-----------------------------------------------------------------------------
(* The invariant of the registry *)

(***************************************************************************)
(* What was recorded, in the cells and as finished.                        *)
(***************************************************************************)
Book(c) == IF c = Open THEN truth.finished ELSE reg[c]

(***************************************************************************)
(* What was recorded and what is left to all goroutines make up, account   *)
(* by account, what the histogram is to say.                               *)
(***************************************************************************)
Balances(t, w, e, f, n) ==
  /\ Sheet(t, w, f, n)
  /\ Told(e, truth)
  /\ \A g \in Goroutines : Weighs(prog[g].todo, w[g])
  /\ \A c \in Books : e[c] = Book(c) + t[n][c]

RegTyped ==
  /\ reg \in [Cells -> Int]
  /\ truth \in Truths
  /\ prog \in [Goroutines -> [todo : Seq(Adds), old : SUBSET Int]]
  /\ \A g \in Goroutines :
       prog[g].old # {} => prog[g].todo # <<>> /\ Head(prog[g].todo).cell = Sum

RegInv(f, n) == RegTyped /\ \E t, w, e : Balances(t, w, e, f, n)

(***************************************************************************)
(* Nobody has recorded or is to record anything.                           *)
(***************************************************************************)
LEMMA RegInit ==
  ASSUME Setup, RegistryInit, NEW f, NEW n, Enumerates(f, n)
  PROVE  RegInv(f, n)
  <1> DEFINE m == Beyond
             none == [i \in 1..m |-> 0]
             w == [g \in Goroutines |-> Nil]
             t == [k \in 0..n |-> Nil]
  <1>1. m \in Nat /\ m \in 1..m /\ n \in Nat /\ \A k \in 1..n : f[k] \in Goroutines
    BY Order DEF Enumerates
  <1>2. Nil \in [Books -> Int] /\ \A i \in 0..m : Cumulative(Buckets(Nil), i) = 0
    BY NilBehind
  <1>3. /\ reg = [c \in Cells |-> 0] /\ prog = [g \in Goroutines |-> [todo |-> <<>>, old |-> {}]]
        /\ truth = [sum |-> 0, atMost |-> none, finished |-> 0]
    BY DEF RegistryInit
  <1>4. RegTyped
    BY <1>3 DEF RegTyped, Truths
  <1>5. Sheet(t, w, f, n)
    <2>1. w \in [Goroutines -> [Books -> Int]] /\ t \in [0..n -> [Books -> Int]] /\ t[0] = Nil
      BY <1>1, <1>2
    <2>2. ASSUME NEW k \in 1..n PROVE t[k] = Plus(t[k - 1], w[f[k]])
      <3>1. k \in 0..n /\ k - 1 \in 0..n /\ f[k] \in Goroutines
        BY <1>1
      <3>2. t[k] = Nil /\ t[k - 1] = Nil /\ w[f[k]] = Nil
        BY <3>1
      <3> HIDE DEF t, w
      <3>3. QED BY <1>2, <3>2, PlusRules
    <2> HIDE DEF t, w
    <2>3. QED BY <2>1, <2>2 DEF Sheet
  <1>6. Told(Nil, truth)
    <2>1. truth.sum = 0 /\ \A i \in 1..m : truth.atMost[i] = 0
      BY <1>3
    <2>2. \A i \in 1..m : Cumulative(Buckets(Nil), i) = truth.atMost[i]
      BY <1>1, <1>2, <2>1
    <2>3. \A c \in Books : Nil[c] = 0
      BY DEF Nil
    <2>4. QED BY <1>1, <1>2, <2>1, <2>2, <2>3, AllBooks DEF Told
  <1>7. ASSUME NEW g \in Goroutines PROVE Weighs(prog[g].todo, w[g])
    BY <1>3, WeighsNothing
  <1>8. ASSUME NEW c \in Books PROVE Nil[c] = Book(c) + t[n][c]
    <2>1. t[n] = Nil /\ Nil[c] = 0
      BY <1>1 DEF Nil
    <2>2. Book(c) = 0
      BY <1>3 DEF Book, Books
    <2>3. QED BY <2>1, <2>2
  <1> HIDE DEF t, w
  <1>9. Balances(t, w, Nil, f, n)
    BY <1>5, <1>6, <1>7, <1>8 DEF Balances
  <1>10. QED BY <1>4, <1>9 DEF RegInv

(***************************************************************************)
(* A goroutine makes the next of its adds.                                 *)
(***************************************************************************)
LEMMA AddMade ==
  ASSUME Setup, NEW f, NEW n, Enumerates(f, n), RegInv(f, n), RegTyped', NEW g \in Busy,
         prog' = [prog EXCEPT ![g] = Step(g)],
         truth'.sum = truth.sum, truth'.atMost = truth.atMost,
         \A c \in Books : Book(c)' = Book(c) + Weight(Head(prog[g].todo), c)
  PROVE  RegInv(f, n)'
  <1>1. RegTyped /\ g \in Goroutines /\ prog[g].todo # <<>>
    BY DEF RegInv, Busy
  <1>2. PICK t, w, e : Balances(t, w, e, f, n)
    BY DEF RegInv
  <1> DEFINE a == Head(prog[g].todo)
             s == Tail(prog[g].todo)
  <1>3. Sheet(t, w, f, n) /\ Told(e, truth) /\ w \in [Goroutines -> [Books -> Int]] /\ e \in [Books -> Int]
    BY <1>2 DEF Balances, Sheet, Told
  <1>4. Weighs(prog[g].todo, w[g])
    BY <1>1, <1>2 DEF Balances
  <1>5. PICK v \in [Books -> Int] : a \in Adds /\ Weighs(s, v) /\ w[g] = Plus(Once(a), v)
    BY <1>1, <1>4, WeighsTail
  <1>6. /\ prog'[g].todo = s
        /\ \A x \in Goroutines : x # g => prog'[x] = prog[x]
    BY <1>1 DEF Step, RegTyped
  <1> HIDE DEF a, s
  <1>7. \A c \in Books : Weight(a, c) \in Int
    BY <1>5 DEF Weight, Adds
  <1>8. PICK d \in [Books -> Int] : \A c \in Books : d[c] = 0 - Weight(a, c)
    <2> DEFINE x == [c \in Books |-> 0 - Weight(a, c)]
    <2>1. x \in [Books -> Int] /\ \A c \in Books : x[c] = 0 - Weight(a, c)
      BY <1>7
    <2> HIDE DEF x
    <2>2. QED BY <2>1
  <1>9. Plus(w[g], d) = v
    <2>1. Once(a) \in [Books -> Int] /\ \A c \in Books : Once(a)[c] = Weight(a, c)
      BY <1>7 DEF Once
    <2>2. w[g] \in [Books -> Int] /\ \A c \in Books : w[g][c] = Weight(a, c) + v[c]
      BY <1>5, <2>1, PlusRules
    <2>3. Plus(w[g], d) \in [Books -> Int] /\ \A c \in Books : Plus(w[g], d)[c] = w[g][c] + d[c]
      BY <1>8, <2>2, PlusRules
    <2>4. ASSUME NEW c \in Books PROVE Plus(w[g], d)[c] = v[c]
      <3>1. v[c] \in Int /\ Weight(a, c) \in Int
        BY <1>7
      <3>2. Plus(w[g], d)[c] = (Weight(a, c) + v[c]) + (0 - Weight(a, c))
        BY <1>8, <2>2, <2>3
      <3>3. QED BY <3>1, <3>2
    <2>5. QED BY <2>3, <2>4
  <1>10. PICK y, z : /\ Sheet(y, z, f, n)
                     /\ z[g] = Plus(w[g], d) /\ \A x \in Goroutines : x # g => z[x] = w[x]
                     /\ y[n] = Plus(t[n], d)
    <2>1. g \in Goroutines /\ Sheet(t, w, f, n) /\ Enumerates(f, n) /\ d \in [Books -> Int]
      BY <1>1, <1>3, <1>8
    <2>2. QED BY ONLY <2>1, SheetChanges
  <1>11. z[g] = v /\ \A x \in Goroutines : x # g => z[x] = w[x]
    BY <1>9, <1>10
  <1>12. ASSUME NEW x \in Goroutines PROVE Weighs(prog'[x].todo, z[x])
    <2>1. CASE x = g
      BY <1>5, <1>6, <1>11, <2>1
    <2>2. CASE x # g
      BY <1>2, <1>6, <1>11, <2>2 DEF Balances
    <2>3. QED BY <2>1, <2>2
  <1>13. t[n] \in [Books -> Int] /\ \A c \in Books : Book(c) \in Int
    <2>1. n \in 0..n
      BY DEF Enumerates
    <2>2. t[n] \in [Books -> Int]
      BY <1>3, <2>1 DEF Sheet
    <2>3. \A c \in Books : Book(c) \in Int
      BY <1>1 DEF RegTyped, Truths, Book, Books
    <2>4. QED BY <2>2, <2>3
  <1>14. ASSUME NEW c \in Books PROVE e[c] = Book(c)' + y[n][c]
    <2>1. e[c] = Book(c) + t[n][c]
      BY <1>2 DEF Balances
    <2>2. Book(c)' = Book(c) + Weight(a, c)
      BY DEF a
    <2>3. y[n][c] = t[n][c] + d[c] /\ d[c] = 0 - Weight(a, c)
      BY <1>8, <1>10, <1>13, PlusRules
    <2>4. Book(c) \in Int /\ t[n][c] \in Int /\ Weight(a, c) \in Int
      BY <1>7, <1>13
    <2>5. QED BY <2>1, <2>2, <2>3, <2>4
  <1>15. Told(e, truth')
    BY <1>3 DEF Told
  <1>16. Balances(y, z, e, f, n)'
    <2>1. /\ Sheet(y, z, f, n)
          /\ Told(e, truth')
          /\ \A x \in Goroutines : Weighs(prog'[x].todo, z[x])
          /\ \A c \in Books : e[c] = Book(c)' + y[n][c]
      BY <1>10, <1>12, <1>14, <1>15
    <2>2. QED BY <2>1, Zenon DEF Balances
  <1>17. QED BY <1>16 DEF RegInv

(***************************************************************************)
(* The goroutine that makes an add has one less to make, and no loaded     *)
(* sum.                                                                    *)
(***************************************************************************)
LEMMA StepTyped ==
  ASSUME RegTyped, NEW g \in Busy, prog' = [prog EXCEPT ![g] = Step(g)]
  PROVE  /\ Head(prog[g].todo) \in Adds
         /\ prog' \in [Goroutines -> [todo : Seq(Adds), old : SUBSET Int]]
         /\ \A x \in Goroutines :
              prog'[x].old # {} => prog'[x].todo # <<>> /\ Head(prog'[x].todo).cell = Sum
  <1>1. g \in Goroutines /\ prog[g].todo # <<>>
    BY DEF Busy
  <1>2. /\ prog \in [Goroutines -> [todo : Seq(Adds), old : SUBSET Int]]
        /\ \A x \in Goroutines :
             prog[x].old # {} => prog[x].todo # <<>> /\ Head(prog[x].todo).cell = Sum
    BY DEF RegTyped
  <1>3. prog[g].todo \in Seq(Adds)
    BY <1>1, <1>2
  <1>4. Head(prog[g].todo) \in Adds /\ Tail(prog[g].todo) \in Seq(Adds)
    BY <1>1, <1>3
  <1>5. Step(g) \in [todo : Seq(Adds), old : SUBSET Int] /\ Step(g).old = {}
    BY <1>4 DEF Step
  <1>6. prog'[g] = Step(g) /\ \A x \in Goroutines : x # g => prog'[x] = prog[x]
    BY <1>1, <1>2
  <1>7. prog' \in [Goroutines -> [todo : Seq(Adds), old : SUBSET Int]]
    BY <1>1, <1>2, <1>5
  <1>8. QED BY <1>2, <1>4, <1>5, <1>6, <1>7

(***************************************************************************)
(* atomic.AddInt64.                                                        *)
(***************************************************************************)
LEMMA RegAddInt ==
  ASSUME Setup, NEW f, NEW n, Enumerates(f, n), RegInv(f, n), NEW g \in Goroutines, AddInt(g)
  PROVE  RegInv(f, n)'
  <1> DEFINE a == Head(prog[g].todo)
  <1>1. /\ g \in Busy /\ a.cell # Sum /\ reg' = [reg EXCEPT ![a.cell] = @ + a.n]
        /\ prog' = [prog EXCEPT ![g] = Step(g)] /\ truth' = truth
    BY DEF AddInt
  <1>2. RegTyped
    BY DEF RegInv
  <1>3. /\ a \in Adds
        /\ prog' \in [Goroutines -> [todo : Seq(Adds), old : SUBSET Int]]
        /\ \A x \in Goroutines :
             prog'[x].old # {} => prog'[x].todo # <<>> /\ Head(prog'[x].todo).cell = Sum
    BY <1>1, <1>2, StepTyped
  <1> HIDE DEF a
  <1>4. a.cell \in Cells /\ a.n \in Int /\ reg \in [Cells -> Int] /\ truth \in Truths
    BY <1>2, <1>3 DEF Adds, RegTyped
  <1>5. reg' \in [Cells -> Int]
    BY <1>1, <1>4
  <1>6. RegTyped'
    BY <1>1, <1>3, <1>4, <1>5 DEF RegTyped
  <1>7. Open \notin Cells
    BY OpenApart
  <1>8. ASSUME NEW c \in Books PROVE Book(c)' = Book(c) + Weight(a, c)
    <2>1. CASE c = Open
      <3>1. truth.finished \in Int
        BY <1>4 DEF Truths
      <3>2. Weight(a, c) = 0 /\ Book(c) = truth.finished /\ Book(c)' = truth.finished
        BY <1>1, <2>1 DEF Weight, Book
      <3>3. QED BY <3>1, <3>2
    <2>2. CASE c # Open
      <3>1. c \in Cells /\ reg[c] \in Int
        BY <1>4, <2>2 DEF Books
      <3>2. Book(c) = reg[c] /\ Book(c)' = reg'[c] /\ Weight(a, c) = IF a.cell = c THEN a.n ELSE 0
        BY <2>2 DEF Book, Weight
      <3>3. reg'[c] = IF a.cell = c THEN reg[c] + a.n ELSE reg[c]
        BY <1>1, <1>4, <3>1
      <3>4. QED BY <1>4, <3>1, <3>2, <3>3
    <2>3. QED BY <2>1, <2>2
  <1>9. QED BY <1>1, <1>6, <1>8, AddMade DEF a

(***************************************************************************)
(* A swap succeeds.                                                        *)
(***************************************************************************)
LEMMA RegSwapped ==
  ASSUME Setup, NEW f, NEW n, Enumerates(f, n), RegInv(f, n), NEW g \in Goroutines,
         CompareAndSwapSum(g), reg[Sum] \in prog[g].old
  PROVE  RegInv(f, n)'
  <1> DEFINE a == Head(prog[g].todo)
  <1>1. /\ g \in Busy /\ prog[g].old # {} /\ reg' = [reg EXCEPT ![Sum] = reg[Sum] + a.n]
        /\ prog' = [prog EXCEPT ![g] = Step(g)]
        /\ truth' = [truth EXCEPT !.finished = @ + 1]
    BY DEF CompareAndSwapSum, Swapped
  <1>2. RegTyped
    BY DEF RegInv
  <1>3. /\ a \in Adds
        /\ prog' \in [Goroutines -> [todo : Seq(Adds), old : SUBSET Int]]
        /\ \A x \in Goroutines :
             prog'[x].old # {} => prog'[x].todo # <<>> /\ Head(prog'[x].todo).cell = Sum
    BY <1>1, <1>2, StepTyped
  <1>4. a.cell = Sum
    BY <1>1, <1>2 DEF RegTyped
  <1> HIDE DEF a
  <1>5. a.n \in Int /\ reg \in [Cells -> Int] /\ truth \in Truths /\ Sum \in Cells
    BY <1>2, <1>3, AllCells DEF Adds, RegTyped
  <1>6. reg' \in [Cells -> Int]
    BY <1>1, <1>5
  <1>7. /\ truth' \in Truths /\ truth'.sum = truth.sum /\ truth'.atMost = truth.atMost
        /\ truth.finished \in Int /\ truth'.finished = truth.finished + 1
    BY <1>1, <1>5 DEF Truths
  <1>8. RegTyped'
    BY <1>3, <1>6, <1>7 DEF RegTyped
  <1>9. ASSUME NEW c \in Books PROVE Book(c)' = Book(c) + Weight(a, c)
    <2>1. CASE c = Open
      <3>1. Weight(a, c) = 1 /\ Book(c) = truth.finished /\ Book(c)' = truth'.finished
        BY <1>4, <2>1 DEF Weight, Book
      <3>2. QED BY <1>7, <3>1
    <2>2. CASE c # Open
      <3>1. c \in Cells /\ reg[c] \in Int
        BY <1>5, <2>2 DEF Books
      <3>2. Book(c) = reg[c] /\ Book(c)' = reg'[c] /\ Weight(a, c) = IF Sum = c THEN a.n ELSE 0
        BY <1>4, <2>2 DEF Book, Weight
      <3>3. reg'[c] = IF Sum = c THEN reg[c] + a.n ELSE reg[c]
        BY <1>1, <1>5, <3>1
      <3>4. QED BY <1>5, <3>1, <3>2, <3>3
    <2>3. QED BY <2>1, <2>2
  <1>10. QED BY <1>1, <1>7, <1>8, <1>9, AddMade DEF a

(***************************************************************************)
(* Nothing is recorded and nothing more is to be.                          *)
(***************************************************************************)
LEMMA RegKept ==
  ASSUME NEW f, NEW n, RegInv(f, n), RegTyped', reg' = reg, truth' = truth,
         \A x \in Goroutines : prog'[x].todo = prog[x].todo
  PROVE  RegInv(f, n)'
  <1>1. PICK t, w, e : Balances(t, w, e, f, n)
    BY DEF RegInv
  <1>2. Sheet(t, w, f, n) /\ Told(e, truth') /\ \A x \in Goroutines : Weighs(prog'[x].todo, w[x])
    BY <1>1 DEF Balances
  <1>3. ASSUME NEW c \in Books PROVE e[c] = Book(c)' + t[n][c]
    <2>1. e[c] = Book(c) + t[n][c]
      BY <1>1 DEF Balances
    <2>2. Book(c)' = Book(c)
      BY DEF Book
    <2>3. QED BY <2>1, <2>2
  <1>4. Balances(t, w, e, f, n)'
    BY <1>2, <1>3 DEF Balances
  <1>5. QED BY <1>4 DEF RegInv

(***************************************************************************)
(* The sum is loaded, and a swap fails.                                    *)
(***************************************************************************)
LEMMA RegLoaded ==
  ASSUME Setup, NEW f, NEW n, Enumerates(f, n), RegInv(f, n), NEW g \in Goroutines,
         LoadSum(g) \/ (CompareAndSwapSum(g) /\ reg[Sum] \notin prog[g].old)
  PROVE  RegInv(f, n)'
  <1>1. /\ reg \in [Cells -> Int] /\ truth \in Truths
        /\ prog \in [Goroutines -> [todo : Seq(Adds), old : SUBSET Int]]
        /\ \A x \in Goroutines :
             prog[x].old # {} => prog[x].todo # <<>> /\ Head(prog[x].todo).cell = Sum
    BY DEF RegInv, RegTyped
  <1>2. reg' = reg /\ truth' = truth
    BY DEF LoadSum, CompareAndSwapSum
  <1>3. /\ prog' \in [Goroutines -> [todo : Seq(Adds), old : SUBSET Int]]
        /\ \A x \in Goroutines : x # g => prog'[x] = prog[x]
        /\ prog'[g].todo = prog[g].todo
        /\ prog'[g].old = {} \/ (prog[g].todo # <<>> /\ Head(prog[g].todo).cell = Sum)
    <2>1. CASE LoadSum(g)
      <3>1. reg[Sum] \in Int
        BY <1>1, AllCells
      <3>2. /\ prog[g].todo # <<>> /\ Head(prog[g].todo).cell = Sum
            /\ prog' = [prog EXCEPT ![g].old = {reg[Sum]}]
        BY <2>1 DEF LoadSum, Busy
      <3>3. QED BY <1>1, <3>1, <3>2
    <2>2. CASE CompareAndSwapSum(g) /\ reg[Sum] \notin prog[g].old
      <3>1. prog' = [prog EXCEPT ![g].old = {}]
        BY <2>2 DEF CompareAndSwapSum
      <3>2. QED BY <1>1, <3>1
    <2>3. QED BY <2>1, <2>2
  <1>4. \A x \in Goroutines : prog'[x].todo = prog[x].todo
    BY <1>3
  <1>5. RegTyped'
    <2>1. ASSUME NEW x \in Goroutines, prog'[x].old # {}
          PROVE  prog'[x].todo # <<>> /\ Head(prog'[x].todo).cell = Sum
      BY <1>1, <1>3, <2>1
    <2>2. QED BY <1>1, <1>2, <1>3, <2>1 DEF RegTyped
  <1>6. QED BY <1>2, <1>4, <1>5, RegKept

(***************************************************************************)
(* A call of the registry: what it is to record is what the histogram is   *)
(* to say more.                                                            *)
(***************************************************************************)
LEMMA RegCall ==
  ASSUME Setup, NEW f, NEW n, Enumerates(f, n), RegInv(f, n), NEW g \in Goroutines,
         NEW todo, NEW ws, Call(g, todo, ws),
         \A e : Told(e, truth) => \E v : Tells(todo, ws, v, e)
  PROVE  RegInv(f, n)'
  <1>1. /\ RegTyped
        /\ reg \in [Cells -> Int] /\ truth \in Truths
        /\ prog \in [Goroutines -> [todo : Seq(Adds), old : SUBSET Int]]
        /\ \A x \in Goroutines :
             prog[x].old # {} => prog[x].todo # <<>> /\ Head(prog[x].todo).cell = Sum
    BY DEF RegInv, RegTyped
  <1>2. PICK t, w, e : Balances(t, w, e, f, n)
    BY DEF RegInv
  <1>3. Sheet(t, w, f, n) /\ Told(e, truth) /\ w \in [Goroutines -> [Books -> Int]] /\ e \in [Books -> Int]
    BY <1>2 DEF Balances, Sheet, Told
  <1>4. PICK v : Tells(todo, ws, v, e)
    BY <1>3
  <1>5. /\ Weighs(todo, v) /\ Told(Plus(e, v), Observed(ws)) /\ Observed(ws) \in Truths
        /\ Observed(ws).finished = truth.finished
    BY <1>4 DEF Tells
  <1>6. todo \in Seq(Adds) /\ v \in [Books -> Int]
    BY <1>5 DEF Weighs, Suffixes
  <1>7. /\ prog[g].todo = <<>> /\ prog[g].old = {} /\ reg' = reg
        /\ truth' = Observed(ws) /\ prog' = [prog EXCEPT ![g].todo = todo]
    BY <1>1 DEF Call, Busy
  <1>8. /\ prog' \in [Goroutines -> [todo : Seq(Adds), old : SUBSET Int]]
        /\ prog'[g].todo = todo /\ prog'[g].old = {}
        /\ \A x \in Goroutines : x # g => prog'[x] = prog[x]
    BY <1>1, <1>6, <1>7
  <1>9. RegTyped'
    <2>1. ASSUME NEW x \in Goroutines, prog'[x].old # {}
          PROVE  prog'[x].todo # <<>> /\ Head(prog'[x].todo).cell = Sum
      BY <1>1, <1>8, <2>1
    <2>2. QED BY <1>1, <1>5, <1>7, <1>8, <2>1 DEF RegTyped
  <1>10. w[g] = Nil
    <2>1. Weighs(<<>>, w[g])
      BY <1>2, <1>7 DEF Balances
    <2>2. QED BY <2>1, WeighsNothing
  <1>11. PICK y, z : /\ Sheet(y, z, f, n)
                     /\ z[g] = Plus(w[g], v) /\ \A x \in Goroutines : x # g => z[x] = w[x]
                     /\ y[n] = Plus(t[n], v)
    <2>1. g \in Goroutines /\ Sheet(t, w, f, n) /\ Enumerates(f, n) /\ v \in [Books -> Int]
      BY <1>3, <1>6
    <2>2. QED BY ONLY <2>1, SheetChanges
  <1>12. z[g] = v
    BY <1>6, <1>10, <1>11, PlusRules
  <1>13. ASSUME NEW x \in Goroutines PROVE Weighs(prog'[x].todo, z[x])
    <2>1. CASE x = g
      BY <1>5, <1>8, <1>12, <2>1
    <2>2. CASE x # g
      BY <1>2, <1>8, <1>11, <2>2 DEF Balances
    <2>3. QED BY <2>1, <2>2
  <1>14. PICK h : h = Plus(e, v)
    OBVIOUS
  <1>15. \A c \in Books : h[c] = e[c] + v[c]
    <2>1. \A c \in Books : Plus(e, v)[c] = e[c] + v[c]
      BY ONLY <1>3, <1>6, PlusRules
    <2>2. QED BY ONLY <1>14, <2>1
  <1>16. t[n] \in [Books -> Int] /\ \A c \in Books : Book(c) \in Int
    <2>1. n \in 0..n
      BY DEF Enumerates
    <2>2. t[n] \in [Books -> Int]
      BY <1>3, <2>1 DEF Sheet
    <2>3. \A c \in Books : Book(c) \in Int
      BY <1>1 DEF Truths, Book, Books
    <2>4. QED BY <2>2, <2>3
  <1>17. ASSUME NEW c \in Books PROVE h[c] = Book(c)' + y[n][c]
    <2>1. e[c] = Book(c) + t[n][c]
      BY <1>2 DEF Balances
    <2>2. Book(c)' = Book(c)
      BY <1>5, <1>7 DEF Book
    <2>3. y[n][c] = t[n][c] + v[c]
      <3>1. t[n] \in [Books -> Int] /\ v \in [Books -> Int]
        BY <1>6, <1>16
      <3>2. \A x \in Books : Plus(t[n], v)[x] = t[n][x] + v[x]
        BY ONLY <3>1, PlusRules
      <3>3. QED BY <1>11, <3>2
    <2>4. Book(c) \in Int /\ t[n][c] \in Int /\ v[c] \in Int
      BY <1>6, <1>16
    <2>5. QED BY <1>15, <2>1, <2>2, <2>3, <2>4
  <1>18. Balances(y, z, h, f, n)'
    <2>1. Told(h, truth')
      BY <1>5, <1>7, <1>14
    <2>2. QED BY <1>11, <1>13, <1>17, <2>1 DEF Balances
  <1>19. QED BY <1>9, <1>18 DEF RegInv

(***************************************************************************)
(* Every step keeps the accounts.                                          *)
(***************************************************************************)
LEMMA RegNext ==
  ASSUME Setup, NEW f, NEW n, Enumerates(f, n), RegInv(f, n), [RegistryNext]_registryVars
  PROVE  RegInv(f, n)'
  <1>1. truth \in Truths
    BY DEF RegInv, RegTyped
  <1>2. ASSUME NEW g \in Goroutines, Reconcile(g) PROVE RegInv(f, n)'
    <2>1. PICK r \in Reports : Call(g, Reconciled(r), r.waits)
      BY <1>2 DEF Reconcile
    <2>2. \A e : Told(e, truth) => \E v : Tells(Reconciled(r), r.waits, v, e)
      BY <1>1, ReconcileTells
    <2>3. QED BY <2>1, <2>2, RegCall
  <1>3. ASSUME NEW g \in Goroutines, Admit(g) PROVE RegInv(f, n)'
    <2>1. Call(g, ObserveAdmission(0), <<0>>)
      BY <1>3 DEF Admit
    <2>2. \A e : Told(e, truth) => \E v : Tells(ObserveAdmission(0), <<0>>, v, e)
      BY <1>1, AdmitTells
    <2>3. QED BY <2>1, <2>2, RegCall
  <1>4. ASSUME NEW g \in Goroutines, Decide(g) PROVE RegInv(f, n)'
    <2>1. PICK d \in {"proxied", "queued", "admin"} : Call(g, IncRequest(d), <<>>)
      BY <1>4 DEF Decide
    <2>2. \A e : Told(e, truth) => \E v : Tells(IncRequest(d), <<>>, v, e)
      BY <1>1, DecideTells
    <2>3. QED BY <2>1, <2>2, RegCall
  <1>5. ASSUME NEW g \in Goroutines, AddInt(g) PROVE RegInv(f, n)'
    BY <1>5, RegAddInt
  <1>6. ASSUME NEW g \in Goroutines, LoadSum(g) PROVE RegInv(f, n)'
    BY <1>6, RegLoaded
  <1>7. ASSUME NEW g \in Goroutines, CompareAndSwapSum(g) PROVE RegInv(f, n)'
    BY <1>7, RegLoaded, RegSwapped
  <1>8. ASSUME Scrape \/ UNCHANGED registryVars PROVE RegInv(f, n)'
    <2>1. reg' = reg /\ prog' = prog /\ truth' = truth
      BY <1>8 DEF Scrape, registryVars
    <2>2. RegTyped'
      BY <2>1 DEF RegInv, RegTyped
    <2>3. QED BY <2>1, <2>2, RegKept
  <1>9. QED BY <1>2, <1>3, <1>4, <1>5, <1>6, <1>7, <1>8 DEF RegistryNext

(***************************************************************************)
(* When nobody is recording, nothing is left, and the cells are what the   *)
(* histogram is to say.                                                    *)
(***************************************************************************)
LEMMA RegExact ==
  ASSUME Setup, NEW f, NEW n, Enumerates(f, n), RegInv(f, n)
  PROVE  RegistryExact
  <1>1. SUFFICES ASSUME Busy = {} PROVE
          /\ \A i \in 1..Beyond : UpTo(i) = truth.atMost[i]
          /\ reg[Total] = truth.atMost[Beyond]
          /\ reg[Admissions] = truth.atMost[Beyond]
          /\ reg[Sum] = truth.sum
    BY DEF RegistryExact
  <1>2. RegTyped
    BY DEF RegInv
  <1>3. PICK t, w, e : Balances(t, w, e, f, n)
    BY DEF RegInv
  <1>4. Sheet(t, w, f, n) /\ Told(e, truth) /\ \A g \in Goroutines : Weighs(prog[g].todo, w[g])
    BY <1>3 DEF Balances
  <1>5. \A g \in Goroutines : w[g] = Nil
    <2>1. \A g \in Goroutines : prog[g].todo = <<>>
      BY <1>1 DEF Busy
    <2>2. QED BY <1>4, <2>1, WeighsNothing
  <1>6. \A g \in Goroutines : Behind(w[g])
    BY <1>5, NilBehind
  <1>7. t[n] = Nil
    BY ONLY Setup, Enumerates(f, n), <1>4, <1>5, <1>6, SheetBehind
  <1>8. ASSUME NEW c \in Cells PROVE reg[c] = e[c]
    <2>1. c \in Books /\ c # Open
      BY OpenApart DEF Books
    <2>2. e[c] = Book(c) + t[n][c]
      BY <1>3, <2>1 DEF Balances
    <2>3. t[n][c] = 0 /\ Book(c) = reg[c] /\ reg[c] \in Int
      BY <1>2, <1>7, <2>1 DEF Nil, Book, RegTyped
    <2>4. QED BY <2>2, <2>3
  <1>9. ASSUME NEW i \in 1..Beyond PROVE UpTo(i) = truth.atMost[i]
    <2>1. UpTo(i) = Cumulative([j \in 1..Beyond |-> reg[Bucket(j)]], i)
      BY DEF UpTo
    <2>2. [j \in 1..Beyond |-> reg[Bucket(j)]] = Buckets(e)
      BY <1>8, AllCells DEF Buckets
    <2>3. UpTo(i) = Cumulative(Buckets(e), i)
      BY <2>1, <2>2
    <2>4. QED BY <1>4, <2>3 DEF Told
  <1>10. QED BY <1>4, <1>8, <1>9, AllCells DEF Told

(***************************************************************************)
(* "fed exactly once per event", for any number of goroutines, buckets,    *)
(* promotions in a pass and calls: the adds and the swaps of the           *)
(* goroutines, in whatever order, never lose one.                          *)
(***************************************************************************)
THEOREM RegistryAlwaysExact == RegistrySpec => []RegistryExact
  <1>0. Setup
    BY MetricsAssumption
  <1>1. PICK n, f : Enumerates(f, n)
    BY <1>0, Enumerated
  <1>2. RegistryInit => RegInv(f, n)
    BY <1>0, <1>1, RegInit
  <1>3. RegInv(f, n) /\ [RegistryNext]_registryVars => RegInv(f, n)'
    BY <1>0, <1>1, RegNext
  <1>4. RegInv(f, n) => RegistryExact
    BY <1>0, <1>1, RegExact
  <1>5. QED BY <1>2, <1>3, <1>4, PTL DEF RegistrySpec

-----------------------------------------------------------------------------
(* The scrape *)

(***************************************************************************)
(* Where the page of a scrape has the admissions, the buckets and the      *)
(* count.                                                                  *)
(***************************************************************************)
LEMMA ShownAt ==
  ASSUME Setup
  PROVE  /\ Shown(Admissions) = scan[1]
         /\ Shown(Total) = scan[Beyond + 8]
         /\ \A j \in 1..Beyond : Shown(Bucket(j)) = scan[j + 6]
  <1> DEFINE m == Beyond
             W == WriteTo
             others == {"expirations", "evictions", "proxied", "queued", "admin"}
  <1>1. m \in Nat /\ m >= 1 /\ DOMAIN W = 1..(m + 8)
    BY Order
  <1>2. /\ W[1] = Admissions /\ W[m + 7] = Sum /\ W[m + 8] = Total
        /\ \A j \in 1..m : W[j + 6] = Bucket(j)
        /\ \A i \in 2..6 : \E x \in others : W[i] = Cell(x)
    <2>1. \A i \in 2..6 : i = 2 \/ i = 3 \/ i = 4 \/ i = 5 \/ i = 6
      OBVIOUS
    <2>2. QED BY <2>1, Order
  <1>3. \A i \in 1..(m + 8) : \/ i = 1 \/ i \in 2..6 \/ i = m + 7 \/ i = m + 8
                              \/ \E j \in 1..m : i = j + 6
    <2>1. ASSUME NEW i \in 1..(m + 8), i # 1, i \notin 2..6, i # m + 7, i # m + 8
          PROVE  \E j \in 1..m : i = j + 6
      <3>1. i - 6 \in 1..m /\ i = (i - 6) + 6
        BY <1>1, <2>1
      <3>2. QED BY <3>1
    <2>2. QED BY <2>1
  <1>3a. \A i \in 2..6 : W[i] # Admissions /\ W[i] # Total /\ \A j : W[i] # Bucket(j)
    <2>1. ASSUME NEW i \in 2..6 PROVE W[i] # Admissions /\ W[i] # Total /\ \A j : W[i] # Bucket(j)
      <3>1. PICK x \in others : W[i] = Cell(x)
        BY <1>2
      <3>2. QED BY <3>1, Names
    <2>2. QED BY <2>1
  <1> HIDE DEF m, W
  <1>4. 1 \in DOMAIN W /\ m + 8 \in DOMAIN W /\ \A j \in 1..m : j + 6 \in DOMAIN W
    BY <1>1
  <1>5. ASSUME NEW i \in DOMAIN W, W[i] = Admissions PROVE i = 1
    <2>1. CASE i = 1
      BY <1>2, <1>5, <2>1, Names
    <2>2. CASE i \in 2..6
      BY <1>3a, <1>5, <2>2
    <2>3. CASE i = m + 7
      BY <1>2, <1>5, <2>3, Names
    <2>4. CASE i = m + 8
      BY <1>2, <1>5, <2>4, Names
    <2>5. ASSUME NEW j \in 1..m, i = j + 6 PROVE i = 1
      BY <1>2, <1>5, <2>5, Names
    <2>6. QED BY <1>1, <1>3, <2>1, <2>2, <2>3, <2>4, <2>5
  <1>6. ASSUME NEW i \in DOMAIN W, W[i] = Total PROVE i = m + 8
    <2>1. CASE i = 1
      BY <1>2, <1>6, <2>1, Names
    <2>2. CASE i \in 2..6
      BY <1>3a, <1>6, <2>2
    <2>3. CASE i = m + 7
      BY <1>2, <1>6, <2>3, Names
    <2>4. CASE i = m + 8
      BY <1>2, <1>6, <2>4, Names
    <2>5. ASSUME NEW j \in 1..m, i = j + 6 PROVE i = m + 8
      BY <1>2, <1>6, <2>5, Names
    <2>6. QED BY <1>1, <1>3, <2>1, <2>2, <2>3, <2>4, <2>5
  <1>7. ASSUME NEW k \in 1..m, NEW i \in DOMAIN W, W[i] = Bucket(k) PROVE i = k + 6
    <2>1. CASE i = 1
      BY <1>2, <1>7, <2>1, Names
    <2>2. CASE i \in 2..6
      BY <1>3a, <1>7, <2>2
    <2>3. CASE i = m + 7
      BY <1>2, <1>7, <2>3, Names
    <2>4. CASE i = m + 8
      BY <1>2, <1>7, <2>4, Names
    <2>5. ASSUME NEW j \in 1..m, i = j + 6 PROVE i = k + 6
      BY <1>2, <1>7, <2>5, Names
    <2>6. QED BY <1>1, <1>3, <2>1, <2>2, <2>3, <2>4, <2>5
  <1>8. Shown(Admissions) = scan[1]
    <2>1. (CHOOSE i \in DOMAIN W : W[i] = Admissions) = 1
      BY <1>2, <1>4, <1>5
    <2>2. QED BY <2>1 DEF Shown, W
  <1>9. Shown(Total) = scan[m + 8]
    <2>1. (CHOOSE i \in DOMAIN W : W[i] = Total) = m + 8
      BY <1>2, <1>4, <1>6
    <2>2. QED BY <2>1 DEF Shown, W
  <1>10. ASSUME NEW j \in 1..m PROVE Shown(Bucket(j)) = scan[j + 6]
    <2>1. (CHOOSE i \in DOMAIN W : W[i] = Bucket(j)) = j + 6
      BY <1>2, <1>4, <1>7
    <2>2. QED BY <2>1 DEF Shown, W
  <1>11. QED BY <1>8, <1>9, <1>10 DEF m

Shows == [j \in 1..Beyond |-> reg[Bucket(j)]]

Begun == truth.atMost[Beyond]

(***************************************************************************)
(* At any time the admissions, the buckets together and the count are no   *)
(* fewer than the observations that are finished and no more than the      *)
(* ones that were begun.                                                   *)
(***************************************************************************)
LEMMA RegBetween ==
  ASSUME Setup, NEW f, NEW n, Enumerates(f, n), RegInv(f, n)
  PROVE  /\ truth.finished \in Int /\ Begun \in Int /\ Shows \in [1..Beyond -> Int]
         /\ \A c \in Cells : reg[c] \in Int
         /\ reg[Admissions] \in truth.finished..Begun
         /\ reg[Total] \in truth.finished..Begun
         /\ Cumulative(Shows, Beyond) \in truth.finished..Begun
  <1> DEFINE m == Beyond
  <1>1. m \in Nat /\ m \in 1..m /\ m \in 0..m /\ \A j \in 1..m : Bucket(j) \in Cells
    BY Order, AllCells
  <1>2. reg \in [Cells -> Int] /\ truth \in Truths
    BY DEF RegInv, RegTyped
  <1>3. truth.finished \in Int /\ Begun \in Int /\ Shows \in [1..m -> Int]
    BY <1>1, <1>2 DEF Truths, Begun, Shows
  <1>4. PICK t, w, e : Balances(t, w, e, f, n)
    BY DEF RegInv
  <1>5. Sheet(t, w, f, n) /\ Told(e, truth) /\ \A g \in Goroutines : Weighs(prog[g].todo, w[g])
    BY <1>4 DEF Balances
  <1>6. \A g \in Goroutines : Behind(w[g])
    BY <1>5, WeighsTyped
  <1>7. t[n] \in [Books -> Int] /\ Behind(t[n])
    BY ONLY Setup, Enumerates(f, n), <1>5, <1>6, SheetBehind
  <1> DEFINE u == t[n]
  <1>8. /\ u[Admissions] \in 0..u[Open] /\ u[Total] \in 0..u[Open]
        /\ \A j \in 1..m : u[Bucket(j)] >= 0
        /\ Cumulative(Buckets(u), m) <= u[Open]
        /\ u[Open] \in Int
    BY <1>7, AllBooks DEF Behind
  <1>9. \A c \in Books : e[c] = Book(c) + u[c]
    BY <1>4 DEF Balances
  <1> HIDE DEF u
  <1>10. /\ Begun = truth.finished + u[Open]
         /\ Begun = reg[Admissions] + u[Admissions]
         /\ Begun = reg[Total] + u[Total]
    <2>1. Book(Open) = truth.finished /\ Book(Admissions) = reg[Admissions] /\ Book(Total) = reg[Total]
      BY AllBooks DEF Book
    <2>2. QED BY <1>5, <1>9, <2>1, AllBooks DEF Told, Begun
  <1>11. reg[Admissions] \in Int /\ reg[Total] \in Int
    BY <1>2, AllCells
  <1>12. reg[Admissions] \in truth.finished..Begun /\ reg[Total] \in truth.finished..Begun
    BY <1>3, <1>8, <1>10, <1>11
  <1>13. Begun = Cumulative(Shows, m) + Cumulative(Buckets(u), m)
         /\ Cumulative(Shows, m) \in Int /\ Cumulative(Buckets(u), m) \in Int
    <2>1. Begun = Cumulative(Buckets(e), m)
      BY <1>1, <1>5 DEF Told, Begun
    <2>2. /\ Buckets(e) \in [1..m -> Int] /\ \A j \in 1..m : Buckets(e)[j] = e[Bucket(j)]
          /\ Buckets(u) \in [1..m -> Int] /\ \A j \in 1..m : Buckets(u)[j] = u[Bucket(j)]
      BY <1>5, <1>7, BucketsTyped DEF Told, u
    <2>3. \A j \in 1..m : Buckets(e)[j] = Shows[j] + Buckets(u)[j]
      <3>1. ASSUME NEW j \in 1..m PROVE Buckets(e)[j] = Shows[j] + Buckets(u)[j]
        <4>1. Bucket(j) \in Books /\ Bucket(j) # Open
          BY AllBooks
        <4>2. Book(Bucket(j)) = reg[Bucket(j)] /\ Shows[j] = reg[Bucket(j)]
          BY <4>1 DEF Book, Shows
        <4>3. QED BY <1>9, <2>2, <4>1, <4>2
      <3>2. QED BY <3>1
    <2>4. /\ Row(Shows, m) /\ Row(Buckets(u), m) /\ Row(Buckets(e), m)
          /\ Sums(Buckets(e), Shows, Buckets(u), m)
      BY <1>3, <2>2, <2>3 DEF Row, Sums
    <2> HIDE DEF m
    <2>5. /\ Cumulative(Buckets(e), m) = Cumulative(Shows, m) + Cumulative(Buckets(u), m)
          /\ Cumulative(Shows, m) \in Int /\ Cumulative(Buckets(u), m) \in Int
      BY <1>1, <2>4, CumulativeAdds
    <2>6. QED BY <2>1, <2>5
  <1>14. Cumulative(Buckets(u), m) >= 0
    <2>1. Row(Buckets(Nil), m) /\ Row(Buckets(u), m) /\ Cumulative(Buckets(Nil), m) = 0
      BY <1>1, <1>7, NilBehind, BucketsTyped DEF Row, u
    <2>2. Dominates(Buckets(u), Buckets(Nil), m)
      <3>1. ASSUME NEW j \in 1..m PROVE Buckets(Nil)[j] = 0 /\ Buckets(u)[j] = u[Bucket(j)]
        BY AllBooks DEF Buckets, Nil
      <3>2. QED BY <1>8, <3>1 DEF Dominates
    <2> HIDE DEF m
    <2>3. Cumulative(Buckets(Nil), m) <= Cumulative(Buckets(u), m)
      BY <1>1, <2>1, <2>2, CumulativeGrows
    <2>4. QED BY <1>13, <2>1, <2>3
  <1>15. Cumulative(Shows, m) \in truth.finished..Begun
    <2> DEFINE p == Cumulative(Shows, m)
               q == Cumulative(Buckets(u), m)
    <2>1. Begun = p + q /\ p \in Int /\ q \in Int /\ q >= 0 /\ q <= u[Open]
      BY <1>8, <1>13, <1>14
    <2> HIDE DEF p, q
    <2>2. p \in truth.finished..Begun
      BY <1>3, <1>8, <1>10, <2>1
    <2>3. QED BY <2>2 DEF p
  <1>16. QED BY <1>2, <1>3, <1>12, <1>15

(***************************************************************************)
(* No cell but the sum ever falls, no observation is unfinished again, and *)
(* the ones that begin while a scrape runs overlap it.                     *)
(***************************************************************************)
Moves(d) ==
  /\ d \in Nat
  /\ Begun' = Begun + d
  /\ overlap' = IF Scraped THEN overlap ELSE overlap + d
  /\ truth.finished <= truth'.finished
  /\ \A j \in 1..Beyond : reg[Bucket(j)] <= reg'[Bucket(j)]
  /\ scan' = scan

(***************************************************************************)
(* A call begins its observations.                                         *)
(***************************************************************************)
LEMMA CallMoves ==
  ASSUME Setup, NEW f, NEW n, RegInv(f, n), NEW g \in Goroutines,
         NEW todo, NEW ws \in Seq(Int), Call(g, todo, ws),
         \A e : Told(e, truth) => \E v : Tells(todo, ws, v, e)
  PROVE  \E d : Moves(d)
  <1>1. reg \in [Cells -> Int] /\ truth \in Truths
    BY DEF RegInv, RegTyped
  <1>2. PICK t, w, e : Balances(t, w, e, f, n)
    BY DEF RegInv
  <1>3. PICK v : Tells(todo, ws, v, e)
    BY <1>2 DEF Balances
  <1>4. /\ Observed(ws).atMost[Beyond] = truth.atMost[Beyond] + Len(ws)
        /\ Observed(ws).finished = truth.finished
    BY <1>3 DEF Tells
  <1>5. /\ truth' = Observed(ws) /\ reg' = reg /\ scan' = scan
        /\ overlap' = IF Scraped THEN overlap ELSE overlap + Len(ws)
    BY DEF Call
  <1>6. Len(ws) \in Nat
    OBVIOUS
  <1>7. truth.finished \in Int /\ \A j \in 1..Beyond : reg[Bucket(j)] \in Int
    BY <1>1, AllCells DEF Truths
  <1>8. Begun' = Begun + Len(ws)
    BY <1>4, <1>5 DEF Begun
  <1>9. Moves(Len(ws))
    BY <1>4, <1>5, <1>6, <1>7, <1>8 DEF Moves
  <1>10. QED BY <1>9

(***************************************************************************)
(* What the goroutines do to what a scrape reads.                          *)
(***************************************************************************)
LEMMA RegMoves ==
  ASSUME Setup, NEW f, NEW n, RegInv(f, n), overlap \in Int, [RegistryNext]_registryVars, ~Scrape
  PROVE  \E d : Moves(d)
  <1>1. RegTyped /\ reg \in [Cells -> Int] /\ truth \in Truths
    BY DEF RegInv, RegTyped
  <1>2. /\ truth.finished \in Int /\ Begun \in Int
        /\ \A j \in 1..Beyond : Bucket(j) \in Cells /\ reg[Bucket(j)] \in Int
    <2>1. Beyond \in 1..Beyond
      BY Order
    <2>2. QED BY <1>1, <2>1, AllCells DEF Truths, Begun
  <1>3. ASSUME Begun' = Begun, overlap' = overlap, truth.finished <= truth'.finished, scan' = scan,
               \A j \in 1..Beyond : reg[Bucket(j)] <= reg'[Bucket(j)]
        PROVE  \E d : Moves(d)
    <2>1. Moves(0)
      BY <1>2, <1>3 DEF Moves
    <2>2. QED BY <2>1
  <1>4. ASSUME NEW g \in Goroutines, Reconcile(g) PROVE \E d : Moves(d)
    <2>1. PICK r \in Reports : Call(g, Reconciled(r), r.waits)
      BY <1>4 DEF Reconcile
    <2>2. \A e : Told(e, truth) => \E v : Tells(Reconciled(r), r.waits, v, e)
      BY <1>1, ReconcileTells
    <2>3. r.waits \in Seq(Int)
      BY DEF Setup
    <2>4. QED BY <2>1, <2>2, <2>3, CallMoves
  <1>5. ASSUME NEW g \in Goroutines, Admit(g) PROVE \E d : Moves(d)
    <2>1. Call(g, ObserveAdmission(0), <<0>>)
      BY <1>5 DEF Admit
    <2>2. \A e : Told(e, truth) => \E v : Tells(ObserveAdmission(0), <<0>>, v, e)
      BY <1>1, AdmitTells
    <2>3. <<0>> \in Seq(Int)
      OBVIOUS
    <2>4. QED BY <2>1, <2>2, <2>3, CallMoves
  <1>6. ASSUME NEW g \in Goroutines, Decide(g) PROVE \E d : Moves(d)
    <2>1. PICK x \in {"proxied", "queued", "admin"} : Call(g, IncRequest(x), <<>>)
      BY <1>6 DEF Decide
    <2>2. \A e : Told(e, truth) => \E v : Tells(IncRequest(x), <<>>, v, e)
      BY <1>1, DecideTells
    <2>3. <<>> \in Seq(Int)
      OBVIOUS
    <2>4. QED BY <2>1, <2>2, <2>3, CallMoves
  <1>7. ASSUME NEW g \in Goroutines, AddInt(g) PROVE \E d : Moves(d)
    <2> DEFINE a == Head(prog[g].todo)
    <2>1. /\ g \in Busy /\ a.cell # Sum /\ reg' = [reg EXCEPT ![a.cell] = @ + a.n]
          /\ prog' = [prog EXCEPT ![g] = Step(g)] /\ truth' = truth /\ overlap' = overlap /\ scan' = scan
      BY <1>7 DEF AddInt
    <2>2. a \in Adds
      BY <1>1, <2>1, StepTyped
    <2> HIDE DEF a
    <2>3. a.n \in Int /\ a.n >= 0
      BY <2>1, <2>2 DEF Adds
    <2>4. ASSUME NEW j \in 1..Beyond PROVE reg[Bucket(j)] <= reg'[Bucket(j)]
      BY <1>1, <1>2, <2>1, <2>3
    <2>5. QED BY <1>2, <1>3, <2>1, <2>4 DEF Begun
  <1>8. ASSUME NEW g \in Goroutines, LoadSum(g) PROVE \E d : Moves(d)
    <2>1. reg' = reg /\ truth' = truth /\ overlap' = overlap /\ scan' = scan
      BY <1>8 DEF LoadSum
    <2>2. QED BY <1>2, <1>3, <2>1 DEF Begun
  <1>9. ASSUME NEW g \in Goroutines, CompareAndSwapSum(g) PROVE \E d : Moves(d)
    <2>1. overlap' = overlap /\ scan' = scan
      BY <1>9 DEF CompareAndSwapSum
    <2>2. CASE reg[Sum] \in prog[g].old
      <3>1. /\ reg' = [reg EXCEPT ![Sum] = reg[Sum] + Head(prog[g].todo).n]
            /\ truth' = [truth EXCEPT !.finished = @ + 1]
        BY <1>9, <2>2 DEF CompareAndSwapSum, Swapped
      <3>2. ASSUME NEW j \in 1..Beyond PROVE reg[Bucket(j)] <= reg'[Bucket(j)]
        <4>1. Bucket(j) # Sum
          BY Names
        <4>2. reg'[Bucket(j)] = reg[Bucket(j)]
          BY <1>1, <1>2, <3>1, <4>1
        <4>3. QED BY <1>2, <4>2
      <3>3. truth'.atMost = truth.atMost /\ truth.finished <= truth'.finished
        BY <1>1, <1>2, <3>1 DEF Truths
      <3>4. QED BY <1>3, <2>1, <3>2, <3>3 DEF Begun
    <2>3. CASE reg[Sum] \notin prog[g].old
      <3>1. reg' = reg /\ truth' = truth
        BY <1>9, <2>3 DEF CompareAndSwapSum
      <3>2. QED BY <1>2, <1>3, <2>1, <3>1 DEF Begun
    <2>4. QED BY <2>2, <2>3
  <1>10. ASSUME UNCHANGED registryVars PROVE \E d : Moves(d)
    <2>1. reg' = reg /\ truth' = truth /\ overlap' = overlap /\ scan' = scan
      BY <1>10 DEF registryVars
    <2>2. QED BY <1>2, <1>3, <2>1 DEF Begun
  <1>11. QED BY <1>4, <1>5, <1>6, <1>7, <1>8, <1>9, <1>10 DEF RegistryNext

Listed == [j \in 1..Beyond |-> scan[j + 6]]

(***************************************************************************)
(* A scrape that has begun: low observations were finished when it did,    *)
(* with the buckets at b, and high were begun when it ended, or until now. *)
(***************************************************************************)
Reading(low, high, b) ==
  /\ low \in Int /\ high \in Int /\ overlap = high - low
  /\ b \in [1..Beyond -> Int] /\ low <= Cumulative(b, Beyond)
  /\ scan[1] \in low..high
  /\ \A j \in 1..Beyond : j + 6 <= Len(scan) => b[j] <= scan[j + 6]
  /\ ~Scraped =>
       /\ high = Begun /\ low <= truth.finished
       /\ \A j \in 1..Beyond :
            /\ b[j] <= reg[Bucket(j)]
            /\ j + 6 <= Len(scan) => scan[j + 6] <= reg[Bucket(j)]
  /\ Scraped =>
       /\ Cumulative(Listed, Beyond) <= high
       /\ scan[Beyond + 8] \in low..high

ScanTyped == scan \in Seq(Int) /\ Len(scan) <= Beyond + 8 /\ overlap \in Int

ScanInv == ScanTyped /\ (scan # <<>> => \E low, high, b : Reading(low, high, b))

(***************************************************************************)
(* The goroutines run on during the scrape.                                *)
(***************************************************************************)
LEMMA ScanMoved ==
  ASSUME Setup, NEW f, NEW n, Enumerates(f, n), RegInv(f, n), RegInv(f, n)', ScanInv,
         NEW d, Moves(d)
  PROVE  ScanInv'
  <1> DEFINE m == Beyond
  <1>1. /\ d \in Nat /\ Begun' = Begun + d /\ overlap' = IF Scraped THEN overlap ELSE overlap + d
        /\ truth.finished <= truth'.finished /\ scan' = scan
        /\ \A j \in 1..m : reg[Bucket(j)] <= reg'[Bucket(j)]
    BY DEF Moves
  <1>2. Scraped' <=> Scraped
    BY <1>1 DEF Scraped
  <1>3. ScanTyped'
    BY <1>1 DEF ScanInv, ScanTyped
  <1>4. /\ truth.finished \in Int /\ truth'.finished \in Int /\ Begun \in Int
        /\ \A j \in 1..m : reg[Bucket(j)] \in Int /\ reg'[Bucket(j)] \in Int
    BY AllCells, RegBetween DEF RegInv, RegTyped, Truths
  <1>5. ASSUME scan # <<>> PROVE \E low, high, b : Reading(low, high, b)'
    <2>1. PICK low, high, b : Reading(low, high, b)
      BY <1>5 DEF ScanInv
    <2>2. /\ low \in Int /\ high \in Int /\ overlap = high - low
          /\ b \in [1..m -> Int] /\ low <= Cumulative(b, m) /\ scan[1] \in low..high
          /\ \A j \in 1..m : j + 6 <= Len(scan) => b[j] <= scan[j + 6]
      BY <2>1 DEF Reading
    <2>3. CASE Scraped
      <3>1. Cumulative(Listed, m) <= high /\ scan[m + 8] \in low..high
        BY <2>1, <2>3 DEF Reading
      <3>2. Listed' = Listed
        BY <1>1 DEF Listed
      <3>3. Reading(low, high, b)'
        BY <1>1, <1>2, <2>2, <2>3, <3>1, <3>2 DEF Reading
      <3>4. QED BY <3>3
    <2>4. CASE ~Scraped
      <3>1. /\ high = Begun /\ low <= truth.finished
            /\ \A j \in 1..m : /\ b[j] <= reg[Bucket(j)]
                               /\ j + 6 <= Len(scan) => scan[j + 6] <= reg[Bucket(j)]
        BY <2>1, <2>4 DEF Reading
      <3>2. PICK top : top = high + d
        OBVIOUS
      <3>3. top \in Int /\ overlap' = top - low /\ scan[1] \in low..top
            /\ top = Begun' /\ low <= truth'.finished
        <4>1. scan[1] \in Int
          BY <2>2
        <4>2. QED BY <1>1, <1>4, <2>2, <2>4, <3>1, <3>2, <4>1
      <3>4. ASSUME NEW j \in 1..m
            PROVE  /\ b[j] <= reg'[Bucket(j)]
                   /\ j + 6 <= Len(scan) => scan[j + 6] <= reg'[Bucket(j)]
        <4>1. b[j] <= reg'[Bucket(j)]
          <5>1. b[j] \in Int
            BY <2>2
          <5>2. QED BY <1>1, <1>4, <3>1, <5>1
        <4>2. ASSUME j + 6 <= Len(scan) PROVE scan[j + 6] <= reg'[Bucket(j)]
          <5>1. scan[j + 6] \in Int
            <6>1. j + 6 \in 1..Len(scan)
              BY <4>2 DEF ScanInv, ScanTyped
            <6>2. QED BY <6>1 DEF ScanInv, ScanTyped
          <5>2. QED BY <1>1, <1>4, <3>1, <4>2, <5>1
        <4>3. QED BY <4>1, <4>2
      <3>5. Reading(low, top, b)'
        BY <1>1, <1>2, <2>2, <2>4, <3>3, <3>4 DEF Reading
      <3>6. QED BY <3>5
    <2>5. QED BY <2>3, <2>4
  <1>6. QED BY <1>1, <1>3, <1>5 DEF ScanInv

(***************************************************************************)
(* The scrape loads its first cell.                                        *)
(***************************************************************************)
LEMMA ScanFirst ==
  ASSUME Setup, NEW f, NEW n, Enumerates(f, n), RegInv(f, n), ScanInv,
         Scrape, Scraped \/ scan = <<>>
  PROVE  ScanInv'
  <1> DEFINE m == Beyond
  <1>1. m \in Nat /\ m >= 1 /\ Len(WriteTo) = m + 8 /\ WriteTo[1] = Admissions
    BY Order
  <1>2. /\ truth.finished \in Int /\ Begun \in Int /\ Shows \in [1..m -> Int]
        /\ reg[Admissions] \in Int
        /\ reg[Admissions] \in truth.finished..Begun
        /\ Cumulative(Shows, m) \in truth.finished..Begun
    BY RegBetween
  <1>3. /\ scan' = <<reg[Admissions]>> /\ overlap' = Begun - truth.finished
        /\ reg' = reg /\ truth' = truth
    <2>1. /\ scan' = Append(<<>>, reg[WriteTo[Len(<<>>) + 1]])
          /\ overlap' = Unfinished /\ reg' = reg /\ truth' = truth
      BY DEF Scrape
    <2>2. Append(<<>>, reg[WriteTo[Len(<<>>) + 1]]) = <<reg[WriteTo[0 + 1]]>>
      OBVIOUS
    <2>3. QED BY <1>1, <2>1, <2>2 DEF Unfinished, Begun
  <1>4. scan' \in Seq(Int) /\ Len(scan') = 1 /\ scan'[1] = reg[Admissions]
    BY <1>2, <1>3
  <1>5. ~Scraped'
    BY <1>1, <1>4 DEF Scraped
  <1>6. ScanTyped'
    BY <1>1, <1>2, <1>3, <1>4 DEF ScanTyped
  <1>7. PICK low, high, b : low = truth.finished /\ high = Begun /\ b = Shows
    OBVIOUS
  <1>8. \A j \in 1..m : b[j] = reg[Bucket(j)] /\ reg[Bucket(j)] \in Int
    BY <1>2, <1>7 DEF Shows
  <1>9. \A j \in 1..m : ~(j + 6 <= 1)
    BY <1>1
  <1>10. Begun' = Begun
    BY <1>3 DEF Begun
  <1>11. Reading(low, high, b)'
    <2>1. /\ low \in Int /\ high \in Int /\ overlap' = high - low
          /\ b \in [1..m -> Int] /\ low <= Cumulative(b, m)
          /\ scan'[1] \in low..high
      BY <1>2, <1>3, <1>4, <1>7
    <2>2. /\ high = Begun' /\ low <= truth'.finished
          /\ \A j \in 1..m : b[j] <= reg'[Bucket(j)]
      BY <1>2, <1>3, <1>7, <1>8, <1>10
    <2>3. QED BY <1>4, <1>5, <1>9, <2>1, <2>2 DEF Reading
  <1>12. QED BY <1>6, <1>11 DEF ScanInv

(***************************************************************************)
(* The scrape loads another cell, the last one among them.                 *)
(***************************************************************************)
LEMMA ScanMore ==
  ASSUME Setup, NEW f, NEW n, Enumerates(f, n), RegInv(f, n), ScanInv,
         Scrape, ~Scraped, scan # <<>>
  PROVE  ScanInv'
  <1> DEFINE m == Beyond
             k == Len(scan)
             x == reg[WriteTo[k + 1]]
  <1>1. /\ m \in Nat /\ m >= 1 /\ Len(WriteTo) = m + 8 /\ DOMAIN WriteTo = 1..(m + 8)
        /\ WriteTo[m + 8] = Total /\ \A j \in 1..m : WriteTo[j + 6] = Bucket(j)
    BY Order
  <1>2. scan \in Seq(Int) /\ k \in Nat /\ k >= 1 /\ k <= m + 7 /\ overlap \in Int
    BY <1>1 DEF ScanInv, ScanTyped, Scraped
  <1>3. /\ truth.finished \in Int /\ Begun \in Int /\ Shows \in [1..m -> Int]
        /\ \A c \in Cells : reg[c] \in Int
        /\ reg[Total] \in truth.finished..Begun
        /\ Cumulative(Shows, m) \in truth.finished..Begun
    BY RegBetween
  <1>4. scan' = Append(scan, x) /\ overlap' = overlap /\ reg' = reg /\ truth' = truth
    BY DEF Scrape
  <1>5. x \in Int
    <2>1. k + 1 \in DOMAIN WriteTo
      BY <1>1, <1>2
    <2>2. WriteTo[k + 1] \in Cells
      BY <2>1 DEF Cells
    <2>3. QED BY <1>3, <2>2
  <1>6. \A j \in 1..m : reg[Bucket(j)] \in Int /\ (j + 6 = k + 1 => x = reg[Bucket(j)])
    BY <1>1, <1>3, AllCells
  <1>7. k = m + 7 => x = reg[Total]
    BY <1>1
  <1> HIDE DEF x
  <1>8. /\ scan' \in Seq(Int) /\ Len(scan') = k + 1 /\ scan'[k + 1] = x
        /\ \A i \in 1..k : scan'[i] = scan[i] /\ scan[i] \in Int
    BY <1>2, <1>4, <1>5
  <1>9. ScanTyped'
    BY <1>1, <1>2, <1>4, <1>8 DEF ScanTyped
  <1>10. PICK low, high, b : Reading(low, high, b)
    BY DEF ScanInv
  <1>11. /\ low \in Int /\ high \in Int /\ overlap = high - low
         /\ b \in [1..m -> Int] /\ low <= Cumulative(b, m) /\ scan[1] \in low..high
         /\ \A j \in 1..m : j + 6 <= k => b[j] <= scan[j + 6]
         /\ high = Begun /\ low <= truth.finished
         /\ \A j \in 1..m : /\ b[j] <= reg[Bucket(j)]
                            /\ j + 6 <= k => scan[j + 6] <= reg[Bucket(j)]
    BY <1>10 DEF Reading
  <1> HIDE DEF k
  <1>12. scan'[1] = scan[1]
    BY <1>2, <1>8
  <1>13. ASSUME NEW j \in 1..m, j + 6 <= k + 1
         PROVE  b[j] <= scan'[j + 6] /\ scan'[j + 6] <= reg[Bucket(j)] /\ scan'[j + 6] \in Int
    <2>1. CASE j + 6 <= k
      <3>1. j + 6 \in 1..k
        BY <1>2, <2>1
      <3>2. QED BY <1>8, <1>11, <2>1, <3>1
    <2>2. CASE j + 6 = k + 1
      BY <1>5, <1>6, <1>8, <1>11, <2>2
    <2>3. QED BY <1>2, <1>13, <2>1, <2>2
  <1>14. Scraped' <=> k = m + 7
    BY <1>1, <1>2, <1>8 DEF Scraped
  <1>15. Begun' = Begun
    BY <1>4 DEF Begun
  <1>16. ASSUME k = m + 7 PROVE Cumulative(Listed', m) <= high /\ scan'[m + 8] \in low..high
    <2>1. scan'[m + 8] \in low..high
      <3>1. (m + 7) + 1 = m + 8
        BY <1>1
      <3>2. scan'[m + 8] = reg[Total]
        BY <1>7, <1>8, <1>16, <3>1
      <3>3. QED BY <1>3, <1>11, <3>2
    <2>2. \A j \in 1..m : scan'[j + 6] \in Int /\ scan'[j + 6] <= reg[Bucket(j)]
      <3>1. \A j \in 1..m : j + 6 <= k + 1
        BY <1>1, <1>16
      <3>2. QED BY <1>13, <3>1
    <2>3. Listed' = [j \in 1..m |-> scan'[j + 6]]
      BY DEF Listed
    <2>4. Row(Listed', m) /\ Row(Shows, m) /\ Dominates(Shows, Listed', m)
      BY <1>3, <2>2, <2>3 DEF Row, Dominates, Shows
    <2> HIDE DEF m
    <2>5. m \in 0..m
      BY <1>1
    <2>6. Cumulative(Listed', m) <= Cumulative(Shows, m) /\ Cumulative(Listed', m) \in Int
          /\ Cumulative(Shows, m) \in Int
      BY <1>1, <2>4, <2>5, CumulativeGrows
    <2>7. Cumulative(Listed', m) <= high
      <3> DEFINE p == Cumulative(Listed', m)
                 q == Cumulative(Shows, m)
      <3>1. p <= q /\ p \in Int /\ q \in truth.finished..Begun /\ high = Begun
        BY <1>3, <1>11, <2>6
      <3> HIDE DEF p, q
      <3>2. p <= high
        BY <1>3, <3>1
      <3>3. QED BY <3>2 DEF p
    <2>8. QED BY <2>1, <2>7
  <1>17. Reading(low, high, b)'
    <2>1. /\ low \in Int /\ high \in Int /\ overlap' = high - low
          /\ b \in [1..m -> Int] /\ low <= Cumulative(b, m) /\ scan'[1] \in low..high
      BY <1>4, <1>11, <1>12
    <2>2. \A j \in 1..m : j + 6 <= Len(scan') => b[j] <= scan'[j + 6]
      BY <1>8, <1>13
    <2>3. /\ high = Begun' /\ low <= truth'.finished
          /\ \A j \in 1..m : /\ b[j] <= reg'[Bucket(j)]
                             /\ j + 6 <= Len(scan') => scan'[j + 6] <= reg'[Bucket(j)]
      BY <1>4, <1>8, <1>11, <1>13, <1>15
    <2>4. Scraped' => /\ Cumulative(Listed', m) <= high
                        /\ scan'[m + 8] \in low..high
      BY <1>14, <1>16
    <2>5. QED BY <2>1, <2>2, <2>3, <2>4 DEF Reading
  <1>18. QED BY <1>9, <1>17 DEF ScanInv

(***************************************************************************)
(* Every step keeps what a scrape has read in bounds.                      *)
(***************************************************************************)
LEMMA ScanNext ==
  ASSUME Setup, NEW f, NEW n, Enumerates(f, n), RegInv(f, n), RegInv(f, n)', ScanInv,
         [RegistryNext]_registryVars
  PROVE  ScanInv'
  <1>1. CASE Scrape
    BY <1>1, ScanFirst, ScanMore
  <1>2. CASE ~Scrape
    <2>1. overlap \in Int
      BY DEF ScanInv, ScanTyped
    <2>2. PICK d : Moves(d)
      BY <1>2, <2>1, RegMoves
    <2>3. QED BY <2>2, ScanMoved
  <1>3. QED BY <1>1, <1>2

(***************************************************************************)
(* All that a finished scrape shows lies between the same two numbers,     *)
(* which are overlap apart.                                                *)
(***************************************************************************)
LEMMA ScanSkew ==
  ASSUME Setup, ScanInv
  PROVE  ScrapeSkew
  <1> DEFINE m == Beyond
             inf == Cumulative([j \in 1..m |-> Shown(Bucket(j))], m)
             p == scan[m + 8]
             q == scan[1]
  <1>1. SUFFICES ASSUME Scraped
                 PROVE  /\ Differ(inf, Shown(Total))
                        /\ Differ(inf, Shown(Admissions))
                        /\ Differ(Shown(Total), Shown(Admissions))
    BY DEF ScrapeSkew
  <1>2. m \in Nat /\ m \in 0..m /\ scan \in Seq(Int) /\ Len(scan) = m + 8
    BY <1>1, Order DEF ScanInv, ScanTyped, Scraped
  <1>3. scan # <<>>
    BY <1>2
  <1>4. PICK low, high, b : Reading(low, high, b)
    BY <1>3 DEF ScanInv
  <1>5. /\ low \in Int /\ high \in Int /\ overlap = high - low
        /\ b \in [1..m -> Int] /\ low <= Cumulative(b, m)
        /\ q \in low..high /\ p \in low..high /\ Cumulative(Listed, m) <= high
        /\ \A j \in 1..m : j + 6 <= Len(scan) => b[j] <= scan[j + 6]
    BY <1>1, <1>4 DEF Reading
  <1>6. \A j \in 1..m : j + 6 \in 1..Len(scan) /\ scan[j + 6] \in Int /\ b[j] <= scan[j + 6]
    <2>1. \A j \in 1..m : j + 6 \in 1..Len(scan) /\ j + 6 <= Len(scan)
      BY <1>2
    <2>2. QED BY <1>2, <1>5, <2>1
  <1>7. Cumulative(Listed, m) \in low..high
    <2>1. Row(Listed, m) /\ Row(b, m) /\ Dominates(Listed, b, m)
      BY <1>5, <1>6 DEF Row, Dominates, Listed
    <2> HIDE DEF m
    <2>2. /\ Cumulative(b, m) <= Cumulative(Listed, m)
          /\ Cumulative(Listed, m) \in Int /\ Cumulative(b, m) \in Int
      BY <1>2, <2>1, CumulativeGrows
    <2>3. QED BY <1>5, <2>2
  <1>8. inf \in low..high /\ Shown(Total) = p /\ Shown(Admissions) = q
    <2>1. [j \in 1..m |-> Shown(Bucket(j))] = Listed
      BY ShownAt DEF Listed
    <2>2. inf = Cumulative(Listed, m)
      BY <2>1
    <2>3. QED BY <1>7, <2>2, ShownAt
  <1> HIDE DEF inf, p, q
  <1>9. \A i, j \in low..high : Differ(i, j)
    BY <1>5 DEF Differ
  <1>10. QED BY <1>5, <1>8, <1>9

(***************************************************************************)
(* A page of a scrape is never further from one snapshot than the          *)
(* admissions that were being recorded meanwhile, however many goroutines  *)
(* record and however long the scrape takes.                               *)
(***************************************************************************)
THEOREM ScrapesSkewBounded == RegistrySpec => []ScrapeSkew
  <1>0. Setup
    BY MetricsAssumption
  <1>1. PICK n, f : Enumerates(f, n)
    BY <1>0, Enumerated
  <1>2. RegistryInit => RegInv(f, n) /\ ScanInv
    <2>1. RegistryInit => ScanInv
      BY <1>0, Order DEF RegistryInit, ScanInv, ScanTyped
    <2>2. QED BY <1>0, <1>1, <2>1, RegInit
  <1>3. RegInv(f, n) /\ ScanInv /\ [RegistryNext]_registryVars => RegInv(f, n)' /\ ScanInv'
    BY <1>0, <1>1, RegNext, ScanNext
  <1>4. ScanInv => ScrapeSkew
    BY <1>0, ScanSkew
  <1>5. QED BY <1>2, <1>3, <1>4, PTL DEF RegistrySpec

-----------------------------------------------------------------------------
(* Types *)

Counts ==
  /\ \A c \in Cells : c # Sum => reg[c] \in Nat
  /\ overlap \in Nat
  /\ calls \in 0..MaxCalls

(***************************************************************************)
(* A scrape never begins with more observations finished than begun, and   *)
(* no add is negative but a wait's.                                        *)
(***************************************************************************)
LEMMA CountsNext ==
  ASSUME Setup, NEW f, NEW n, Enumerates(f, n), RegInv(f, n), ScanInv, Counts, [RegistryNext]_registryVars
  PROVE  Counts'
  <1>1. RegTyped /\ reg \in [Cells -> Int]
    BY DEF RegInv, RegTyped
  <1>2. (\A c \in Cells : c # Sum => reg[c] \in Nat) /\ overlap \in Nat /\ calls \in 0..MaxCalls
    BY DEF Counts
  <1>3. overlap' \in Nat
    <2>1. CASE Scrape
      <3>1. overlap' = Unfinished \/ overlap' = overlap
        BY <2>1 DEF Scrape
      <3>2. /\ truth.finished \in Int /\ Begun \in Int
            /\ reg[Total] \in truth.finished..Begun
        BY RegBetween
      <3>3. reg[Total] \in Int
        BY <3>2
      <3>4. Begun - truth.finished \in Nat
        BY <3>2, <3>3
      <3>5. Unfinished = Begun - truth.finished
        BY DEF Unfinished, Begun
      <3>6. QED BY <1>2, <3>1, <3>4, <3>5
    <2>2. CASE ~Scrape
      <3>1. PICK d : Moves(d)
        BY <1>2, <2>2, RegMoves
      <3>2. QED BY <1>2, <3>1 DEF Moves
    <2>3. QED BY <2>1, <2>2
  <1>4. ASSUME NEW g \in Goroutines, Reconcile(g) \/ Admit(g) \/ Decide(g) PROVE Counts'
    <2>1. reg' = reg /\ calls < MaxCalls /\ calls' = calls + 1
      BY <1>4 DEF Reconcile, Admit, Decide, Call
    <2>2. MaxCalls \in Nat
      BY DEF Setup
    <2>3. calls' \in 0..MaxCalls
      BY <1>2, <2>1, <2>2
    <2>4. QED BY <1>2, <1>3, <2>1, <2>3 DEF Counts
  <1>5. ASSUME NEW g \in Goroutines, AddInt(g) PROVE Counts'
    <2> DEFINE a == Head(prog[g].todo)
    <2>1. /\ g \in Busy /\ a.cell # Sum /\ reg' = [reg EXCEPT ![a.cell] = @ + a.n]
          /\ prog' = [prog EXCEPT ![g] = Step(g)] /\ calls' = calls
      BY <1>5 DEF AddInt
    <2>2. a \in Adds
      BY <1>1, <2>1, StepTyped
    <2> HIDE DEF a
    <2>3. a.n \in Nat
      BY <2>1, <2>2 DEF Adds
    <2>4. ASSUME NEW c \in Cells, c # Sum PROVE reg'[c] \in Nat
      BY <1>1, <1>2, <2>1, <2>3, <2>4
    <2>5. QED BY <1>2, <1>3, <2>1, <2>4 DEF Counts
  <1>6. ASSUME NEW g \in Goroutines, CompareAndSwapSum(g) PROVE Counts'
    <2>1. calls' = calls
      BY <1>6 DEF CompareAndSwapSum
    <2>2. \/ reg' = [reg EXCEPT ![Sum] = reg[Sum] + Head(prog[g].todo).n]
          \/ reg' = reg
      BY <1>6 DEF CompareAndSwapSum, Swapped
    <2>3. ASSUME NEW c \in Cells, c # Sum PROVE reg'[c] \in Nat
      BY <1>1, <1>2, <2>2, <2>3
    <2>4. QED BY <1>2, <1>3, <2>1, <2>3 DEF Counts
  <1>7. ASSUME NEW g \in Goroutines, LoadSum(g) PROVE Counts'
    <2>1. reg' = reg /\ calls' = calls
      BY <1>7 DEF LoadSum
    <2>2. QED BY <1>2, <1>3, <2>1 DEF Counts
  <1>8. ASSUME Scrape \/ UNCHANGED registryVars PROVE Counts'
    <2>1. reg' = reg /\ calls' = calls
      BY <1>8 DEF Scrape, registryVars
    <2>2. QED BY <1>2, <1>3, <2>1 DEF Counts
  <1>9. QED BY <1>4, <1>5, <1>6, <1>7, <1>8 DEF RegistryNext

(***************************************************************************)
(* Type correctness of the registry: no counter is ever negative, and only *)
(* a goroutine that is recording holds a loaded sum.                       *)
(***************************************************************************)
THEOREM RegistryTypeCorrect == RegistrySpec => []RegistryTypeOK
  <1>0. Setup
    BY MetricsAssumption
  <1>1. PICK n, f : Enumerates(f, n)
    BY <1>0, Enumerated
  <1>2. RegistryInit => RegInv(f, n) /\ ScanInv /\ Counts
    <2>1. RegistryInit => ScanInv
      BY <1>0, Order DEF RegistryInit, ScanInv, ScanTyped
    <2>2. RegistryInit => Counts
      BY <1>0 DEF RegistryInit, Counts, Setup
    <2>3. QED BY <1>0, <1>1, <2>1, <2>2, RegInit
  <1>3. RegInv(f, n) /\ ScanInv /\ Counts /\ [RegistryNext]_registryVars => RegInv(f, n)' /\ ScanInv' /\ Counts'
    BY <1>0, <1>1, RegNext, ScanNext, CountsNext
  <1>4. RegInv(f, n) /\ ScanInv /\ Counts => RegistryTypeOK
    <2>1. SUFFICES ASSUME RegInv(f, n), ScanInv, Counts PROVE RegistryTypeOK
      OBVIOUS
    <2>2. RegTyped /\ ScanTyped
      BY <2>1 DEF RegInv, ScanInv
    <2>3. \A c \in Cells : reg[c] \in Int /\ (c # Sum => reg[c] \in Nat)
      BY <2>1, <2>2 DEF RegTyped, Counts
    <2>4. ASSUME NEW g \in Goroutines
          PROVE  /\ \A i \in DOMAIN prog[g].todo : prog[g].todo[i].cell \in Cells
                 /\ prog[g].old # {} => g \in Busy
      <3>1. prog[g].todo \in Seq(Adds)
        BY <2>2 DEF RegTyped
      <3>2. \A i \in DOMAIN prog[g].todo : prog[g].todo[i] \in Adds
        BY <3>1
      <3>3. QED BY <2>2, <3>2 DEF RegTyped, Adds, Busy
    <2>5. Len(scan) <= Len(WriteTo)
      BY <1>0, <2>2, Order DEF ScanTyped
    <2>6. QED BY <2>1, <2>3, <2>4, <2>5 DEF RegistryTypeOK, Counts
  <1>5. QED BY <1>2, <1>3, <1>4, PTL DEF RegistrySpec
=============================================================================
