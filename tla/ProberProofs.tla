---------------------------- MODULE ProberProofs ----------------------------
(***************************************************************************)
(* That the prober stores only capacities within its bounds, and that a    *)
(* lone replica raises the capacity only when three good probes in a row   *)
(* earned it: for any replicas, bounds, operators and faults.              *)
(***************************************************************************)
EXTENDS Prober, FiniteSetTheorems, TLAPS

Rounds == [pc : {"idle", "probe", "set", "local"}, next : Int, healthy : BOOLEAN]

(***************************************************************************)
(* TypeOK with the rounds typed in full and those under way running.       *)
(***************************************************************************)
Typed ==
  /\ TypeOK
  /\ round \in [Replicas -> Rounds]
  /\ \A r \in Replicas : round[r].pc # "idle" => Running(r)

(***************************************************************************)
(* What a lone replica has counted did happen: its own count is at most    *)
(* the number of good probes since the last bad one or the last increase.  *)
(***************************************************************************)
CountEarned == Alone => \A r \in deployed.replicas : successes[r] <= streak

IInv == Typed /\ CountEarned

(***************************************************************************)
(* A set of one replica has one element.                                   *)
(***************************************************************************)
LEMMA AloneIsOne ==
  ASSUME deployed \in Deployments, Alone
  PROVE  \A p, q \in deployed.replicas : p = q
<1>1. deployed.replicas \subseteq Replicas
  BY ProberAssumption
<1>2. IsFiniteSet(deployed.replicas)
  BY <1>1, ProberAssumption, FS_Subset
<1>3. PICK x : deployed.replicas = {x}
  BY <1>2, FS_Singleton DEF Alone
<1> QED BY <1>3

(***************************************************************************)
(* The clamp of adjust.                                                    *)
(***************************************************************************)
LEMMA TargetInBounds ==
  ASSUME NEW cur \in Nat, NEW healthy \in BOOLEAN
  PROVE  Target(cur, healthy) \in ProbeMin..ProbeMax
<1>1. cur \div 2 \in Int /\ cur + 1 \in Int
  OBVIOUS
<1>2. (IF healthy THEN cur + 1 ELSE cur \div 2) \in Int
  BY <1>1
<1>3. \A n \in Int : Clamped(n) \in ProbeMin..ProbeMax
  BY ProberAssumption DEF Clamped
<1> QED BY <1>2, <1>3 DEF Target

(***************************************************************************)
(* Before the first probe.                                                 *)
(***************************************************************************)
LEMMA InitIInv == Init => IInv
<1> SUFFICES ASSUME Init PROVE IInv
  OBVIOUS
<1>1. Idle \in Rounds
  BY DEF Idle, Rounds
<1>2. TypeOK
  <2>1. lease \in BOOLEAN /\ deployed \in Deployments /\ override \in Nat
    BY DEF Init
  <2>2. effective \in [Replicas -> Nat \ {0}]
    BY ProberAssumption DEF Init
  <2>3. successes \in [Replicas -> 0..successesPerIncrease - 1] /\ streak \in 0..successesPerIncrease
    BY DEF Init, successesPerIncrease
  <2>4. puts \in 0..MaxPuts /\ faults \in 0..MaxFaults
    BY ProberAssumption DEF Init
  <2>5. \A r \in Replicas : round[r].pc = "idle"
    BY DEF Init, Idle
  <2> QED BY <2>1, <2>2, <2>3, <2>4, <2>5 DEF TypeOK
<1>3. Typed
  BY <1>1, <1>2 DEF Typed, Init, Idle
<1>4. CountEarned
  BY ProberAssumption DEF CountEarned, Init
<1> QED BY <1>3, <1>4 DEF IInv

(***************************************************************************)
(* The lease, and the steps that change a capacity, leave both the count   *)
(* and the streak alone.                                                   *)
(***************************************************************************)
LEMMA LeaseStep ==
  ASSUME IInv,
         LeaseExpires \/ \E r \in Replicas : TryLock(r) \/ TryLockFails(r)
  PROVE  IInv'
<1>1. CASE LeaseExpires
  BY <1>1 DEF LeaseExpires, IInv, Typed, TypeOK, CountEarned, Alone, Running
<1>2. ASSUME NEW r \in Replicas, TryLock(r) PROVE IInv'
  <2>1. round' \in [Replicas -> Rounds]
    BY <1>2 DEF TryLock, IInv, Typed, Rounds
  <2>2. TypeOK'
    <3>1. lease' \in BOOLEAN
      BY <1>2, ProberAssumption DEF TryLock, HasLocker, IInv, Typed, TypeOK
    <3> QED BY <1>2, <3>1 DEF TryLock, IInv, Typed, TypeOK, Rounds
  <2>3. Typed'
    BY <1>2, <2>1, <2>2 DEF TryLock, IInv, Typed, Running
  <2>4. CountEarned'
    BY <1>2 DEF TryLock, IInv, CountEarned, Alone
  <2> QED BY <2>3, <2>4 DEF IInv
<1>3. ASSUME NEW r \in Replicas, TryLockFails(r) PROVE IInv'
  <2>1. lease' \in BOOLEAN
    BY <1>3, Zenon DEF TryLockFails, IInv, Typed, TypeOK
  <2>2. faults' \in 0..MaxFaults
    BY <1>3, ProberAssumption DEF TryLockFails, Fault, IInv, Typed, TypeOK
  <2> QED BY <1>3, <2>1, <2>2
          DEF TryLockFails, IInv, Typed, TypeOK, CountEarned, Alone, Running
<1> QED BY <1>1, <1>2, <1>3

(***************************************************************************)
(* SetCapacity, both halves, and its failure: what they store was clamped. *)
(***************************************************************************)
LEMMA SetStep ==
  ASSUME IInv, NEW r \in Replicas, SetShared(r) \/ SetSharedFails(r) \/ SetLocal(r)
  PROVE  IInv'
<1>1. /\ round[r].next \in ProbeMin..ProbeMax /\ round[r].next \in Nat \ {0}
      /\ round[r].pc # "idle" /\ Running(r)
  BY ProberAssumption DEF SetShared, SetSharedFails, SetLocal, IInv, Typed, TypeOK
<1>2. Idle \in Rounds
  BY DEF Idle, Rounds
<1>3. round' \in [Replicas -> Rounds]
  BY <1>2 DEF SetShared, SetSharedFails, SetLocal, IInv, Typed, Rounds
<1>4. TypeOK'
  <2>1. override' \in Nat /\ effective' \in [Replicas -> Nat \ {0}] /\ faults' \in 0..MaxFaults
    BY <1>1, ProberAssumption DEF SetShared, SetSharedFails, SetLocal, Fault, IInv, Typed, TypeOK
  <2> QED BY <1>1, <2>1 DEF SetShared, SetSharedFails, SetLocal, IInv, Typed, TypeOK, Rounds, Idle
<1>5. Typed'
  BY <1>1, <1>3, <1>4 DEF SetShared, SetSharedFails, SetLocal, IInv, Typed, Running, Idle
<1>6. CountEarned'
  BY DEF SetShared, SetSharedFails, SetLocal, IInv, CountEarned, Alone
<1> QED BY <1>5, <1>6 DEF IInv

(***************************************************************************)
(* The janitor, an operator, and a crash, which forgets the count.         *)
(***************************************************************************)
LEMMA OutsideStep ==
  ASSUME IInv, NEW r \in Replicas,
         Refresh(r) \/ CrashRestart(r) \/ \E n \in PutValues : OperatorPut(r, n)
  PROVE  IInv'
<1>1. Shared \in Nat \ {0}
  BY ProberAssumption DEF Shared, IInv, Typed, TypeOK
<1>2. CASE Refresh(r)
  BY <1>1, <1>2 DEF Refresh, IInv, Typed, TypeOK, CountEarned, Alone, Running
<1>3. ASSUME NEW n \in PutValues, OperatorPut(r, n) PROVE IInv'
  <2>1. n \in Nat \ {0}
    BY ProberAssumption
  <2> QED BY <1>3, <2>1, ProberAssumption
          DEF OperatorPut, IInv, Typed, TypeOK, CountEarned, Alone, Running
<1>4. CASE CrashRestart(r)
  <2>1. Idle \in Rounds /\ Idle.pc = "idle"
    BY DEF Idle, Rounds
  <2>2. TypeOK'
    BY <1>4, <2>1, ProberAssumption
    DEF CrashRestart, Fault, IInv, Typed, TypeOK, successesPerIncrease
  <2>3. Typed'
    BY <1>4, <2>1, <2>2 DEF CrashRestart, IInv, Typed, Running
  <2>4. CountEarned'
    BY <1>4, ProberAssumption DEF CrashRestart, IInv, Typed, TypeOK, CountEarned, Alone,
      successesPerIncrease
  <2> QED BY <2>3, <2>4 DEF IInv
<1> QED BY <1>2, <1>3, <1>4

(***************************************************************************)
(* The probe: a replica counts a good one at most when the streak does,    *)
(* and starts again at least whenever the streak does.                     *)
(***************************************************************************)
LEMMA ProbeStep ==
  ASSUME IInv, NEW r \in Replicas, NEW healthy \in BOOLEAN, Probe(r, healthy)
  PROVE  IInv'
<1> DEFINE next == Target(effective[r], healthy)
           raises == Adjusts(r, healthy) /\ next > effective[r]
<1>1. effective[r] \in Nat /\ successes[r] \in 0..2 /\ streak \in 0..3
  BY DEF IInv, Typed, TypeOK, successesPerIncrease
<1>2. next \in ProbeMin..ProbeMax
  BY <1>1, TargetInBounds
<1> HIDE DEF next
<1>3. /\ round[r].pc = "probe"
      /\ successes' = [successes EXCEPT ![r] = Counted(r, healthy)]
      /\ round' = [round EXCEPT ![r] =
           IF Adjusts(r, healthy) THEN [pc |-> "set", next |-> next, healthy |-> healthy] ELSE Idle]
      /\ streak' = IF ~healthy \/ raises THEN 0 ELSE IF streak = 3 THEN streak ELSE streak + 1
      /\ UNCHANGED <<deployed, override, effective, lease, puts, faults>>
  BY DEF Probe, next, successesPerIncrease
<1>4. Counted(r, healthy) \in 0..2 /\ streak' \in 0..3
  BY <1>1, <1>3 DEF Counted, StreakDone, successesPerIncrease
<1>5. Idle \in Rounds /\ Idle.pc = "idle"
  BY DEF Idle, Rounds
<1>6. round'[r] \in Rounds /\ (round'[r].pc \in {"set", "local"} => round'[r].next \in ProbeMin..ProbeMax)
  <2>1. CASE Adjusts(r, healthy)
    <3>1. round'[r] = [pc |-> "set", next |-> next, healthy |-> healthy]
      BY <1>3, <2>1 DEF IInv, Typed
    <3> QED BY <1>2, <3>1, ProberAssumption DEF Rounds
  <2>2. CASE ~Adjusts(r, healthy)
    <3>1. round'[r] = Idle
      BY <1>3, <2>2 DEF IInv, Typed
    <3> QED BY <1>5, <3>1
  <2> QED BY <2>1, <2>2
<1>7. round' \in [Replicas -> Rounds] /\ \A q \in Replicas : q # r => round'[q] = round[q]
  <2>1. DOMAIN round' = Replicas /\ round' = [q \in Replicas |-> round'[q]]
        /\ \A q \in Replicas : q # r => round'[q] = round[q]
    BY <1>3 DEF IInv, Typed
  <2> QED BY <1>6, <2>1 DEF IInv, Typed
<1>8. TypeOK'
  <2>1. \A q \in Replicas :
          /\ round'[q].pc \in {"idle", "probe", "set", "local"}
          /\ round'[q].pc \in {"set", "local"} => round'[q].next \in ProbeMin..ProbeMax
    BY <1>6, <1>7 DEF IInv, Typed, TypeOK, Rounds
  <2> QED BY <1>3, <1>4, <2>1 DEF IInv, Typed, TypeOK, successesPerIncrease
<1>9. Typed'
  BY <1>3, <1>7, <1>8 DEF IInv, Typed, Running
<1>10. CountEarned'
  <2> SUFFICES ASSUME Alone', NEW q \in deployed.replicas
               PROVE  successes'[q] <= streak'
    BY <1>3 DEF CountEarned
  <2>1. Alone /\ deployed \in Deployments /\ Running(r)
    BY <1>3 DEF Alone, IInv, Typed, TypeOK
  <2>2. q = r
    BY <2>1, AloneIsOne DEF Running
  <2>3. successes[r] <= streak
    BY <2>1, <2>2 DEF IInv, CountEarned
  <2>4. successes'[r] = Counted(r, healthy)
    BY <1>3 DEF IInv, Typed, TypeOK
  <2>5. CASE healthy /\ ~StreakDone(r)
    <3>1. ~raises
      BY <2>5 DEF Adjusts
    <3>2. streak' = IF streak = 3 THEN streak ELSE streak + 1
      BY <1>3, <2>5, <3>1
    <3>3. successes'[r] = successes[r] + 1 /\ successes[r] + 1 < 3
      BY <1>1, <2>4, <2>5 DEF Counted, StreakDone, successesPerIncrease
    <3> QED BY <1>1, <2>2, <2>3, <3>2, <3>3
  <2>6. CASE ~(healthy /\ ~StreakDone(r))
    BY <1>4, <2>2, <2>4, <2>6 DEF Counted
  <2> QED BY <2>5, <2>6
<1> QED BY <1>9, <1>10 DEF IInv

(***************************************************************************)
(* Every step.                                                             *)
(***************************************************************************)
LEMMA NextIInv == IInv /\ [Next]_vars => IInv'
<1> SUFFICES ASSUME IInv, [Next]_vars PROVE IInv'
  OBVIOUS
<1>1. CASE UNCHANGED vars
  BY <1>1 DEF vars, IInv, Typed, TypeOK, CountEarned, Alone, Running
<1>2. CASE Next
  BY <1>2, LeaseStep, SetStep, OutsideStep, ProbeStep DEF Next
<1> QED BY <1>1, <1>2

(***************************************************************************)
(* The inductive invariant.                                                *)
(***************************************************************************)
THEOREM ProberInvariant == Spec => []IInv
BY InitIInv, NextIInv, PTL DEF Spec

(***************************************************************************)
(* Type correctness: p.successes stays below successesPerIncrease, a round *)
(* stores only what lies in [Min, Max], and the capacity in use is at      *)
(* least 1.                                                                *)
(***************************************************************************)
THEOREM TypeCorrect == Spec => []TypeOK
<1>1. IInv => TypeOK
  BY DEF IInv, Typed
<1> QED BY <1>1, ProberInvariant, PTL

(***************************************************************************)
(* A lone replica increases the capacity only after three consecutive      *)
(* healthy probes.                                                         *)
(***************************************************************************)
THEOREM IncreasesEarned == Spec => IncreaseEarned
<1> DEFINE Earned == \A r \in Replicas :
       (Alone /\ round[r].pc = "probe" /\ round'[r].pc = "set" /\ round'[r].healthy
          /\ round'[r].next > effective[r])
       => streak + 1 >= successesPerIncrease
<1>1. IInv /\ [Next]_vars => [Earned]_vars
  <2> SUFFICES ASSUME IInv, Next, NEW r \in Replicas, Alone,
                      round[r].pc = "probe", round'[r].pc = "set", round'[r].healthy
               PROVE  streak + 1 >= successesPerIncrease
    OBVIOUS
  <2>1. \E healthy \in BOOLEAN : Probe(r, healthy)
    <3> USE DEF IInv, Typed
    <3>1. ~LeaseExpires
      BY DEF LeaseExpires
    <3>2. ASSUME NEW q \in Replicas PROVE ~TryLock(q) /\ ~TryLockFails(q)
      BY DEF TryLock, TryLockFails, Idle
    <3>3. ASSUME NEW q \in Replicas PROVE ~SetShared(q) /\ ~SetSharedFails(q) /\ ~SetLocal(q)
      BY DEF SetShared, SetSharedFails, SetLocal, Idle
    <3>4. ASSUME NEW q \in Replicas PROVE ~Refresh(q) /\ ~CrashRestart(q)
      BY DEF Refresh, CrashRestart, Idle
    <3>5. ASSUME NEW q \in Replicas, NEW n \in PutValues PROVE ~OperatorPut(q, n)
      BY DEF OperatorPut
    <3>6. PICK q \in Replicas, healthy \in BOOLEAN : Probe(q, healthy)
      BY <3>1, <3>2, <3>3, <3>4, <3>5, Zenon DEF Next
    <3>7. q = r
      BY <3>6 DEF Probe
    <3> QED BY <3>6, <3>7
  <2>2. PICK healthy \in BOOLEAN : Probe(r, healthy)
    BY <2>1
  <2>3. healthy /\ Adjusts(r, healthy)
    BY <2>2 DEF Probe, IInv, Typed, Idle
  <2>4. StreakDone(r) /\ Running(r) /\ deployed \in Deployments
    BY <2>3 DEF Adjusts, IInv, Typed, TypeOK
  <2>5. successes[r] <= streak
    BY <2>4 DEF IInv, CountEarned, Running
  <2> QED BY <2>4, <2>5 DEF StreakDone, successesPerIncrease, IInv, Typed, TypeOK
<1> QED BY <1>1, ProberInvariant, PTL DEF Spec, IncreaseEarned
=============================================================================
