------------------------------- MODULE Prober -------------------------------
(***************************************************************************)
(* internal/prober/prober.go: the replicas adjust the shared capacity from *)
(* the backend's health, halving it when a probe fails and adding one      *)
(* after a streak of good ones.  A lease in the store (TryLock of          *)
(* valkeystore.go) is to pick one replica per interval; it cannot be       *)
(* released, only expire.                                                  *)
(*                                                                         *)
(* Time is left out: nothing bounds a round's last store call, the probe   *)
(* may take a whole interval and so does the lease, so the lease may       *)
(* expire at any point of a round.  refreshCapacity and an operator's PUT  *)
(* are one step each here; how they interleave inside is CapacityChannel.  *)
(***************************************************************************)
EXTENDS Integers, FiniteSets

CONSTANTS
  Replicas,
  Deployments, \* [replicas, valkey]: who runs, and on which store
  ProbeMin, ProbeMax,
  Configured,  \* the -capacity flag
  PutValues,   \* capacities operators ask for
  MaxPuts,     \* bound: their requests
  MaxFaults    \* bound: crashes and failed store calls

ASSUME ProberAssumption ==
  /\ IsFiniteSet(Replicas)
  /\ Deployments \subseteq [replicas : SUBSET Replicas, valkey : BOOLEAN]
  /\ \A d \in Deployments : d.valkey \/ Cardinality(d.replicas) = 1
  /\ ProbeMin \in Nat \ {0} /\ ProbeMax \in Nat /\ ProbeMin <= ProbeMax  \* config.Validate
  /\ Configured \in Nat \ {0}
  /\ PutValues \subseteq Nat \ {0}
  /\ MaxPuts \in Nat /\ MaxFaults \in Nat

VARIABLES
  deployed,   \* the deployment
  override,   \* the capacity key; 0 when absent
  effective,  \* c.capacity of each replica
  lease,      \* does the lock key exist?
  round,      \* the adjustment each replica's prober is making
  successes,  \* p.successes of each replica
  streak,     \* history: good probes since the last bad one or the last
              \* increase, whoever probed, up to successesPerIncrease
  puts, faults

vars == <<deployed, override, effective, lease, round, successes, streak, puts, faults>>

successesPerIncrease == 3

Idle == [pc |-> "idle", next |-> 0, healthy |-> FALSE]

Init ==
  /\ deployed \in Deployments
  /\ override = 0
  /\ effective = [r \in Replicas |-> Configured]
  /\ lease = FALSE
  /\ round = [r \in Replicas |-> Idle]
  /\ successes = [r \in Replicas |-> 0]
  /\ streak = 0
  /\ puts = 0
  /\ faults = 0

(***************************************************************************)
(* The capacity the store stands for.                                      *)
(***************************************************************************)
Shared == IF override >= 1 THEN override ELSE Configured

HasLocker == deployed.valkey  \* the memory store has none, and no error path

Running(r) == r \in deployed.replicas

Fault == faults < MaxFaults /\ faults' = faults + 1

-----------------------------------------------------------------------------
(* The lease *)

TryLock(r) ==  \* a denied one ends the round at once and changes nothing
  /\ Running(r) /\ round[r] = Idle
  /\ HasLocker => ~lease
  /\ lease' = HasLocker
  /\ round' = [round EXCEPT ![r].pc = "probe"]
  /\ UNCHANGED <<deployed, override, effective, successes, streak, puts, faults>>

TryLockFails(r) ==  \* possibly after the key was set
  /\ HasLocker
  /\ Running(r) /\ round[r] = Idle
  /\ Fault
  /\ lease' \in {lease, TRUE}
  /\ UNCHANGED <<deployed, override, effective, round, successes, streak, puts>>

\* Mutant: the key is set without an expiry.
LeaseStays ==
  /\ lease
  /\ UNCHANGED vars

LeaseExpires ==  \* PX; there is no unlock
  /\ lease
  /\ lease' = FALSE
  /\ UNCHANGED <<deployed, override, effective, round, successes, streak, puts, faults>>

-----------------------------------------------------------------------------
(* adjust *)

Clamped(n) == IF n < ProbeMin THEN ProbeMin ELSE IF n > ProbeMax THEN ProbeMax ELSE n

Target(cur, healthy) == Clamped(IF healthy THEN cur + 1 ELSE cur \div 2)

StreakDone(r) == successes[r] + 1 >= successesPerIncrease

\* Mutant: an increase does not start the streak again.
NeverReset(r, healthy) == IF healthy THEN successes[r] + 1 ELSE 0

\* Mutant: a failed probe does not start the streak again.
KeptOnFailure(r, healthy) ==
  IF ~healthy THEN successes[r] ELSE IF StreakDone(r) THEN 0 ELSE successes[r] + 1

Counted(r, healthy) == IF healthy /\ ~StreakDone(r) THEN successes[r] + 1 ELSE 0

\* Mutant: a good probe at or above the ceiling ends the round early.
AdjustsBelowMax(r, healthy) ==
  /\ healthy => StreakDone(r) /\ effective[r] < ProbeMax
  /\ Target(effective[r], healthy) # effective[r]

Adjusts(r, healthy) ==
  /\ healthy => StreakDone(r)
  /\ Target(effective[r], healthy) # effective[r]

(***************************************************************************)
(* The probe is answered (or times out, which is unhealthy) and the local  *)
(* copy of the capacity is read, the two being one step: nothing of the    *)
(* replica's state is read before the answer.                              *)
(***************************************************************************)
Probe(r, healthy) ==
  LET next   == Target(effective[r], healthy)
      raises == Adjusts(r, healthy) /\ next > effective[r]
  IN
  /\ round[r].pc = "probe"
  /\ successes' = [successes EXCEPT ![r] = Counted(r, healthy)]
  /\ round' = [round EXCEPT ![r] =
       IF Adjusts(r, healthy) THEN [pc |-> "set", next |-> next, healthy |-> healthy] ELSE Idle]
  /\ streak' = IF ~healthy \/ raises THEN 0
               ELSE IF streak = successesPerIncrease THEN streak ELSE streak + 1
  /\ UNCHANGED <<deployed, override, effective, lease, puts, faults>>

SetShared(r) ==  \* SetCapacity, the store
  /\ round[r].pc = "set"
  /\ override' = round[r].next
  /\ round' = [round EXCEPT ![r].pc = "local"]
  /\ UNCHANGED <<deployed, effective, lease, successes, streak, puts, faults>>

SetSharedFails(r) ==  \* possibly after the key was set; nothing is retried
  /\ HasLocker
  /\ round[r].pc = "set"
  /\ Fault
  /\ override' \in {override, round[r].next}
  /\ round' = [round EXCEPT ![r] = Idle]
  /\ UNCHANGED <<deployed, effective, lease, successes, streak, puts>>

SetLocal(r) ==  \* SetCapacity, the local copy
  /\ round[r].pc = "local"
  /\ effective' = [effective EXCEPT ![r] = round[r].next]
  /\ round' = [round EXCEPT ![r] = Idle]
  /\ UNCHANGED <<deployed, override, lease, successes, streak, puts, faults>>

-----------------------------------------------------------------------------
(* The rest of the capacity channel, and crashes *)

Refresh(r) ==  \* the janitor's refreshCapacity
  /\ Running(r)
  /\ effective' = [effective EXCEPT ![r] = Shared]
  /\ UNCHANGED <<deployed, override, lease, round, successes, streak, puts, faults>>

OperatorPut(r, n) ==  \* PUT /admin/capacity: SetCapacity, both halves
  /\ Running(r) /\ puts < MaxPuts
  /\ puts' = puts + 1
  /\ override' = n
  /\ effective' = [effective EXCEPT ![r] = n]
  /\ UNCHANGED <<deployed, lease, round, successes, streak, faults>>

CrashRestart(r) ==  \* the lease and, in Valkey, the override survive
  /\ Running(r) /\ Fault
  /\ override' = IF HasLocker THEN override ELSE 0
  /\ effective' = [effective EXCEPT ![r] = Configured]
  /\ round' = [round EXCEPT ![r] = Idle]
  /\ successes' = [successes EXCEPT ![r] = 0]
  /\ UNCHANGED <<deployed, lease, streak, puts>>

Next ==
  \/ LeaseExpires
  \/ \E r \in Replicas :
       \/ TryLock(r)
       \/ TryLockFails(r)
       \/ \E healthy \in BOOLEAN : Probe(r, healthy)
       \/ SetShared(r)
       \/ SetSharedFails(r)
       \/ SetLocal(r)
       \/ Refresh(r)
       \/ \E n \in PutValues : OperatorPut(r, n)
       \/ CrashRestart(r)

(***************************************************************************)
(* The tickers of Run and of the janitor fire for ever, calls return       *)
(* (http.Client.Timeout bounds the probe) and Valkey expires keys.  Which  *)
(* replica wins the lease is anyone's guess, so one of them may always     *)
(* lose; so is the backend's health.                                       *)
(***************************************************************************)
Fairness ==
  /\ WF_vars(LeaseExpires)
  /\ WF_vars(\E r \in Replicas : TryLock(r))
  /\ \A r \in Replicas :
       /\ WF_vars(\E healthy \in BOOLEAN : Probe(r, healthy))
       /\ WF_vars(SetShared(r))
       /\ WF_vars(SetLocal(r))
       /\ WF_vars(Refresh(r))

Spec == Init /\ [][Next]_vars /\ Fairness

-----------------------------------------------------------------------------
(* Properties *)

(***************************************************************************)
(* The type invariant; p.successes never reaches successesPerIncrease      *)
(* between two rounds, and what a round is about to store is in bounds.    *)
(***************************************************************************)
TypeOK ==
  /\ deployed \in Deployments
  /\ override \in Nat
  /\ effective \in [Replicas -> Nat \ {0}]
  /\ lease \in BOOLEAN
  /\ successes \in [Replicas -> 0..successesPerIncrease - 1]
  /\ streak \in 0..successesPerIncrease
  /\ puts \in 0..MaxPuts /\ faults \in 0..MaxFaults
  /\ \A r \in Replicas :
       /\ round[r].pc \in {"idle", "probe", "set", "local"}
       /\ round[r].pc \in {"set", "local"} => round[r].next \in ProbeMin..ProbeMax

(***************************************************************************)
(* The flag, an operator's PUT and a restart may each put the capacity     *)
(* outside [Min, Max], but once they stop every replica comes back within  *)
(* the bounds for good, whatever the backend's health (the clamp of        *)
(* adjust, prober.go:125-130).                                             *)
(***************************************************************************)
BoundsRegained == <>[](\A r \in deployed.replicas : effective[r] \in ProbeMin..ProbeMax)

(***************************************************************************)
(* The backend is probed for ever: a replica that crashes with the lease,  *)
(* or fails to hear that it has it, stalls the work for one ttl            *)
(* (store.go:94-96), not for good.                                         *)
(***************************************************************************)
ProbingContinues == []<>(\E r \in Replicas : round[r].pc = "probe")

(***************************************************************************)
(* With several replicas each counts its own successes.                    *)
(***************************************************************************)
Alone == Cardinality(deployed.replicas) = 1

(***************************************************************************)
(* A replica that is alone increases the capacity only after three         *)
(* consecutive healthy probes of the backend, none of them before the last *)
(* failure or increase (prober.go:2, successesPerIncrease).                *)
(***************************************************************************)
IncreaseEarned ==
  [][\A r \in Replicas :
       (Alone /\ round[r].pc = "probe" /\ round'[r].pc = "set" /\ round'[r].healthy
          /\ round'[r].next > effective[r])
       => streak + 1 >= successesPerIncrease]_vars
=============================================================================
