-------------------------- MODULE CapacityChannel --------------------------
(***************************************************************************)
(* How a capacity set at run time reaches every replica: SetCapacity,      *)
(* refreshCapacity and Run of internal/queue/controller.go, the start-up   *)
(* order of cmd/gowait/main.go, and the capacity key of the shared store.  *)
(*                                                                         *)
(* SetCapacity writes the store first and the replica's own copy second;   *)
(* the janitor reads the store first and writes the copy second.  Each of  *)
(* the four is a step, and they interleave; so is the arrival of a PUT,    *)
(* which may be handled when its server has stopped listening already.     *)
(***************************************************************************)
EXTENDS Integers, FiniteSets

CONSTANTS
  Replicas,
  Writers,     \* handlers of PUT /gowait/admin/capacity
  Host,        \* the replica each of them runs on
  Values,      \* capacities operators ask for
  Configured,  \* the -capacity flag of each replica
  MaxWrites,   \* bound: changes of the key, made or asked for
  MaxFaults    \* bound: crashes, shutdowns and failed store calls

ASSUME ChannelAssumption ==
  /\ IsFiniteSet(Replicas) /\ IsFiniteSet(Writers)
  /\ Host \in [Writers -> Replicas]
  /\ Values \subseteq Nat
  /\ Configured \in [Replicas -> Nat \ {0}]  \* config.Validate
  /\ MaxWrites \in Nat /\ MaxFaults \in Nat

VARIABLES
  override,   \* the key; Absent, or Unreadable when it holds no number
  effective,  \* c.capacity of each replica
  janitor,    \* what each replica's Run is doing
  serving,    \* replicas whose HTTP server listens
  put,        \* what each writer is doing
  writes, faults,
  settled     \* replicas that went through a refresh since the key last changed

vars == <<override, effective, janitor, serving, put, writes, faults, settled>>

Absent == -1       \* GetCapacity returns set = false

Unreadable == -2   \* GetCapacity returns an error

NoPut == [pc |-> "idle", n |-> 0]

Down == [pc |-> "down", got |-> 0, current |-> FALSE]

Up(r) == janitor[r].pc # "down"

Init ==
  /\ override \in Values \cup {Absent}  \* Valkey keeps the key across restarts
  /\ effective = Configured
  /\ janitor = [r \in Replicas |-> Down]
  /\ serving = {}
  /\ put = [w \in Writers |-> NoPut]
  /\ writes = 0
  /\ faults = 0
  /\ settled = {}

-----------------------------------------------------------------------------
(* Life of a replica *)

Start(r) ==  \* queue.New, go ctrl.Run
  /\ ~Up(r)
  /\ effective' = [effective EXCEPT ![r] = Configured[r]]
  /\ janitor' = [janitor EXCEPT ![r] = [pc |-> "get", got |-> 0, current |-> TRUE]]
  /\ UNCHANGED <<override, serving, put, writes, faults, settled>>

Listen(r) ==  \* ListenAndServe does not wait for Run
  /\ janitor[r].pc \in {"get", "store"}
  /\ r \notin serving
  /\ serving' = serving \cup {r}
  /\ UNCHANGED <<override, effective, janitor, put, writes, faults, settled>>

(***************************************************************************)
(* SIGTERM: Run returns, the refresh under way fails with its context, the *)
(* server stops listening.  The PUTs under way go on until the process     *)
(* exits, which is when they are answered or ten seconds later.            *)
(***************************************************************************)
Shutdown(r) ==
  /\ janitor[r].pc \in {"get", "store"}
  /\ faults < MaxFaults
  /\ faults' = faults + 1
  /\ janitor' = [janitor EXCEPT ![r] = [Down EXCEPT !.pc = "draining"]]
  /\ serving' = serving \ {r}
  /\ settled' = settled \ {r}
  /\ UNCHANGED <<override, effective, put, writes>>

Exit(r) ==
  /\ janitor[r].pc = "draining"
  /\ janitor' = [janitor EXCEPT ![r] = Down]
  /\ put' = [w \in Writers |-> IF Host[w] = r THEN NoPut ELSE put[w]]
  /\ UNCHANGED <<override, effective, serving, writes, faults, settled>>

Crash(r) ==
  /\ Up(r)
  /\ faults < MaxFaults
  /\ faults' = faults + 1
  /\ janitor' = [janitor EXCEPT ![r] = Down]
  /\ serving' = serving \ {r}
  /\ put' = [w \in Writers |-> IF Host[w] = r THEN NoPut ELSE put[w]]
  /\ settled' = settled \ {r}
  /\ UNCHANGED <<override, effective, writes>>

-----------------------------------------------------------------------------
(* SetCapacity *)

\* Mutant: the value is added to the key.
WriteDelta(v) ==
  /\ writes < MaxWrites
  /\ writes' = writes + 1
  /\ override' = override + v
  /\ settled' = {}
  /\ janitor' = [r \in Replicas |-> [janitor[r] EXCEPT !.current = FALSE]]

(***************************************************************************)
(* The key changes: what anybody read of it before is out of date.         *)
(***************************************************************************)
Write(v) ==
  /\ writes < MaxWrites
  /\ writes' = writes + 1
  /\ override' = v
  /\ settled' = {}
  /\ janitor' = [r \in Replicas |-> [janitor[r] EXCEPT !.current = FALSE]]

PutArrives(w, n) ==  \* one below 1 is refused
  /\ Host[w] \in serving
  /\ put[w] = NoPut
  /\ n >= 1
  /\ writes + Cardinality({v \in Writers : put[v].pc = "store"}) < MaxWrites
  /\ put' = [put EXCEPT ![w] = [pc |-> "store", n |-> n]]
  /\ UNCHANGED <<override, effective, janitor, serving, writes, faults, settled>>

Put(w) ==
  /\ put[w].pc = "store"
  /\ Write(put[w].n)
  /\ put' = [put EXCEPT ![w].pc = "local"]
  /\ UNCHANGED <<effective, serving, faults>>

PutFails(w) ==  \* the caller sees an error, whether the key was written or not
  /\ put[w].pc = "store"
  /\ faults < MaxFaults
  /\ faults' = faults + 1
  /\ Write(put[w].n) \/ UNCHANGED <<override, janitor, writes, settled>>
  /\ put' = [put EXCEPT ![w] = NoPut]
  /\ UNCHANGED <<effective, serving>>

PutLocal(w) ==
  LET r == Host[w] IN
  /\ put[w].pc = "local"
  /\ effective' = [effective EXCEPT ![r] = put[w].n]
  /\ put' = [put EXCEPT ![w] = NoPut]
  /\ UNCHANGED <<override, janitor, serving, writes, faults, settled>>

KeyChanged ==  \* by hand: deleted, or set to what SetCapacity would refuse
  /\ \E v \in {Absent, Unreadable, 0} : v # override /\ Write(v)
  /\ UNCHANGED <<effective, serving, put, faults>>

-----------------------------------------------------------------------------
(* refreshCapacity *)

(***************************************************************************)
(* GetCapacity, on start and on every tick.  A refresh is current when the *)
(* key has not changed since it began.                                     *)
(***************************************************************************)
Refresh(r) ==
  /\ janitor[r].pc = "get"
  /\ \/ janitor' = [janitor EXCEPT ![r].got = override, ![r].pc = "store"] /\ UNCHANGED faults
     \/ /\ faults < MaxFaults
        /\ faults' = faults + 1
        /\ janitor' = [janitor EXCEPT ![r].got = Unreadable, ![r].pc = "store"]
  /\ UNCHANGED <<override, effective, serving, put, writes, settled>>

\* Mutants: an error restores the flag; whatever number the key holds is taken; an
\* absent key changes nothing.
AdoptedOnError(r) == IF janitor[r].got >= 1 THEN janitor[r].got ELSE Configured[r]
AdoptedUnchecked(r) ==
  CASE janitor[r].got = Unreadable -> effective[r]
    [] janitor[r].got = Absent -> Configured[r]
    [] OTHER -> janitor[r].got
AdoptedOrKept(r) == IF janitor[r].got >= 1 THEN janitor[r].got ELSE effective[r]

(***************************************************************************)
(* An error keeps the current value; no override, or one below 1, restores *)
(* the configured one.                                                     *)
(***************************************************************************)
Adopted(r) ==
  CASE janitor[r].got = Unreadable -> effective[r]
    [] janitor[r].got >= 1 -> janitor[r].got
    [] OTHER -> Configured[r]

Adopt(r) ==
  /\ janitor[r].pc = "store"
  /\ effective' = [effective EXCEPT ![r] = Adopted(r)]
  /\ janitor' = [janitor EXCEPT ![r].got = 0, ![r].pc = "get", ![r].current = TRUE]
  /\ settled' = IF /\ janitor[r].current /\ janitor[r].got # Unreadable
                   /\ \A w \in Writers : Host[w] = r => put[w].pc # "local"
                THEN settled \cup {r} ELSE settled
  /\ UNCHANGED <<override, serving, put, writes, faults>>

Next ==
  \/ \E r \in Replicas :
       \/ Start(r) \/ Listen(r) \/ Shutdown(r) \/ Exit(r) \/ Crash(r)
       \/ Refresh(r) \/ Adopt(r)
  \/ \E w \in Writers : Put(w) \/ PutFails(w) \/ PutLocal(w) \/ \E n \in Values : PutArrives(w, n)
  \/ KeyChanged

(***************************************************************************)
(* A supervisor restarts a replica, the ticker keeps firing and the        *)
(* goroutine of a PUT runs on: Go's scheduler is fair to all of them.      *)
(***************************************************************************)
Fairness ==
  /\ \A r \in Replicas :
       /\ WF_vars(Start(r)) /\ WF_vars(Exit(r))
       /\ WF_vars(Refresh(r)) /\ WF_vars(Adopt(r))
  /\ \A w \in Writers : WF_vars(PutLocal(w))

Spec == Init /\ [][Next]_vars /\ Fairness

-----------------------------------------------------------------------------
(* Properties *)

TypeOK ==
  /\ override \in Values \cup {Absent, Unreadable, 0}
  /\ effective \in [Replicas -> Int]
  /\ \A r \in Replicas : janitor[r].pc \in {"down", "get", "store", "draining"}
  /\ \A w \in Writers : put[w] # NoPut => put[w].n \in Values /\ Up(Host[w])
  /\ serving \subseteq {r \in Replicas : Up(r)}
  /\ writes \in 0..MaxWrites
  /\ faults \in 0..MaxFaults

(***************************************************************************)
(* The capacity in use is at least 1 whatever the key holds and whatever   *)
(* fails: eta divides by it (controller.go:268) and a room of none would   *)
(* admit nobody.                                                           *)
(***************************************************************************)
CapacityUsable == \A r \in Replicas : effective[r] >= 1

(***************************************************************************)
(* What a replica should be using.                                         *)
(***************************************************************************)
Wanted(r) == IF override >= 1 THEN override ELSE Configured[r]

(***************************************************************************)
(* A replica that went through one whole refresh since the key last        *)
(* changed, with no PUT of its own half done, uses the override, and keeps *)
(* it through failed refreshes ("Store unreachable: keep the current       *)
(* value", controller.go:116).                                             *)
(***************************************************************************)
OverrideAdopted == \A r \in settled : effective[r] = Wanted(r)

(***************************************************************************)
(* Once the key stops changing and replicas stop failing, every replica    *)
(* ends up using the override, or its own flag when there is none, and     *)
(* stays with it ("every replica adopts within about a second").           *)
(***************************************************************************)
Converges ==
  <>[](override # Unreadable => \A r \in Replicas : effective[r] = Wanted(r))
=============================================================================
