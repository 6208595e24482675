----------------------------- MODULE Admission -----------------------------
(***************************************************************************)
(* internal/queue/controller.go: the requests of one replica, and its      *)
(* janitor, running concurrently against the store.  Each call to the      *)
(* store and each access to the reconcile gate is a step of its own; the   *)
(* clock is read once, when a request arrives, and that reading travels    *)
(* with the request however long it is delayed.  The store is its contract *)
(* (WaitingRoom), which both implementations refine.                       *)
(***************************************************************************)
EXTENDS WaitingRoom

CONSTANTS
  Requests,     \* goroutines serving requests
  Janitor,      \* the goroutine of Run
  Gap,          \* MinReconcileGap
  MaxStall,     \* assumption: no request is in flight longer than this
  MaxNow,       \* bound on the clock
  MaxFailures,  \* bound on the number of store calls that fail (the Valkey store's may)
  MaxRequests   \* bound on the number of requests, the operator's included, and janitor ticks

ASSUME AdmissionAssumption ==
  /\ IsFiniteSet(Requests)
  /\ Janitor \notin Requests
  /\ {Gap, MaxStall, MaxNow, MaxFailures, MaxRequests} \subseteq Nat
  /\ Times = 0..MaxNow

VARIABLES
  clock,          \* time.Now of this process
  capacity,       \* c.capacity
  lastReconcile,  \* c.lastReconcile
  req,            \* what each goroutine is doing
  reply,          \* the answer given by the last step, if any
  requests,       \* requests and janitor ticks so far (bound)
  drift,          \* history: per ticket, admissions the metrics were told of
                  \* less admissions that happened
  overlaps,       \* history: per ticket, requests that came while another one was in flight
  failures,       \* history: store calls that failed
  newest,         \* history: newest heartbeat ever stored for each known ticket
  winner          \* history: clock reading of the last request to win the gate

controller == <<clock, capacity, lastReconcile, req, reply, requests>>
history == <<drift, overlaps, failures, winner>>
vars == <<room, controller, history, newest>>

Goroutines == Requests \cup {Janitor}

Idle == [pc |-> "idle"]

NoReply == [decision |-> "none"]

Never == -1 - Gap  \* lastReconcile is 0, decades before any clock reading

Busy == {g \in Goroutines : req[g] # Idle}

At(g, pc) == req[g].pc = pc

(***************************************************************************)
(* A goroutine goes on, and is done with what it loaded for its last step. *)
(***************************************************************************)
Goto(g, pc) == req' = [req EXCEPT ![g].pc = pc, ![g].cap = 0, ![g].last = 0]

Init ==
  /\ RoomInit
  /\ clock = 0
  /\ capacity \in Capacities
  /\ lastReconcile = Never
  /\ req = [g \in Goroutines |-> Idle]
  /\ reply = NoReply
  /\ requests = 0
  /\ drift = [id \in Ids |-> 0]
  /\ overlaps = [id \in Ids |-> 0]
  /\ failures = 0
  /\ newest = seen
  /\ winner = Never

(***************************************************************************)
(* A goroutine returns: it answers the client, or drops an error.          *)
(***************************************************************************)
Return(g, decision) ==
  /\ req' = [req EXCEPT ![g] = Idle]
  /\ reply' = IF g = Janitor THEN NoReply
              ELSE [decision |-> decision, kind |-> req[g].kind, id |-> req[g].id]

Silent == reply' = NoReply

(***************************************************************************)
(* History: in this step the metrics are told of one admission for every   *)
(* entry of `observed`.                                                    *)
(***************************************************************************)
Observe(observed) ==
  drift' = [id \in Ids |-> drift[id] + Cardinality({i \in DOMAIN observed : observed[i] = id})
                                     - Cardinality({id} \cap (inside' \ inside))]

-----------------------------------------------------------------------------
(* Beginnings *)

Began(kind, id, pc) ==
  [pc |-> pc, kind |-> kind, id |-> id, now |-> clock, cap |-> 0, last |-> 0]

InFlight(id) == {g \in Requests \cap Busy : req[g].id = id}

Arrive(g, kind, id) ==  \* Check, StatusOf
  /\ req[g] = Idle
  /\ requests < MaxRequests
  /\ requests' = requests + 1
  /\ req' = [req EXCEPT ![g] = Began(kind, id, IF Gap > 0 THEN "load" ELSE "mark")]
  /\ overlaps' = [overlaps EXCEPT ![id] = @ + IF InFlight(id) = {} THEN 0 ELSE 1]
  /\ Silent
  /\ UNCHANGED <<room, clock, capacity, lastReconcile, drift, failures, winner>>

JanitorTick ==  \* Run; its refreshCapacity is CapacityChanges
  /\ req[Janitor] = Idle
  /\ requests < MaxRequests
  /\ requests' = requests + 1
  /\ req' = [req EXCEPT ![Janitor] = Began("janitor", "nobody", "mark")]
  /\ Silent
  /\ UNCHANGED <<room, clock, capacity, lastReconcile, history>>

-----------------------------------------------------------------------------
(* maybeReconcile, reconcile *)

GateOpen(g) == req[g].now - lastReconcile >= Gap

LoadGate(g) ==
  /\ At(g, "load")
  /\ IF GateOpen(g) THEN req' = [req EXCEPT ![g].pc = "cas", ![g].last = lastReconcile]
                    ELSE Goto(g, "lookup")
  /\ Silent
  /\ UNCHANGED <<room, clock, capacity, lastReconcile, requests, history>>

\* Mutant: a plain store, which everyone wins.
SwapAnyway(g) ==
  /\ At(g, "cas")
  /\ lastReconcile' = req[g].now
  /\ winner' = req[g].now
  /\ Goto(g, "mark")
  /\ Silent
  /\ UNCHANGED <<room, clock, capacity, requests, drift, overlaps, failures>>

CompareAndSwap(g) ==
  /\ At(g, "cas")
  /\ IF lastReconcile = req[g].last
       THEN /\ lastReconcile' = req[g].now
            /\ winner' = req[g].now
            /\ Goto(g, "mark")
       ELSE /\ Goto(g, "lookup")
            /\ UNCHANGED <<lastReconcile, winner>>
  /\ Silent
  /\ UNCHANGED <<room, clock, capacity, requests, drift, overlaps, failures>>

Mark(g) ==
  /\ At(g, "mark")
  /\ lastReconcile' = req[g].now
  /\ Goto(g, "capReconcile")
  /\ Silent
  /\ UNCHANGED <<room, clock, capacity, requests, history>>

(***************************************************************************)
(* Capacity() is loaded just before each store call that takes it.         *)
(***************************************************************************)
CallAfterLoad == [capReconcile |-> "reconcile", capTryAdmit |-> "tryadmit"]

LoadCapacity(g) ==
  /\ req[g].pc \in DOMAIN CallAfterLoad
  /\ req' = [req EXCEPT ![g].cap = capacity, ![g].pc = CallAfterLoad[req[g].pc]]
  /\ Silent
  /\ UNCHANGED <<room, clock, capacity, lastReconcile, requests, history>>

\* Mutant: the promotions are not observed.
ReconcileUnobserved(g) ==
  /\ At(g, "reconcile")
  /\ Reconcile(req[g].cap, req[g].now)
  /\ Observe(<<>>)
  /\ IF g = Janitor THEN Return(g, "none") ELSE Goto(g, "lookup") /\ Silent
  /\ UNCHANGED <<clock, capacity, lastReconcile, requests, overlaps, failures, winner>>

(***************************************************************************)
(* The store's answer lists a wait for each ticket it promoted, and each   *)
(* is observed.                                                            *)
(***************************************************************************)
CallReconcile(g) ==
  /\ At(g, "reconcile")
  /\ Reconcile(req[g].cap, req[g].now)
  /\ \E waited \in WaitedSecs(req[g].cap, req[g].now) : Observe(waited)
  /\ IF g = Janitor THEN Return(g, "none") ELSE Goto(g, "lookup") /\ Silent
  /\ UNCHANGED <<clock, capacity, lastReconcile, requests, overlaps, failures, winner>>

-----------------------------------------------------------------------------
(* Check and StatusOf, after the gate *)

(***************************************************************************)
(* StatusOf says "active" to an unknown ticket when a request would be     *)
(* admitted right now, and never enqueues it.  It loads the capacity after *)
(* Lookup, when it may have any value.                                     *)
(***************************************************************************)
StatusDecision(id, cap) ==
  IF id \in Waiting(line) \/ ~Admissible(id, cap) THEN "wait" ELSE "proxy"

CallLookup(g) ==
  LET id == req[g].id IN
  /\ At(g, "lookup")
  /\ Lookup(id, req[g].now)
  /\ \/ req[g].kind = "status" /\ \E cap \in Capacities : Return(g, StatusDecision(id, cap))
     \/ req[g].kind = "check" /\ id \in Waiting(line) /\ Return(g, "wait")
     \/ req[g].kind = "check" /\ id \in inside /\ Goto(g, "touch") /\ Silent
     \/ req[g].kind = "check" /\ id \notin Known /\ Goto(g, "capTryAdmit") /\ Silent
  /\ UNCHANGED <<clock, capacity, lastReconcile, requests, history>>

CallTouch(g) ==  \* the verdict of Touch is ignored
  /\ At(g, "touch")
  /\ Touch(req[g].id, req[g].now)
  /\ Return(g, "proxy")
  /\ UNCHANGED <<clock, capacity, lastReconcile, requests, history>>

\* Mutant: a refused ticket is told to wait and not enqueued.
TryAdmitNoEnqueue(g) ==
  /\ At(g, "tryadmit")
  /\ TryAdmit(req[g].id, req[g].cap, req[g].now)
  /\ IF Admissible(req[g].id, req[g].cap)
       THEN Return(g, "proxy") /\ Observe(<<req[g].id>>)
       ELSE Return(g, "wait") /\ UNCHANGED drift
  /\ UNCHANGED <<clock, capacity, lastReconcile, requests, overlaps, failures, winner>>

CallTryAdmit(g) ==
  /\ At(g, "tryadmit")
  /\ TryAdmit(req[g].id, req[g].cap, req[g].now)
  /\ IF Admissible(req[g].id, req[g].cap)
       THEN Return(g, "proxy") /\ Observe(<<req[g].id>>)  \* ObserveAdmission(0)
       ELSE Goto(g, "enqueue") /\ Silent /\ UNCHANGED drift
  /\ UNCHANGED <<clock, capacity, lastReconcile, requests, overlaps, failures, winner>>

CallEnqueue(g) ==
  /\ At(g, "enqueue")
  /\ Enqueue(req[g].id, req[g].now)
  /\ Return(g, "wait")
  /\ UNCHANGED <<clock, capacity, lastReconcile, requests, history>>

-----------------------------------------------------------------------------
(* Failures, the operator, time *)

(***************************************************************************)
(* A store call fails: it never reached the server, or it took effect and  *)
(* its answer was lost.  Either way the caller gives up with an error and  *)
(* observes nothing.                                                       *)
(***************************************************************************)
StoreError(g) ==
  /\ failures < MaxFailures
  /\ failures' = failures + 1
  /\ \/ /\ req[g].pc \in {"reconcile", "lookup", "touch", "tryadmit", "enqueue"}
        /\ UNCHANGED room
     \/ At(g, "reconcile") /\ Reconcile(req[g].cap, req[g].now)
     \/ At(g, "lookup") /\ Lookup(req[g].id, req[g].now)
     \/ At(g, "touch") /\ Touch(req[g].id, req[g].now)
     \/ At(g, "tryadmit") /\ TryAdmit(req[g].id, req[g].cap, req[g].now)
     \/ At(g, "enqueue") /\ Enqueue(req[g].id, req[g].now)
  /\ Return(g, "error")
  /\ Observe(<<>>)
  /\ UNCHANGED <<clock, capacity, lastReconcile, requests, overlaps, winner>>

CapacityChanges ==  \* SetCapacity, refreshCapacity
  /\ requests < MaxRequests
  /\ requests' = requests + 1
  /\ capacity' \in Capacities \ {capacity}
  /\ Silent
  /\ UNCHANGED <<room, clock, lastReconcile, req, history>>

FlushQueue ==
  /\ requests < MaxRequests
  /\ requests' = requests + 1
  /\ line # <<>>
  /\ Flush
  /\ Silent
  /\ UNCHANGED <<clock, capacity, lastReconcile, req, history>>

Tick ==
  /\ clock < MaxNow
  /\ \A g \in Busy : clock + 1 - req[g].now <= MaxStall
  /\ clock' = clock + 1
  /\ Silent
  /\ UNCHANGED <<room, capacity, lastReconcile, req, requests, history>>

(***************************************************************************)
(* Nobody is left to move: every request of the bounded behaviour is over. *)
(***************************************************************************)
Finished ==
  /\ Busy = {}
  /\ requests = MaxRequests
  /\ clock = MaxNow
  /\ UNCHANGED <<room, controller, history>>

Step ==
  \/ \E g \in Requests, kind \in {"check", "status"}, id \in Ids : Arrive(g, kind, id)
  \/ JanitorTick
  \/ \E g \in Goroutines :
        LoadGate(g) \/ CompareAndSwap(g) \/ Mark(g) \/ LoadCapacity(g) \/ CallReconcile(g)
        \/ CallLookup(g) \/ CallTouch(g) \/ CallTryAdmit(g) \/ CallEnqueue(g) \/ StoreError(g)
  \/ CapacityChanges
  \/ FlushQueue
  \/ Tick
  \/ Finished

Next ==
  /\ Step
  /\ newest' = [id \in DOMAIN seen' |->
                  IF id \in DOMAIN newest THEN Greater(newest[id], seen'[id]) ELSE seen'[id]]

Spec == Init /\ [][Next]_vars

-----------------------------------------------------------------------------
(* Properties *)

TypeOK ==
  /\ clock \in Times
  /\ capacity \in Capacities
  /\ lastReconcile \in Never..MaxNow
  /\ requests \in 0..MaxRequests
  /\ \A g \in Busy : req[g].now \in 0..clock /\ (g # Janitor => req[g].id \in Ids)
  /\ drift \in [Ids -> Int] /\ overlaps \in [Ids -> Nat]
  /\ failures \in 0..MaxFailures
  /\ DOMAIN newest = DOMAIN seen
  /\ DOMAIN seen = Known

(***************************************************************************)
(* A request that is proxied as admitted holds a slot when its answer is   *)
(* given: nothing reaped it between Lookup, which saw it active, and Touch,*)
(* whose verdict Check ignores.  It rests on a stall being at most half of *)
(* ActiveTTL: a late heartbeat of another tab may turn the recorded one    *)
(* back by a stall (HeartbeatLag), and the request may take another.       *)
(***************************************************************************)
ProxyHoldsSlot ==
  reply.decision = "proxy" /\ reply.kind = "check" => reply.id \in inside

(***************************************************************************)
(* A request that is sent to the waiting page is in the line when its      *)
(* answer is given ("queued -> serve the waiting page", controller.go:19); *)
(* the one exception is a ticket of several tabs, which another one's      *)
(* request took inside between TryAdmit's refusal and Enqueue.             *)
(***************************************************************************)
WaitMeansWaiting ==
  reply.decision = "wait" /\ reply.kind = "check" =>
    \/ reply.id \in Waiting(line)
    \/ reply.id \in inside /\ overlaps[reply.id] > 0

(***************************************************************************)
(* The admissions of a ticket that the metrics count are those that        *)
(* happened, but for the ones whose call failed after it took effect,      *)
(* which nobody counts, and those that overlapping requests of the ticket  *)
(* count twice: TryAdmit says yes to a ticket already inside as well.      *)
(***************************************************************************)
CountSkew == \A id \in Ids : -failures <= drift[id] /\ drift[id] <= overlaps[id]

(***************************************************************************)
(* Every admission is counted exactly once ("fed exactly once per event",  *)
(* metrics.go:4).                                                          *)
(***************************************************************************)
AdmissionsCountedOnce == \A id \in Ids : drift[id] = 0

(***************************************************************************)
(* A heartbeat on record is never more than one stall behind the newest    *)
(* one, although late requests overwrite newer readings with older ones.   *)
(***************************************************************************)
HeartbeatLag == \A id \in DOMAIN seen : newest[id] - seen[id] <= MaxStall

(***************************************************************************)
(* "queued users polling for status are not evicted as ghosts"             *)
(* (store.go:61): a reconcile drops a waiter only when its newest          *)
(* heartbeat is older than QueueTTL.  Where requests of the ticket         *)
(* overlapped it may be one stall younger, for the older request may have  *)
(* written its reading last.                                               *)
(***************************************************************************)
PollersKept ==
  [][\A id \in Waiting(line) :
        req' # req /\ id \notin Known' =>
          clock - newest[id] > QueueTTL - (IF overlaps[id] = 0 THEN 0 ELSE MaxStall)]_vars

(***************************************************************************)
(* "Lowering capacity never kicks active users" (README.md:190) and        *)
(* flushing the queue does not either: a session ends only for being idle. *)
(* It may end one stall early: a late reconcile that promotes a ticket     *)
(* writes its own old clock reading over the ticket's newer heartbeat.     *)
(***************************************************************************)
SessionsKept ==
  [][\A id \in inside \ inside' : clock - newest[id] > ActiveTTL - MaxStall]_vars

Place(l, id) == CHOOSE i \in DOMAIN l : l[i] = id

(***************************************************************************)
(* "Refreshing the page never loses your place" (README.md:15): as long as *)
(* a ticket stays in the line its place only improves, whichever requests  *)
(* interleave.                                                             *)
(***************************************************************************)
PlaceImproves ==
  [][\A id \in Waiting(line) \cap Waiting(line') : Place(line', id) <= Place(line, id)]_vars

(***************************************************************************)
(* What the gate does guarantee: a request that wins the CompareAndSwap    *)
(* comes later than the winner before it by the gap less one stall, the    *)
(* most by which a late Store can turn lastReconcile back.                 *)
(***************************************************************************)
Wins(g) == req[g].pc = "cas" /\ req'[g].pc = "mark"

WinnersSpaced ==
  [][\A g \in Goroutines : Wins(g) => req[g].now - winner >= Gap - MaxStall]_vars
=============================================================================
