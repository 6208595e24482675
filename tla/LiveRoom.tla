------------------------------ MODULE LiveRoom ------------------------------
(***************************************************************************)
(* The waiting room on a clock that never stops, for what must eventually  *)
(* happen.  The present is instant 0 and heartbeats are in the past: the   *)
(* passing of time ages them, down to an age at which both TTLs are over   *)
(* and nothing can tell older ones apart.  The controller's Check and      *)
(* StatusOf are here in two steps, the reconcile and the rest; Admission   *)
(* has their finer interleavings.                                          *)
(***************************************************************************)
EXTENDS WaitingRoom

Present == 0

Oldest == -1 - Greater(ActiveTTL, QueueTTL)

Aged(t) == Greater(t - 1, Oldest)

RoomAges ==
  /\ seen' = [id \in DOMAIN seen |-> Aged(seen[id])]
  /\ UNCHANGED <<line, inside>>

Crank == \E capacity \in Capacities : Reconcile(capacity, Present)  \* reconcile

(***************************************************************************)
(* What is left of Check: a session is touched, a waiter's heartbeat is    *)
(* refreshed, anybody else is let in or enqueued.  The caller is proxied   *)
(* iff it is inside afterwards.                                            *)
(***************************************************************************)
CheckTicket(id) ==
  \/ id \in inside /\ Touch(id, Present)
  \/ id \in Waiting(line) /\ Lookup(id, Present)
  \/ /\ id \notin Known
     /\ \E capacity \in Capacities :
          IF Admissible(id, capacity) THEN TryAdmit(id, capacity, Present) ELSE Enqueue(id, Present)

(***************************************************************************)
(* What is left of StatusOf; it says "active" to an unknown ticket that a  *)
(* request would let in right now, and never enqueues.                     *)
(***************************************************************************)
StatusTicket(id) == Lookup(id, Present)

\* Mutant: only who is inside is told so.
StatusActiveInside(id) == id \in inside

StatusActive(id) ==
  id \notin Waiting(line) /\ \E capacity \in Capacities : Admissible(id, capacity)
=============================================================================
