-------------------------------- MODULE Eta ---------------------------------
(***************************************************************************)
(* The estimated wait: eta and etaStats of internal/queue/controller.go,   *)
(* with the cache of the average session duration that all requests of a   *)
(* process share without a lock, and what writeStatusJSON of               *)
(* internal/server/status.go makes of it.                                  *)
(*                                                                         *)
(* A request reads the clock, then the cache, then the store, and only     *)
(* then fills the cache; it may be held up anywhere in between while       *)
(* others overtake it.  Durations are in ticks.                            *)
(***************************************************************************)
EXTENDS Integers, Lines

CONSTANTS
  Requests,       \* goroutines that answer a waiter
  Positions, Capacities,
  Averages,       \* averages the store may report; none is 0, and a late
                  \* heartbeat may make one negative
  ActiveTTL, StatsCacheTTL, PollInterval,
  TicksPerSecond,
  MaxClock        \* bound

ASSUME EtaAssumption ==
  /\ Positions \subseteq Nat \ {0}
  /\ Capacities \subseteq Nat \ {0}  \* CapacityUsable of CapacityChannel
  /\ Averages \subseteq Int
  /\ {ActiveTTL, PollInterval, TicksPerSecond} \subseteq Nat \ {0}
  /\ {StatsCacheTTL, MaxClock} \subseteq Nat

VARIABLES
  clock,
  cache,   \* c.statsCache; `taken` is history, when the store was asked
  req

vars == <<clock, cache, req>>

Nothing == [average |-> 0, at |-> -1 - StatsCacheTTL, taken |-> 0]  \* a nil statsCache is never fresh

Idle == [pc |-> "idle"]

Init ==
  /\ clock = 0
  /\ cache = Nothing
  /\ req = [r \in Requests |-> Idle]

(***************************************************************************)
(* The cache may be used: `at` may lie after the request's own reading.    *)
(***************************************************************************)
Fresh(now) == StatsCacheTTL > 0 /\ now - cache.at < StatsCacheTTL

-----------------------------------------------------------------------------
(* etaStats *)

Arrive(r) ==  \* now := c.now()
  /\ req[r] = Idle
  /\ req' = [req EXCEPT ![r] = [pc |-> "load", now |-> clock]]
  /\ UNCHANGED <<clock, cache>>

Answers(r, avg, taken) == [pc |-> "eta", now |-> req[r].now, average |-> avg, taken |-> taken]

LoadCache(r) ==
  /\ req[r].pc = "load"
  /\ req' = [req EXCEPT ![r] = IF Fresh(@.now) THEN Answers(r, cache.average, cache.taken)
                               ELSE [@ EXCEPT !.pc = "stats"]]
  /\ UNCHANGED <<clock, cache>>

Stats(r) ==  \* the average of the moment, moved by every session that ends anywhere
  /\ req[r].pc = "stats"
  /\ \E average \in Averages :
       req' = [req EXCEPT ![r] = [Answers(r, average, clock) EXCEPT
                 !.pc = IF StatsCacheTTL > 0 THEN "store" ELSE "eta"]]
  /\ UNCHANGED <<clock, cache>>

StatsFail(r) ==  \* eta falls back on ActiveTTL, as it does without an average
  /\ req[r].pc = "stats"
  /\ req' = [req EXCEPT ![r] = Answers(r, 0, clock)]
  /\ UNCHANGED <<clock, cache>>

\* Mutant: the entry is dated when it is stored.
StoreDated(r) ==
  /\ req[r].pc = "store"
  /\ cache' = [average |-> req[r].average, at |-> clock, taken |-> req[r].taken]
  /\ req' = [req EXCEPT ![r].pc = "eta"]
  /\ UNCHANGED clock

StoreCache(r) ==
  /\ req[r].pc = "store"
  /\ cache' = [average |-> req[r].average, at |-> req[r].now, taken |-> req[r].taken]
  /\ req' = [req EXCEPT ![r].pc = "eta"]
  /\ UNCHANGED clock

-----------------------------------------------------------------------------
(* eta and writeStatusJSON *)

ETA(position, avg, capacity) ==
  (position * (IF avg > 0 THEN avg ELSE ActiveTTL)) \div capacity

\* Mutant: the seconds are rounded down.
SecondsFloor(eta) == Greater(eta \div TicksPerSecond, PollInterval \div TicksPerSecond)

(***************************************************************************)
(* eta_seconds: rounded up, and at least the polling interval, which is    *)
(* rounded down.                                                           *)
(***************************************************************************)
Seconds(eta) ==
  Greater((eta + TicksPerSecond - 1) \div TicksPerSecond, PollInterval \div TicksPerSecond)

Answer(r) ==
  /\ req[r].pc = "eta"
  /\ \E position \in Positions, capacity \in Capacities :
       LET eta == ETA(position, req[r].average, capacity)
       IN req' = [req EXCEPT ![r] =
            [pc |-> "answered", now |-> req[r].now, taken |-> req[r].taken, eta |-> eta,
             shown |-> Seconds(eta)]]
  /\ UNCHANGED <<clock, cache>>

Return(r) ==
  /\ req[r].pc = "answered"
  /\ req' = [req EXCEPT ![r] = Idle]
  /\ UNCHANGED <<clock, cache>>

Tick ==
  /\ clock < MaxClock
  /\ clock' = clock + 1
  /\ UNCHANGED <<cache, req>>

Next ==
  \/ \E r \in Requests :
       \/ Arrive(r) \/ LoadCache(r) \/ Stats(r) \/ StatsFail(r) \/ StoreCache(r)
       \/ Answer(r) \/ Return(r)
  \/ Tick

Spec == Init /\ [][Next]_vars

-----------------------------------------------------------------------------
(* Properties *)

TypeOK ==
  /\ clock \in 0..MaxClock
  /\ cache = Nothing \/ (cache.at \in 0..clock /\ cache.taken \in 0..clock)
  /\ \A r \in Requests :
       /\ req[r].pc \in {"idle", "load", "stats", "store", "eta", "answered"}
       /\ req[r] # Idle => req[r].now \in 0..clock

(***************************************************************************)
(* "cached for StatsCacheTTL" (controller.go:271): the average behind an   *)
(* answer was asked of the store less than StatsCacheTTL before the        *)
(* request arrived, or after.  No request that was held up, before or      *)
(* after it asked the store, makes a later one use anything older: an      *)
(* entry is dated before its average was asked for, and one that is stored *)
(* late over a newer one is not used.                                      *)
(***************************************************************************)
EtaFresh ==
  \A r \in Requests :
    req[r].pc = "answered" => req[r].taken > req[r].now - Greater(StatsCacheTTL, 1)

(***************************************************************************)
(* What a waiter is told is no shorter than the estimate, longer by less   *)
(* than a second, or the whole seconds of the polling interval if these    *)
(* are more (status.go:46); with the average of a store that knows none,   *)
(* or a negative one, it is still an estimate and never negative.          *)
(***************************************************************************)
EtaHonest ==
  \A r \in Requests :
    req[r].pc = "answered" =>
      LET told == req[r].shown * TicksPerSecond IN
      /\ req[r].eta >= 0
      /\ told >= req[r].eta
      /\ told > PollInterval - TicksPerSecond
      /\ told < Greater(req[r].eta, PollInterval) + TicksPerSecond
=============================================================================
