# A TLA+ model of gowait

gowait is a waiting room in front of a web backend: at most *capacity* visitors
are inside at a time, the others stand in a first-come-first-served line and
poll until it is their turn.  This directory holds TLA+ modules of its core, the
TLC runs that check them and TLAPS proofs of the main results.

## 1. Inventory

| Part | State | Operations | Hard because |
|---|---|---|---|
| Store contract (`internal/store/store.go`) | line, sessions, heartbeats | TryAdmit, Enqueue, Lookup, Touch, Reconcile, Flush | every call brings the caller's clock and capacity, which may be old |
| Memory store (`store/memory`) | entry map, linked list, active counter, sequence numbers, holes, EMA | the same, under one mutex | five redundant structures that must agree; position by arithmetic |
| Valkey store (`store/valkeystore`) | ZSETs order, seen, active; hashes admitted, enqueued; counters | the same, one Lua script each; TryLock lease | keys updated separately, several replicas, millisecond truncation |
| Controller, request path (`queue/controller.go`) | `lastReconcile`, `capacity`, metrics | Check, StatusOf, maybeReconcile, reconcile | 3 to 5 store calls per request with nothing held in between |
| Controller, janitor | - | Run: refreshCapacity + reconcile each tick | races every request |
| Runtime capacity | key in the store, one copy per replica | SetCapacity, refreshCapacity, start-up | two writes against a read and a write; restarts |
| ETA and stats cache | cached average, no lock | eta, etaStats, writeStatusJSON | filled out of order, zero or negative average, rounding |
| Metrics (`metrics`) | atomic counters, histogram, float sum | ObserveAdmission, AddReconcile, IncRequest, WriteTo | cell by cell, compare-and-swap loop, scraped meanwhile |
| Prober (`prober`) | successes, lease | tick, probe, adjust (AIMD) | lease without unlock, read-modify-write of the capacity |
| Server (`server`), tickets | secret; cookies in browsers | gatekeeper, handleStatus, flush, ticketID, isAdmin | answers with cookies get lost or overtake each other; restarts |
| Waiting page (`waitpage`) | timer, interval, failures | tick, schedule, reload | its polls are the heartbeats; back-off against QueueTTL |
| Configuration, start-up, shutdown, proxy | flags | Load, Validate, run | SIGTERM with requests under way |

Requests call the controller, which calls the store; the janitor and the prober
are goroutines of the same process; replicas meet only in the Valkey store.

What makes the parts correct: *store* - structures agree, positions exact,
never more sessions than a capacity somebody passed, first come first served,
both stores the same contract.  *Request path* - an answer agrees with the room
at the moment it is given, nobody alive is dropped, no place is lost, admissions
are counted but for a bounded skew, reconciles are rate limited.  *Capacity* - always at
least 1, an override is adopted and kept, all replicas converge.  *Prober* -
increases are earned, the bounds are regained, probing never stops, although
rounds may overlap.  *Page and line* - who keeps the page
open keeps its place and gets in.  *Server* - a browser keeps its ticket, tickets
nobody can use leave, only the key makes an administrator.  *Metrics* - nothing
is lost, a scrape is off by no more than what is under way.  *ETA* - no average
older than the cache's TTL, nothing negative, nothing shorter than the estimate.

## 2. Modules

| Module | Models | Notes |
|---|---|---|
| `WaitingRoom` | the contract of `store.Store` | abstract specification; three variables |
| `MemoryStore` | `memory.go` | one action per method; implements `WaitingRoom` |
| `HoleList` | the sorted slice of holes and its bisections | algorithm against a reference |
| `ValkeyStore` | `valkeystore.go` | one action per Lua script; implements `WaitingRoom` |
| `Admission` | request path, gate, janitor | composes with `WaitingRoom` (EXTENDS): one step per store call or atomic access |
| `LiveRoom` | `WaitingRoom` on a clock that never stops, Check and StatusOf in two steps | extends `WaitingRoom`; the base of the next two |
| `WaitPage` | `wait.html`, the status endpoint, flush, janitor | composes the page with `LiveRoom`; liveness of the line |
| `Gatekeeper` | `gatekeeper.go`, `server.go`, `ticket.go`, the flush of `admin.go` | composes browsers and cookies with `LiveRoom` |
| `CapacityChannel` | SetCapacity, refreshCapacity, start-up, shutdown, crash | several replicas |
| `Prober` | `prober.go`, `TryLock` | replicas, lease, AIMD; refresh and PUT as one step each |
| `Metrics` | `metrics.go` | one step per atomic access |
| `Eta` | eta, etaStats, the numbers of `writeStatusJSON` | requests race for the cache |
| `Lines`, `Ema` | order-preserving selection; sign of the moving average | shared operators |
| `LinesProofs` | lemmas on selecting from and sorting a line, and on induction and recursion over an interval | used by the other proofs |
| `MemoryStoreProofs` | theorems on `MemoryStore`, on `HoleList` and on both together | EXTENDS both |
| `ValkeyStoreProofs`, `AdmissionProofs`, `ProberProofs`, `EtaProofs` | theorems on the module of that name | each EXTENDS it |
| `ControllerProofs` | theorems on `CapacityChannel` and on `Metrics` | EXTENDS both |
| `LiveRoomProofs` | theorems on the two users of `LiveRoom`: `Gatekeeper` and `WaitPage` | EXTENDS both |
| `MC*.tla`, `*.cfg` | instances for TLC | |

### How state and actions correspond to the code

*MemoryStore.* `entries` is the Go map (status `"unknown"` is absence), `queue`
the `container/list`, `active`, `nextSeq` and `override` the fields of the same
purpose, `holes` the set of the slice's elements.  An entry carries one instant
`since`: enqueuedAt while queued, admittedAt while active; the code never reads
the other one again.  `avgSession` is the sign of the EMA, the only thing the
ETA branches on; `Blend` gives the signs that can result when durations are
folded in map order.  `Reconcile` is the whole method: expire, evict, promote,
prune.  Actions take any `now` and any capacity of the constants, in any order,
because a request may stall between reading its clock and taking the lock.

*ValkeyStore.* A ZSET or HASH is a function on its members.  Instants are ticks
and reach the server through `ms`, so truncation is in the model.  ZPOPMIN
repeated n times is `Lowest`.  The refinement mapping reads the line off the
scores of `order`, and gives the contract the instants and TTLs that the scripts
get, truncated too: `ImplementsRoom` is about whole milliseconds, where the TTL
is exclusive.  What truncation changes, since the scripts subtract two numbers
that were truncated each on its own, is the theorem `ExpiryToTheMs`: expiry is
early or late by less than a millisecond.

*Admission.* `req[g]` is a goroutine: program counter, ticket, the clock reading
taken on arrival, the capacity and the value of the gate it loaded.  Arrive reads
the clock; LoadGate, CompareAndSwap and Mark are the three accesses to
`lastReconcile`; LoadCapacity the load of the capacity; the Call* actions are
the store calls, each with the decision the code takes on its result; StoreError
is a call that fails before or after taking effect (a lost answer, a cancelled
request).  The answer of a reconcile lists a wait for each ticket it promoted
(`WaitedSecs`, in the order of the line), and CallReconcile observes each of them
as controller.go:146-149 does; Check observes one when TryAdmit says yes.
CapacityChanges stands for SetCapacity and the refreshes, detailed in
CapacityChannel.  `drift`, `overlaps`, `failures`, `newest`, `winner` and `reply`
are history: per ticket the admissions observed less those that happened, per
ticket the requests that came while another one was in flight, the failed store
calls, the newest heartbeat of each ticket, the reading of the last gate winner,
the answer just given.

*CapacityChannel.* PutArrives is a request to a serving replica with any number,
which goes on only if it is at least 1; Put and PutLocal are the two writes of
SetCapacity, PutFails the error of the first one, with the key written or not.
Refresh
and Adopt the read and the write of refreshCapacity.  Start and Listen follow
the order of `main.go`: the listener does not wait for the janitor.  Shutdown is
SIGTERM: the context of the janitor ends, the listener closes, and PUTs that
arrived before, whether they wrote the key or not, go on until Exit.  `settled` is history: replicas that went
through a refresh since the key last changed.

*Prober.* `round[r]` is where a replica's tick stands: waiting for the probe,
about to write the store, about to write its own copy.  TryLock is `SET NX PX`
won (a refusal changes nothing), LeaseExpires the PX; Probe is the answer, with
the read of the local copy, the streak and the clamp of `adjust`; SetShared and
SetLocal are the two writes of SetCapacity.  Time is left out: the lease, the
probe timeout and the tick are all one interval and the lease starts first, so
it may expire at any point of a round.  `deployed` is chosen at the start: two
replicas on a Valkey, one alone on it, or one on the memory store, which has no
lease (`HasLocker`) and loses the override in a restart.  `streak` is history:
good probes since the last failure or increase, whoever probed.

*LiveRoom.* Ages instead of instants: the present is 0, heartbeats are negative,
and RoomAges makes them older, down to `Oldest`, beyond both TTLs.  The clock can
so run for ever in finitely many states.

*WaitPage.* `page[v]` is what a visitor looks at, `timer` the pending
setTimeout, `pollMs` and `failures` the variables of the script.  A request is
two steps: it arrives and reconciles (or skips that behind the gate), then it is
answered; CallFails is an error of the server or the network before or after the
effect.  PollAnswered and PollFailed are the two continuations of `tick()`,
Advertised the truncated poll_seconds, Schedule the jitter.

*Gatekeeper.* A cookie is the secret it was signed with, its payload and, for
the admin cookie, the time left.  A request reads the cookies when the server
starts on it (Page, HandleStatus, ShowKey, AdminFlush), acts on the room (Check,
StatusOf, Fails) and has its answer delivered or lost at any later time.  Restart
ends the requests that were not answered; an answer on its way, with cookies of
the old process and its secret, may arrive after it.
`shown` and `mishaps` are history.

*Metrics.* A call of the registry is the list of its additions (`prog[g].todo`);
AddInt is an atomic Add, LoadSum and CompareAndSwapSum the loop on the float
bits; Scrape loads the next cell of WriteTo.  Sums are integers: rounding of
floats is left out.

*Eta.* A request reads the clock (Arrive), the cache (LoadCache), the store
(Stats, StatsFail) and fills the cache (StoreCache), with any others in between.
`taken` is history: when the store was asked.

## 3. Runs

| Run | Checks | Shows |
|---|---|---|
| `memory_store` | Consistent, SeqPartition, PositionExact, CapacityBound, NoOvertaking, ImplementsRoom | the memory store is right and implements the contract |
| `hole_list` | SliceIsGaps, PositionIsRank | the slice code computes the set MemoryStore uses |
| `valkey_store` | KeysAgree, CapacityBound, NoOvertaking, ImplementsRoom | the scripts are right and implement the contract |
| `request_path` | ProxyHoldsSlot, WaitMeansWaiting, HeartbeatLag, CountSkew, PollersKept, SessionsKept, PlaceImproves, WinnersSpaced | overlapping requests, also of one ticket, janitor, failing store calls, flush and capacity changes in any order |
| `double_count` | AdmissionsCountedOnce (counterexample) | the same without failures: what the metrics promise and two tabs break |
| `capacity_channel` | TypeOK, CapacityUsable, OverrideAdopted, Converges | two replicas, three writers, crashes, failed calls, hand-edited key |
| `prober` | TypeOK, BoundsRegained, ProbingContinues, IncreaseEarned | two replicas or one, lease, an operator, crashes and failed calls |
| `wait_page` | PageKeepsPlace, LineMoves, QuietRoomServesAll | three visitors, one slot, flush, failing and skipped requests |
| `evicted_waits` | LetIn (counterexample) | the same instance: what the page promises and the code does not keep |
| `gatekeeper` | WasteBounded, RefreshKeepsPlace, AdminByKey, GhostsLeave | a browser with two requests in flight, lost and overtaken answers, a restart |
| `metrics` | RegistryExact, ScrapeSkew, SwapsGetThrough | two goroutines and a scrape |
| `eta` | EtaFresh, EtaHonest | two requests racing for the stats cache |

The type invariants of the two stores, of `Admission`, `CapacityChannel`,
`Prober` and `Metrics` are proved (section 4).  `TypeOK` of `WaitPage`,
`Gatekeeper` and `Eta` holds with the constants of the runs, which are kept to what is hard to
see.

In `request_path` a ticket may have several requests in flight (two tabs, a reload,
a poll beside a page) and a store call may fail.  Where the code promises less
for such a ticket, the property says by how much and only for tickets whose
requests did overlap: `overlaps` counts, per ticket, the requests that came
while another one was in flight.  README.md:202 of the repository says that the
capacity "always stays within" the prober's bounds; the flag, an operator and a
restart can each put it outside, so what `prober` checks is that it comes back
for good once they stop.

`double_count` ends in a counterexample.  The metrics are "fed exactly once per
event" (metrics.go:4), but TryAdmit answers true to a ticket that is inside
already and controller.go:180 observes an admission on every true: two first
requests of one ticket, both past their Lookup, count its one admission twice.
`CountSkew` is what holds: never more too many than overlapping requests, never
more too few than failed calls.

`evicted_waits` ends in a counterexample.  The page says "You will be let in
automatically" (waitpage.go:46).  A visitor that lost its place, to a flush or
because failed polls made the page back off past QueueTTL, polls StatusOf, which
never enqueues (controller.go:208): later visitors enter before it, for ever if
they keep coming.  A reload by hand would put it at the end of the line.
`LineMoves` and `QuietRoomServesAll` are what holds.

### Remarks

Places where the code gives less than a comment or the documentation says, in
some interleaving.  The models reproduce them with the constants named.

- store.go:60: polling users "are not evicted as ghosts".  With two requests of
  one ticket in flight the older one may write its clock reading over the newer
  heartbeat (controller.go:161), and the waiter is dropped up to one stall early.
  `PollersKept` and `HeartbeatLag` bound it.
- metrics.go:4: `double_count`, above.  A lost answer after an admission counts
  none.  `RegistryExact` is about the registry: what it is told it keeps.
- controller.go:19 documents DecisionWait as "queued".  A ticket that another of
  its requests took inside between TryAdmit and Enqueue is still shown the page,
  until its next poll: the exception that `WaitMeansWaiting` names.
- controller.go:125 says "The CAS picks one winner per gap".  The unconditional
  Store of `reconcile` can turn the gate back, and a winner may then read the clock
  less than a gap after the one before it; `WinnersSpaced` is what holds, for
  every swap that is won, also by requests with equal readings.
- The repository's README.md:182 says that a PUT of the capacity is "effective
  immediately".  A refresh that read the old key before the PUT stores it after
  (controller.go:118), and the replica goes back to it until its next tick;
  `OverrideAdopted` and `Converges` are what holds.
- README.md:252 there says a persisted override "wins over the `-capacity` flag".  The
  listener does not wait for the first refresh (`Listen`), so a restarted replica
  may answer first requests with the flag.
- README.md:200 says an increase takes "three consecutive successes".  With two
  replicas `IncreaseEarned` without `Alone` fails: each counts its own
  (prober.go:115), and successes from before the other's failure still count.
- prober.go:10 says halving "is always immediate".  A replica halves its own copy
  and stores an absolute value: after another replica's halving, after a lost
  answer of SetCapacity or beside an operator's PUT it may store what is there
  already, or more; `BoundsRegained` is what holds.  The lease and the probe
  timeout are the same interval and the lease starts first, so a round that
  times out always adjusts after its lease ended, beside the next holder
  (README.md:212 says "only one replica probes and adjusts").
- Validate (config.go:126, :129) asks the inactivity TTL to be more than the
  polling interval and QueueTTL to be twice that, and leaves out the page's jitter
  of up to 500 ms.  With an interval of 10 s and an inactivity TTL of 10.2 s, a
  waiter promoted by somebody else's reconcile right after its poll may poll next
  when that session is over already, and has lost its place without a failure;
  with intervals below 500 ms a poll may come after QueueTTL.  What is needed is
  `Punctual` of `WaitPage`: the interval and the jitter within both TTLs.  With
  durations that Validate accepts and that are not `Punctual` (in
  `MCWaitPage.cfg`, a jitter of 2 for 1) `PageKeepsPlace` fails.
- status.go:45 says "Never advertise less than one poll interval".  The interval
  is truncated to whole seconds first: with 1.5 s the floor is one second, with
  less than a second there is none, and poll_seconds and Retry-After are 0 (which
  the page ignores).  `EtaHonest` states the floor as it is.
- A client that keeps no cookies gets a ticket per attempt (server.go:116): each
  503 with Retry-After leaves one more in the line until QueueTTL.  In
  `WasteBounded` each is an answer that was lost.
- Clocks of replicas that disagree can make a wait negative; the `_sum` of the
  histogram then falls.

### Bounds, and why they are enough

- Stores: three tickets (one inside, one at the front, one behind it, which is
  what a hole in the middle needs), capacities 1 and 2, clocks 0..2 in any order
  with TTLs of 1 so that exactly-at-TTL and past-it both happen; `MaxSeq` 4
  (memory) and 3 (Valkey) let a ticket be evicted and come back.  Valkey has two
  ticks to the millisecond and a TTL of one and a half.
- `HoleList`: eight numbers, every subset of evictions and promotions.
- `Admission`: two tickets, two request goroutines and the janitor, four requests
  (`MaxRequests`, which counts the janitor's ticks and the operator's requests
  too), one failed store call (`MaxFailures`; none in `double_count`), clock 0..3,
  stalls of at most one tick (`MaxStall`), QueueTTL 1, ActiveTTL 2, a gap of 2: one
  more than a stall, so that WinnersSpaced asks for something.  A gap of 0, with
  which every request reconciles, is covered by the theorems.  `MaxStall` is an assumption on requests in
  flight: ProxyHoldsSlot needs it to be at most half of ActiveTTL, since a late
  heartbeat can take one stall off the TTL and the request itself another; a
  session may end one stall early (SessionsKept), because a delayed reconcile
  writes its old reading as the heartbeat of the tickets it promotes.
- `CapacityChannel`: two changes of the key, made or asked for by a PUT under way,
  and two faults (crashes, shutdowns, failed calls); PUTs of 1, of 4 and of 0,
  which is refused.
- `Prober`: one or two replicas; bounds 1..3 with a flag of 5 and a PUT of 6, so
  that both start outside; one PUT, two faults (enough for a crash with the lease
  and a lost answer).
- `WaitPage`: one slot and three visitors, so that one is inside, one waits and
  one comes; ticks of half a second, an interval of one tick (poll_seconds is
  then 0), a jitter of one, TTLs of two: a poll can come exactly at QueueTTL, and
  `MaxBackoff` with jitter goes beyond it.  One fault, which is what
  `evicted_waits` needs; failed polls in a row only matter through the back-off,
  which one failure brings to its maximum.
- `Gatekeeper`: one browser (browsers meet only in the room, which the other
  runs crowd), two requests in flight, three tickets, one mishap, one restart,
  with the same secret or another one and answers of the old process on their way.
- `Metrics`: two calls, each of which may record two admissions; bounds 1 and 5,
  waits on a bound, beyond the last, zero and negative.
- `Eta`: ticks of half a second, a polling interval of a second and a half, a TTL
  of two ticks on a clock of four, so that an entry can be stored over one that
  is a whole TTL younger; averages negative, zero, short and long.

Ticket and request identities are interchangeable, and symmetry is used where
only safety is checked; runs with liveness use none.

### Fairness

`CapacityChannel` has weak fairness of Start (a supervisor
restarts the process), Refresh and Adopt (the ticker fires for ever and the
goroutine is scheduled) and PutLocal (a running handler goes on).  Nothing is
assumed of operators, crashes or the key, which the bounds make finite:
"eventually" means once they stop.  `Prober` has weak fairness of LeaseExpires
(Valkey expires keys), of TryLock by *some* replica (the tickers fire for ever,
but one replica may lose every time), and, for each replica, of Probe
(`http.Client.Timeout`), SetShared, SetLocal and Refresh.  Which answer a probe
gives is free.

`WaitPage` has weak fairness of PageTick (time passes), of PageJanitor (the ticker of Run;
it reconciles without the gate), of the server's answers and of polls that are
due.  Nothing is assumed of visitors: they may come for ever, one request per
tick at most, or stop; a session is over before its visitor comes back, because
sessions that are kept busy for ever rightly keep the others out.  `Gatekeeper`
has strong fairness of Tick, which endless requests would otherwise hold up, and
weak fairness of the janitor and of the server, none of browsers or the network.
`Metrics` has weak fairness of every goroutine: Go's scheduler is preemptive.
`SwapsGetThrough` asks for what the compare-and-swap loop gives, lock-freedom:
while goroutines are in it, one of them gets its swap through.  It does not rest
on `MaxCalls`; that each of them does would, because the loop is not wait-free.

## 4. Proofs

TLAPS checks the theorems below for all constants that satisfy the modules'
ASSUMEs: any finite set of tickets, integer clocks, positive capacities, natural
TTLs, any number of replicas, writers, requests, faults.  A further hypothesis of
a theorem is named with it: PagesKeepPlace has `Punctual`, which the
configuration should ask for and does not (see the remark on Validate).  Three
modules of proofs extend two specifications each; so that these can stand side
by side, those of `HoleList`, `WaitPage` and `Metrics` are called SliceSpec,
PageSpec and RegistrySpec.

| Module | Theorem | States |
|---|---|---|
| `MemoryStoreProofs` | StructuresAgree, StructuresConsistent | `TypeOK`, `Consistent`, `SeqPartition` |
| | PositionsExact, CapacityRespected, FirstComeFirstServed | `PositionExact`, `CapacityBound`, `NoOvertaking` |
| | MemoryImplementsRoom | `ImplementsRoom`: a refinement of `WaitingRoom` |
| | SliceAlwaysGaps, PositionAlwaysRank | `SliceIsGaps`, `PositionIsRank` of `HoleList` |
| | SliceAlwaysSet, SlicePositionsExact | the slice beside the whole store: it has the elements of `holes`, and the positions bisected from it are exact |
| `ValkeyStoreProofs` | KeysAlwaysAgree | `TypeOK`, `KeysAgree` |
| | CapacityRespected, FirstComeFirstServed | `CapacityBound`, `NoOvertaking` |
| | ValkeyImplementsRoom | `ImplementsRoom`: a refinement of `WaitingRoom` |
| | ExpiryToTheMs | truncation makes expiry early or late by less than a millisecond |
| `AdmissionProofs` | TypeCorrect, LagBounded, WinnersAlwaysSpaced, SessionsAlwaysKept, PlacesImprove | `TypeOK`, `HeartbeatLag`, `WinnersSpaced`, `SessionsKept`, `PlaceImproves` |
| | ProxiesHoldSlots, if `2 * MaxStall <= ActiveTTL` | `ProxyHoldsSlot` |
| | WaitersWait, PollersAlwaysKept, CountsBounded | `WaitMeansWaiting`, `PollersKept`, `CountSkew` |
| `ControllerProofs` | TypeCorrect, AlwaysUsable, AlwaysAdopted | `TypeOK`, `CapacityUsable`, `OverrideAdopted` of `CapacityChannel` |
| | RegistryAlwaysExact, ScrapesSkewBounded, RegistryTypeCorrect | `RegistryExact`, `ScrapeSkew`, `RegistryTypeOK` of `Metrics` |
| `ProberProofs` | TypeCorrect, IncreasesEarned | `TypeOK`, `IncreaseEarned` |
| `EtaProofs` | AlwaysFresh, AlwaysHonest | `EtaFresh`, `EtaHonest` |
| `LiveRoomProofs` | WasteAlwaysBounded, RefreshesKeepPlace, AdminsShowKey | `WasteBounded`, `RefreshKeepsPlace`, `AdminByKey` |
| | PagesKeepPlace, if `Punctual` | `PageKeepsPlace` |

Each rests on an inductive invariant `IInv` of its module, with a lemma for Init
and a lemma per action (or per kind of action) for Next.

*Lines.*  The front-to-back scan of a queue is a choice from `Filtered`: an
order-preserving selection of exactly the kept positions (FilteredIsOrdered,
FilteredExists).  The second half is sorting: a finite set with distinct scores
has one listing by increasing score (SortedExists, SortedUnique), filtering,
popping the lowest and appending a highest keep it sorted (FilteredSorted,
PopSorted, AppendSorted).  The usual proof is by induction on the set; here the
listing is given by ranks, the inverse of counting the members with a score no
higher, and everything follows from the cardinality of subsets.

*Induction and recursion.*  The provers cannot instantiate the library's
induction theorems, which have an operator as a parameter, so `LinesProofs`
derives what is needed in terms of sets: a set of naturals that has a smaller one
for each of its members is empty (Descent), a subset of 0..n
that has 0 and each k whose predecessor it has is 0..n (Climb), and for a
function per step there is a function on 0..n that follows them (Recursion).  The
last one is what a recursive definition of TLA+ needs: it is a CHOOSE, and says
nothing until such a function is shown to exist.

*MemoryStore.*  TypeOK, Consistent and SeqPartition together.  None is inductive
alone: that a position is exact needs the partition of sequence numbers into
waiters and holes, that the partition survives an eviction needs the list to hold
each queued entry once, and that the counter is right needs the list and the
entries to agree on who is queued.  Reconcile is the hard step; the lemmas of
`LinesProofs` say who left, who was promoted and what the new front is.
PositionsExact counts: the waiter at place i has the i-1 waiters before it and
the holes in between below it in sequence.  For the refinement the same invariant
gives that the line, sessions and heartbeats read off the entries (View) change
as the room's do, method by method; the abstract Reconcile chooses its survivors
from the same selection.

*HoleList.*  SearchFinds: bisection of a monotone predicate returns the least
index at which it holds, by descent on the width of the interval.  For a sorted
slice both searches then split it (AboveSplits, FromIsAbove), so that an insertion
keeps it sorted and adds one element (AddHoleInserts), a scan of the line adds
the ghosts (ScanAdds) and pruning drops what is before the new front
(PruneDrops).  SliceInv is SliceIsGaps with the types.  The position is a rank
because the slice and the line partition the numbers behind the front, so the
number of holes between the two searches is a difference of cardinalities.
`SliceStore` runs the slice beside `MemoryStore`, step by step with the store's
own actions: it justifies that `MemoryStore` keeps a set instead.

*ValkeyStore.*  TypeOK and KeysAgree; the scripts touch keys member by member, so
each is a case of adding or removing members in step.  The refinement mapping
sorts the members of `order` by score, so each script needs a lemma of sorting:
ZREM of ghosts is FilteredSorted, ZPOPMIN is PopSorted, an Enqueue with the next
score is AppendSorted, and that the choice in the mapping is determined at all is
SortedUnique.  ExpiryToTheMs is arithmetic of the three truncations (msBounds).

*Admission.*  Four parts.  RoomInv: nobody is in the line twice or in both
places, and heartbeats are exactly for the tickets in the room.  ReqInv: what a
goroutine holds at each program counter, in particular that its clock reading is
at most one stall old.  BeatInv: HeartbeatLag with the history variables it is
about.  GateInv: `lastReconcile` is never more than one stall behind the last
winner's reading, whatever a late Store wrote, and whoever is about to swap it
loaded a value that is a gap behind its own reading, so every won swap is spaced,
whatever the readings of the two winners.  All store calls go through one
predicate, `Effect`, the least that can be said of any call made with an old
reading; each action is a case of it.  ProxyHoldsSlot adds that the session a request saw is fresh
enough to survive until its Touch, which is where twice the stall comes from: one
for the old heartbeat, one for the late Touch.  WaitersWait and PollersAlwaysKept
add OneTab, which is about each ticket as long as none of its requests
overlapped: it has at most one request in flight, whoever was unknown to that
request's Lookup still is, and its heartbeat on record is its newest one.

CountsBounded needs more than `drift[id] <= overlaps[id]`, because requests that
saw the ticket unknown may yet count it.  Tally adds them to the account: each of
these pending requests but one came while another one was in flight; that one
may count the true admission, so it has to be paid for too once the ticket is
known and no request can see it unknown any more.  That a reconcile observes
each promotion once is ReconcileObserved: what it lists has no ticket twice,
and they are the tickets that came inside.

*CapacityChannel.*  OverrideAdopted is not inductive: a refresh that is half done
could bring an old value.  SettledStays adds that a settled replica has no PUT
half done and that its refresh, if one is under way, read the present key
(ReadIsCurrent).

*Metrics.*  RegistryExact says nothing while somebody records, so it is not
inductive.  The invariant (RegInv) keeps accounts, one for each cell and one that
counts observations: what was recorded and what is left in all goroutines'
lists make up what the histogram is to say, account by account (Balances).  A
list of adds is weighed by its suffixes (Weighs), the goroutines' weights are
added up along an enumeration of the goroutines (Sheet), and each atomic add or
successful swap moves its weight from the right to the left (AddMade); a failed
swap moves nothing, and a swap adds to the value in the cell because that is
what it compared with.  The calls are shown to be worth what they observe
(ObservationWeighs, ReconcileTells).  When nobody is busy, nothing is left.
ScrapeSkew uses also that in each suffix the observation's own account is not
behind the admissions, the count and the buckets (Behind), because the sum is
added last: at any time these three lie between the observations finished and
the ones begun (RegBetween).  ScanInv keeps two numbers that are `overlap` apart
and between which all three reads fall: the observations finished when the
scrape began, and the ones begun until it ended.  The buckets are read one by
one, so their sum is caught between what the buckets were at the beginning and
what they are at the last read, since no bucket ever falls (Moves).

*Prober.*  TypeOK with the clamp (TargetInBounds), and CountEarned: a lone
replica's own counter is at most the true streak.

*Eta.*  DatedEarly: the cache is dated no later than its average was asked for,
since a request reads its clock first; so the age test of a later request is on
the safe side, whichever request stored last.  AlwaysHonest is arithmetic of
division (DivisionRoundsDown, QuotientNat, EtaIsNat).

*Gatekeeper.*  TicketInv: a signed ticket cookie names a ticket, and only a
request that came without a valid ticket sets one.  AdminInv: an admin cookie, in
a jar or on its way to one, was earned at least as lately as its time left says.
WasteInv: WasteBounded is not inductive, because a ticket whose cookie was
overtaken may still have a request in flight, and is wasted only when that
request ends, without a mishap then; `Orphans` are the tickets in the room, or in
a request that may still put them there, that no browser will hold, and each was
paid for when it was orphaned.  Restart pays for several at once: the tickets
that were on their way are at most as many as the requests that carried them.

*WaitPage.*  PageKeepsPlace does not say when the ticket of a page would be
dropped.  Timely adds that a page that waits polls before its ticket's heartbeat
is older than one interval and the jitter: the timer and the age of the heartbeat
together never exceed it, time takes from one what it gives to the other, and a
reconcile drops only what is older than a TTL, which `Punctual` rules out.  That
the interval a page uses never exceeds the configured one, although the server
truncates it to seconds, is AdvertisedAtMost.

Only model-checked:

- liveness (`Converges`, `BoundsRegained`, `ProbingContinues`, `LineMoves`,
  `QuietRoomServesAll`, `GhostsLeave`, `SwapsGetThrough`) under fairness, which is
  beyond the prover, and the counterexamples of `evicted_waits` and `double_count`.

All invariants and action properties that a passing run checks are theorems.

## 5. Not modelled

The HMAC of tickets and cookies (a signature is the secret it was made with), page
rendering and translations, parsing of flags and environment (what Validate asks
of the durations is `WaitPage!Valid`, the rest assumptions on constants), the
reverse proxy (a wrapper of `httputil.ReverseProxy` without state), connection
set-up and reply parsing of Valkey, JSON and the read-only endpoints, deployment
files and the load test.  The magnitude of the moving average is abstracted to
its sign in the stores and is any of a few values in `Eta`.  Server clocks of
Valkey are not involved: every script takes its `now` from the caller.

## 6. Plan

Done: the contract, both stores, the request path with the janitor, the capacity
channel with shutdown, the prober, the waiting page and the liveness of the line,
the HTTP front with its cookies, the metrics registry, the estimate.  Every part
that keeps state has a module, and every safety property of a passing run is
proved.  What could come next: `TypeOK` of `Gatekeeper`, `WaitPage` and `Eta`,
whose inductive invariants have all but the bounds of it; and a model of two
replicas' request paths over one Valkey store, which `Admission` covers only
through the calls that any number of its goroutines make.
