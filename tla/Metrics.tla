------------------------------ MODULE Metrics -------------------------------
(***************************************************************************)
(* The metrics registry (internal/metrics): goroutines record events into  *)
(* atomic cells, one cell at a time and without a lock, while a scrape     *)
(* reads the cells one after the other.                                    *)
(***************************************************************************)
EXTENDS Integers, Sequences, FiniteSets

CONSTANTS
  Goroutines,
  Bounds,     \* waitBuckets: the upper bounds of the buckets, increasing
  Reports,    \* what Reconcile may report: [expired, evicted, waits]
  MaxCalls    \* bound: calls to the registry

Setup ==
  /\ IsFiniteSet(Goroutines)
  /\ Bounds \in Seq(Int)
  /\ \A i \in DOMAIN Bounds, j \in DOMAIN Bounds : i < j => Bounds[i] < Bounds[j]
  /\ \A r \in Reports : r.expired \in Nat /\ r.evicted \in Nat /\ r.waits \in Seq(Int)
  /\ MaxCalls \in Nat

ASSUME MetricsAssumption == Setup

VARIABLES
  reg,     \* the cells of the registry
  prog,    \* what every goroutine has left to record, and the sum it loaded
  scan,    \* what the last scrape has read so far
  overlap, \* history: observations that were under way during a scrape
  truth,   \* history: the waits handed to ObserveAdmission, summed and counted,
           \* and how many of them are recorded to the end
  calls

registryVars == <<reg, prog, scan, overlap, truth, calls>>

-----------------------------------------------------------------------------
(* The registry *)

Cell(name) == <<name, 0>>

Bucket(i) == <<"bucket", i>>

Beyond == Len(Bounds) + 1  \* the bucket beyond the final bound

Total == Cell("total")
Sum == Cell("sum")
Admissions == Cell("admissions")

(***************************************************************************)
(* The order in which WriteTo loads the cells.                             *)
(***************************************************************************)
WriteTo ==
  << Admissions, Cell("expirations"), Cell("evictions"),
     Cell("proxied"), Cell("queued"), Cell("admin") >>
  \o [i \in 1..Beyond |-> Bucket(i)]
  \o << Sum, Total >>

Cells == {WriteTo[i] : i \in DOMAIN WriteTo}

Add(cell, n) == [cell |-> cell, n |-> n]

BucketOf(wait) ==
  LET fits == {i \in DOMAIN Bounds : wait <= Bounds[i]}
  IN IF fits = {} THEN Beyond ELSE CHOOSE i \in fits : \A j \in fits : i <= j

ObserveAdmission(wait) ==
  << Add(Admissions, 1), Add(Bucket(BucketOf(wait)), 1), Add(Total, 1), Add(Sum, wait) >>

AddReconcile(r) == << Add(Cell("expirations"), r.expired), Add(Cell("evictions"), r.evicted) >>

IncRequest(decision) == << Add(Cell(decision), 1) >>

(***************************************************************************)
(* What the controller records of one Reconcile.                           *)
(***************************************************************************)
Reconciled(r) ==
  LET recorded[k \in 0..Len(r.waits)] ==
        IF k = 0 THEN AddReconcile(r) ELSE recorded[k - 1] \o ObserveAdmission(r.waits[k])
  IN recorded[Len(r.waits)]

RegistryInit ==
  /\ reg = [c \in Cells |-> 0]
  /\ prog = [g \in Goroutines |-> [todo |-> <<>>, old |-> {}]]
  /\ scan = <<>>
  /\ overlap = 0
  /\ truth = [sum |-> 0, atMost |-> [i \in 1..Beyond |-> 0], finished |-> 0]
  /\ calls = 0

-----------------------------------------------------------------------------
(* The goroutines *)

Busy == {g \in Goroutines : prog[g].todo # <<>>}

(***************************************************************************)
(* What a histogram is to say besides what it said: of one more wait, and  *)
(* of the waits ws.                                                        *)
(***************************************************************************)
Counted(t, wait) ==
  [sum |-> t.sum + wait,
   atMost |-> [i \in 1..Beyond |-> t.atMost[i] + IF i = Beyond \/ wait <= Bounds[i] THEN 1 ELSE 0],
   finished |-> t.finished]

Observed(ws) ==
  LET told[k \in 0..Len(ws)] == IF k = 0 THEN truth ELSE Counted(told[k - 1], ws[k])
  IN told[Len(ws)]

Scraped == Len(scan) = Len(WriteTo)

Call(g, todo, ws) ==
  /\ g \notin Busy
  /\ calls < MaxCalls
  /\ calls' = calls + 1
  /\ prog' = [prog EXCEPT ![g].todo = todo]
  /\ truth' = Observed(ws)
  /\ overlap' = IF Scraped THEN overlap ELSE overlap + Len(ws)
  /\ UNCHANGED <<reg, scan>>

Reconcile(g) == \E r \in Reports : Call(g, Reconciled(r), r.waits)

Admit(g) == Call(g, ObserveAdmission(0), <<0>>)

Decide(g) == \E d \in {"proxied", "queued", "admin"} : Call(g, IncRequest(d), <<>>)

Step(g) == [todo |-> Tail(prog[g].todo), old |-> {}]

AddInt(g) ==
  /\ g \in Busy
  /\ LET a == Head(prog[g].todo)
     IN a.cell # Sum /\ reg' = [reg EXCEPT ![a.cell] = @ + a.n]
  /\ prog' = [prog EXCEPT ![g] = Step(g)]
  /\ UNCHANGED <<scan, overlap, truth, calls>>

LoadSum(g) ==
  /\ g \in Busy /\ Head(prog[g].todo).cell = Sum /\ prog[g].old = {}
  /\ prog' = [prog EXCEPT ![g].old = {reg[Sum]}]
  /\ UNCHANGED <<reg, scan, overlap, truth, calls>>

\* The goroutine is done with an observation, and the sum is now n.
Swapped(g, n) ==
  /\ reg' = [reg EXCEPT ![Sum] = n]
  /\ prog' = [prog EXCEPT ![g] = Step(g)]
  /\ truth' = [truth EXCEPT !.finished = @ + 1]

\* Mutant: the sum is stored, whatever it has become.
StoreSum(g) ==
  /\ g \in Busy /\ prog[g].old # {}
  /\ \E old \in prog[g].old : Swapped(g, old + Head(prog[g].todo).n)
  /\ UNCHANGED <<scan, overlap, calls>>

\* Mutant: the loop retries with the value it has.
RetrySum(g) ==
  /\ g \in Busy /\ prog[g].old # {}
  /\ reg[Sum] \in prog[g].old /\ Swapped(g, reg[Sum] + Head(prog[g].todo).n)
  /\ UNCHANGED <<scan, overlap, calls>>

CompareAndSwapSum(g) ==
  /\ g \in Busy /\ prog[g].old # {}
  /\ IF reg[Sum] \in prog[g].old
       THEN Swapped(g, reg[Sum] + Head(prog[g].todo).n)
       ELSE prog' = [prog EXCEPT ![g].old = {}] /\ UNCHANGED <<reg, truth>>
  /\ UNCHANGED <<scan, overlap, calls>>

-----------------------------------------------------------------------------
(* The scrape *)

\* Observations that are being recorded.
Unfinished == truth.atMost[Beyond] - truth.finished

\* Mutant: the first cell is loaded once for all scrapes.
ScrapeStale ==
  LET read == IF Scraped THEN SubSeq(scan, 1, 1) ELSE scan
  IN /\ scan' = Append(read, reg[WriteTo[Len(read) + 1]])
     /\ overlap' = IF read = <<>> \/ Scraped THEN Unfinished ELSE overlap
     /\ UNCHANGED <<reg, prog, truth, calls>>

(***************************************************************************)
(* The scrape loads the next cell; a scrape that is finished is followed   *)
(* by another one.                                                         *)
(***************************************************************************)
Scrape ==
  LET read == IF Scraped THEN <<>> ELSE scan
  IN /\ scan' = Append(read, reg[WriteTo[Len(read) + 1]])
     /\ overlap' = IF read = <<>> THEN Unfinished ELSE overlap
     /\ UNCHANGED <<reg, prog, truth, calls>>

RegistryNext ==
  \/ \E g \in Goroutines :
       \/ Reconcile(g) \/ Admit(g) \/ Decide(g)
       \/ AddInt(g) \/ LoadSum(g) \/ CompareAndSwapSum(g)
  \/ Scrape

(***************************************************************************)
(* Every goroutine that runs goes on running.                              *)
(***************************************************************************)
RegistryFairness ==
  \A g \in Goroutines : WF_registryVars(AddInt(g) \/ LoadSum(g) \/ CompareAndSwapSum(g))

RegistrySpec == RegistryInit /\ [][RegistryNext]_registryVars /\ RegistryFairness

-----------------------------------------------------------------------------
(* Properties *)

RegistryTypeOK ==
  /\ \A c \in Cells : reg[c] \in Int /\ (c # Sum => reg[c] \in Nat)
  /\ \A g \in Goroutines :
       /\ \A i \in DOMAIN prog[g].todo : prog[g].todo[i].cell \in Cells
       /\ prog[g].old # {} => g \in Busy
  /\ Len(scan) <= Len(WriteTo)
  /\ overlap \in Nat
  /\ calls \in 0..MaxCalls

(***************************************************************************)
(* "fed exactly once per event" (metrics.go:4): when nobody is recording,  *)
(* the histogram is the one of the waits that were observed, in whatever   *)
(* order the goroutines' adds and swaps were made: every bucket and the    *)
(* ones below it count the waits up to its bound, and no wait is missing   *)
(* from the sum.                                                           *)
(***************************************************************************)
Cumulative(f, i) ==
  LET upTo[j \in 0..i] == IF j = 0 THEN 0 ELSE upTo[j - 1] + f[j]
  IN upTo[i]

UpTo(i) == Cumulative([j \in 1..Beyond |-> reg[Bucket(j)]], i)

RegistryExact ==
  Busy = {} =>
    /\ \A i \in 1..Beyond : UpTo(i) = truth.atMost[i]
    /\ reg[Total] = truth.atMost[Beyond]
    /\ reg[Admissions] = truth.atMost[Beyond]
    /\ reg[Sum] = truth.sum

(***************************************************************************)
(* A scrape is no snapshot, but what it shows as admissions, as the +Inf   *)
(* bucket and as the count of the histogram differ by no more than the     *)
(* admissions that were being recorded while it ran; if there were none,   *)
(* they are equal.                                                         *)
(***************************************************************************)
Shown(cell) == scan[CHOOSE i \in DOMAIN WriteTo : WriteTo[i] = cell]

Differ(m, n) == m - n \in -overlap..overlap

ScrapeSkew ==
  Scraped =>
    LET inf == Cumulative([j \in 1..Beyond |-> Shown(Bucket(j))], Beyond)
    IN /\ Differ(inf, Shown(Total))
       /\ Differ(inf, Shown(Admissions))
       /\ Differ(Shown(Total), Shown(Admissions))

(***************************************************************************)
(* The compare-and-swap loop of ObserveAdmission is lock-free: whenever a  *)
(* goroutine is in it, some goroutine's swap gets through, for a swap only *)
(* fails when another one was made since the load.  Which goroutine's is   *)
(* not promised: one that always loses may loop as long as others record.  *)
(* n ranges over all counts of swaps that MaxCalls calls can reach.        *)
(***************************************************************************)
Summing == {g \in Busy : Head(prog[g].todo).cell = Sum}

MostSwaps ==
  LET lengths == {1} \cup {Len(r.waits) : r \in Reports}
  IN MaxCalls * CHOOSE k \in lengths : \A j \in lengths : j <= k

SwapsGetThrough ==
  \A n \in 0..MostSwaps :
    Summing # {} /\ truth.finished = n ~> truth.finished > n
=============================================================================
