------------------------------ MODULE EtaProofs ------------------------------
(***************************************************************************)
(* That the average behind an estimate is as recent as it is said to be,   *)
(* and that what is shown of the estimate is honest: for any number of     *)
(* requests, any averages, and any durations.                              *)
(***************************************************************************)
EXTENDS Eta, TLAPS

Loading == [pc : {"load", "stats"}, now : Int]

Averaged == [pc : {"store", "eta"}, now : Int, average : Int, taken : Int]

Answered == [pc : {"answered"}, now : Int, taken : Int, eta : Int, shown : Int]

Typed ==
  /\ clock \in Int
  /\ cache \in [average : Int, at : Int, taken : Int]
  /\ req \in [Requests -> {Idle} \cup Loading \cup Averaged \cup Answered]

(***************************************************************************)
(* The cache is dated no later than its average was asked for; a request   *)
(* reads the clock before it asks, so what it is about to store is, too.   *)
(***************************************************************************)
DatedEarly ==
  /\ cache.at <= cache.taken
  /\ \A r \in Requests :
       /\ req[r].pc # "idle" => req[r].now <= clock
       /\ req[r].pc = "store" => req[r].now <= req[r].taken

(***************************************************************************)
(* EtaFresh, from the moment the average is chosen.                        *)
(***************************************************************************)
ChosenFresh ==
  \A r \in Requests :
    req[r].pc \in {"eta", "answered"} => req[r].taken > req[r].now - Greater(StatsCacheTTL, 1)

IInv == Typed /\ DatedEarly /\ ChosenFresh

-----------------------------------------------------------------------------
(* Arithmetic *)

(***************************************************************************)
(* Integer division rounds down.                                           *)
(***************************************************************************)
LEMMA DivisionRoundsDown ==
  ASSUME NEW a \in Int, NEW t \in Nat \ {0}
  PROVE  a \div t \in Int /\ (a \div t) * t <= a /\ a < (a \div t) * t + t
OBVIOUS

(***************************************************************************)
(* A quotient is no less than 0 if the dividend is not.                    *)
(***************************************************************************)
LEMMA QuotientNat ==
  ASSUME NEW a \in Nat, NEW t \in Nat \ {0}
  PROVE  a \div t \in Nat
<1>1. a \div t \in Int /\ a < (a \div t) * t + t
  BY DivisionRoundsDown
<1> DEFINE q == a \div t
<1> HIDE DEF q
<1>2. q < 0 => q * t + t <= 0
  BY <1>1 DEF q
<1> QED BY <1>1, <1>2 DEF q

(***************************************************************************)
(* eta is never negative: without an average, or with a negative one, it   *)
(* takes ActiveTTL.                                                        *)
(***************************************************************************)
LEMMA EtaIsNat ==
  ASSUME NEW position \in Positions, NEW capacity \in Capacities, NEW avg \in Int
  PROVE  ETA(position, avg, capacity) \in Nat
<1> DEFINE each == IF avg > 0 THEN avg ELSE ActiveTTL
<1>1. each \in Nat /\ position \in Nat /\ capacity \in Nat \ {0}
  BY EtaAssumption
<1> HIDE DEF each
<1>2. position * each \in Nat
  BY <1>1
<1> QED BY <1>1, <1>2, QuotientNat DEF ETA, each

(***************************************************************************)
(* The seconds shown: rounded up, and at least the polling interval        *)
(* rounded down.                                                           *)
(***************************************************************************)
LEMMA SecondsHonest ==
  ASSUME NEW eta \in Nat
  PROVE  /\ Seconds(eta) \in Int
         /\ Seconds(eta) * TicksPerSecond >= eta
         /\ Seconds(eta) * TicksPerSecond > PollInterval - TicksPerSecond
         /\ Seconds(eta) * TicksPerSecond < Greater(eta, PollInterval) + TicksPerSecond
<1> DEFINE t == TicksPerSecond
           up == (eta + t - 1) \div t
           poll == PollInterval \div t
<1>1. t \in Nat \ {0} /\ PollInterval \in Nat
  BY EtaAssumption
<1>2. up \in Int /\ up * t <= eta + t - 1 /\ eta + t - 1 < up * t + t
  BY <1>1, DivisionRoundsDown
<1>3. poll \in Int /\ poll * t <= PollInterval /\ PollInterval < poll * t + t
  BY <1>1, DivisionRoundsDown
<1>4. Seconds(eta) = Greater(up, poll)
  BY DEF Seconds
<1> HIDE DEF t, up, poll
<1>5. CASE up < poll
  <2>1. up * t <= poll * t /\ up * t \in Int /\ poll * t \in Int
    BY <1>1, <1>2, <1>3, <1>5
  <2>2. Seconds(eta) = poll
    BY <1>4, <1>5 DEF Greater
  <2> QED BY <1>1, <1>2, <1>3, <2>1, <2>2 DEF t, Greater
<1>6. CASE ~(up < poll)
  <2>1. poll * t <= up * t /\ up * t \in Int /\ poll * t \in Int
    BY <1>1, <1>2, <1>3, <1>6
  <2>2. Seconds(eta) = up
    BY <1>4, <1>6 DEF Greater
  <2> QED BY <1>1, <1>2, <1>3, <2>1, <2>2 DEF t, Greater
<1> QED BY <1>5, <1>6

-----------------------------------------------------------------------------
(* The invariant *)

(***************************************************************************)
(* The empty cache, and no request.                                        *)
(***************************************************************************)
LEMMA InitIInv == Init => IInv
BY EtaAssumption DEF Init, IInv, Typed, DatedEarly, ChosenFresh, Nothing, Idle

(***************************************************************************)
(* A request as it is after a step of its own: `other` requests do not     *)
(* change, so it is enough to look at this one.                            *)
(***************************************************************************)
LEMMA OwnStep ==
  ASSUME IInv, UNCHANGED clock,
         NEW r \in Requests, NEW x \in {Idle} \cup Loading \cup Averaged \cup Answered,
         req' = [req EXCEPT ![r] = x],
         cache' \in [average : Int, at : Int, taken : Int], cache'.at <= cache'.taken,
         x.pc # "idle" => x.now <= clock,
         x.pc = "store" => x.now <= x.taken,
         x.pc \in {"eta", "answered"} => x.taken > x.now - Greater(StatsCacheTTL, 1)
  PROVE  IInv'
<1>1. /\ req' \in [Requests -> {Idle} \cup Loading \cup Averaged \cup Answered]
      /\ \A q \in Requests : q # r => req'[q] = req[q]
      /\ req'[r] = x
  BY DEF IInv, Typed
<1>2. Typed'
  BY <1>1 DEF IInv, Typed
<1>3. DatedEarly'
  BY <1>1 DEF IInv, DatedEarly
<1>4. ChosenFresh'
  BY <1>1 DEF IInv, ChosenFresh
<1> QED BY <1>2, <1>3, <1>4 DEF IInv

(***************************************************************************)
(* etaStats: what is chosen is fresh, from the cache or from the store.    *)
(***************************************************************************)
LEMMA StatsStep ==
  ASSUME IInv, NEW r \in Requests,
         Arrive(r) \/ LoadCache(r) \/ Stats(r) \/ StatsFail(r) \/ StoreCache(r)
  PROVE  IInv'
<1> USE EtaAssumption
<1>1. cache \in [average : Int, at : Int, taken : Int] /\ cache.at <= cache.taken /\ clock \in Int
  BY DEF IInv, Typed, DatedEarly
<1>2. req[r].pc \in {"load", "stats"} => req[r] \in Loading
  BY DEF IInv, Typed, Idle, Loading, Averaged, Answered
<1>3. req[r].pc = "store" => req[r] \in Averaged
  BY DEF IInv, Typed, Idle, Loading, Averaged, Answered
<1>4. Greater(StatsCacheTTL, 1) \in Int /\ Greater(StatsCacheTTL, 1) >= 1
      /\ Greater(StatsCacheTTL, 1) >= StatsCacheTTL
  BY DEF Greater
<1>5. req[r].pc # "idle" => req[r].now <= clock
  BY DEF IInv, DatedEarly
<1>6. CASE Arrive(r)
  <2> DEFINE x == [pc |-> "load", now |-> clock]
  <2>1. x \in Loading /\ x.pc = "load" /\ x.now <= clock
    BY <1>1 DEF Loading
  <2>2. req' = [req EXCEPT ![r] = x] /\ UNCHANGED <<clock, cache>>
    BY <1>6 DEF Arrive
  <2> HIDE DEF x
  <2> QED BY <1>1, <2>1, <2>2, OwnStep
<1>7. CASE LoadCache(r)
  <2>1. req[r] \in Loading /\ req[r].now <= clock
    BY <1>2, <1>5, <1>7 DEF LoadCache
  <2>2. CASE Fresh(req[r].now)
    <3> DEFINE x == Answers(r, cache.average, cache.taken)
    <3>1. req' = [req EXCEPT ![r] = x] /\ UNCHANGED <<clock, cache>>
      BY <1>7, <2>2 DEF LoadCache
    <3>2. x \in Averaged /\ x.pc = "eta" /\ x.now = req[r].now /\ x.taken = cache.taken
      BY <1>1, <2>1 DEF Answers, Averaged, Loading
    <3>3. cache.taken > req[r].now - StatsCacheTTL
      BY <1>1, <2>1, <2>2 DEF Fresh, Loading
    <3>4. cache.taken > req[r].now - Greater(StatsCacheTTL, 1)
      BY <1>1, <1>4, <2>1, <3>3 DEF Loading
    <3> HIDE DEF x
    <3> QED BY <1>1, <2>1, <3>1, <3>2, <3>4, OwnStep
  <2>3. CASE ~Fresh(req[r].now)
    <3> DEFINE x == [req[r] EXCEPT !.pc = "stats"]
    <3>1. req' = [req EXCEPT ![r] = x] /\ UNCHANGED <<clock, cache>>
      BY <1>7, <2>3 DEF LoadCache
    <3>2. x \in Loading /\ x.pc = "stats" /\ x.now = req[r].now
      BY <2>1 DEF Loading
    <3> HIDE DEF x
    <3> QED BY <1>1, <2>1, <3>1, <3>2, OwnStep
  <2> QED BY <2>2, <2>3
<1>8. CASE Stats(r)
  <2>1. req[r] \in Loading /\ req[r].now <= clock
    BY <1>2, <1>5, <1>8 DEF Stats
  <2>2. PICK average \in Averages :
          req' = [req EXCEPT ![r] = [Answers(r, average, clock) EXCEPT
                    !.pc = IF StatsCacheTTL > 0 THEN "store" ELSE "eta"]]
    BY <1>8 DEF Stats
  <2> DEFINE x == [Answers(r, average, clock) EXCEPT
                    !.pc = IF StatsCacheTTL > 0 THEN "store" ELSE "eta"]
  <2>3. x \in Averaged /\ x.now = req[r].now /\ x.taken = clock
    BY <1>1, <2>1 DEF Answers, Averaged, Loading
  <2>4. clock > req[r].now - Greater(StatsCacheTTL, 1)
    BY <1>1, <1>4, <2>1 DEF Loading
  <2>5. req' = [req EXCEPT ![r] = x] /\ UNCHANGED <<clock, cache>>
    BY <1>8, <2>2 DEF Stats
  <2> HIDE DEF x
  <2> QED BY <1>1, <2>1, <2>3, <2>4, <2>5, OwnStep
<1>9. CASE StatsFail(r)
  <2>1. req[r] \in Loading /\ req[r].now <= clock
    BY <1>2, <1>5, <1>9 DEF StatsFail
  <2> DEFINE x == Answers(r, 0, clock)
  <2>2. x \in Averaged /\ x.pc = "eta" /\ x.now = req[r].now /\ x.taken = clock
    BY <1>1, <2>1 DEF Answers, Averaged, Loading
  <2>3. clock > req[r].now - Greater(StatsCacheTTL, 1)
    BY <1>1, <1>4, <2>1 DEF Loading
  <2>4. req' = [req EXCEPT ![r] = x] /\ UNCHANGED <<clock, cache>>
    BY <1>9 DEF StatsFail
  <2> HIDE DEF x
  <2> QED BY <1>1, <2>1, <2>2, <2>3, <2>4, OwnStep
<1>10. CASE StoreCache(r)
  <2>1. req[r] \in Averaged /\ req[r].now <= clock /\ req[r].now <= req[r].taken
    BY <1>3, <1>5, <1>10 DEF StoreCache, IInv, DatedEarly
  <2> DEFINE x == [req[r] EXCEPT !.pc = "eta"]
  <2>2. req' = [req EXCEPT ![r] = x] /\ UNCHANGED clock
    BY <1>10 DEF StoreCache
  <2>3. x \in Averaged /\ x.pc = "eta" /\ x.now = req[r].now /\ x.taken = req[r].taken
    BY <2>1 DEF Averaged
  <2>4. req[r].taken > req[r].now - Greater(StatsCacheTTL, 1)
    BY <1>4, <2>1 DEF Averaged
  <2>5. cache' \in [average : Int, at : Int, taken : Int] /\ cache'.at <= cache'.taken
    BY <1>10, <2>1 DEF StoreCache, Averaged
  <2> HIDE DEF x
  <2> QED BY <1>1, <2>1, <2>2, <2>3, <2>4, <2>5, OwnStep
<1> QED BY <1>6, <1>7, <1>8, <1>9, <1>10

(***************************************************************************)
(* The answer keeps the moment its average was taken, and is honest.       *)
(***************************************************************************)
LEMMA AnswerStep ==
  ASSUME IInv, NEW r \in Requests, Answer(r)
  PROVE  /\ IInv'
         /\ \A q \in Requests : q # r => req'[q] = req[q]
         /\ req'[r].eta \in Nat /\ req'[r].shown = Seconds(req'[r].eta)
<1>1. PICK position \in Positions, capacity \in Capacities :
        req' = [req EXCEPT ![r] =
          [pc |-> "answered", now |-> req[r].now, taken |-> req[r].taken,
           eta |-> ETA(position, req[r].average, capacity),
           shown |-> Seconds(ETA(position, req[r].average, capacity))]]
  BY DEF Answer
<1> DEFINE eta == ETA(position, req[r].average, capacity)
           x == [pc |-> "answered", now |-> req[r].now, taken |-> req[r].taken, eta |-> eta,
                 shown |-> Seconds(eta)]
<1>2. req[r] \in Averaged /\ req[r].pc = "eta"
  BY DEF Answer, IInv, Typed, Idle, Loading, Averaged, Answered
<1>3. eta \in Nat
  BY <1>2, EtaIsNat DEF Averaged
<1> HIDE DEF eta
<1>4. Seconds(eta) \in Int
  BY <1>3, SecondsHonest
<1>5. /\ x \in Answered /\ x.pc = "answered" /\ x.now = req[r].now /\ x.taken = req[r].taken
      /\ x.eta = eta /\ x.shown = Seconds(eta)
  BY <1>2, <1>3, <1>4 DEF Answered, Averaged
<1>6. req' = [req EXCEPT ![r] = x] /\ UNCHANGED <<clock, cache>>
  BY <1>1 DEF Answer, eta
<1>7. req[r].now <= clock /\ req[r].taken > req[r].now - Greater(StatsCacheTTL, 1)
  BY <1>2 DEF IInv, DatedEarly, ChosenFresh
<1>8. cache' \in [average : Int, at : Int, taken : Int] /\ cache'.at <= cache'.taken
  BY <1>6 DEF IInv, Typed, DatedEarly
<1> HIDE DEF x
<1>9. IInv'
  BY <1>5, <1>6, <1>7, <1>8, OwnStep
<1>10. req'[r] = x /\ \A q \in Requests : q # r => req'[q] = req[q]
  BY <1>6 DEF IInv, Typed
<1> QED BY <1>3, <1>5, <1>9, <1>10

(***************************************************************************)
(* Returning, and time passing.                                            *)
(***************************************************************************)
LEMMA ReturnOrTick ==
  ASSUME IInv, Tick \/ \E r \in Requests : Return(r)
  PROVE  IInv'
<1>1. CASE Tick
  <2>1. clock' \in Int /\ clock <= clock' /\ UNCHANGED <<cache, req>>
    BY <1>1 DEF Tick, IInv, Typed
  <2>2. \A r \in Requests : req[r].pc # "idle" => req[r].now \in Int
    BY DEF IInv, Typed, Idle, Loading, Averaged, Answered
  <2>3. \A r \in Requests : req[r].pc # "idle" => req[r].now <= clock'
    BY <2>1, <2>2 DEF IInv, Typed, DatedEarly
  <2> QED BY <2>1, <2>3 DEF IInv, Typed, DatedEarly, ChosenFresh
<1>2. ASSUME NEW r \in Requests, Return(r) PROVE IInv'
  <2>1. Idle.pc = "idle" /\ req' = [req EXCEPT ![r] = Idle] /\ UNCHANGED <<clock, cache>>
    BY <1>2 DEF Return, Idle
  <2>2. cache' \in [average : Int, at : Int, taken : Int] /\ cache'.at <= cache'.taken
    BY <2>1 DEF IInv, Typed, DatedEarly
  <2> QED BY <2>1, <2>2, OwnStep
<1> QED BY <1>1, <1>2

(***************************************************************************)
(* Every step.                                                             *)
(***************************************************************************)
LEMMA NextIInv == IInv /\ [Next]_vars => IInv'
<1> SUFFICES ASSUME IInv, [Next]_vars PROVE IInv'
  OBVIOUS
<1>1. CASE UNCHANGED vars
  BY <1>1 DEF vars, IInv, Typed, DatedEarly, ChosenFresh
<1>2. CASE Next
  BY <1>2, StatsStep, AnswerStep, ReturnOrTick DEF Next
<1> QED BY <1>1, <1>2

(***************************************************************************)
(* The inductive invariant.                                                *)
(***************************************************************************)
THEOREM EtaInvariant == Spec => []IInv
BY InitIInv, NextIInv, PTL DEF Spec

(***************************************************************************)
(* No answer is made from an average asked for StatsCacheTTL or more       *)
(* before the request arrived, however requests overtake one another in    *)
(* etaStats.                                                               *)
(***************************************************************************)
THEOREM AlwaysFresh == Spec => []EtaFresh
<1>1. IInv => EtaFresh
  BY DEF IInv, ChosenFresh, EtaFresh
<1> QED BY <1>1, EtaInvariant, PTL

(***************************************************************************)
(* An answer was computed by Answer.                                       *)
(***************************************************************************)
Computed ==
  \A r \in Requests :
    req[r].pc = "answered" => req[r].eta \in Nat /\ req[r].shown = Seconds(req[r].eta)

(***************************************************************************)
(* Only Answer makes an answer.                                            *)
(***************************************************************************)
LEMMA ComputedStep == IInv /\ Computed /\ [Next]_vars => Computed'
<1> SUFFICES ASSUME IInv, Computed, [Next]_vars, NEW r \in Requests, req'[r].pc = "answered"
             PROVE  req'[r].eta \in Nat /\ req'[r].shown = Seconds(req'[r].eta)
  BY DEF Computed
<1>1. CASE req'[r] = req[r]
  BY <1>1 DEF Computed
<1>2. CASE req'[r] # req[r]
  <2>1. Answer(r)
    <3> USE DEF IInv, Typed
    <3>1. ~Tick /\ ~UNCHANGED vars
      BY <1>2 DEF Tick, vars
    <3>2. ASSUME NEW q \in Requests
          PROVE  ~Arrive(q) /\ ~LoadCache(q) /\ ~Stats(q) /\ ~StatsFail(q) /\ ~StoreCache(q)
                 /\ ~Return(q)
      <4>1. \A x : req' = [req EXCEPT ![q] = x] => req'[q] = x /\ (q # r => req'[r] = req[r])
        OBVIOUS
      <4>2. ~Arrive(q) /\ ~Return(q)
        BY <1>2, <4>1 DEF Arrive, Return, Idle
      <4>3. ~LoadCache(q)
        BY <1>2, <4>1 DEF LoadCache, Answers, Loading, Idle, Averaged, Answered
      <4>4. ~Stats(q) /\ ~StatsFail(q)
        <5>1. ~StatsFail(q)
          BY <1>2, <4>1 DEF StatsFail, Answers
        <5>2. ASSUME Stats(q) PROVE FALSE
          <6>1. PICK average \in Averages :
                  req' = [req EXCEPT ![q] = [Answers(q, average, clock) EXCEPT
                            !.pc = IF StatsCacheTTL > 0 THEN "store" ELSE "eta"]]
            BY <5>2 DEF Stats
          <6>2. req'[q].pc \in {"store", "eta"}
            BY <6>1 DEF Answers
          <6> QED BY <1>2, <6>1, <6>2
        <5> QED BY <5>1, <5>2
      <4>5. ~StoreCache(q)
        BY <1>2, <4>1 DEF StoreCache, Loading, Idle, Averaged, Answered
      <4> QED BY <4>2, <4>3, <4>4, <4>5
    <3>3. PICK q \in Requests : Answer(q)
      BY <3>1, <3>2, Zenon DEF Next
    <3>4. q = r
      BY <1>2, <3>3, AnswerStep
    <3> QED BY <3>3, <3>4
  <2> QED BY <2>1, AnswerStep
<1> QED BY <1>1, <1>2

(***************************************************************************)
(* What a waiter is told is no shorter than the estimate and longer by     *)
(* less than a second, or the polling interval.                            *)
(***************************************************************************)
THEOREM AlwaysHonest == Spec => []EtaHonest
<1>1. Init => Computed
  BY DEF Init, Computed, Idle
<1>2. Computed => EtaHonest
  BY SecondsHonest DEF Computed, EtaHonest
<1> QED BY <1>1, <1>2, ComputedStep, EtaInvariant, PTL DEF Spec
=============================================================================
