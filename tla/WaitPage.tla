------------------------------ MODULE WaitPage ------------------------------
(***************************************************************************)
(* The waiting page (internal/waitpage/wait.html) and the requests it      *)
(* makes: it polls /gowait/status, reloads when told "active", and backs   *)
(* off when a poll fails.  Its polls are the heartbeats that keep a        *)
(* visitor in the line, and StatusOf never puts anybody back into it.      *)
(*                                                                         *)
(* A tick is a unit of the polling interval.  Browsers' timers are         *)
(* punctual and a request takes less than a tick: time does not pass while *)
(* a poll is due or a request is in flight.  Requests are served one after *)
(* the other; stalls and interleavings within a request are Admission's.   *)
(***************************************************************************)
EXTENDS LiveRoom

CONSTANTS
  PollInterval, Jitter, MaxBackoff,  \* in ticks: -poll-interval, 500 ms, 30 s
  TicksPerSecond,
  Gated,       \* may a request skip its reconcile?  (MinReconcileGap)
  MaxFaults    \* bound: failed requests and flushes

(***************************************************************************)
(* What config.Validate asks of the durations.                             *)
(***************************************************************************)
Valid ==
  /\ PollInterval > 0
  /\ ActiveTTL > PollInterval
  /\ QueueTTL >= 2 * PollInterval

(***************************************************************************)
(* A poll that is not late comes within both TTLs: before a waiter is a    *)
(* ghost, and before a session that the waiter does not know of yet is     *)
(* over.  Validate leaves the jitter out and does not ask for this.        *)
(***************************************************************************)
Punctual == PollInterval + Jitter <= Lesser(ActiveTTL, QueueTTL)

Durations ==
  /\ {PollInterval, Jitter, MaxBackoff, TicksPerSecond, MaxFaults} \subseteq Nat
  /\ TicksPerSecond > 0

ASSUME WaitPageAssumption == Durations /\ Gated \in BOOLEAN /\ Valid

VARIABLES
  page,      \* what the visitor looks at: the waiting page or something else
  request,   \* the request being served, after its reconcile; or a reload to come
  timer,     \* ticks until the page polls
  pollMs,    \* the page's polling interval
  failures,  \* failed polls in a row
  acted,     \* did a visitor make a request this tick?  One does, at most
  faults

browser == <<page, request, timer, pollMs, failures>>
pageVars == <<room, browser, acted, faults>>

None == [kind |-> "none"]

Calling(v, kind) == [by |-> v, kind |-> kind]

PageInit ==
  /\ RoomInit
  /\ page = [v \in Ids |-> "other"]
  /\ request = None
  /\ timer = [v \in Ids |-> 0]
  /\ pollMs = [v \in Ids |-> PollInterval]
  /\ failures = [v \in Ids |-> 0]
  /\ acted = FALSE
  /\ faults = 0

Shows(v, what) ==  \* the script of a new page starts from scratch and polls at once
  /\ page' = [page EXCEPT ![v] = what]
  /\ timer' = [timer EXCEPT ![v] = 0]
  /\ pollMs' = [pollMs EXCEPT ![v] = PollInterval]
  /\ failures' = [failures EXCEPT ![v] = 0]

Fault == faults < MaxFaults /\ faults' = faults + 1

PageMaybeReconcile == Crank \/ (Gated /\ UNCHANGED room)

-----------------------------------------------------------------------------
(* The visitors *)

(***************************************************************************)
(* A visitor comes (again).  A visit is one request, and a session is over *)
(* before its visitor comes back: sessions that never end would keep the   *)
(* others out for ever.                                                    *)
(***************************************************************************)
Request(v) ==
  /\ request = None
  /\ ~acted
  /\ page[v] = "other" /\ v \notin inside
  /\ request' = Calling(v, "check")
  /\ PageMaybeReconcile
  /\ acted' = TRUE
  /\ UNCHANGED <<page, timer, pollMs, failures, faults>>

CloseTab(v) ==
  /\ page[v] = "wait" /\ request = None
  /\ Shows(v, "other")
  /\ UNCHANGED <<room, request, acted, faults>>

-----------------------------------------------------------------------------
(* The script of the page *)

Poll(v) ==
  /\ page[v] = "wait" /\ request = None /\ timer[v] = 0
  /\ request' = Calling(v, "status")
  /\ PageMaybeReconcile
  /\ UNCHANGED <<page, timer, pollMs, failures, acted, faults>>

(***************************************************************************)
(* poll_seconds of the status answer: whole seconds, and 0 is ignored.     *)
(***************************************************************************)
Advertised(interval) ==
  LET seconds == PollInterval \div TicksPerSecond
  IN IF seconds = 0 THEN interval ELSE seconds * TicksPerSecond

Backoff(interval, n) == Lesser(interval * 2 ^ n, MaxBackoff)

Schedule(v, ms) == \E late \in 0..Jitter : timer' = [timer EXCEPT ![v] = ms + late]

PollAnswered(v) ==
  /\ IF StatusActive(v)
       THEN /\ request' = Calling(v, "reload")
            /\ UNCHANGED <<timer, pollMs>>
       ELSE /\ request' = None
            /\ pollMs' = [pollMs EXCEPT ![v] = Advertised(@)]
            /\ Schedule(v, pollMs'[v])
  /\ failures' = [failures EXCEPT ![v] = 0]
  /\ UNCHANGED page

(***************************************************************************)
(* Failures beyond the one that reaches MaxBackoff change nothing.         *)
(***************************************************************************)
PollFailed(v) ==
  LET n == failures[v] + 1 IN
  /\ failures' = [failures EXCEPT ![v] = IF Backoff(pollMs[v], @) = MaxBackoff THEN @ ELSE n]
  /\ Schedule(v, Backoff(pollMs[v], n))
  /\ UNCHANGED <<page, pollMs>>

Reload(v) ==
  /\ request = Calling(v, "reload")
  /\ request' = Calling(v, "check")
  /\ PageMaybeReconcile
  /\ UNCHANGED <<page, timer, pollMs, failures, acted, faults>>

-----------------------------------------------------------------------------
(* The server *)

AnswerStatus(v) ==
  /\ request = Calling(v, "status")
  /\ StatusTicket(v)
  /\ PollAnswered(v)
  /\ UNCHANGED <<acted, faults>>

AnswerCheck(v) ==
  /\ request = Calling(v, "check")
  /\ CheckTicket(v)
  /\ Shows(v, IF v \in inside' THEN "other" ELSE "wait")
  /\ request' = None
  /\ UNCHANGED <<acted, faults>>

(***************************************************************************)
(* The request fails, before it took effect or after.  A failed poll backs *)
(* off; a failed page load leaves an error page without a script.          *)
(***************************************************************************)
CallFails(v) ==
  /\ request \in {Calling(v, kind) : kind \in {"status", "check"}}
  /\ Fault
  /\ \/ UNCHANGED room
     \/ request = Calling(v, "status") /\ StatusTicket(v)
     \/ request = Calling(v, "check") /\ CheckTicket(v)
  /\ IF request.kind = "status" THEN PollFailed(v) ELSE Shows(v, "other")
  /\ request' = None
  /\ UNCHANGED acted

PageJanitor ==
  /\ Crank
  /\ UNCHANGED <<browser, acted, faults>>

FlushQueue ==
  /\ line # <<>>
  /\ Fault
  /\ Flush
  /\ UNCHANGED <<browser, acted>>

PageTick ==
  /\ request = None
  /\ \A v \in Ids : page[v] = "wait" => timer[v] > 0
  /\ RoomAges
  /\ timer' = [v \in Ids |-> Greater(timer[v] - 1, 0)]
  /\ acted' = FALSE
  /\ UNCHANGED <<page, request, pollMs, failures, faults>>

PageNext ==
  \/ \E v \in Ids :
       \/ Request(v) \/ CloseTab(v)
       \/ Poll(v) \/ Reload(v) \/ AnswerStatus(v) \/ AnswerCheck(v) \/ CallFails(v)
  \/ PageJanitor
  \/ FlushQueue
  \/ PageTick

(***************************************************************************)
(* Time passes, timers fire, requests are answered and the janitor runs.   *)
(* Nothing is assumed of the visitors.                                     *)
(***************************************************************************)
PageFairness ==
  /\ WF_pageVars(PageTick)
  /\ WF_pageVars(PageJanitor)
  /\ WF_pageVars(\E v \in Ids : Reload(v) \/ AnswerStatus(v) \/ AnswerCheck(v))
  /\ WF_pageVars(\E v \in Ids : Poll(v))

PageSpec == PageInit /\ [][PageNext]_pageVars /\ PageFairness

-----------------------------------------------------------------------------
(* Properties *)

PageTypeOK ==
  /\ page \in [Ids -> {"other", "wait"}]
  /\ timer \in [Ids -> 0..MaxBackoff + Jitter]
  /\ pollMs \in [Ids -> Nat \ {0}]
  /\ failures \in [Ids -> Nat]
  /\ acted \in BOOLEAN
  /\ faults \in 0..MaxFaults
  /\ DOMAIN seen = Known
  /\ \A id \in Known : seen[id] \in Oldest..Present

(***************************************************************************)
(* "Keep this page open" (waitpage.go:48): as long as no poll failed and   *)
(* nobody flushed the queue, who looks at the waiting page is in the line  *)
(* or already inside.  It holds for durations that are Punctual.           *)
(***************************************************************************)
PageKeepsPlace == faults = 0 => \A v \in Ids : page[v] = "wait" => v \in Known

(***************************************************************************)
(* Who looks at the waiting page and is in the line gets in, however many  *)
(* others come and whatever fails, unless it closes the page or is thrown  *)
(* out of the line.                                                        *)
(***************************************************************************)
LineMoves ==
  \A v \in Ids :
    (page[v] = "wait" /\ v \in Waiting(line)) ~> (page[v] # "wait" \/ v \notin Known)

(***************************************************************************)
(* Once nobody else comes, everybody who looks at the waiting page gets    *)
(* in, the ones who were thrown out of the line included: the page never   *)
(* gives up, and StatusOf tells it when the room is free.                  *)
(***************************************************************************)
QuietRoomServesAll ==
  <>[]~acted => \A v \in Ids : page[v] = "wait" ~> page[v] # "wait"

(***************************************************************************)
(* "You will be let in automatically" (waitpage.go:46): who keeps the      *)
(* waiting page open gets in.                                              *)
(***************************************************************************)
LetIn == \A v \in Ids : page[v] = "wait" ~> page[v] # "wait"
=============================================================================
