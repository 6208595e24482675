----------------------------- MODULE Gatekeeper -----------------------------
(***************************************************************************)
(* The HTTP front (internal/server) and the browsers before it: who a      *)
(* request is by, as told by signed cookies, and what an answer that       *)
(* carries a cookie does to the browser when it arrives late, in another   *)
(* order or not at all.                                                    *)
(*                                                                         *)
(* A browser has several requests in flight.  The server reads the cookies *)
(* when it starts on a request, and the browser stores the new ones when   *)
(* the answer arrives.  A ticket is known to the room as soon as it was    *)
(* checked, whether or not the browser ever learns it.  The server works   *)
(* on one request at a time here (Admission interleaves them); any number  *)
(* of answers are on their way.                                            *)
(***************************************************************************)
EXTENDS LiveRoom

CONSTANTS
  Browsers,
  Slots,         \* bound: requests in flight per browser
  AdminSession,  \* adminSessionDuration, in ticks
  MaxMishaps,    \* bound: answers lost or overtaken
  MaxRestarts    \* bound

ASSUME GatekeeperAssumption ==
  /\ IsFiniteSet(Browsers)
  /\ IsFiniteSet(Slots)
  /\ AdminSession \in Nat \ {0}
  /\ MaxMishaps \in Nat
  /\ MaxRestarts \in Nat

VARIABLES
  secret,     \* the secret of the running process
  jar,        \* every browser's cookies
  call,       \* the requests in flight
  shown,      \* history: the last time a browser showed the admin key
  mishaps,    \* history: answers with a new ticket that were lost or overtaken
  restarts

vars == <<room, secret, jar, call, shown, mishaps, restarts>>

NoCookie == [secret |-> -1, id |-> "none", left |-> 0]

TicketCookie(c) == [secret |-> c.secret, id |-> c.id, left |-> 0]  \* that answer c brings

AdminCookie == [secret |-> secret, id |-> "admin", left |-> AdminSession]

Idle == [pc |-> "idle"]

Init ==
  /\ RoomInit
  /\ secret = 0
  /\ jar = [b \in Browsers |-> [ticket |-> NoCookie, admin |-> NoCookie]]
  /\ call = [b \in Browsers |-> [s \in Slots |-> Idle]]
  /\ shown = [b \in Browsers |-> NoCookie]
  /\ mishaps = 0
  /\ restarts = 0

\* Mutant: any signature will do.
VerifyAny(cookie) == cookie # NoCookie

Verify(cookie) == cookie.secret = secret

IsAdmin(b) == Verify(jar[b].admin) /\ jar[b].admin.left > 0

-----------------------------------------------------------------------------
(* Tickets *)

InFlight(b) == {call[b][s] : s \in Slots} \ {Idle}

TicketsInFlight == {c.id : c \in UNION {InFlight(b) : b \in Browsers}}

(***************************************************************************)
(* ticket.NewID: a random ticket is one that nobody uses any more, and any *)
(* of them will do.                                                        *)
(***************************************************************************)
NewID ==
  LET unused == Ids \ (Known \cup TicketsInFlight \cup {jar[b].ticket.id : b \in Browsers})
  IN {id \in unused : id = CHOOSE x \in unused : TRUE}

(***************************************************************************)
(* A request on ticket `id` to a process with this secret; `minted` if the *)
(* answer sets the ticket's cookie.  `first` is history: did the browser   *)
(* have no valid ticket to show?                                           *)
(***************************************************************************)
On(b, pc, id, minted) ==
  [pc |-> pc, id |-> id, secret |-> secret, minted |-> minted, admin |-> NoCookie,
   first |-> ~Verify(jar[b].ticket)]

\* Mutant: a ticket that waits in line is not recognised.
TicketIDInside(b, pc) ==
  IF Verify(jar[b].ticket) /\ jar[b].ticket.id \in inside
    THEN {On(b, pc, jar[b].ticket.id, FALSE)}
    ELSE {On(b, pc, id, TRUE) : id \in NewID}

\* Mutant: the cookie of a new ticket is not set.
TicketIDForgotten(b, pc) ==
  IF Verify(jar[b].ticket)
    THEN {On(b, pc, jar[b].ticket.id, FALSE)}
    ELSE {On(b, pc, id, FALSE) : id \in NewID}

TicketID(b, pc) ==
  IF Verify(jar[b].ticket)
    THEN {On(b, pc, jar[b].ticket.id, FALSE)}
    ELSE {On(b, pc, id, TRUE) : id \in NewID}

-----------------------------------------------------------------------------
(* The handlers, on an idle slot of the browser *)

Unanswered(b, s) == call[b][s].pc \in {"check", "status"}

Serving == \E b \in Browsers, s \in Slots : Unanswered(b, s)

Start(b, s, c) ==
  /\ ~Serving
  /\ call[b][s] = Idle
  /\ call' = [call EXCEPT ![b][s] = c]

(***************************************************************************)
(* The answer to a request on a ticket: the page, the waiting page, a      *)
(* status or an error.  Only the cookie it may set matters later.          *)
(***************************************************************************)
Answer(b, s) ==
  call' = [call EXCEPT ![b][s] = IF @.minted THEN [@ EXCEPT !.pc = "answered"] ELSE Idle]

ServeAdmin(b, s, cookie) == Start(b, s, [On(b, "admin", "none", FALSE) EXCEPT !.admin = cookie])

MaybeReconcile == Crank \/ UNCHANGED room  \* within MinReconcileGap, or failed

Showing(b) == shown' = [shown EXCEPT ![b] = AdminCookie]

(***************************************************************************)
(* gatekeeper, a request with the admin key: it earns the admin cookie,    *)
(* with a redirect if the key was in the URL.  A wrong key is refused and  *)
(* changes nothing.                                                        *)
(***************************************************************************)
ShowKey(b, s) ==
  /\ ServeAdmin(b, s, AdminCookie)
  /\ Showing(b)
  /\ UNCHANGED <<room, secret, jar, mishaps, restarts>>

(***************************************************************************)
(* gatekeeper, any other request: an administrator bypasses the room,      *)
(* anybody else's ticket is reconciled and checked.                        *)
(***************************************************************************)
Page(b, s) ==
  /\ IF IsAdmin(b)
       THEN ServeAdmin(b, s, NoCookie) /\ UNCHANGED room
       ELSE (\E c \in TicketID(b, "check") : Start(b, s, c)) /\ MaybeReconcile
  /\ UNCHANGED <<secret, jar, shown, mishaps, restarts>>

HandleStatus(b, s) ==
  /\ \E c \in TicketID(b, "status") : Start(b, s, c)
  /\ MaybeReconcile
  /\ UNCHANGED <<secret, jar, shown, mishaps, restarts>>

(***************************************************************************)
(* POST /gowait/admin/flush, with the key in the header or the cookie.     *)
(***************************************************************************)
AdminFlush(b, s) ==
  /\ (IsAdmin(b) /\ UNCHANGED shown) \/ Showing(b)
  /\ ServeAdmin(b, s, NoCookie)
  /\ Flush
  /\ UNCHANGED <<secret, jar, mishaps, restarts>>

Check(b, s) ==
  /\ call[b][s].pc = "check"
  /\ CheckTicket(call[b][s].id)
  /\ Answer(b, s)
  /\ UNCHANGED <<secret, jar, shown, mishaps, restarts>>

StatusOf(b, s) ==
  /\ call[b][s].pc = "status"
  /\ StatusTicket(call[b][s].id)
  /\ Answer(b, s)
  /\ UNCHANGED <<secret, jar, shown, mishaps, restarts>>

(***************************************************************************)
(* 500: the store failed.  The header with a new cookie was already set,   *)
(* and http.Error sends it.                                                *)
(***************************************************************************)
Fails(b, s) ==
  /\ call[b][s].pc \in {"check", "status"}
  /\ Answer(b, s)
  /\ UNCHANGED <<room, secret, jar, shown, mishaps, restarts>>

-----------------------------------------------------------------------------
(* Browsers and the world *)

(***************************************************************************)
(* A new ticket that replaces another valid one overtakes it.              *)
(***************************************************************************)
Deliver(b, s) ==
  LET c == call[b][s] IN
  /\ c.pc \in {"answered", "admin"}
  /\ jar' = [jar EXCEPT ![b] =
       [ticket |-> IF c.minted THEN TicketCookie(c) ELSE @.ticket,
        admin  |-> IF c.admin # NoCookie THEN c.admin ELSE @.admin]]
  /\ call' = [call EXCEPT ![b][s] = Idle]
  /\ mishaps' = mishaps + (IF c.minted /\ c.first /\ Verify(jar[b].ticket) THEN 1 ELSE 0)
  /\ mishaps' <= MaxMishaps
  /\ UNCHANGED <<room, secret, shown, restarts>>

Minted(c) == c.pc # "idle" /\ c.minted

Lose(b, s) ==  \* on the way, or by a client that keeps no cookies
  /\ call[b][s].pc \in {"answered", "admin"}
  /\ call' = [call EXCEPT ![b][s] = Idle]
  /\ mishaps' = mishaps + (IF Minted(call[b][s]) THEN 1 ELSE 0)
  /\ mishaps' <= MaxMishaps
  /\ UNCHANGED <<room, secret, jar, shown, restarts>>

(***************************************************************************)
(* The process stops, the request it works on with it, and another one     *)
(* starts; answers on their way may still arrive.  The secret is the       *)
(* configured one, or a new random one; a Valkey kept the room, a memory   *)
(* store starts empty.                                                     *)
(***************************************************************************)
Restart ==
  /\ restarts < MaxRestarts
  /\ restarts' = restarts + 1
  /\ secret' \in {secret, secret + 1}
  /\ \/ UNCHANGED room
     \/ line' = <<>> /\ inside' = {} /\ seen' = SeenAt({}, {}, Present)
  /\ call' = [b \in Browsers |-> [s \in Slots |-> IF Unanswered(b, s) THEN Idle ELSE call[b][s]]]
  /\ LET lost == {x \in Browsers \X Slots : Unanswered(x[1], x[2]) /\ Minted(call[x[1]][x[2]])}
     IN mishaps' = mishaps + Cardinality(lost)
  /\ mishaps' <= MaxMishaps
  /\ UNCHANGED <<jar, shown>>

Janitor ==
  /\ Crank
  /\ UNCHANGED <<secret, jar, call, shown, mishaps, restarts>>

Younger(cookie) == [cookie EXCEPT !.left = Greater(@ - 1, 0)]

Tick ==
  /\ ~Serving
  /\ RoomAges
  /\ jar' = [b \in Browsers |-> [jar[b] EXCEPT !.admin = Younger(@)]]
  /\ shown' = [b \in Browsers |-> Younger(shown[b])]
  /\ call' = [b \in Browsers |-> [s \in Slots |->
                IF call[b][s] = Idle THEN Idle
                ELSE [call[b][s] EXCEPT !.admin = Younger(@)]]]
  /\ UNCHANGED <<secret, mishaps, restarts>>

Next ==
  \/ \E b \in Browsers, s \in Slots :
       \/ ShowKey(b, s) \/ Page(b, s) \/ HandleStatus(b, s) \/ AdminFlush(b, s)
       \/ Check(b, s) \/ StatusOf(b, s) \/ Fails(b, s)
       \/ Deliver(b, s) \/ Lose(b, s)
  \/ Restart
  \/ Janitor
  \/ Tick

(***************************************************************************)
(* Time passes, however many requests come; the server answers and the     *)
(* janitor runs.  Nothing is asked of browsers or of the network.          *)
(***************************************************************************)
Fairness ==
  /\ SF_vars(Tick)
  /\ WF_vars(Janitor)
  /\ WF_vars(\E b \in Browsers, s \in Slots : Check(b, s) \/ StatusOf(b, s))

Spec == Init /\ [][Next]_vars /\ Fairness

-----------------------------------------------------------------------------
(* Properties *)

Cookies(lefts, ids) == [secret : -1..MaxRestarts, id : ids, left : lefts]

TypeOK ==
  /\ secret \in 0..MaxRestarts
  /\ \A b \in Browsers :
       /\ jar[b].ticket \in Cookies({0}, Ids \cup {"none"})
       /\ {jar[b].admin, shown[b]} \subseteq Cookies(0..AdminSession, {"admin", "none"})
       /\ \A c \in InFlight(b) : c.id \in Ids <=> c.pc # "admin"
  /\ DOMAIN seen = Known
  /\ mishaps \in 0..MaxMishaps
  /\ restarts \in 0..MaxRestarts

(***************************************************************************)
(* Tickets that some browser can still use.                                *)
(***************************************************************************)
Held == TicketsInFlight \cup {jar[b].ticket.id : b \in {x \in Browsers : Verify(jar[x].ticket)}}

(***************************************************************************)
(* As long as the secret stays the same, a slot or a place in the line is  *)
(* wasted on a ticket that no browser can use only by an answer that was   *)
(* lost or overtaken, and one at most by each: two requests of a browser   *)
(* without a cookie are two tickets, a failed request's ticket is reused.  *)
(***************************************************************************)
WasteBounded == secret = 0 => Cardinality(Known \ Held) <= mishaps

(***************************************************************************)
(* "Refreshing will not lose your place in line" (waitpage.go:48): once a  *)
(* browser has its ticket, and no request it made without one is still in  *)
(* flight, the ticket stays its own until the secret changes, and nobody   *)
(* gets ahead of it in the line, whatever requests are made in whatever    *)
(* order they are answered.                                                *)
(***************************************************************************)
Ahead(id, l) == {l[i] : i \in {j \in DOMAIN l : \E k \in DOMAIN l : j < k /\ l[k] = id}}

Settled(b) == Verify(jar[b].ticket) /\ \A c \in InFlight(b) : ~c.first

RefreshKeepsPlace ==
  [][\A b \in Browsers :
       LET id == jar[b].ticket.id IN
       Settled(b) /\ secret' = secret =>
         /\ jar'[b].ticket = jar[b].ticket
         /\ id \in Waiting(line) => Ahead(id, line') \subseteq Ahead(id, line)]_vars

(***************************************************************************)
(* Only who showed the admin key, less than an admin session ago and to a  *)
(* process with the same secret, is served as an administrator.            *)
(***************************************************************************)
AdminByKey ==
  [][\A b \in Browsers, s \in Slots :
       call[b][s] = Idle /\ call'[b][s].pc = "admin" =>
         shown'[b].secret = secret /\ shown'[b].left > 0]_vars

(***************************************************************************)
(* "Ghost eviction" (README.md:36): a ticket that is no longer used, by a  *)
(* browser that was closed, lost it or never learned it, or became an      *)
(* administrator, leaves the room for good.                                *)
(***************************************************************************)
GhostsLeave ==
  \A id \in Ids : <>[](id \notin TicketsInFlight) => <>[](id \notin Known)
=============================================================================
