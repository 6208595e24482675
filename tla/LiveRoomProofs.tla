--------------------------- MODULE LiveRoomProofs ---------------------------
(***************************************************************************)
(* Proofs about the two views of the room on a clock that never stops: the *)
(* HTTP front and its cookies, for any browsers, requests in flight,       *)
(* tickets, restarts, lost answers and admin session; and the waiting      *)
(* page, for any visitors, capacities and durations that let a punctual    *)
(* poll come in time.                                                      *)
(***************************************************************************)
EXTENDS Gatekeeper, WaitPage, LinesProofs

-----------------------------------------------------------------------------
(* The inductive invariant *)

CookieSet == [secret : Int, id : Ids \cup {"none", "admin"}, left : Int]

RequestSet == [pc : {"check", "status", "answered", "admin"}, id : Ids \cup {"none"},
               secret : Nat, minted : BOOLEAN, admin : CookieSet, first : BOOLEAN]

RoomInv == line \in Seq(Ids) /\ inside \subseteq Ids

Typed ==
  /\ secret \in Nat
  /\ mishaps \in Nat
  /\ jar \in [Browsers -> [ticket : CookieSet, admin : CookieSet]]
  /\ call \in [Browsers -> [Slots -> RequestSet \cup {Idle}]]
  /\ shown \in [Browsers -> CookieSet]

(***************************************************************************)
(* A ticket cookie signed by some process names a ticket, and no cookie is *)
(* signed by a process that is yet to start.                               *)
(***************************************************************************)
TicketOK(c, now) == c.secret <= now /\ (c.secret >= 0 => c.id \in Ids)

(***************************************************************************)
(* A request on a ticket names it, only one that came without a valid      *)
(* ticket sets a cookie, and its process is this one or an earlier one.    *)
(***************************************************************************)
RequestOK(c) ==
  /\ c.pc # "admin" => c.id \in Ids
  /\ c.minted => c.first /\ c.pc # "admin"
  /\ c.secret <= secret

TicketInv ==
  \A b \in Browsers :
    /\ TicketOK(jar[b].ticket, secret)
    /\ \A s \in Slots : call[b][s] # Idle => RequestOK(call[b][s])

(***************************************************************************)
(* An admin cookie of the present secret that has not run out was earned   *)
(* by showing the key, at least as lately as the cookie says.              *)
(***************************************************************************)
Earned(c, now, key) ==
  /\ c.secret <= now
  /\ c.left <= AdminSession
  /\ c.secret = now /\ c.left > 0 => key.secret = now /\ c.left <= key.left

AdminInv ==
  \A b \in Browsers :
    /\ Earned(jar[b].admin, secret, shown[b])
    /\ \A s \in Slots : call[b][s] # Idle => Earned(call[b][s].admin, secret, shown[b])

(***************************************************************************)
(* The tickets a browser holds, or will hold when an answer reaches it.    *)
(***************************************************************************)
Brings(c) == Minted(c) /\ c.secret = secret

Carried ==
  {id \in Ids : \/ \E b \in Browsers : Verify(jar[b].ticket) /\ jar[b].ticket.id = id
                \/ \E b \in Browsers, s \in Slots : Brings(call[b][s]) /\ call[b][s].id = id}

Working ==
  {id \in Ids : \E b \in Browsers, s \in Slots :
                  call[b][s].pc \in {"check", "status", "answered"} /\ call[b][s].id = id}

(***************************************************************************)
(* A ticket that is in the room, or about to be, and that no browser will  *)
(* have once its requests are over.  WasteBounded alone is not inductive:  *)
(* a ticket that was overtaken may still be in flight, and is wasted only  *)
(* when that request ends; it was paid for when it was overtaken.          *)
(***************************************************************************)
Orphans == (Known \cup Working) \ Carried

WasteInv == secret = 0 => Cardinality(Orphans) <= mishaps

IInv == RoomInv /\ Typed /\ TicketInv /\ AdminInv /\ WasteInv

-----------------------------------------------------------------------------
(* The room *)

(***************************************************************************)
(* A reconcile: who stays, the line without its ghosts, and how many of it *)
(* are let in.                                                             *)
(***************************************************************************)
Cranked(alive, p, n) ==
  LET staying == inside \ Expired(Present)
      promoted == {alive[i] : i \in 1..n}
  IN /\ alive \in Seq(Ids) /\ Len(alive) \in Nat
     /\ Selects(alive, line, Kept(Present), p)
     /\ n \in 0..Len(alive)
     /\ line' = SubSeq(alive, n + 1, Len(alive))
     /\ inside' = staying \cup promoted
     /\ seen' = SeenAt(staying \cup Waiting(alive), promoted, Present)

(***************************************************************************)
(* Every reconcile runs that way.                                          *)
(***************************************************************************)
LEMMA CrankRuns ==
  ASSUME RoomInv, Crank
  PROVE  \E alive, p, n : Cranked(alive, p, n)
  <1>1. PICK capacity \in Capacities : Reconcile(capacity, Present)
    BY DEF Crank
  <1> DEFINE staying == inside \ Expired(Present)
             free == Greater(capacity - Cardinality(staying), 0)
  <1>2. PICK alive \in Filtered(line, Kept(Present)) :
          LET n == Lesser(free, Len(alive))
              promoted == {alive[i] : i \in 1..n}
          IN /\ line' = SubSeq(alive, n + 1, Len(alive))
             /\ inside' = staying \cup promoted
             /\ seen' = SeenAt(staying \cup Waiting(alive), promoted, Present)
    BY <1>1, Zenon DEF Reconcile
  <1> DEFINE n == Lesser(free, Len(alive))
  <1>3. /\ alive \in Seq(Ids)
        /\ Len(alive) \in Nat
        /\ \E p : Selects(alive, line, Kept(Present), p)
    <2>1. line \in Seq(Ids) /\ Kept(Present) \in SUBSET DOMAIN line /\ alive \in Filtered(line, Kept(Present))
      BY DEF RoomInv, Kept
    <2>2. QED BY <2>1, FilteredIsOrdered
  <1>4. PICK p : Selects(alive, line, Kept(Present), p)
    BY <1>3
  <1>5. n \in 0..Len(alive)
    <2>1. Cardinality(staying) \in Nat
      <3>1. staying \in SUBSET Ids
        BY DEF RoomInv
      <3>2. IsFiniteSet(staying)
        BY <3>1, RoomAssumption, FS_Subset
      <3>3. QED BY <3>2, FS_CardinalityType
    <2> HIDE DEF staying
    <2>2. free \in Nat
      BY <2>1, RoomAssumption DEF Greater
    <2> HIDE DEF free
    <2>3. QED BY <1>3, <2>2 DEF Lesser
  <1>6. Cranked(alive, p, n)
    BY <1>2, <1>3, <1>4, <1>5, Zenon DEF Cranked
  <1>7. QED BY <1>6

(***************************************************************************)
(* A reconcile brings nobody into the room, and of those who stay in the   *)
(* line nobody gets ahead of another.                                      *)
(***************************************************************************)
LEMMA CrankShrinks ==
  ASSUME RoomInv, Crank
  PROVE  /\ RoomInv'
         /\ Known' \subseteq Known
         /\ \A id : Ahead(id, line') \subseteq Ahead(id, line)
  <1>1. PICK alive, p, n : Cranked(alive, p, n)
    BY CrankRuns
  <1> DEFINE staying == inside \ Expired(Present)
  <1>2. alive \in Seq(Ids) /\ Len(alive) \in Nat
    BY <1>1 DEF Cranked
  <1>3. /\ \A i \in 1..Len(alive) : p[i] \in DOMAIN line /\ alive[i] = line[p[i]]
        /\ \A i, j \in 1..Len(alive) : i < j => p[i] < p[j]
    BY <1>1 DEF Cranked, Selects, Kept
  <1>4. n \in 0..Len(alive)
    BY <1>1 DEF Cranked
  <1>5. /\ line' = SubSeq(alive, n + 1, Len(alive))
        /\ inside' = staying \cup {alive[i] : i \in 1..n}
    BY <1>1 DEF Cranked
  <1>6. /\ line' \in Seq(Ids)
        /\ DOMAIN line' = 1..(Len(alive) - n)
        /\ \A i \in 1..(Len(alive) - n) : line'[i] = alive[i + n]
    BY <1>2, <1>4, <1>5
  <1>7. \A i \in 1..(Len(alive) - n) : i + n \in 1..Len(alive)
    BY <1>2, <1>4
  <1>8. \A i \in 1..n : i \in 1..Len(alive)
    BY <1>2, <1>4
  <1>9. \A i \in 1..Len(alive) : alive[i] \in Waiting(line) /\ alive[i] \in Ids
    BY <1>2, <1>3 DEF Waiting
  <1>10. RoomInv'
    BY <1>5, <1>6, <1>8, <1>9 DEF RoomInv
  <1>11. Known' \subseteq Known
    <2>1. \A x \in Waiting(line') : x \in Waiting(line)
      BY <1>6, <1>7, <1>9 DEF Waiting
    <2>2. \A x \in inside' : x \in Waiting(line) \/ x \in inside
      BY <1>5, <1>8, <1>9
    <2>3. QED BY <2>1, <2>2 DEF Known, Waiting
  <1>12. ASSUME NEW id PROVE Ahead(id, line') \subseteq Ahead(id, line)
    <2> SUFFICES ASSUME NEW j \in DOMAIN line', NEW k \in DOMAIN line', j < k, line'[k] = id
                 PROVE  line'[j] \in Ahead(id, line)
      BY DEF Ahead
    <2>1. j + n \in 1..Len(alive) /\ k + n \in 1..Len(alive) /\ j + n < k + n
      BY <1>4, <1>6, <1>7
    <2>2. /\ p[j + n] \in DOMAIN line /\ p[k + n] \in DOMAIN line /\ p[j + n] < p[k + n]
          /\ line'[j] = line[p[j + n]] /\ line[p[k + n]] = id
      BY <1>3, <1>6, <2>1
    <2>3. QED BY <2>2 DEF Ahead
  <1>13. QED BY <1>10, <1>11, <1>12

(***************************************************************************)
(* What is left of Check lets in or enqueues the ticket it is about and    *)
(* nobody else, and puts nobody ahead of who waits.                        *)
(***************************************************************************)
LEMMA CheckAddsOne ==
  ASSUME RoomInv, NEW id \in Ids, CheckTicket(id)
  PROVE  /\ RoomInv'
         /\ Known' \subseteq Known \cup {id}
         /\ \A x \in Waiting(line) : Ahead(x, line') \subseteq Ahead(x, line)
  <1>1. \/ line' = line /\ (inside' = inside \/ inside' = inside \cup {id})
        \/ line' = Append(line, id) /\ id \notin Known /\ inside' = inside
    BY DEF CheckTicket, Touch, Lookup, TryAdmit, Enqueue, Known, room
  <1>2. CASE line' = line /\ (inside' = inside \/ inside' = inside \cup {id})
    BY <1>2 DEF RoomInv, Known, Waiting
  <1>3. CASE line' = Append(line, id) /\ id \notin Known /\ inside' = inside
    <2>1. /\ line \in Seq(Ids) /\ Len(line) \in Nat
          /\ line' \in Seq(Ids)
          /\ DOMAIN line = 1..Len(line)
          /\ DOMAIN line' = 1..(Len(line) + 1)
          /\ line'[Len(line) + 1] = id
          /\ \A i \in 1..Len(line) : line'[i] = line[i]
      BY <1>3 DEF RoomInv
    <2>2. \A i \in 1..(Len(line) + 1) : i \in 1..Len(line) \/ i = Len(line) + 1
      BY <2>1
    <2>3. RoomInv'
      BY <1>3, <2>1 DEF RoomInv
    <2>4. Known' \subseteq Known \cup {id}
      <3>1. \A i \in DOMAIN line' : line'[i] \in Waiting(line) \cup {id}
        BY <2>1, <2>2 DEF Waiting
      <3>2. Waiting(line') \subseteq Waiting(line) \cup {id}
        BY <3>1 DEF Waiting
      <3>3. QED BY <1>3, <3>2 DEF Known
    <2>5. ASSUME NEW x \in Waiting(line) PROVE Ahead(x, line') \subseteq Ahead(x, line)
      <3> SUFFICES ASSUME NEW j \in DOMAIN line', NEW k \in DOMAIN line', j < k, line'[k] = x
                   PROVE  line'[j] \in Ahead(x, line)
        BY DEF Ahead
      <3>1. x # id
        BY <1>3 DEF Known
      <3>2. k \in 1..Len(line)
        BY <2>1, <2>2, <3>1
      <3>3. j \in 1..Len(line)
        BY <2>1, <3>2
      <3>4. QED BY <2>1, <3>2, <3>3 DEF Ahead
    <2>6. QED BY <2>3, <2>4, <2>5
  <1>4. QED BY <1>1, <1>2, <1>3

-----------------------------------------------------------------------------
(* Requests *)

RequestOrIdle == RequestSet \cup {Idle}

Writes(b, s, c) == call' = [call EXCEPT ![b][s] = c]

(***************************************************************************)
(* Writing one slot leaves the others alone.                               *)
(***************************************************************************)
LEMMA OneSlot ==
  ASSUME Typed, NEW b \in Browsers, NEW s \in Slots, NEW c \in RequestOrIdle, Writes(b, s, c)
  PROVE  /\ call' \in [Browsers -> [Slots -> RequestSet \cup {Idle}]]
         /\ call'[b][s] = c
         /\ \A x \in Browsers, y \in Slots : <<x, y>> # <<b, s>> => call'[x][y] = call[x][y]
  <1>1. call \in [Browsers -> [Slots -> RequestSet \cup {Idle}]]
    BY DEF Typed
  <1>2. call \in [Browsers -> [Slots -> RequestOrIdle]]
    BY <1>1 DEF RequestOrIdle
  <1>3. /\ call' \in [Browsers -> [Slots -> RequestOrIdle]]
        /\ call'[b][s] = c
        /\ \A x \in Browsers, y \in Slots : <<x, y>> # <<b, s>> => call'[x][y] = call[x][y]
    BY <1>2 DEF Writes
  <1>4. QED BY <1>3 DEF RequestOrIdle

(***************************************************************************)
(* A request starts: on the ticket of the cookie, on a new ticket that the *)
(* answer will bring, or as an administrator, who has shown the key now or *)
(* has a valid cookie.                                                     *)
(***************************************************************************)
Begins(b, s, c) ==
  /\ call[b][s] = Idle
  /\ call' = [call EXCEPT ![b][s] = c]
  /\ c \in RequestSet
  /\ RequestOK(c)
  /\ c.secret = secret
  /\ c.pc # "admin" => c.minted \/ (Verify(jar[b].ticket) /\ c.id = jar[b].ticket.id)
  /\ c.pc = "admin" => Showing(b) \/ (IsAdmin(b) /\ shown' = shown)
  /\ c.admin = NoCookie \/ (c.admin = AdminCookie /\ Showing(b))
  /\ shown' = shown \/ Showing(b)
  /\ UNCHANGED <<secret, jar, mishaps>>
  /\ RoomInv'
  /\ Known' \subseteq Known
  /\ \A id : Ahead(id, line') \subseteq Ahead(id, line)

(***************************************************************************)
(* What ticketID makes of a request's cookie.                              *)
(***************************************************************************)
LEMMA TicketIDs ==
  ASSUME Typed, TicketInv, NEW b \in Browsers, NEW pc \in {"check", "status"}, NEW c \in TicketID(b, pc)
  PROVE  /\ c \in RequestSet
         /\ RequestOK(c) /\ c.secret = secret
         /\ c.pc = pc
         /\ c.admin = NoCookie
         /\ c.minted \/ (Verify(jar[b].ticket) /\ c.id = jar[b].ticket.id)
  <1>1. NoCookie \in CookieSet
    BY DEF NoCookie, CookieSet
  <1>2. jar[b].ticket \in CookieSet /\ secret \in Nat /\ secret <= secret
    BY DEF Typed
  <1>3. CASE Verify(jar[b].ticket)
    <2>1. c = On(b, pc, jar[b].ticket.id, FALSE)
      BY <1>3 DEF TicketID
    <2>2. jar[b].ticket.id \in Ids
      BY <1>2, <1>3 DEF TicketInv, TicketOK, Verify
    <2>3. QED BY <1>1, <1>2, <1>3, <2>1, <2>2 DEF On, RequestSet, RequestOK
  <1>4. CASE ~Verify(jar[b].ticket)
    <2>1. PICK id \in NewID : c = On(b, pc, id, TRUE)
      BY <1>4 DEF TicketID
    <2>2. id \in Ids
      BY DEF NewID
    <2>3. QED BY <1>1, <1>2, <1>4, <2>1, <2>2 DEF On, RequestSet, RequestOK
  <1>5. QED BY <1>3, <1>4

(***************************************************************************)
(* The four ways a request starts.                                         *)
(***************************************************************************)
LEMMA StartsBegin ==
  ASSUME IInv, NEW b \in Browsers, NEW s \in Slots,
         ShowKey(b, s) \/ Page(b, s) \/ HandleStatus(b, s) \/ AdminFlush(b, s)
  PROVE  \E c : Begins(b, s, c)
  <1>1. RoomInv /\ Typed /\ TicketInv
    BY DEF IInv
  <1>2. ASSUME line' = line, inside' = inside
        PROVE  RoomInv' /\ Known' \subseteq Known /\ \A id : Ahead(id, line') \subseteq Ahead(id, line)
    BY <1>1, <1>2 DEF RoomInv, Known, Waiting
  <1>3. ASSUME MaybeReconcile
        PROVE  RoomInv' /\ Known' \subseteq Known /\ \A id : Ahead(id, line') \subseteq Ahead(id, line)
    BY <1>1, <1>2, <1>3, CrankShrinks DEF MaybeReconcile, room
  <1>4. ASSUME Flush
        PROVE  RoomInv' /\ Known' \subseteq Known /\ \A id : Ahead(id, line') \subseteq Ahead(id, line)
    <2>1. line' = <<>> /\ inside' = inside
      BY <1>4 DEF Flush
    <2>2. QED BY <1>1, <2>1 DEF RoomInv, Known, Waiting, Ahead
  <1>5. ASSUME NEW cookie \in {NoCookie, AdminCookie}
        PROVE  LET c == [On(b, "admin", "none", FALSE) EXCEPT !.admin = cookie]
               IN c \in RequestSet /\ RequestOK(c) /\ c.secret = secret /\ c.pc = "admin" /\ c.admin = cookie
    <2>1. cookie \in CookieSet
      BY <1>1, GatekeeperAssumption DEF NoCookie, AdminCookie, CookieSet, Typed
    <2>2. secret \in Nat /\ secret <= secret
      BY <1>1 DEF Typed
    <2>3. QED BY <2>1, <2>2 DEF On, RequestSet, RequestOK
  <1>6. CASE ShowKey(b, s)
    <2> DEFINE c == [On(b, "admin", "none", FALSE) EXCEPT !.admin = AdminCookie]
    <2>1. c \in RequestSet /\ RequestOK(c) /\ c.secret = secret /\ c.pc = "admin" /\ c.admin = AdminCookie
      BY <1>5
    <2>2. /\ call[b][s] = Idle /\ call' = [call EXCEPT ![b][s] = c]
          /\ Showing(b) /\ line' = line /\ inside' = inside /\ UNCHANGED <<secret, jar, mishaps>>
      BY <1>6 DEF ShowKey, ServeAdmin, Start, room
    <2> HIDE DEF c
    <2>3. Begins(b, s, c)
      BY <1>2, <2>1, <2>2 DEF Begins
    <2>4. QED BY <2>3
  <1>7. CASE AdminFlush(b, s)
    <2> DEFINE c == [On(b, "admin", "none", FALSE) EXCEPT !.admin = NoCookie]
    <2>1. c \in RequestSet /\ RequestOK(c) /\ c.secret = secret /\ c.pc = "admin" /\ c.admin = NoCookie
      BY <1>5
    <2>2. /\ call[b][s] = Idle /\ call' = [call EXCEPT ![b][s] = c]
          /\ Showing(b) \/ (IsAdmin(b) /\ shown' = shown)
          /\ Flush /\ UNCHANGED <<secret, jar, mishaps>>
      BY <1>7 DEF AdminFlush, ServeAdmin, Start
    <2> HIDE DEF c
    <2>3. Begins(b, s, c)
      BY <1>4, <2>1, <2>2 DEF Begins
    <2>4. QED BY <2>3
  <1>8. CASE Page(b, s) /\ IsAdmin(b)
    <2> DEFINE c == [On(b, "admin", "none", FALSE) EXCEPT !.admin = NoCookie]
    <2>1. c \in RequestSet /\ RequestOK(c) /\ c.secret = secret /\ c.pc = "admin" /\ c.admin = NoCookie
      BY <1>5
    <2>2. /\ call[b][s] = Idle /\ call' = [call EXCEPT ![b][s] = c]
          /\ IsAdmin(b) /\ shown' = shown
          /\ line' = line /\ inside' = inside /\ UNCHANGED <<secret, jar, mishaps>>
      BY <1>8 DEF Page, ServeAdmin, Start, room
    <2> HIDE DEF c
    <2>3. Begins(b, s, c)
      BY <1>2, <2>1, <2>2 DEF Begins
    <2>4. QED BY <2>3
  <1>9. ASSUME NEW pc \in {"check", "status"}, \E c \in TicketID(b, pc) : Start(b, s, c),
               MaybeReconcile, UNCHANGED <<secret, jar, shown, mishaps>>
        PROVE  \E c : Begins(b, s, c)
    <2>1. PICK c \in TicketID(b, pc) : Start(b, s, c)
      BY <1>9
    <2>2. /\ c \in RequestSet /\ RequestOK(c) /\ c.secret = secret /\ c.pc = pc /\ c.admin = NoCookie
          /\ c.minted \/ (Verify(jar[b].ticket) /\ c.id = jar[b].ticket.id)
      BY <1>1, TicketIDs
    <2>3. Begins(b, s, c)
      BY <1>3, <1>9, <2>1, <2>2 DEF Begins, Start
    <2>4. QED BY <2>3
  <1>10. CASE (Page(b, s) /\ ~IsAdmin(b)) \/ HandleStatus(b, s)
    BY <1>9, <1>10 DEF Page, HandleStatus
  <1>11. QED BY <1>6, <1>7, <1>8, <1>10

-----------------------------------------------------------------------------
(* Waste *)

(***************************************************************************)
(* Orphans are added only as fast as mishaps happen.                       *)
(***************************************************************************)
LEMMA WasteStep ==
  ASSUME RoomInv, WasteInv, mishaps \in Nat, secret' = 0 => secret = 0,
         NEW X, IsFiniteSet(X), NEW O1, O1 \subseteq Orphans \cup X,
         NEW m \in Nat, Cardinality(X) <= m
  PROVE  secret' = 0 => Cardinality(O1) <= mishaps + m
  <1> SUFFICES ASSUME secret' = 0 PROVE Cardinality(O1) <= mishaps + m
    OBVIOUS
  <1>1. Cardinality(Orphans) <= mishaps
    BY DEF WasteInv
  <1>2. IsFiniteSet(Orphans) /\ Cardinality(Orphans) \in Nat
    <2>1. Orphans \in SUBSET Ids
      BY DEF Orphans, Known, Working, Waiting, RoomInv
    <2>2. QED BY <2>1, RoomAssumption, FS_Subset, FS_CardinalityType
  <1>3. Cardinality(X) \in Nat
    BY FS_CardinalityType
  <1>4. /\ IsFiniteSet(Orphans \cup X)
        /\ Cardinality(Orphans \cup X) = Cardinality(Orphans) + Cardinality(X) - Cardinality(Orphans \cap X)
    BY <1>2, FS_Union
  <1>5. Cardinality(Orphans \cap X) \in Nat
    <2>1. IsFiniteSet(Orphans \cap X)
      BY <1>2, FS_Intersection
    <2>2. QED BY <2>1, FS_CardinalityType
  <1>6. O1 \in SUBSET (Orphans \cup X)
    OBVIOUS
  <1>7. /\ Cardinality(O1) <= Cardinality(Orphans \cup X)
        /\ Cardinality(O1) \in Nat
    BY <1>4, <1>6, FS_Subset, FS_CardinalityType
  <1>8. Cardinality(Orphans \cup X) \in Int
    BY <1>2, <1>3, <1>4, <1>5
  <1>9. \A o1, ou, o, x, oi, k, mm \in Int :
           o1 <= ou /\ ou = o + x - oi /\ oi >= 0 /\ o <= k /\ x <= mm => o1 <= k + mm
    OBVIOUS
  <1>10. QED BY <1>1, <1>2, <1>3, <1>4, <1>5, <1>7, <1>8, <1>9

(***************************************************************************)
(* A step that orphans nobody.                                             *)
(***************************************************************************)
LEMMA NoWaste ==
  ASSUME RoomInv, WasteInv, mishaps \in Nat, secret' = secret, mishaps' = mishaps,
         Orphans' \subseteq Orphans
  PROVE  WasteInv'
  <1>1. IsFiniteSet({}) /\ Cardinality({}) = 0
    BY FS_EmptySet
  <1>2. Orphans' \subseteq Orphans \cup {}
    OBVIOUS
  <1>3. secret' = 0 => Cardinality(Orphans') <= mishaps + 0
    BY <1>1, <1>2, WasteStep
  <1>4. QED BY <1>3 DEF WasteInv

(***************************************************************************)
(* A request that starts keeps the invariant: its ticket is in the jar or  *)
(* on its way to it, its admin cookie was earned by the key just shown.    *)
(***************************************************************************)
LEMMA BeginIInv ==
  ASSUME IInv, NEW b \in Browsers, NEW s \in Slots, NEW c, Begins(b, s, c)
  PROVE  IInv'
  <1>1. RoomInv /\ Typed /\ TicketInv /\ AdminInv /\ WasteInv
    BY DEF IInv
  <1>2. /\ call' \in [Browsers -> [Slots -> RequestSet \cup {Idle}]]
        /\ call'[b][s] = c
        /\ \A x \in Browsers, y \in Slots : <<x, y>> # <<b, s>> => call'[x][y] = call[x][y]
    <2>1. c \in RequestOrIdle /\ Writes(b, s, c)
      BY DEF Begins, RequestOrIdle, Writes
    <2>2. QED BY <1>1, <2>1, OneSlot
  <1>3. secret' = secret /\ jar' = jar /\ mishaps' = mishaps /\ RoomInv' /\ Known' \subseteq Known
    BY DEF Begins
  <1>4. AdminCookie \in CookieSet /\ AdminCookie.secret = secret /\ AdminCookie.left = AdminSession
    BY <1>1, GatekeeperAssumption DEF AdminCookie, CookieSet, Typed
  <1>5. shown' \in [Browsers -> CookieSet]
    BY <1>1, <1>4 DEF Begins, Showing, Typed
  <1>6. Typed'
    BY <1>1, <1>2, <1>3, <1>5 DEF Typed
  <1>7. TicketInv'
    <2>1. \A x \in Browsers, y \in Slots : call'[x][y] # Idle => RequestOK(call'[x][y])
      <3> SUFFICES ASSUME NEW x \in Browsers, NEW y \in Slots, call'[x][y] # Idle
                   PROVE  RequestOK(call'[x][y])
        OBVIOUS
      <3>1. CASE <<x, y>> = <<b, s>>
        BY <1>2, <3>1 DEF Begins
      <3>2. CASE <<x, y>> # <<b, s>>
        BY <1>1, <1>2, <3>2 DEF TicketInv
      <3>3. QED BY <3>1, <3>2
    <2>2. QED BY <1>1, <1>3, <2>1 DEF TicketInv, TicketOK, RequestOK
  <1>8. AdminInv'
    <2>1. \A x \in Browsers : shown'[x] = shown[x] \/ (shown'[x].secret = secret /\ shown'[x].left = AdminSession)
      BY <1>1, <1>4 DEF Begins, Showing, Typed
    <2>2. ASSUME NEW x \in Browsers, NEW k, Earned(k, secret, shown[x])
          PROVE  Earned(k, secret, shown'[x])
      BY <2>1, <2>2 DEF Earned
    <2>3. Earned(c.admin, secret, shown'[b])
      <3>1. AdminSession \in Nat /\ secret \in Nat
        BY <1>1, GatekeeperAssumption DEF Typed
      <3>2. CASE c.admin = NoCookie
        BY <3>1, <3>2 DEF Earned, NoCookie
      <3>3. CASE c.admin = AdminCookie /\ Showing(b)
        <4>1. shown'[b] = AdminCookie
          BY <1>1, <3>3 DEF Showing, Typed
        <4>2. QED BY <1>4, <3>1, <3>3, <4>1 DEF Earned
      <3>4. QED BY <3>2, <3>3 DEF Begins
    <2>4. \A x \in Browsers, y \in Slots : call'[x][y] # Idle => Earned(call'[x][y].admin, secret, shown'[x])
      <3> SUFFICES ASSUME NEW x \in Browsers, NEW y \in Slots, call'[x][y] # Idle
                   PROVE  Earned(call'[x][y].admin, secret, shown'[x])
        OBVIOUS
      <3>1. CASE <<x, y>> = <<b, s>>
        BY <1>2, <2>3, <3>1
      <3>2. CASE <<x, y>> # <<b, s>>
        <4>1. call'[x][y] = call[x][y] /\ Earned(call[x][y].admin, secret, shown[x])
          BY <1>1, <1>2, <3>2 DEF AdminInv
        <4>2. QED BY <2>2, <4>1
      <3>3. QED BY <3>1, <3>2
    <2>5. \A x \in Browsers : Earned(jar[x].admin, secret, shown'[x])
      BY <1>1, <2>2 DEF AdminInv
    <2>6. QED BY <1>3, <2>4, <2>5 DEF AdminInv
  <1>9. WasteInv'
    <2>1. call[b][s] = Idle
      BY DEF Begins
    <2>2. Carried \subseteq Carried'
      <3> SUFFICES ASSUME NEW id \in Carried PROVE id \in Carried'
        OBVIOUS
      <3>1. CASE \E x \in Browsers : Verify(jar[x].ticket) /\ jar[x].ticket.id = id
        BY <1>3, <3>1 DEF Carried, Verify
      <3>2. CASE \E x \in Browsers, y \in Slots : Brings(call[x][y]) /\ call[x][y].id = id
        <4>1. PICK x \in Browsers, y \in Slots : Brings(call[x][y]) /\ call[x][y].id = id
          BY <3>2
        <4>2. <<x, y>> # <<b, s>>
          BY <2>1, <4>1 DEF Brings, Minted, Idle
        <4>3. call'[x][y] = call[x][y]
          BY <1>2, <4>2
        <4>4. QED BY <1>3, <4>1, <4>3 DEF Carried, Brings, Minted
      <3>3. QED BY <3>1, <3>2 DEF Carried
    <2>3. \A id \in Working' : id \in Working \/ id \in Carried'
      <3> SUFFICES ASSUME NEW id \in Working' PROVE id \in Working \/ id \in Carried'
        OBVIOUS
      <3>1. PICK x \in Browsers, y \in Slots :
                call'[x][y].pc \in {"check", "status", "answered"} /\ call'[x][y].id = id
        BY DEF Working
      <3>2. CASE <<x, y>> # <<b, s>>
        BY <1>2, <3>1, <3>2 DEF Working
      <3>3. CASE <<x, y>> = <<b, s>>
        <4>1. c.pc # "admin" /\ c.pc # "idle" /\ c.id = id /\ call'[b][s] = c
          BY <1>2, <3>1, <3>3
        <4>2. CASE c.minted
          <5>1. Minted(call'[b][s]) /\ call'[b][s].secret = secret'
            BY <1>3, <4>1, <4>2 DEF Begins, Minted
          <5>2. QED BY <4>1, <5>1 DEF Carried, Brings, Minted, Working
        <4>3. CASE Verify(jar[b].ticket) /\ c.id = jar[b].ticket.id
          BY <1>3, <4>1, <4>3 DEF Carried, Verify, Working
        <4>4. QED BY <4>1, <4>2, <4>3 DEF Begins
      <3>4. QED BY <3>2, <3>3
    <2>4. Orphans' \subseteq Orphans
      BY <1>3, <2>2, <2>3 DEF Orphans
    <2>5. QED BY <1>1, <1>3, <2>4, NoWaste DEF Typed
  <1>10. QED BY <1>3, <1>6, <1>7, <1>8, <1>9 DEF IInv

(***************************************************************************)
(* A request that moves on, or ends, leaves all requests well-formed and   *)
(* the admin cookies on their way earned.                                  *)
(***************************************************************************)
LEMMA RequestsKept ==
  ASSUME IInv, NEW b \in Browsers, NEW s \in Slots, NEW c \in RequestOrIdle, Writes(b, s, c),
         c # Idle => call[b][s] # Idle /\ RequestOK(c) /\ c.admin = call[b][s].admin
  PROVE  \A x \in Browsers, y \in Slots : call'[x][y] # Idle =>
            RequestOK(call'[x][y]) /\ Earned(call'[x][y].admin, secret, shown[x])
  <1>1. Typed /\ TicketInv /\ AdminInv
    BY DEF IInv
  <1>2. /\ call'[b][s] = c
        /\ \A x \in Browsers, y \in Slots : <<x, y>> # <<b, s>> => call'[x][y] = call[x][y]
    BY <1>1, OneSlot
  <1> SUFFICES ASSUME NEW x \in Browsers, NEW y \in Slots, call'[x][y] # Idle
               PROVE  RequestOK(call'[x][y]) /\ Earned(call'[x][y].admin, secret, shown[x])
    OBVIOUS
  <1>3. CASE <<x, y>> = <<b, s>>
    BY <1>1, <1>2, <1>3 DEF AdminInv
  <1>4. CASE <<x, y>> # <<b, s>>
    BY <1>1, <1>2, <1>4 DEF TicketInv, AdminInv
  <1>5. QED BY <1>3, <1>4

(***************************************************************************)
(* The server is done with a request: its answer is on its way if it       *)
(* brings a cookie, and the ticket it was about may now be in the room.    *)
(***************************************************************************)
LEMMA AnswerIInv ==
  ASSUME IInv, NEW b \in Browsers, NEW s \in Slots, call[b][s].pc \in {"check", "status"}, Answer(b, s),
         UNCHANGED <<secret, jar, shown, mishaps>>, RoomInv', Known' \subseteq Known \cup {call[b][s].id}
  PROVE  IInv'
  <1>1. RoomInv /\ Typed /\ TicketInv /\ AdminInv /\ WasteInv
    BY DEF IInv
  <1> DEFINE r == call[b][s]
             c == IF r.minted THEN [r EXCEPT !.pc = "answered"] ELSE Idle
  <1>2. r \in RequestSet /\ r # Idle /\ r.id \in Ids /\ r.pc # "idle"
    <2>1. r \in RequestSet \cup {Idle}
      BY <1>1 DEF Typed
    <2>2. r # Idle
      BY DEF Idle
    <2>3. QED BY <1>1, <2>1, <2>2 DEF TicketInv, RequestOK
  <1>3. Writes(b, s, c)
    BY <1>1 DEF Answer, Writes, Typed
  <1>4. /\ c \in RequestOrIdle
        /\ c # Idle => /\ RequestOK(c) /\ c.admin = r.admin /\ c.id = r.id /\ c.minted
                      /\ c.pc = "answered" /\ c.secret = r.secret
        /\ c = Idle <=> ~r.minted
    <2>1. CASE r.minted
      <3>1. c = [r EXCEPT !.pc = "answered"] /\ RequestOK(r)
        BY <1>1, <1>2, <2>1 DEF TicketInv
      <3>2. /\ c \in RequestSet /\ c.pc = "answered" /\ c.admin = r.admin /\ c.id = r.id
            /\ c.minted = r.minted /\ c.first = r.first /\ c.secret = r.secret
        BY <1>2, <3>1 DEF RequestSet
      <3>3. c # Idle
        BY <3>2 DEF Idle
      <3> HIDE DEF c
      <3>4. QED BY <1>2, <2>1, <3>1, <3>2, <3>3 DEF RequestOK, RequestOrIdle
    <2>2. CASE ~r.minted
      BY <2>2 DEF RequestOrIdle
    <2>3. QED BY <2>1, <2>2
  <1> HIDE DEF c
  <1>5. /\ call' \in [Browsers -> [Slots -> RequestSet \cup {Idle}]]
        /\ call'[b][s] = c
        /\ \A x \in Browsers, y \in Slots : <<x, y>> # <<b, s>> => call'[x][y] = call[x][y]
    BY <1>1, <1>3, <1>4, OneSlot
  <1>6. \A x \in Browsers, y \in Slots : call'[x][y] # Idle =>
            RequestOK(call'[x][y]) /\ Earned(call'[x][y].admin, secret, shown[x])
    BY <1>2, <1>3, <1>4, RequestsKept
  <1>7. Typed'
    BY <1>1, <1>5 DEF Typed
  <1>8. TicketInv'
    BY <1>1, <1>6 DEF TicketInv, RequestOK
  <1>9. AdminInv'
    BY <1>1, <1>6 DEF AdminInv
  <1>10. WasteInv'
    <2>1. Carried \subseteq Carried'
      <3> SUFFICES ASSUME NEW id \in Carried PROVE id \in Carried'
        OBVIOUS
      <3>1. CASE \E x \in Browsers : Verify(jar[x].ticket) /\ jar[x].ticket.id = id
        BY <3>1 DEF Carried, Verify
      <3>2. CASE \E x \in Browsers, y \in Slots : Brings(call[x][y]) /\ call[x][y].id = id
        <4>1. PICK x \in Browsers, y \in Slots : Brings(call[x][y]) /\ call[x][y].id = id
          BY <3>2
        <4>2. CASE <<x, y>> = <<b, s>>
          <5>1. Minted(call'[b][s]) /\ call'[b][s].id = id /\ call'[b][s].secret = secret'
            BY <1>4, <1>5, <4>1, <4>2 DEF Brings, Minted
          <5>2. QED BY <5>1 DEF Carried, Brings, Minted
        <4>3. CASE <<x, y>> # <<b, s>>
          <5>1. call'[x][y] = call[x][y]
            BY <1>5, <4>3
          <5>2. QED BY <4>1, <5>1 DEF Carried, Brings, Minted
        <4>4. QED BY <4>2, <4>3
      <3>3. QED BY <3>1, <3>2 DEF Carried
    <2>2. r.id \in Working
      BY <1>2 DEF Working
    <2>3. ASSUME NEW id \in Working' PROVE id \in Working
      <3>1. PICK x \in Browsers, y \in Slots :
                call'[x][y].pc \in {"check", "status", "answered"} /\ call'[x][y].id = id
        BY DEF Working
      <3>2. CASE <<x, y>> # <<b, s>>
        BY <1>5, <3>1, <3>2 DEF Working
      <3>3. CASE <<x, y>> = <<b, s>>
        <4>1. c # Idle
          BY <1>5, <3>1, <3>3 DEF Idle
        <4>2. QED BY <1>4, <1>5, <2>2, <3>1, <3>3, <4>1
      <3>4. QED BY <3>2, <3>3
    <2>4. Orphans' \subseteq Orphans
      BY <2>1, <2>2, <2>3 DEF Orphans
    <2>5. QED BY <1>1, <2>4, NoWaste DEF Typed
  <1>11. QED BY <1>7, <1>8, <1>9, <1>10 DEF IInv

(***************************************************************************)
(* The three ways the server is done with a request.                       *)
(***************************************************************************)
LEMMA ServedIInv ==
  ASSUME IInv, NEW b \in Browsers, NEW s \in Slots, Check(b, s) \/ StatusOf(b, s) \/ Fails(b, s)
  PROVE  IInv'
  <1>1. RoomInv /\ Typed /\ TicketInv
    BY DEF IInv
  <1>2. call[b][s].pc \in {"check", "status"} /\ Answer(b, s) /\ UNCHANGED <<secret, jar, shown, mishaps>>
    BY DEF Check, StatusOf, Fails
  <1>3. call[b][s].id \in Ids
    <2>1. call[b][s] # Idle
      BY <1>2 DEF Idle
    <2>2. QED BY <1>1, <1>2, <2>1 DEF TicketInv, RequestOK
  <1>4. CASE Check(b, s)
    <2>1. CheckTicket(call[b][s].id)
      BY <1>4 DEF Check
    <2>2. RoomInv' /\ Known' \subseteq Known \cup {call[b][s].id}
      BY <1>1, <1>3, <2>1, CheckAddsOne
    <2>3. QED BY <1>2, <2>2, AnswerIInv
  <1>5. CASE StatusOf(b, s) \/ Fails(b, s)
    <2>1. line' = line /\ inside' = inside
      BY <1>5 DEF StatusOf, Fails, StatusTicket, Lookup, Touch, room
    <2>2. RoomInv' /\ Known' \subseteq Known \cup {call[b][s].id}
      BY <1>1, <2>1 DEF RoomInv, Known, Waiting
    <2>3. QED BY <1>2, <2>2, AnswerIInv
  <1>6. QED BY <1>4, <1>5

(***************************************************************************)
(* A request that ends takes at most its own ticket with it.               *)
(***************************************************************************)
LEMMA EndLeaves ==
  ASSUME Typed, NEW b \in Browsers, NEW s \in Slots, Writes(b, s, Idle)
  PROVE  /\ Working' \subseteq Working
         /\ \A x \in Browsers, y \in Slots :
               Minted(call[x][y]) => <<x, y>> = <<b, s>> \/ call'[x][y] = call[x][y]
  <1>1. Idle \in RequestOrIdle
    BY DEF RequestOrIdle
  <1>2. /\ call'[b][s] = Idle
        /\ \A x \in Browsers, y \in Slots : <<x, y>> # <<b, s>> => call'[x][y] = call[x][y]
    BY <1>1, OneSlot
  <1>3. ASSUME NEW id \in Working' PROVE id \in Working
    <2>1. PICK x \in Browsers, y \in Slots :
              call'[x][y].pc \in {"check", "status", "answered"} /\ call'[x][y].id = id
      BY DEF Working
    <2>2. <<x, y>> # <<b, s>>
      BY <1>2, <2>1 DEF Idle
    <2>3. QED BY <1>2, <2>1, <2>2 DEF Working
  <1>4. QED BY <1>2, <1>3

(***************************************************************************)
(* A lost answer orphans the ticket it was to bring, and is a mishap.      *)
(***************************************************************************)
LEMMA LoseIInv ==
  ASSUME IInv, NEW b \in Browsers, NEW s \in Slots, Lose(b, s)
  PROVE  IInv'
  <1>1. RoomInv /\ Typed /\ TicketInv /\ AdminInv /\ WasteInv
    BY DEF IInv
  <1> DEFINE r == call[b][s]
             m == IF Minted(r) THEN 1 ELSE 0
             X == IF Minted(r) THEN {r.id} ELSE {}
  <1>2. /\ Writes(b, s, Idle) /\ mishaps' = mishaps + m
        /\ line' = line /\ inside' = inside /\ UNCHANGED <<secret, jar, shown>>
    BY DEF Lose, Writes, room
  <1>3. Idle \in RequestOrIdle
    BY DEF RequestOrIdle
  <1>4. call' \in [Browsers -> [Slots -> RequestSet \cup {Idle}]]
    BY <1>1, <1>2, <1>3, OneSlot
  <1>5. \A x \in Browsers, y \in Slots : call'[x][y] # Idle =>
            RequestOK(call'[x][y]) /\ Earned(call'[x][y].admin, secret, shown[x])
    BY <1>2, <1>3, RequestsKept
  <1>6. m \in Nat /\ IsFiniteSet(X) /\ Cardinality(X) <= m
    <2>1. CASE Minted(r)
      <3>1. X = {r.id} /\ m = 1
        BY <2>1
      <3> HIDE DEF X, m
      <3>2. IsFiniteSet({r.id}) /\ Cardinality({r.id}) = 1
        BY FS_Singleton, Zenon
      <3>3. QED BY <3>1, <3>2
    <2>2. CASE ~Minted(r)
      <3>1. X = {} /\ m = 0
        BY <2>2
      <3> HIDE DEF X, m
      <3>2. QED BY <3>1, FS_EmptySet
    <2>3. QED BY <2>1, <2>2
  <1> HIDE DEF m
  <1>7. RoomInv' /\ Typed'
    BY <1>1, <1>2, <1>4, <1>6 DEF RoomInv, Typed
  <1>8. TicketInv'
    BY <1>1, <1>2, <1>5 DEF TicketInv, RequestOK
  <1>9. AdminInv'
    BY <1>1, <1>2, <1>5 DEF AdminInv
  <1>10. Orphans' \subseteq Orphans \cup X
    <2>1. /\ Working' \subseteq Working
          /\ \A x \in Browsers, y \in Slots :
               Minted(call[x][y]) => <<x, y>> = <<b, s>> \/ call'[x][y] = call[x][y]
      BY <1>1, <1>2, EndLeaves
    <2>2. ASSUME NEW id \in Carried PROVE id \in Carried' \/ id \in X
      <3>1. CASE \E x \in Browsers : Verify(jar[x].ticket) /\ jar[x].ticket.id = id
        BY <1>2, <3>1 DEF Carried, Verify
      <3>2. CASE \E x \in Browsers, y \in Slots : Brings(call[x][y]) /\ call[x][y].id = id
        <4>1. PICK x \in Browsers, y \in Slots : Brings(call[x][y]) /\ call[x][y].id = id
          BY <3>2
        <4>2. CASE <<x, y>> = <<b, s>>
          BY <4>1, <4>2 DEF Brings
        <4>3. CASE call'[x][y] = call[x][y]
          BY <1>2, <4>1, <4>3 DEF Carried, Brings, Minted
        <4>4. QED BY <2>1, <4>1, <4>2, <4>3 DEF Brings
      <3>3. QED BY <3>1, <3>2 DEF Carried
    <2>3. Known' = Known
      BY <1>2 DEF Known, Waiting
    <2>4. QED BY <2>1, <2>2, <2>3 DEF Orphans
  <1> HIDE DEF X
  <1>11. WasteInv'
    <2>1. mishaps \in Nat /\ secret' = 0 => secret = 0
      BY <1>1, <1>2 DEF Typed
    <2>2. secret' = 0 => Cardinality(Orphans') <= mishaps + m
      BY <1>1, <1>6, <1>10, <2>1, <1>2, WasteStep DEF Typed
    <2>3. QED BY <1>2, <2>2 DEF WasteInv
  <1>12. QED BY <1>7, <1>8, <1>9, <1>11 DEF IInv

(***************************************************************************)
(* An answer arrives.  A cookie that it overwrites with another valid one  *)
(* is orphaned, and that is a mishap; an admin cookie that it brings was   *)
(* earned when it was made.                                                *)
(***************************************************************************)
LEMMA DeliverIInv ==
  ASSUME IInv, NEW b \in Browsers, NEW s \in Slots, Deliver(b, s)
  PROVE  IInv'
  <1>1. RoomInv /\ Typed /\ TicketInv /\ AdminInv /\ WasteInv
    BY DEF IInv
  <1> DEFINE r == call[b][s]
             over == r.minted /\ Verify(jar[b].ticket)
             m == IF over THEN 1 ELSE 0
             X == IF over THEN {jar[b].ticket.id} ELSE {}
             ticket == IF r.minted THEN TicketCookie(r) ELSE jar[b].ticket
             admin == IF r.admin # NoCookie THEN r.admin ELSE jar[b].admin
  <1>2. r \in RequestSet /\ r # Idle /\ r.pc # "idle" /\ RequestOK(r) /\ Earned(r.admin, secret, shown[b])
    <2>1. r \in RequestSet \cup {Idle}
      BY <1>1 DEF Typed
    <2>2. r # Idle /\ r.pc # "idle"
      BY DEF Deliver, Idle
    <2>3. QED BY <1>1, <2>1, <2>2 DEF TicketInv, AdminInv
  <1>3. r.minted => r.first /\ r.id \in Ids
    BY <1>2 DEF RequestOK
  <1>4. /\ Writes(b, s, Idle)
        /\ line' = line /\ inside' = inside /\ UNCHANGED <<secret, shown>>
        /\ jar' = [jar EXCEPT ![b] = [ticket |-> ticket, admin |-> admin]]
    BY <1>1 DEF Deliver, Writes, room, Typed
  <1>5. mishaps' = mishaps + m
    BY <1>3 DEF Deliver
  <1>6. Idle \in RequestOrIdle
    BY DEF RequestOrIdle
  <1>7. call' \in [Browsers -> [Slots -> RequestSet \cup {Idle}]]
    BY <1>1, <1>4, <1>6, OneSlot
  <1>8. \A x \in Browsers, y \in Slots : call'[x][y] # Idle =>
            RequestOK(call'[x][y]) /\ Earned(call'[x][y].admin, secret, shown[x])
    BY <1>4, <1>6, RequestsKept
  <1>9. m \in Nat /\ IsFiniteSet(X) /\ Cardinality(X) <= m
    <2>1. CASE over
      <3>1. X = {jar[b].ticket.id} /\ m = 1
        BY <2>1
      <3> HIDE DEF X, m
      <3>2. IsFiniteSet({jar[b].ticket.id}) /\ Cardinality({jar[b].ticket.id}) = 1
        BY FS_Singleton, Zenon
      <3>3. QED BY <3>1, <3>2
    <2>2. CASE ~over
      <3>1. X = {} /\ m = 0
        BY <2>2
      <3> HIDE DEF X, m
      <3>2. QED BY <3>1, FS_EmptySet
    <2>3. QED BY <2>1, <2>2
  <1>10. /\ ticket \in CookieSet /\ admin \in CookieSet
         /\ TicketOK(ticket, secret) /\ Earned(admin, secret, shown[b])
         /\ r.minted => ticket.secret = r.secret /\ ticket.id = r.id
         /\ ~r.minted => ticket = jar[b].ticket
    <2>1. r.admin \in CookieSet /\ jar[b].ticket \in CookieSet /\ jar[b].admin \in CookieSet /\ secret \in Nat
      BY <1>1, <1>2 DEF Typed, RequestSet
    <2>2. TicketOK(jar[b].ticket, secret) /\ Earned(jar[b].admin, secret, shown[b])
      BY <1>1 DEF TicketInv, AdminInv
    <2>3. admin \in CookieSet /\ Earned(admin, secret, shown[b])
      BY <1>2, <2>1, <2>2
    <2>4. /\ r.minted => ticket = TicketCookie(r)
          /\ ~r.minted => ticket = jar[b].ticket
      OBVIOUS
    <2> HIDE DEF ticket
    <2>5. CASE r.minted
      <3>1. r.secret \in Nat /\ r.secret <= secret
        BY <1>2 DEF RequestSet, RequestOK
      <3> QED BY <1>3, <2>1, <2>3, <2>4, <2>5, <3>1 DEF TicketCookie, CookieSet, TicketOK
    <2>6. CASE ~r.minted
      BY <2>1, <2>2, <2>3, <2>4, <2>6
    <2>7. QED BY <2>5, <2>6
  <1> HIDE DEF m, X, ticket, admin
  <1>11. /\ jar' \in [Browsers -> [ticket : CookieSet, admin : CookieSet]]
         /\ jar'[b].ticket = ticket /\ jar'[b].admin = admin
         /\ \A x \in Browsers : x # b => jar'[x] = jar[x]
    BY <1>1, <1>4, <1>10 DEF Typed
  <1>12. RoomInv' /\ Typed'
    BY <1>1, <1>4, <1>5, <1>7, <1>9, <1>11 DEF RoomInv, Typed
  <1>13. TicketInv'
    BY <1>1, <1>4, <1>8, <1>10, <1>11 DEF TicketInv, RequestOK
  <1>14. AdminInv'
    BY <1>1, <1>4, <1>8, <1>10, <1>11 DEF AdminInv
  <1>15. Orphans' \subseteq Orphans \cup X
    <2>1. /\ Working' \subseteq Working
          /\ \A x \in Browsers, y \in Slots :
               Minted(call[x][y]) => <<x, y>> = <<b, s>> \/ call'[x][y] = call[x][y]
      BY <1>1, <1>4, EndLeaves
    <2>2. ASSUME NEW id \in Carried PROVE id \in Carried' \/ id \in X
      <3>1. CASE \E x \in Browsers : Verify(jar[x].ticket) /\ jar[x].ticket.id = id
        <4>1. PICK x \in Browsers : Verify(jar[x].ticket) /\ jar[x].ticket.id = id
          BY <3>1
        <4>2. CASE x = b /\ r.minted
          BY <4>1, <4>2 DEF X
        <4>3. CASE ~(x = b /\ r.minted)
          <5>1. jar'[x].ticket = jar[x].ticket
            BY <1>10, <1>11, <4>3
          <5>2. QED BY <1>4, <4>1, <5>1 DEF Carried, Verify
        <4>4. QED BY <4>2, <4>3
      <3>2. CASE \E x \in Browsers, y \in Slots : Brings(call[x][y]) /\ call[x][y].id = id
        <4>1. PICK x \in Browsers, y \in Slots : Brings(call[x][y]) /\ call[x][y].id = id
          BY <3>2
        <4>2. CASE <<x, y>> = <<b, s>>
          <5>1. jar'[b].ticket.secret = secret' /\ jar'[b].ticket.id = id
            BY <1>4, <1>10, <1>11, <4>1, <4>2 DEF Brings, Minted
          <5>2. QED BY <5>1 DEF Carried, Verify
        <4>3. CASE call'[x][y] = call[x][y]
          BY <1>4, <4>1, <4>3 DEF Carried, Brings, Minted
        <4>4. QED BY <2>1, <4>1, <4>2, <4>3 DEF Brings
      <3>3. QED BY <3>1, <3>2 DEF Carried
    <2>3. Known' = Known
      BY <1>4 DEF Known, Waiting
    <2>4. QED BY <2>1, <2>2, <2>3 DEF Orphans
  <1>16. WasteInv'
    <2>1. secret' = 0 => Cardinality(Orphans') <= mishaps + m
      BY <1>1, <1>4, <1>9, <1>15, WasteStep DEF Typed
    <2>2. QED BY <1>5, <2>1 DEF WasteInv
  <1>17. QED BY <1>12, <1>13, <1>14, <1>16 DEF IInv

-----------------------------------------------------------------------------
(* The process and the clock *)

(***************************************************************************)
(* A restart loses the request it interrupts, and the ticket it may have   *)
(* been about to bring, each a mishap; the answers on their way are those  *)
(* they were.  With another secret no cookie is valid any more, and none   *)
(* needs to be.                                                            *)
(***************************************************************************)
LEMMA RestartIInv ==
  ASSUME IInv, Restart
  PROVE  IInv'
  <1>1. RoomInv /\ Typed /\ TicketInv /\ AdminInv /\ WasteInv
    BY DEF IInv
  <1> DEFINE S == {x \in Browsers \X Slots : Unanswered(x[1], x[2]) /\ Minted(call[x[1]][x[2]])}
             X == {call[x[1]][x[2]].id : x \in S}
             m == Cardinality(S)
  <1>2. /\ secret' = secret \/ secret' = secret + 1
        /\ mishaps' = mishaps + m
        /\ jar' = jar /\ shown' = shown
        /\ call' = [b \in Browsers |-> [s \in Slots |-> IF Unanswered(b, s) THEN Idle ELSE call[b][s]]]
    BY DEF Restart
  <1>3. m \in Nat /\ IsFiniteSet(X) /\ Cardinality(X) <= m
    <2>1. IsFiniteSet(Browsers \X Slots)
      BY GatekeeperAssumption, FS_Product
    <2>2. S \in SUBSET (Browsers \X Slots)
      OBVIOUS
    <2>3. IsFiniteSet(S)
      BY <2>1, <2>2, FS_Subset
    <2> DEFINE f == [x \in S |-> call[x[1]][x[2]].id]
    <2>4. f \in Surjection(S, X)
      BY DEF Surjection
    <2> HIDE DEF S, X, f
    <2>5. QED BY <2>3, <2>4, FS_Surjection, FS_CardinalityType
  <1>4. RoomInv' /\ Known' \subseteq Known
    <2>1. CASE UNCHANGED room
      BY <1>1, <2>1 DEF room, RoomInv, Known, Waiting
    <2>2. CASE line' = <<>> /\ inside' = {}
      BY <2>2 DEF RoomInv, Known, Waiting
    <2>3. QED BY <2>1, <2>2 DEF Restart
  <1>5. ASSUME NEW x \in Browsers, NEW y \in Slots
        PROVE  /\ call'[x][y] \in RequestSet \cup {Idle}
               /\ call'[x][y] = Idle \/ call'[x][y] = call[x][y]
               /\ Unanswered(x, y) \/ call'[x][y] = call[x][y]
    <2>1. call[x][y] \in RequestSet \cup {Idle}
      BY <1>1 DEF Typed
    <2>2. call'[x][y] = IF Unanswered(x, y) THEN Idle ELSE call[x][y]
      BY <1>2
    <2> QED BY <2>1, <2>2
  <1>6. Orphans' \subseteq Orphans \cup X \/ secret' # secret
    <2> SUFFICES ASSUME secret' = secret PROVE Orphans' \subseteq Orphans \cup X
      OBVIOUS
    <2>1. Working' \subseteq Working
      <3> SUFFICES ASSUME NEW id \in Working' PROVE id \in Working
        OBVIOUS
      <3>1. PICK x \in Browsers, y \in Slots :
                call'[x][y].pc \in {"check", "status", "answered"} /\ call'[x][y].id = id
        BY DEF Working
      <3>2. call'[x][y] = call[x][y]
        BY <1>5, <3>1 DEF Idle
      <3> QED BY <3>1, <3>2 DEF Working
    <2>2. ASSUME NEW id \in Carried PROVE id \in Carried' \/ id \in X
      <3>1. CASE \E x \in Browsers : Verify(jar[x].ticket) /\ jar[x].ticket.id = id
        BY <1>2, <3>1 DEF Carried, Verify
      <3>2. CASE \E x \in Browsers, y \in Slots : Brings(call[x][y]) /\ call[x][y].id = id
        <4>1. PICK x \in Browsers, y \in Slots : Brings(call[x][y]) /\ call[x][y].id = id
          BY <3>2
        <4>2. CASE Unanswered(x, y)
          <5>1. <<x, y>> \in S /\ call[<<x, y>>[1]][<<x, y>>[2]].id = id
            BY <4>1, <4>2 DEF Brings
          <5> QED BY <5>1
        <4>3. CASE ~Unanswered(x, y)
          <5>1. call'[x][y] = call[x][y]
            BY <1>5, <4>3
          <5> QED BY <4>1, <5>1 DEF Carried, Brings, Minted
        <4> QED BY <4>2, <4>3
      <3>3. QED BY <3>1, <3>2 DEF Carried
    <2> HIDE DEF X
    <2>3. QED BY <1>4, <2>1, <2>2 DEF Orphans
  <1> HIDE DEF X, m
  <1>7. Typed'
    <2>1. call' \in [Browsers -> [Slots -> RequestSet \cup {Idle}]]
      BY <1>2, <1>5
    <2> QED BY <1>1, <1>2, <1>3, <2>1 DEF Typed
  <1>8. TicketInv'
    <2>1. ASSUME NEW b \in Browsers PROVE TicketOK(jar[b].ticket, secret')
      <3>1. TicketOK(jar[b].ticket, secret) /\ jar[b].ticket \in CookieSet /\ secret \in Nat
        BY <1>1 DEF TicketInv, Typed
      <3>2. QED BY <1>2, <3>1 DEF TicketOK, CookieSet
    <2>2. ASSUME NEW b \in Browsers, NEW s \in Slots, call'[b][s] # Idle
          PROVE  RequestOK(call[b][s])'
      <3>1. call'[b][s] = call[b][s] /\ RequestOK(call[b][s]) /\ call[b][s] \in RequestSet
        BY <1>1, <1>5, <2>2 DEF TicketInv
      <3>2. secret \in Nat
        BY <1>1 DEF Typed
      <3> QED BY <1>2, <3>1, <3>2 DEF RequestOK, RequestSet
    <2>3. QED BY <1>2, <2>1, <2>2 DEF TicketInv
  <1>9. AdminInv'
    <2>1. ASSUME NEW b \in Browsers, NEW k \in CookieSet, Earned(k, secret, shown[b])
          PROVE  Earned(k, secret', shown[b])
      <3>1. secret \in Nat
        BY <1>1 DEF Typed
      <3>2. QED BY <1>2, <2>1, <3>1 DEF Earned, CookieSet
    <2>2. ASSUME NEW b \in Browsers, NEW s \in Slots, call'[b][s] # Idle
          PROVE  Earned(call'[b][s].admin, secret', shown[b])
      <3>1. call'[b][s] = call[b][s] /\ call[b][s].admin \in CookieSet
        BY <1>5, <2>2 DEF RequestSet
      <3> QED BY <1>1, <2>1, <2>2, <3>1 DEF AdminInv
    <2>3. ASSUME NEW b \in Browsers PROVE Earned(jar[b].admin, secret', shown[b])
      <3>1. jar[b].admin \in CookieSet
        BY <1>1 DEF Typed
      <3> QED BY <1>1, <2>1, <3>1 DEF AdminInv
    <2>4. QED BY <1>2, <2>2, <2>3 DEF AdminInv
  <1>10. WasteInv'
    <2>1. CASE secret' = secret
      <3>1. Orphans' \subseteq Orphans \cup X
        BY <1>6, <2>1
      <3>2. secret' = 0 => Cardinality(Orphans') <= mishaps + m
        BY <1>1, <1>3, <2>1, <3>1, WasteStep DEF Typed
      <3>3. QED BY <1>2, <3>2 DEF WasteInv
    <2>2. CASE secret' = secret + 1
      BY <1>1, <2>2 DEF Typed, WasteInv
    <2>3. QED BY <1>2, <2>1, <2>2
  <1>11. QED BY <1>4, <1>7, <1>8, <1>9, <1>10 DEF IInv

(***************************************************************************)
(* The janitor's reconcile wastes nothing.                                 *)
(***************************************************************************)
LEMMA JanitorIInv ==
  ASSUME IInv, Janitor
  PROVE  IInv'
  <1>1. RoomInv /\ Typed /\ TicketInv /\ AdminInv /\ WasteInv
    BY DEF IInv
  <1>2. Crank /\ UNCHANGED <<secret, jar, call, shown, mishaps>>
    BY DEF Janitor
  <1>3. RoomInv' /\ Known' \subseteq Known
    BY <1>1, <1>2, CrankShrinks
  <1>4. Typed' /\ TicketInv' /\ AdminInv'
    BY <1>1, <1>2 DEF Typed, TicketInv, AdminInv, RequestOK
  <1>5. Orphans' \subseteq Orphans
    BY <1>2, <1>3 DEF Orphans, Working, Carried, Verify, Brings, Minted
  <1>6. WasteInv'
    BY <1>1, <1>2, <1>5, NoWaste DEF Typed
  <1>7. QED BY <1>3, <1>4, <1>6 DEF IInv

(***************************************************************************)
(* A tick takes as much from an admin cookie as from the time since the    *)
(* key was shown.                                                          *)
(***************************************************************************)
LEMMA YoungerEarned ==
  ASSUME NEW c \in CookieSet, NEW key \in CookieSet, NEW now \in Nat, Earned(c, now, key)
  PROVE  Younger(c) \in CookieSet /\ Earned(Younger(c), now, Younger(key))
  <1>1. AdminSession \in Nat
    BY GatekeeperAssumption
  <1>2. /\ Younger(c) \in CookieSet /\ Younger(c).secret = c.secret
        /\ Younger(c).left = IF c.left - 1 < 0 THEN 0 ELSE c.left - 1
    BY DEF Younger, CookieSet, Greater
  <1>3. /\ Younger(key).secret = key.secret
        /\ Younger(key).left = IF key.left - 1 < 0 THEN 0 ELSE key.left - 1
    BY DEF Younger, CookieSet, Greater
  <1>4. c.left \in Int /\ key.left \in Int /\ c.secret \in Int
    BY DEF CookieSet
  <1>5. QED BY <1>1, <1>2, <1>3, <1>4 DEF Earned

(***************************************************************************)
(* A tick changes ages and nothing else.                                   *)
(***************************************************************************)
LEMMA TickIInv ==
  ASSUME IInv, Tick
  PROVE  IInv'
  <1>1. RoomInv /\ Typed /\ TicketInv /\ AdminInv /\ WasteInv
    BY DEF IInv
  <1>2. /\ line' = line /\ inside' = inside /\ secret' = secret /\ mishaps' = mishaps
        /\ jar' = [b \in Browsers |-> [jar[b] EXCEPT !.admin = Younger(@)]]
        /\ shown' = [b \in Browsers |-> Younger(shown[b])]
        /\ call' = [b \in Browsers |-> [s \in Slots |->
                      IF call[b][s] = Idle THEN Idle ELSE [call[b][s] EXCEPT !.admin = Younger(@)]]]
    BY DEF Tick, RoomAges
  <1>3. \A b \in Browsers : jar[b] \in [ticket : CookieSet, admin : CookieSet] /\ shown[b] \in CookieSet
    BY <1>1 DEF Typed
  <1>4. secret \in Nat
    BY <1>1 DEF Typed
  <1>5. ASSUME NEW k \in CookieSet PROVE Younger(k) \in CookieSet
    BY DEF Younger, CookieSet, Greater
  <1>6. ASSUME NEW b \in Browsers
        PROVE  /\ jar'[b] \in [ticket : CookieSet, admin : CookieSet]
               /\ jar'[b].ticket = jar[b].ticket /\ jar'[b].admin = Younger(jar[b].admin)
               /\ shown'[b] = Younger(shown[b]) /\ shown'[b] \in CookieSet
    <2>1. jar'[b] = [jar[b] EXCEPT !.admin = Younger(jar[b].admin)] /\ shown'[b] = Younger(shown[b])
      BY <1>2
    <2>2. Younger(jar[b].admin) \in CookieSet /\ Younger(shown[b]) \in CookieSet
      BY <1>3, <1>5
    <2>3. QED BY <1>3, <2>1, <2>2
  <1>7. ASSUME NEW b \in Browsers, NEW s \in Slots
        PROVE  /\ call[b][s] = Idle => call'[b][s] = Idle
               /\ call[b][s] # Idle =>
                    /\ call[b][s] \in RequestSet
                    /\ call'[b][s] \in RequestSet
                    /\ call'[b][s].pc = call[b][s].pc
                    /\ call'[b][s].id = call[b][s].id
                    /\ call'[b][s].minted = call[b][s].minted
                    /\ call'[b][s].first = call[b][s].first
                    /\ call'[b][s].secret = call[b][s].secret
                    /\ call'[b][s].admin = Younger(call[b][s].admin)
    <2>1. call[b][s] \in RequestSet \cup {Idle}
      BY <1>1 DEF Typed
    <2>2. CASE call[b][s] = Idle
      BY <1>2, <2>2
    <2>3. CASE call[b][s] # Idle
      <3>1. call'[b][s] = [call[b][s] EXCEPT !.admin = Younger(call[b][s].admin)]
        BY <1>2, <2>3
      <3>2. call[b][s] \in RequestSet
        BY <2>1, <2>3
      <3>3. Younger(call[b][s].admin) \in CookieSet
        BY <1>5, <3>2 DEF RequestSet
      <3>4. QED BY <2>3, <3>1, <3>2, <3>3 DEF RequestSet
    <2>4. QED BY <2>2, <2>3
  <1>8. RoomInv'
    BY <1>1, <1>2 DEF RoomInv
  <1>9. Typed'
    <2>1. jar' \in [Browsers -> [ticket : CookieSet, admin : CookieSet]]
      BY <1>2, <1>6
    <2>2. shown' \in [Browsers -> CookieSet]
      BY <1>2, <1>6
    <2>3. \A b \in Browsers, s \in Slots : call'[b][s] \in RequestSet \cup {Idle}
      BY <1>7
    <2>4. call' \in [Browsers -> [Slots -> RequestSet \cup {Idle}]]
      BY <1>2, <2>3
    <2>5. QED BY <1>1, <1>2, <2>1, <2>2, <2>4 DEF Typed
  <1>10. TicketInv'
    BY <1>1, <1>2, <1>6, <1>7 DEF TicketInv, RequestOK
  <1>11. AdminInv'
    <2>1. ASSUME NEW b \in Browsers PROVE Earned(jar'[b].admin, secret, shown'[b])
      BY <1>1, <1>3, <1>4, <1>6, YoungerEarned DEF AdminInv
    <2>2. ASSUME NEW b \in Browsers, NEW s \in Slots, call'[b][s] # Idle
          PROVE  Earned(call'[b][s].admin, secret, shown'[b])
      <3>1. call[b][s] # Idle
        BY <1>7, <2>2
      <3>2. call[b][s].admin \in CookieSet
        BY <1>7, <3>1 DEF RequestSet
      <3>3. Earned(call[b][s].admin, secret, shown[b])
        BY <1>1, <3>1 DEF AdminInv
      <3>4. QED BY <1>3, <1>4, <1>6, <1>7, <3>1, <3>2, <3>3, YoungerEarned
    <2>3. QED BY <1>2, <2>1, <2>2 DEF AdminInv
  <1>12. Orphans' \subseteq Orphans
    <2>1. \A b \in Browsers, s \in Slots :
             call'[b][s].pc = call[b][s].pc /\ (call[b][s].pc # "idle" =>
               /\ call'[b][s].id = call[b][s].id /\ call'[b][s].minted = call[b][s].minted
               /\ call'[b][s].secret = call[b][s].secret)
      BY <1>7 DEF Idle
    <2>2. Known' = Known
      BY <1>2 DEF Known, Waiting
    <2>3. Working' \subseteq Working
      BY <2>1 DEF Working
    <2>4. ASSUME NEW id \in Carried PROVE id \in Carried'
      <3>1. CASE \E x \in Browsers : Verify(jar[x].ticket) /\ jar[x].ticket.id = id
        <4>1. PICK x \in Browsers : Verify(jar[x].ticket) /\ jar[x].ticket.id = id
          BY <3>1
        <4>2. jar'[x].ticket = jar[x].ticket
          BY <1>6
        <4>3. QED BY <1>2, <4>1, <4>2 DEF Carried, Verify
      <3>2. CASE \E x \in Browsers, y \in Slots : Brings(call[x][y]) /\ call[x][y].id = id
        BY <1>2, <2>1, <3>2 DEF Carried, Brings, Minted
      <3>3. QED BY <3>1, <3>2 DEF Carried
    <2>5. QED BY <2>2, <2>3, <2>4 DEF Orphans
  <1>13. WasteInv'
    BY <1>1, <1>2, <1>12, NoWaste DEF Typed
  <1>14. QED BY <1>8, <1>9, <1>10, <1>11, <1>13 DEF IInv

-----------------------------------------------------------------------------
(* The invariant *)

(***************************************************************************)
(* A process that has just started, before browsers without cookies.       *)
(***************************************************************************)
LEMMA InitIInv == Init => IInv
  <1> SUFFICES ASSUME Init PROVE IInv
    OBVIOUS
  <1>1. NoCookie \in CookieSet /\ NoCookie.secret = -1 /\ NoCookie.left = 0
    BY DEF NoCookie, CookieSet
  <1>2. /\ line = <<>> /\ inside = {} /\ secret = 0 /\ mishaps = 0
        /\ jar = [b \in Browsers |-> [ticket |-> NoCookie, admin |-> NoCookie]]
        /\ call = [b \in Browsers |-> [s \in Slots |-> Idle]]
        /\ shown = [b \in Browsers |-> NoCookie]
    BY DEF Init, RoomInit
  <1>3. \A b \in Browsers : /\ jar[b].ticket = NoCookie /\ jar[b].admin = NoCookie
                            /\ \A s \in Slots : call[b][s] = Idle
    BY <1>2
  <1>4. RoomInv /\ Known = {}
    BY <1>2 DEF RoomInv, Known, Waiting
  <1>5. Typed
    BY <1>1, <1>2 DEF Typed
  <1>6. TicketInv
    BY <1>1, <1>2, <1>3 DEF TicketInv, TicketOK
  <1>7. AdminInv
    <2>1. AdminSession \in Nat
      BY GatekeeperAssumption
    <2>2. QED BY <1>1, <1>2, <1>3, <2>1 DEF AdminInv, Earned
  <1>8. WasteInv
    <2>1. Working = {}
      BY <1>3 DEF Working, Idle
    <2>2. Orphans = {}
      BY <1>4, <2>1 DEF Orphans
    <2>3. QED BY <1>2, <2>2, FS_EmptySet DEF WasteInv
  <1>9. QED BY <1>4, <1>5, <1>6, <1>7, <1>8 DEF IInv

(***************************************************************************)
(* Every step keeps the invariant.                                         *)
(***************************************************************************)
LEMMA NextIInv == IInv /\ [Next]_vars => IInv'
  <1> SUFFICES ASSUME IInv, [Next]_vars PROVE IInv'
    OBVIOUS
  <1>1. ASSUME NEW b \in Browsers, NEW s \in Slots,
               ShowKey(b, s) \/ Page(b, s) \/ HandleStatus(b, s) \/ AdminFlush(b, s)
        PROVE  IInv'
    <2>1. PICK c : Begins(b, s, c)
      BY <1>1, StartsBegin
    <2>2. QED BY <2>1, BeginIInv
  <1>2. ASSUME NEW b \in Browsers, NEW s \in Slots, Check(b, s) \/ StatusOf(b, s) \/ Fails(b, s)
        PROVE  IInv'
    BY <1>2, ServedIInv
  <1>3. ASSUME NEW b \in Browsers, NEW s \in Slots, Deliver(b, s) PROVE IInv'
    BY <1>3, DeliverIInv
  <1>4. ASSUME NEW b \in Browsers, NEW s \in Slots, Lose(b, s) PROVE IInv'
    BY <1>4, LoseIInv
  <1>5. CASE UNCHANGED vars
    BY <1>5 DEF vars, room, IInv, RoomInv, Typed, TicketInv, RequestOK, AdminInv, WasteInv, Orphans, Known, Waiting,
                Working, Carried, Brings, Minted, Verify
  <1>6. QED BY <1>1, <1>2, <1>3, <1>4, <1>5, RestartIInv, JanitorIInv, TickIInv DEF Next

(***************************************************************************)
(* The invariant of the front: tickets and admin cookies are what a        *)
(* process signed, and every wasted ticket is paid for by a mishap.        *)
(***************************************************************************)
THEOREM FrontInvariant == Spec => []IInv
  <1>1. QED BY InitIInv, NextIInv, PTL DEF Spec

-----------------------------------------------------------------------------
(* What the front promises *)

(***************************************************************************)
(* WasteBounded: without a change of secret, the places and the slots that *)
(* are held for tickets no browser can use are at most as many as the      *)
(* answers that were lost or overtaken.                                    *)
(***************************************************************************)
THEOREM WasteAlwaysBounded == Spec => []WasteBounded
  <1>1. IInv => WasteBounded
    <2> SUFFICES ASSUME IInv, secret = 0 PROVE Cardinality(Known \ Held) <= mishaps
      BY DEF WasteBounded
    <2>1. RoomInv /\ Typed /\ TicketInv /\ WasteInv
      BY DEF IInv
    <2>2. ASSUME NEW id \in Carried PROVE id \in Held
      <3>1. CASE \E b \in Browsers : Verify(jar[b].ticket) /\ jar[b].ticket.id = id
        BY <3>1 DEF Held
      <3>2. CASE \E b \in Browsers, s \in Slots : Brings(call[b][s]) /\ call[b][s].id = id
        <4>1. PICK b \in Browsers, s \in Slots : Brings(call[b][s]) /\ call[b][s].id = id
          BY <3>2
        <4>2. call[b][s] \in InFlight(b)
          BY <4>1 DEF InFlight, Brings, Minted, Idle
        <4>3. id \in TicketsInFlight
          BY <4>1, <4>2 DEF TicketsInFlight
        <4>4. QED BY <4>3 DEF Held
      <3>3. QED BY <3>1, <3>2 DEF Carried
    <2>3. Known \ Held \in SUBSET Orphans
      BY <2>2 DEF Orphans
    <2>4. Orphans \in SUBSET Ids
      BY <2>1 DEF Orphans, Known, Working, Waiting, RoomInv
    <2>5. IsFiniteSet(Orphans)
      BY <2>4, RoomAssumption, FS_Subset
    <2>6. /\ Cardinality(Known \ Held) <= Cardinality(Orphans)
          /\ Cardinality(Known \ Held) \in Nat /\ Cardinality(Orphans) \in Nat
      BY <2>3, <2>5, FS_Subset, FS_CardinalityType
    <2>7. QED BY <2>1, <2>6 DEF WasteInv, Typed
  <1>2. QED BY <1>1, FrontInvariant, PTL

(***************************************************************************)
(* An answer that replaces a ticket cookie was to a request that had none  *)
(* to show.                                                                *)
(***************************************************************************)
LEMMA SettledKeeps ==
  ASSUME IInv, NEW x \in Browsers, NEW s \in Slots, Deliver(x, s), NEW b \in Browsers, Settled(b)
  PROVE  jar'[b].ticket = jar[b].ticket
  <1>1. Typed /\ TicketInv
    BY DEF IInv
  <1> DEFINE r == call[x][s]
  <1>2. r # Idle /\ RequestOK(r) /\ r \in InFlight(x)
    <2>1. r # Idle
      BY DEF Deliver, Idle
    <2>2. QED BY <1>1, <2>1 DEF TicketInv, InFlight
  <1>3. x = b => ~r.minted
    BY <1>2 DEF Settled, RequestOK
  <1>4. jar' = [jar EXCEPT ![x] =
                  [ticket |-> IF r.minted THEN TicketCookie(r) ELSE jar[x].ticket,
                   admin  |-> IF r.admin # NoCookie THEN r.admin ELSE jar[x].admin]]
    BY <1>1 DEF Deliver, Typed
  <1> HIDE DEF r
  <1>5. jar \in [Browsers -> [ticket : CookieSet, admin : CookieSet]]
    BY <1>1 DEF Typed
  <1>6. QED BY <1>3, <1>4, <1>5

(***************************************************************************)
(* RefreshKeepsPlace: a browser that has its ticket, and has no request    *)
(* from before it under way, keeps it as long as the secret stays, and     *)
(* nobody gets ahead of it, however requests and answers interleave.       *)
(***************************************************************************)
THEOREM RefreshesKeepPlace == Spec => RefreshKeepsPlace
  <1> DEFINE Keeps(b) == /\ jar'[b].ticket = jar[b].ticket
                         /\ jar[b].ticket.id \in Waiting(line) =>
                              Ahead(jar[b].ticket.id, line') \subseteq Ahead(jar[b].ticket.id, line)
  <1>1. ASSUME IInv, Next, NEW b \in Browsers, Settled(b), secret' = secret
        PROVE  Keeps(b)
    <2>1. RoomInv /\ Typed /\ TicketInv
      BY <1>1 DEF IInv
    <2>2. ASSUME NEW x \in Browsers, NEW s \in Slots,
                 ShowKey(x, s) \/ Page(x, s) \/ HandleStatus(x, s) \/ AdminFlush(x, s)
          PROVE  Keeps(b)
      <3>1. PICK c : Begins(x, s, c)
        BY <1>1, <2>2, StartsBegin
      <3>2. QED BY <3>1 DEF Begins
    <2>3. ASSUME NEW x \in Browsers, NEW s \in Slots, Check(x, s) PROVE Keeps(b)
      <3>1. jar' = jar /\ CheckTicket(call[x][s].id)
        BY <2>3 DEF Check
      <3>2. call[x][s].id \in Ids
        <4>1. call[x][s] # Idle /\ call[x][s].pc # "admin"
          BY <2>3 DEF Check, Idle
        <4>2. QED BY <2>1, <4>1 DEF TicketInv, RequestOK
      <3>3. \A id \in Waiting(line) : Ahead(id, line') \subseteq Ahead(id, line)
        BY <2>1, <3>1, <3>2, CheckAddsOne
      <3>4. QED BY <3>1, <3>3
    <2>4. ASSUME NEW x \in Browsers, NEW s \in Slots, StatusOf(x, s) \/ Fails(x, s) \/ Lose(x, s)
          PROVE  Keeps(b)
      <3>1. jar' = jar /\ line' = line
        BY <2>4 DEF StatusOf, Fails, Lose, StatusTicket, Lookup, Touch, room
      <3>2. QED BY <3>1
    <2>5. ASSUME NEW x \in Browsers, NEW s \in Slots, Deliver(x, s) PROVE Keeps(b)
      <3>1. line' = line
        BY <2>5 DEF Deliver, room
      <3>2. jar'[b].ticket = jar[b].ticket
        BY <1>1, <2>5, SettledKeeps
      <3>3. QED BY <3>1, <3>2
    <2>6. CASE Restart
      <3>1. jar' = jar /\ (line' = line \/ line' = <<>>)
        BY <2>6 DEF Restart, room
      <3>2. QED BY <3>1 DEF Ahead
    <2>7. CASE Janitor
      <3>1. jar' = jar /\ Crank
        BY <2>7 DEF Janitor
      <3>2. QED BY <2>1, <3>1, CrankShrinks
    <2>8. CASE Tick
      <3>1. jar' = [x \in Browsers |-> [jar[x] EXCEPT !.admin = Younger(@)]] /\ line' = line
        BY <2>8 DEF Tick, RoomAges
      <3>2. jar[b] \in [ticket : CookieSet, admin : CookieSet]
        BY <2>1 DEF Typed
      <3>3. jar'[b].ticket = jar[b].ticket
        BY <3>1, <3>2
      <3>4. QED BY <3>1, <3>3
    <2> HIDE DEF Keeps
    <2>9. QED BY <1>1, <2>2, <2>3, <2>4, <2>5, <2>6, <2>7, <2>8 DEF Next
  <1>2. IInv /\ [Next]_vars =>
          [\A b \in Browsers :
             LET id == jar[b].ticket.id IN
             Settled(b) /\ secret' = secret =>
               /\ jar'[b].ticket = jar[b].ticket
               /\ id \in Waiting(line) => Ahead(id, line') \subseteq Ahead(id, line)]_vars
    BY <1>1
  <1>3. QED BY <1>2, FrontInvariant, PTL DEF Spec, RefreshKeepsPlace

(***************************************************************************)
(* A slot that no request starts on stays idle.                            *)
(***************************************************************************)
LEMMA IdleStays ==
  ASSUME IInv, Next, NEW b \in Browsers, NEW s \in Slots, call[b][s] = Idle
  PROVE  \/ \E c : Begins(b, s, c) /\ call'[b][s] = c
         \/ call'[b][s] = Idle
  <1>1. Typed
    BY DEF IInv
  <1>2. ASSUME NEW x \in Browsers, NEW y \in Slots,
               ShowKey(x, y) \/ Page(x, y) \/ HandleStatus(x, y) \/ AdminFlush(x, y)
        PROVE  \/ \E c : Begins(b, s, c) /\ call'[b][s] = c
               \/ call'[b][s] = Idle
    <2>1. PICK c : Begins(x, y, c)
      BY <1>2, StartsBegin
    <2>2. c \in RequestOrIdle /\ Writes(x, y, c)
      BY <2>1 DEF Begins, RequestOrIdle, Writes
    <2>3. call'[x][y] = c /\ (<<b, s>> # <<x, y>> => call'[b][s] = call[b][s])
      BY <1>1, <2>2, OneSlot
    <2>4. CASE <<b, s>> = <<x, y>>
      <3>1. b = x /\ s = y
        BY <2>4
      <3>2. QED BY <2>1, <2>3, <3>1
    <2>5. CASE <<b, s>> # <<x, y>>
      BY <2>3, <2>5
    <2>6. QED BY <2>4, <2>5
  <1>3. ASSUME NEW x \in Browsers, NEW y \in Slots, Check(x, y) \/ StatusOf(x, y) \/ Fails(x, y)
        PROVE  call'[b][s] = Idle
    <2>1. call[x][y].pc \in {"check", "status"} /\ Answer(x, y)
      BY <1>3 DEF Check, StatusOf, Fails
    <2>2. x # b \/ y # s
      BY <2>1 DEF Idle
    <2> DEFINE c == IF call[x][y].minted THEN [call[x][y] EXCEPT !.pc = "answered"] ELSE Idle
    <2>3. call' = [call EXCEPT ![x][y] = c]
      BY <1>1, <2>1 DEF Answer, Typed
    <2> HIDE DEF c
    <2>4. QED BY <1>1, <2>2, <2>3 DEF Typed
  <1>4. ASSUME NEW x \in Browsers, NEW y \in Slots, Deliver(x, y) \/ Lose(x, y)
        PROVE  call'[b][s] = Idle
    <2>1. call' = [call EXCEPT ![x][y] = Idle]
      BY <1>4 DEF Deliver, Lose
    <2>2. QED BY <1>1, <2>1 DEF Typed
  <1>5. CASE Restart
    BY <1>5 DEF Restart
  <1>6. CASE Janitor
    BY <1>6 DEF Janitor
  <1>7. CASE Tick
    BY <1>7 DEF Tick
  <1>8. QED BY <1>2, <1>3, <1>4, <1>5, <1>6, <1>7 DEF Next

(***************************************************************************)
(* AdminByKey: whoever is served as an administrator showed the key, to a  *)
(* process of this secret and less than an admin session ago.              *)
(***************************************************************************)
THEOREM AdminsShowKey == Spec => AdminByKey
  <1>1. ASSUME IInv, Next, NEW b \in Browsers, NEW s \in Slots, call[b][s] = Idle, call'[b][s].pc = "admin"
        PROVE  shown'[b].secret = secret /\ shown'[b].left > 0
    <2>1. Typed /\ AdminInv
      BY <1>1 DEF IInv
    <2>2. call'[b][s] # Idle
      BY <1>1 DEF Idle
    <2>3. PICK c : Begins(b, s, c) /\ call'[b][s] = c
      BY <1>1, <2>2, IdleStays
    <2>4. Showing(b) \/ (IsAdmin(b) /\ shown' = shown)
      BY <1>1, <2>3 DEF Begins
    <2>5. CASE Showing(b)
      <3>1. shown'[b] = AdminCookie
        BY <2>1, <2>5 DEF Showing, Typed
      <3>2. AdminCookie.secret = secret /\ AdminCookie.left > 0
        BY GatekeeperAssumption DEF AdminCookie
      <3>3. QED BY <3>1, <3>2
    <2>6. CASE IsAdmin(b) /\ shown' = shown
      <3>1. Earned(jar[b].admin, secret, shown[b]) /\ jar[b].admin.secret = secret /\ jar[b].admin.left > 0
        BY <2>1, <2>6 DEF AdminInv, IsAdmin, Verify
      <3>2. jar[b].admin.left \in Int /\ shown[b].left \in Int
        BY <2>1 DEF Typed, CookieSet
      <3>3. QED BY <2>6, <3>1, <3>2 DEF Earned
    <2>7. QED BY <2>4, <2>5, <2>6
  <1>2. IInv /\ [Next]_vars =>
          [\A b \in Browsers, s \in Slots :
             call[b][s] = Idle /\ call'[b][s].pc = "admin" =>
               shown'[b].secret = secret /\ shown'[b].left > 0]_vars
    BY <1>1
  <1>3. QED BY <1>2, FrontInvariant, PTL DEF Spec, AdminByKey

-----------------------------------------------------------------------------
(* The waiting page *)

(***************************************************************************)
(* A reconcile keeps who was seen within both TTLs: in the line, inside,   *)
(* or from the one to the other.                                           *)
(***************************************************************************)
LEMMA CrankKeeps ==
  ASSUME RoomInv, Crank, NEW v \in Known, seen[v] \in Int,
         Present - seen[v] <= ActiveTTL, Present - seen[v] <= QueueTTL
  PROVE  v \in Known' /\ v \in DOMAIN seen' /\ seen'[v] \in {seen[v], Present}
  <1>1. PICK alive, p, n : Cranked(alive, p, n)
    BY CrankRuns
  <1> DEFINE staying == inside \ Expired(Present)
             promoted == {alive[i] : i \in 1..n}
  <1>2. /\ alive \in Seq(Ids) /\ Len(alive) \in Nat /\ n \in 0..Len(alive)
        /\ Selects(alive, line, Kept(Present), p)
        /\ line' = SubSeq(alive, n + 1, Len(alive))
        /\ inside' = staying \cup promoted
        /\ seen' = [id \in staying \cup Waiting(alive) |-> IF id \in promoted THEN Present ELSE seen[id]]
    BY <1>1 DEF Cranked, SeenAt
  <1>3. v \in staying \cup Waiting(alive)
    <2>1. CASE v \in inside
      BY <2>1, RoomAssumption DEF Expired, Present
    <2>2. CASE v \in Waiting(line)
      <3>1. PICK k \in Kept(Present) : line[k] = v
        BY <2>2 DEF Waiting, Kept
      <3>2. PICK i \in 1..Len(alive) : alive[i] = line[k]
        BY <1>2, <3>1 DEF Selects
      <3>3. QED BY <1>2, <3>1, <3>2 DEF Waiting
    <2>3. QED BY <2>1, <2>2 DEF Known
  <1>4. v \in DOMAIN seen' /\ seen'[v] \in {seen[v], Present}
    BY <1>2, <1>3
  <1>5. ASSUME NEW i \in 1..Len(alive) PROVE alive[i] \in Known'
    <2>1. CASE i \in 1..n
      BY <1>2, <2>1 DEF Known
    <2>2. CASE i \notin 1..n
      <3>1. i - n \in DOMAIN line' /\ line'[i - n] = alive[i]
        BY <1>2, <2>2
      <3>2. QED BY <3>1 DEF Known, Waiting
    <2>3. QED BY <2>1, <2>2
  <1>6. v \in Known'
    <2>1. \A x \in Waiting(alive) : x \in Known'
      <3>1. DOMAIN alive = 1..Len(alive)
        BY <1>2
      <3>2. QED BY <1>5, <3>1, Zenon DEF Waiting
    <2>2. staying \subseteq Known'
      BY <1>2 DEF Known
    <2>3. QED BY <1>3, <2>1, <2>2
  <1>7. QED BY <1>4, <1>6

(***************************************************************************)
(* What is left of Check or of StatusOf throws nobody out, and it is a     *)
(* heartbeat of a ticket that is in the line afterwards.                   *)
(***************************************************************************)
LEMMA CheckKeeps ==
  ASSUME RoomInv, NEW u \in Ids, CheckTicket(u)
  PROVE  /\ \A v \in Known : v \in Known' /\ v \in DOMAIN seen' /\ seen'[v] \in {seen[v], Present}
         /\ u \notin inside' => u \in Known' /\ u \in DOMAIN seen' /\ seen'[u] = Present
  <1>1. CASE u \in inside /\ Touch(u, Present)
    <2>1. Known' = Known
      BY <1>1 DEF Touch, Known, Waiting
    <2>2. inside' = inside /\ seen' = [id \in Known |-> IF id \in {u} \cap inside THEN Present ELSE seen[id]]
      BY <1>1 DEF Touch, SeenAt
    <2>3. QED BY <1>1, <2>1, <2>2
  <1>2. CASE u \in Waiting(line) /\ Lookup(u, Present)
    <2>1. Known' = Known /\ u \in Known
      BY <1>2 DEF Lookup, Known, Waiting
    <2>2. seen' = [id \in Known |-> IF id \in {u} THEN Present ELSE seen[id]]
      BY <1>2 DEF Lookup, SeenAt
    <2>3. QED BY <2>1, <2>2
  <1>3. ASSUME NEW capacity \in Capacities, Admissible(u, capacity), TryAdmit(u, capacity, Present)
        PROVE  /\ \A v \in Known : v \in Known' /\ v \in DOMAIN seen' /\ seen'[v] \in {seen[v], Present}
               /\ u \in inside'
    <2>1. line' = line /\ inside' = inside \cup {u}
          /\ seen' = [id \in Known \cup {u} |-> IF id \in {u} THEN Present ELSE seen[id]]
      BY <1>3 DEF TryAdmit, SeenAt
    <2>2. Known \subseteq Known'
      BY <2>1 DEF Known, Waiting
    <2>3. QED BY <2>1, <2>2
  <1>4. CASE u \notin Known /\ Enqueue(u, Present)
    <2>1. line' = Append(line, u) /\ inside' = inside
          /\ seen' = [id \in Known \cup {u} |-> IF id \in {u} THEN Present ELSE seen[id]]
      BY <1>4 DEF Enqueue, SeenAt, Known
    <2>2. /\ line \in Seq(Ids) /\ Len(line) \in Nat
          /\ DOMAIN line = 1..Len(line)
          /\ DOMAIN line' = 1..(Len(line) + 1)
          /\ line'[Len(line) + 1] = u
          /\ \A i \in 1..Len(line) : line'[i] = line[i]
      BY <2>1 DEF RoomInv
    <2>3. \A i \in 1..Len(line) : i \in 1..(Len(line) + 1)
      BY <2>2
    <2>4. Len(line) + 1 \in 1..(Len(line) + 1)
      BY <2>2
    <2>5. Waiting(line) \subseteq Waiting(line') /\ u \in Waiting(line')
      BY <2>2, <2>3, <2>4 DEF Waiting
    <2>6. Known \subseteq Known' /\ u \in Known'
      BY <2>1, <2>5 DEF Known
    <2>7. QED BY <2>1, <2>6
  <1>5. QED BY <1>1, <1>2, <1>3, <1>4 DEF CheckTicket

(***************************************************************************)
(* StatusOf's heartbeat: it moves nobody.                                  *)
(***************************************************************************)
LEMMA StatusKeeps ==
  ASSUME NEW u, StatusTicket(u)
  PROVE  /\ line' = line /\ inside' = inside /\ Known' = Known
         /\ seen' = [id \in Known |-> IF id = u THEN Present ELSE seen[id]]
  BY DEF StatusTicket, Lookup, SeenAt, Known, Waiting

(***************************************************************************)
(* The inductive invariant of the page.  While nothing fails, a page that  *)
(* waits polls again before its ticket's heartbeat is older than one       *)
(* polling interval and the jitter; PageKeepsPlace alone does not say when *)
(* the ticket would be dropped.                                            *)
(***************************************************************************)
Timely(v) ==
  page[v] = "wait" =>
    /\ v \in Known /\ v \in DOMAIN seen
    /\ seen[v] \in Int
    /\ seen[v] <= Present
    /\ timer[v] - seen[v] <= PollInterval + Jitter

PageInv ==
  /\ faults \in Nat
  /\ faults = 0 =>
       /\ RoomInv
       /\ page \in [Ids -> {"other", "wait"}]
       /\ timer \in [Ids -> Nat]
       /\ pollMs \in [Ids -> Nat]
       /\ \A v \in Ids : pollMs[v] <= PollInterval /\ Timely(v)

(***************************************************************************)
(* The status answer never advertises more than the polling interval: the  *)
(* fraction of a second is cut off.                                        *)
(***************************************************************************)
LEMMA AdvertisedAtMost ==
  ASSUME Durations, NEW ms \in Nat, ms <= PollInterval
  PROVE  Advertised(ms) \in Nat /\ Advertised(ms) <= PollInterval
  <1>1. PollInterval \in Nat /\ TicksPerSecond \in Nat /\ TicksPerSecond > 0
    BY DEF Durations
  <1> DEFINE q == PollInterval \div TicksPerSecond
  <1>2. q \in Int /\ q * TicksPerSecond <= PollInterval /\ PollInterval < q * TicksPerSecond + TicksPerSecond
    BY <1>1
  <1> HIDE DEF q
  <1>3. q < 0 => q * TicksPerSecond + TicksPerSecond <= 0
    BY <1>1, <1>2
  <1>4. q \in Nat
    BY <1>1, <1>2, <1>3
  <1>5. q * TicksPerSecond \in Nat
    BY <1>1, <1>4
  <1>6. Advertised(ms) = IF q = 0 THEN ms ELSE q * TicksPerSecond
    BY DEF Advertised, q
  <1>7. QED BY <1>1, <1>2, <1>5, <1>6

(***************************************************************************)
(* Nothing that may be done to the room while a request is taken in harms  *)
(* a page that waits.                                                      *)
(***************************************************************************)
LEMMA ReconcileTimely ==
  ASSUME Durations, Punctual, PageInv, faults = 0, Crank \/ UNCHANGED room,
         UNCHANGED <<page, timer, pollMs, faults>>
  PROVE  PageInv'
  <1>1. /\ PollInterval \in Nat /\ Jitter \in Nat
        /\ PollInterval + Jitter <= ActiveTTL /\ PollInterval + Jitter <= QueueTTL
    BY RoomAssumption DEF Durations, Punctual, Lesser
  <1>2. CASE UNCHANGED room
    BY <1>2 DEF PageInv, RoomInv, Timely, room, Known, Waiting
  <1>3. CASE Crank
    <2>1. RoomInv'
      BY <1>3, CrankShrinks DEF PageInv
    <2>2. ASSUME NEW v \in Ids PROVE Timely(v)'
      <3> SUFFICES ASSUME page[v] = "wait"
                   PROVE  /\ v \in Known' /\ v \in DOMAIN seen'
                          /\ seen'[v] \in Int
                          /\ seen'[v] <= Present
                          /\ timer[v] - seen'[v] <= PollInterval + Jitter
        BY DEF Timely, Present
      <3>1. /\ v \in Known
            /\ seen[v] \in Int /\ seen[v] <= Present /\ timer[v] \in Nat
            /\ timer[v] - seen[v] <= PollInterval + Jitter
        BY DEF PageInv, Timely
      <3>2. Present - seen[v] <= ActiveTTL /\ Present - seen[v] <= QueueTTL
        BY <1>1, <3>1, RoomAssumption DEF Present
      <3>3. v \in Known' /\ v \in DOMAIN seen' /\ seen'[v] \in {seen[v], Present}
        BY <1>3, <3>1, <3>2, CrankKeeps DEF PageInv
      <3>4. QED BY <1>1, <3>1, <3>3 DEF Present
    <2>3. QED BY <2>1, <2>2 DEF PageInv
  <1>4. QED BY <1>2, <1>3

(***************************************************************************)
(* A new page, or none, in the place of one: it polls at once.             *)
(***************************************************************************)
LEMMA ShowsTyped ==
  ASSUME Durations, PageInv, faults = 0, NEW u \in Ids, NEW what \in {"other", "wait"}, Shows(u, what)
  PROVE  /\ page' \in [Ids -> {"other", "wait"}] /\ timer' \in [Ids -> Nat] /\ pollMs' \in [Ids -> Nat]
         /\ \A v \in Ids : pollMs'[v] <= PollInterval
         /\ page'[u] = what /\ timer'[u] = 0
         /\ \A v \in Ids \ {u} : page'[v] = page[v] /\ timer'[v] = timer[v]
  BY DEF Durations, PageInv, Shows

(***************************************************************************)
(* The answer to a page load: a page that is told to wait has a fresh      *)
(* heartbeat.                                                              *)
(***************************************************************************)
LEMMA AnswerCheckTimely ==
  ASSUME Durations, PageInv, faults = 0, NEW u \in Ids, AnswerCheck(u)
  PROVE  PageInv'
  <1>1. CheckTicket(u) /\ faults' = faults
    BY DEF AnswerCheck
  <1> DEFINE what == IF u \in inside' THEN "other" ELSE "wait"
  <1>2. Shows(u, what) /\ what \in {"other", "wait"} /\ (what = "wait" => u \notin inside')
    BY DEF AnswerCheck
  <1> HIDE DEF what
  <1>3. /\ page' \in [Ids -> {"other", "wait"}] /\ timer' \in [Ids -> Nat] /\ pollMs' \in [Ids -> Nat]
        /\ \A v \in Ids : pollMs'[v] <= PollInterval
        /\ page'[u] = what /\ timer'[u] = 0
        /\ \A v \in Ids \ {u} : page'[v] = page[v] /\ timer'[v] = timer[v]
    BY <1>2, ShowsTyped
  <1>4. RoomInv
    BY DEF PageInv
  <1>5. RoomInv'
    BY <1>1, <1>4, CheckAddsOne
  <1>6. /\ \A v \in Known : v \in Known' /\ v \in DOMAIN seen' /\ seen'[v] \in {seen[v], Present}
        /\ u \notin inside' => u \in Known' /\ u \in DOMAIN seen' /\ seen'[u] = Present
    BY <1>1, <1>4, CheckKeeps
  <1>7. ASSUME NEW v \in Ids, page'[v] = "wait"
        PROVE  /\ v \in Known' /\ v \in DOMAIN seen'
               /\ seen'[v] \in Int
               /\ seen'[v] <= Present
               /\ timer'[v] - seen'[v] <= PollInterval + Jitter
    <2>1. CASE v = u
      BY <1>2, <1>3, <1>6, <1>7, <2>1 DEF Present, Durations
    <2>2. CASE v # u
      <3>1. /\ v \in Known
            /\ seen[v] \in Int /\ seen[v] <= Present /\ timer[v] \in Nat
            /\ timer[v] - seen[v] <= PollInterval + Jitter
        BY <1>3, <1>7, <2>2 DEF PageInv, Timely
      <3>2. QED BY <1>3, <1>6, <2>2, <3>1 DEF Present, Durations
    <2>3. QED BY <2>1, <2>2
  <1>8. \A v \in Ids : Timely(v)'
    BY <1>7 DEF Timely, Present
  <1>9. QED BY <1>1, <1>3, <1>5, <1>8 DEF PageInv

(***************************************************************************)
(* The answer to a poll is a heartbeat, and the next poll is due within    *)
(* the polling interval and the jitter.                                    *)
(***************************************************************************)
LEMMA AnswerStatusTimely ==
  ASSUME Durations, PageInv, faults = 0, NEW u \in Ids, AnswerStatus(u)
  PROVE  PageInv'
  <1>1. /\ line' = line /\ inside' = inside /\ Known' = Known
        /\ seen' = [id \in Known |-> IF id = u THEN Present ELSE seen[id]]
    BY StatusKeeps DEF AnswerStatus
  <1>2. page' = page /\ faults' = faults /\ PollAnswered(u)
    BY DEF AnswerStatus, PollAnswered
  <1>3. /\ page \in [Ids -> {"other", "wait"}] /\ timer \in [Ids -> Nat] /\ pollMs \in [Ids -> Nat]
        /\ \A v \in Ids : pollMs[v] <= PollInterval /\ Timely(v)
        /\ RoomInv
        /\ PollInterval \in Nat /\ Jitter \in Nat
    BY DEF PageInv, Durations
  <1>4. /\ timer' \in [Ids -> Nat] /\ pollMs' \in [Ids -> Nat]
        /\ \A v \in Ids : pollMs'[v] <= PollInterval
        /\ timer'[u] = timer[u] \/ timer'[u] <= PollInterval + Jitter
        /\ \A v \in Ids \ {u} : timer'[v] = timer[v]
    <2>1. CASE UNCHANGED <<timer, pollMs>>
      BY <1>3, <2>1
    <2>2. CASE pollMs' = [pollMs EXCEPT ![u] = Advertised(pollMs[u])] /\ Schedule(u, pollMs'[u])
      <3> DEFINE ms == Advertised(pollMs[u])
      <3>1. ms \in Nat /\ ms <= PollInterval
        BY <1>3, AdvertisedAtMost
      <3>2. pollMs' = [pollMs EXCEPT ![u] = ms]
        BY <2>2
      <3> HIDE DEF ms
      <3>3. pollMs'[u] = ms
        BY <1>3, <3>2
      <3>4. PICK late \in 0..Jitter : timer' = [timer EXCEPT ![u] = ms + late]
        BY <2>2, <3>3 DEF Schedule
      <3>5. QED BY <1>3, <3>1, <3>2, <3>4
    <2>3. QED BY <1>2, <2>1, <2>2 DEF PollAnswered
  <1>5. ASSUME NEW v \in Ids, page[v] = "wait"
        PROVE  /\ v \in Known' /\ v \in DOMAIN seen'
               /\ seen'[v] \in Int
               /\ seen'[v] <= Present
               /\ timer'[v] - seen'[v] <= PollInterval + Jitter
    <2>1. /\ v \in Known
          /\ seen[v] \in Int /\ seen[v] <= Present /\ timer[v] \in Nat /\ timer'[v] \in Nat
          /\ timer[v] - seen[v] <= PollInterval + Jitter
      BY <1>3, <1>4, <1>5 DEF Timely
    <2>2. QED BY <1>1, <1>3, <1>4, <2>1 DEF Present
  <1>6. \A v \in Ids : Timely(v)'
    BY <1>2, <1>5 DEF Timely, Present
  <1>7. RoomInv'
    BY <1>1, <1>3 DEF RoomInv
  <1>8. QED BY <1>2, <1>3, <1>4, <1>6, <1>7 DEF PageInv

(***************************************************************************)
(* Time passes only while no poll is due, and brings the poll as much      *)
(* nearer as it ages the heartbeat.                                        *)
(***************************************************************************)
LEMMA TickTimely ==
  ASSUME Durations, PageInv, faults = 0, PageTick
  PROVE  PageInv'
  <1>1. /\ seen' = [id \in DOMAIN seen |-> Aged(seen[id])] /\ line' = line /\ inside' = inside
        /\ timer' = [v \in Ids |-> Greater(timer[v] - 1, 0)]
        /\ \A v \in Ids : page[v] = "wait" => timer[v] > 0
        /\ UNCHANGED <<page, pollMs, faults>>
    BY DEF PageTick, RoomAges
  <1>2. /\ page \in [Ids -> {"other", "wait"}] /\ timer \in [Ids -> Nat] /\ pollMs \in [Ids -> Nat]
        /\ \A v \in Ids : pollMs[v] <= PollInterval /\ Timely(v)
        /\ RoomInv
        /\ PollInterval \in Nat /\ Jitter \in Nat
    BY DEF PageInv, Durations
  <1>3. timer' \in [Ids -> Nat] /\ \A v \in Ids : timer[v] > 0 => timer'[v] = timer[v] - 1
    BY <1>1, <1>2 DEF Greater
  <1>4. \A t \in Int : t <= Present => Aged(t) \in Int /\ Aged(t) <= Present /\ t - 1 <= Aged(t)
    BY RoomAssumption DEF Aged, Greater, Oldest, Present
  <1>5. Known' = Known
    BY <1>1 DEF Known, Waiting
  <1>6. ASSUME NEW v \in Ids, page[v] = "wait"
        PROVE  /\ v \in Known' /\ v \in DOMAIN seen'
               /\ seen'[v] \in Int
               /\ seen'[v] <= Present
               /\ timer'[v] - seen'[v] <= PollInterval + Jitter
    <2>1. /\ v \in Known /\ v \in DOMAIN seen
          /\ seen[v] \in Int /\ seen[v] <= Present /\ timer[v] \in Nat
          /\ timer[v] - seen[v] <= PollInterval + Jitter
      BY <1>2, <1>6 DEF Timely
    <2>2. seen'[v] = Aged(seen[v]) /\ timer'[v] = timer[v] - 1
      BY <1>1, <1>3, <1>6, <2>1
    <2>3. QED BY <1>1, <1>2, <1>4, <1>5, <2>1, <2>2
  <1>7. \A v \in Ids : Timely(v)'
    BY <1>1, <1>6 DEF Timely, Present
  <1>8. RoomInv'
    BY <1>1, <1>2 DEF RoomInv
  <1>9. QED BY <1>1, <1>2, <1>3, <1>7, <1>8 DEF PageInv

(***************************************************************************)
(* Every step keeps the invariant; one that fails a request or flushes the *)
(* line counts as a fault.                                                 *)
(***************************************************************************)
LEMMA PageStep ==
  ASSUME Durations, Punctual, PageInv, [PageNext]_pageVars
  PROVE  PageInv'
  <1>1. CASE faults # 0
    <2>1. faults \in Nat /\ faults' \in {faults, faults + 1}
      BY DEF PageInv, PageNext, pageVars, Request, CloseTab, Poll, Reload, AnswerStatus, AnswerCheck,
             CallFails, PageJanitor, FlushQueue, PageTick, Fault
    <2>2. QED BY <1>1, <2>1 DEF PageInv
  <1>2. CASE faults = 0
    <2>1. ASSUME Fault PROVE PageInv'
      BY <1>2, <2>1 DEF Fault, PageInv
    <2>2. ASSUME PageMaybeReconcile \/ Crank, UNCHANGED <<page, timer, pollMs, faults>> PROVE PageInv'
      BY <1>2, <2>2, ReconcileTimely DEF PageMaybeReconcile, room
    <2>3. ASSUME NEW u \in Ids, Request(u) \/ Poll(u) \/ Reload(u) PROVE PageInv'
      BY <2>2, <2>3 DEF Request, Poll, Reload
    <2>4. ASSUME NEW u \in Ids, CloseTab(u) PROVE PageInv'
      <3>1. UNCHANGED <<line, inside, seen, faults>> /\ Shows(u, "other")
        BY <2>4 DEF CloseTab, room
      <3>2. /\ page' \in [Ids -> {"other", "wait"}] /\ timer' \in [Ids -> Nat] /\ pollMs' \in [Ids -> Nat]
            /\ \A v \in Ids : pollMs'[v] <= PollInterval
            /\ page'[u] = "other" /\ timer'[u] = 0
            /\ \A v \in Ids \ {u} : page'[v] = page[v] /\ timer'[v] = timer[v]
        BY <1>2, <3>1, ShowsTyped
      <3>3. ASSUME NEW v \in Ids PROVE Timely(v)'
        BY <1>2, <3>1, <3>2 DEF PageInv, Timely, Known, Waiting, Present
      <3>4. QED BY <1>2, <3>1, <3>2, <3>3 DEF PageInv, RoomInv
    <2>5. ASSUME NEW u \in Ids, AnswerStatus(u) PROVE PageInv'
      BY <1>2, <2>5, AnswerStatusTimely
    <2>6. ASSUME NEW u \in Ids, AnswerCheck(u) PROVE PageInv'
      BY <1>2, <2>6, AnswerCheckTimely
    <2>7. ASSUME NEW u \in Ids, CallFails(u) PROVE PageInv'
      BY <2>1, <2>7 DEF CallFails
    <2>8. CASE PageJanitor
      BY <2>2, <2>8 DEF PageJanitor, browser
    <2>9. CASE FlushQueue
      BY <2>1, <2>9 DEF FlushQueue
    <2>10. CASE PageTick
      BY <1>2, <2>10, TickTimely
    <2>11. CASE UNCHANGED pageVars
      <3>1. UNCHANGED <<line, inside, seen, page, timer, pollMs, faults>>
        BY <2>11 DEF pageVars, room, browser
      <3>2. QED BY <2>2, <3>1, <1>2, ReconcileTimely DEF room
    <2>12. QED BY <2>3, <2>4, <2>5, <2>6, <2>7, <2>8, <2>9, <2>10, <2>11 DEF PageNext
  <1>3. QED BY <1>1, <1>2

(***************************************************************************)
(* PageKeepsPlace: while no request fails and nobody flushes the queue,    *)
(* who looks at the waiting page is in the line or inside, for any number  *)
(* of visitors, capacities, durations and whichever requests skip their    *)
(* reconcile, provided a punctual poll comes within both TTLs.             *)
(***************************************************************************)
THEOREM PagesKeepPlace ==
  ASSUME Punctual
  PROVE  PageSpec => []PageKeepsPlace
  <1>0. Durations
    BY WaitPageAssumption
  <1>1. PageInit => PageInv
    BY <1>0 DEF PageInit, RoomInit, PageInv, RoomInv, Timely, Durations
  <1>2. PageInv /\ [PageNext]_pageVars => PageInv'
    BY <1>0, PageStep
  <1>3. PageInv => PageKeepsPlace
    BY DEF PageInv, Timely, PageKeepsPlace
  <1>4. QED BY <1>1, <1>2, <1>3, PTL DEF PageSpec
=============================================================================
