--------------------------- MODULE BookingHoldProofs ---------------------------
(***************************************************************************)
(* Proofs about BookingHold for any clients, objects, carts and times: as  *)
(* long as nobody submits an order for payment, two orders never occupy    *)
(* the same object at the same time; and the sweep takes only holds that   *)
(* are over, as long as nobody expires an order by hand.                   *)
(*                                                                         *)
(* A request that has checked its cart owns every object of it, so nobody  *)
(* else can insert an order that touches them, and the orders that did not *)
(* block the cart at the instant of the request cannot block it later.     *)
(***************************************************************************)
EXTENDS BookingHold, WellFoundedInduction, TLAPS

Stays == [obj : Objects, from : Int, to : Int]
Items == [obj : Objects, from : Int, to : Int, active : BOOLEAN]
OrderRows == [status : Statuses, hold_expires_at : Int, items : Seq(Items)]
Requests ==
  [pc : Pcs, t : Nat, cart : Seq(Stays), wait : SUBSET Objects, sel : SUBSET Nat,
   target : Statuses]

RowTypes ==
  /\ now \in Nat
  /\ orders \in Seq(OrderRows)
  /\ owner \in [Objects -> Clients \cup {NoClient}]
  /\ client = [c \in Clients |-> client[c]]

NoSubmit == "PENDING_PAYMENT" \notin Targets
Unpaid == {"HELD", "CANCELLED", "EXPIRED"}

\* The objects of the cart that the request does not wait for are its own.
Owns(c, s) ==
  /\ \A b \in ObjectsOf(s.cart) \ s.wait : owner[b] = c
  /\ s.pc \in {"check", "persist"} => s.wait = {}

\* The sweep has selected holds that were over when it began.
Overdue(s) ==
  s.pc = "expire" => \A o \in s.sel : o \in OrderIds /\
    (orders[o].status = "HELD" =>
       orders[o].hold_expires_at # NoExpiry /\ orders[o].hold_expires_at <= s.t)

\* Nothing that blocks the cart has come since it was checked.
Clear(s) == s.pc = "persist" => \A stay \in StaysOf(s.cart) : ~Taken(stay, s.t)

Sound(c, s) ==
  /\ s \in Requests /\ s.t <= now
  /\ Owns(c, s)
  /\ Overdue(s)
  /\ s.pc = "write" => s.target \in Targets \ {"HELD"}
  /\ NoSubmit => Clear(s) /\ (s.pc = "write" => s.target \in Unpaid)

IInv ==
  /\ RowTypes
  /\ \A c \in Clients : Sound(c, client[c])
  /\ NoSubmit => NoDoubleBooking /\ \A o \in OrderIds : orders[o].status \in Unpaid

-----------------------------------------------------------------------------
(* Carts, rows and the table of transitions.                               *)

LEMMA CartStays ==
  ASSUME NEW cart \in Seq(Stays)
  PROVE  /\ StaysOf(cart) \subseteq Stays /\ ObjectsOf(cart) \subseteq Objects
         /\ \A stay \in StaysOf(cart) : stay.obj \in ObjectsOf(cart)
         /\ \A i \in 1 .. Len(cart) : cart[i] \in StaysOf(cart) /\ cart[i] \in Stays
<1>1. \A i \in 1 .. Len(cart) : cart[i] \in StaysOf(cart) /\ cart[i] \in Stays
  BY DEF StaysOf
<1>2. StaysOf(cart) \subseteq Stays
  BY <1>1 DEF StaysOf
<1>3. \A stay \in StaysOf(cart) : stay.obj \in ObjectsOf(cart)
  BY DEF ObjectsOf
<1>4. \A stay \in Stays : stay.obj \in Objects
  BY DEF Stays
<1>5. ObjectsOf(cart) \subseteq Objects
  BY <1>2, <1>4 DEF ObjectsOf
<1>. QED BY <1>1, <1>2, <1>3, <1>5

LEMMA IdleSound ==
  ASSUME RowTypes, NEW c \in Clients
  PROVE  Sound(c, Idle)
<1>1. <<>> \in Seq(Stays) /\ ObjectsOf(<<>>) = {}
  BY DEF ObjectsOf, StaysOf
<1>2. Idle \in Requests
  BY <1>1 DEF Idle, Requests, Pcs, Statuses
<1>. QED BY <1>1, <1>2 DEF Sound, Idle, Owns, Overdue, Clear, RowTypes

LEMMA Transitions ==
  /\ \A s \in Statuses : ALLOWED_TRANSITIONS[s] \subseteq Statuses \ {"HELD"}
  /\ \A s \in Unpaid : ALLOWED_TRANSITIONS[s] \subseteq {"PENDING_PAYMENT", "CANCELLED", "EXPIRED"}
BY DEF ALLOWED_TRANSITIONS, Statuses, Unpaid

\* An order of the last stay of each object in the cart.
LEMMA LastStay ==
  ASSUME NEW cart \in Seq(Stays), NEW i \in 1 .. Len(cart)
  PROVE  IntervalOf(cart, i) \in StaysOf(cart) /\ IntervalOf(cart, i).obj = cart[i].obj
<1>. DEFINE n == Len(cart)
            R == {pair \in Nat \X Nat : pair[1] < pair[2]}
            S == {k \in 0 .. n : n - k \in 1 .. n /\ cart[n - k].obj = cart[i].obj}
<1>1. n \in Nat /\ i \in 1 .. n
  OBVIOUS
<1>2. IsWellFoundedOn(R, Nat)
  BY NatLessThanWellFounded DEF OpToRel
<1>3. S \subseteq Nat /\ S # {}
  <2>1. n - i \in 0 .. n /\ n - (n - i) = i
    BY <1>1
  <2>2. n - i \in S
    BY <1>1, <2>1
  <2>3. S \subseteq Nat
    BY <1>1
  <2>. HIDE DEF S
  <2>. QED BY <2>2, <2>3
<1>. HIDE DEF R
<1>4. PICK k \in S : \A m \in S : ~(<<m, k>> \in R)
  BY <1>2, <1>3, WFMin
<1>5. \A m \in S : k <= m
  <2>. SUFFICES ASSUME NEW m \in S PROVE k <= m
    OBVIOUS
  <2>1. k \in Nat /\ m \in Nat /\ <<m, k>> \in Nat \X Nat
    BY <1>3
  <2>2. <<m, k>> \in R <=> m < k
    BY <2>1 DEF R
  <2>. QED BY <1>4, <2>1, <2>2
<1>. DEFINE P(j) == /\ cart[j].obj = cart[i].obj
                    /\ \A l \in (j + 1) .. n : cart[l].obj # cart[i].obj
<1>6. n - k \in 1 .. n /\ P(n - k)
  <2>1. n - k \in 1 .. n /\ k \in 0 .. n /\ cart[n - k].obj = cart[i].obj
    OBVIOUS
  <2>2. ASSUME NEW l \in (n - k + 1) .. n, cart[l].obj = cart[i].obj PROVE FALSE
    <3>1. n - l \in 0 .. n /\ n - (n - l) = l /\ l \in 1 .. n /\ n - l < k
      BY <1>1, <2>1
    <3>2. n - l \in S
      BY <2>2, <3>1
    <3>. QED BY <1>5, <3>1, <3>2
  <2>. QED BY <2>1, <2>2
<1>. DEFINE last == CHOOSE j \in 1 .. n : P(j)
<1>7. last \in 1 .. n /\ P(last)
  BY <1>6
<1>8. IntervalOf(cart, i) = cart[last]
  BY DEF IntervalOf
<1>. QED BY <1>7, <1>8, CartStays

LEMMA HeldRow ==
  ASSUME NEW cart \in Seq(Stays), NEW t \in Nat
  PROVE  /\ HeldOrder(cart, t) \in OrderRows
         /\ \A i \in 1 .. Len(HeldOrder(cart, t).items) :
              \E stay \in StaysOf(cart) :
                /\ HeldOrder(cart, t).items[i].obj = stay.obj
                /\ HeldOrder(cart, t).items[i].from = stay.from
                /\ HeldOrder(cart, t).items[i].to = stay.to
<1>. DEFINE items == HeldOrder(cart, t).items
<1>1. /\ items = [i \in 1 .. Len(cart) |->
                    [obj |-> cart[i].obj, from |-> IntervalOf(cart, i).from,
                     to |-> IntervalOf(cart, i).to, active |-> TRUE]]
      /\ HeldOrder(cart, t).status = "HELD" /\ HeldOrder(cart, t).hold_expires_at \in Int
      /\ HeldOrder(cart, t) = [status |-> "HELD", hold_expires_at |-> t + HoldMinutes,
                               items |-> items]
  BY NumbersAssumption DEF HeldOrder
<1>. HIDE DEF items
<1>2. ASSUME NEW i \in 1 .. Len(cart)
      PROVE  /\ items[i] \in Items
             /\ \E stay \in StaysOf(cart) : /\ items[i].obj = stay.obj
                                            /\ items[i].from = stay.from
                                            /\ items[i].to = stay.to
  <2>1. /\ IntervalOf(cart, i) \in StaysOf(cart) /\ IntervalOf(cart, i).obj = cart[i].obj
        /\ IntervalOf(cart, i) \in Stays /\ cart[i] \in Stays
    BY LastStay, CartStays
  <2>2. items[i] = [obj |-> cart[i].obj, from |-> IntervalOf(cart, i).from,
                    to |-> IntervalOf(cart, i).to, active |-> TRUE]
    BY <1>1
  <2>. DEFINE stay == IntervalOf(cart, i)
  <2>3. /\ cart[i].obj \in Objects /\ stay.from \in Int /\ stay.to \in Int
        /\ stay \in StaysOf(cart) /\ stay.obj = cart[i].obj
    BY <2>1 DEF Stays
  <2>. HIDE DEF stay
  <2>4. items[i] \in Items
    BY <2>2, <2>3 DEF Items, stay
  <2>5. items[i].obj = stay.obj /\ items[i].from = stay.from /\ items[i].to = stay.to
    BY <2>2, <2>3 DEF stay
  <2>. QED BY <2>3, <2>4, <2>5
<1>3. items \in Seq(Items) /\ Len(items) = Len(cart)
  BY <1>1, <1>2
<1>4. HeldOrder(cart, t) \in OrderRows
  BY <1>1, <1>3, NumbersAssumption DEF OrderRows, Statuses
<1>. QED BY <1>2, <1>3, <1>4 DEF items

-----------------------------------------------------------------------------
(* What a step of one client leaves to the others.                         *)

LEMMA OthersSound ==
  ASSUME IInv, NEW d \in Clients, client'[d] = client[d], now' \in Nat, now <= now',
         \A b \in Objects : owner[b] = d => owner'[b] = d,
         \A o \in OrderIds : o \in OrderIds' /\ (orders'[o].status = "HELD" => orders'[o] = orders[o]),
         NoSubmit /\ client[d].pc = "persist" =>
           \A stay \in StaysOf(client[d].cart) : ~Taken(stay, client[d].t)'
  PROVE  Sound(d, client[d])'
<1>1. Sound(d, client[d])
  BY DEF IInv
<1>2. client[d] \in Requests /\ ObjectsOf(client[d].cart) \subseteq Objects
  BY <1>1, CartStays DEF Sound, Requests
<1>3. (client[d] \in Requests /\ client[d].t <= now)'
  <2>1. client[d].t \in Nat /\ now \in Nat /\ client[d].t <= now
    BY <1>1, <1>2 DEF Sound, Requests, IInv, RowTypes
  <2>2. client'[d] \in Requests /\ client'[d].t <= now'
    BY <1>2, <2>1
  <2>. QED BY <2>2 DEF Requests, Stays, Pcs, Statuses
<1>4. Owns(d, client[d])'
  BY <1>1, <1>2 DEF Sound, Owns, ObjectsOf, StaysOf
<1>5. Overdue(client[d])'
  BY <1>1 DEF Sound, Overdue
<1>6. NoSubmit => Clear(client[d])'
  BY DEF Clear, StaysOf, NoSubmit
<1>. QED BY <1>1, <1>3, <1>4, <1>5, <1>6 DEF Sound, NoSubmit, Unpaid

\* Orders that expire or are cancelled take nobody's place.
LEMMA Thinned ==
  ASSUME IInv, NoSubmit, OrderIds' = OrderIds, now' \in Nat, now <= now',
         \A o \in OrderIds : orders'[o] = orders[o] \/ orders'[o].status \in {"CANCELLED", "EXPIRED"}
  PROVE  /\ \A stay, t : Taken(stay, t)' => Taken(stay, t)
         /\ NoDoubleBooking'
         /\ \A o \in OrderIds' : orders'[o].status \in Unpaid
<1>1. \A stay, t : Taken(stay, t)' => Taken(stay, t)
  BY DEF Taken, Blocking
<1>2. ASSUME NEW o \in OrderIds, Occupies(orders[o])'
      PROVE  orders'[o] = orders[o] /\ Occupies(orders[o])
  <2>1. orders'[o] = orders[o]
    BY <1>2 DEF Occupies
  <2>2. orders[o].status = "HELD" => orders[o].hold_expires_at \in Int /\ now \in Nat
    <3>1. now \in Nat /\ orders[o] \in OrderRows
      BY DEF IInv, RowTypes, OrderIds
    <3>. QED BY <3>1 DEF OrderRows
  <2>. QED BY <1>2, <2>1, <2>2 DEF Occupies
<1>3. NoDoubleBooking
  BY DEF IInv
<1>4. NoDoubleBooking'
  BY <1>2, <1>3, SMTT(60) DEF NoDoubleBooking
<1>5. \A o \in OrderIds : orders'[o].status \in Unpaid
  BY DEF IInv, Unpaid
<1>. QED BY <1>1, <1>4, <1>5

\* A step of one client that leaves the orders alone.
LEMMA Reading ==
  ASSUME IInv, NEW c \in Clients, \A d \in Clients \ {c} : client'[d] = client[d],
         RowTypes', Sound(c, client[c])', UNCHANGED <<now, orders>>,
         \A d \in Clients \ {c}, b \in Objects : owner[b] = d => owner'[b] = d
  PROVE  IInv'
<1>1. \A stay, t : Taken(stay, t)' => Taken(stay, t)
  BY DEF Taken, OrderIds
<1>2. ASSUME NEW d \in Clients, d # c PROVE Sound(d, client[d])'
  <2>1. now \in Nat /\ Sound(d, client[d])
    BY DEF IInv, RowTypes
  <2>. QED BY <1>1, <1>2, <2>1, OthersSound DEF OrderIds, Sound, Clear
<1>3. NoSubmit => NoDoubleBooking' /\ \A o \in OrderIds' : orders'[o].status \in Unpaid
  BY DEF IInv, NoDoubleBooking, OrderIds, Occupies
<1>. QED BY <1>2, <1>3 DEF IInv, NoSubmit

LEMMA WrittenKeeps ==
  ASSUME IInv, NEW c \in Clients, \A d \in Clients \ {c} : client'[d] = client[d],
         RowTypes', Sound(c, client[c])', UNCHANGED <<now, owner>>, OrderIds' = OrderIds,
         \A o \in OrderIds : orders'[o].status = "HELD" => orders'[o] = orders[o],
         NoSubmit => \A o \in OrderIds : \/ orders'[o] = orders[o]
                                         \/ orders'[o].status \in {"CANCELLED", "EXPIRED"}
  PROVE  IInv'
<1>1. now \in Nat
  BY DEF IInv, RowTypes
<1>2. NoSubmit => /\ \A stay, t : Taken(stay, t)' => Taken(stay, t)
                  /\ NoDoubleBooking'
                  /\ \A o \in OrderIds' : orders'[o].status \in Unpaid
  BY <1>1, Thinned
<1>3. ASSUME NEW d \in Clients, d # c PROVE Sound(d, client[d])'
  <2>1. Sound(d, client[d])
    BY DEF IInv
  <2>. QED BY <1>1, <1>2, <1>3, <2>1, OthersSound DEF Sound, Clear
<1>. QED BY <1>2, <1>3 DEF IInv, NoSubmit

-----------------------------------------------------------------------------
(* The steps.                                                              *)

\* A request whose transaction ends lets its objects go.
LEMMA ReleaseKeeps ==
  ASSUME IInv, NEW c \in Clients, Become(c, Idle), ReleaseAll(c), UNCHANGED <<now, orders>>
  PROVE  IInv'
<1>1. client'[c] = Idle /\ \A d \in Clients \ {c} : client'[d] = client[d]
  BY DEF IInv, RowTypes, Become
<1>2. owner' \in [Objects -> Clients \cup {NoClient}]
  BY DEF ReleaseAll, IInv, RowTypes
<1>3. RowTypes'
  BY <1>2 DEF IInv, RowTypes, Become, OrderRows, Statuses, Items
<1>4. Sound(c, client[c])'
  <2>1. Sound(c, Idle)'
    BY <1>3, IdleSound, PTL
  <2>. QED BY <1>1, <2>1 DEF Idle
<1>5. \A d \in Clients \ {c}, b \in Objects : owner[b] = d => owner'[b] = d
  BY DEF ReleaseAll
<1>. QED BY <1>1, <1>3, <1>4, <1>5, Reading

\* A step that only moves the request of one client on.
LEMMA MovedKeeps ==
  ASSUME IInv, NEW c \in Clients, NEW s, Become(c, s), Sound(c, s),
         UNCHANGED <<now, orders, owner>>
  PROVE  IInv'
<1>1. client'[c] = s /\ \A d \in Clients \ {c} : client'[d] = client[d]
  BY DEF IInv, RowTypes, Become
<1>2. RowTypes'
  BY DEF IInv, RowTypes, Become
<1>3. Sound(c, client[c])'
  <2>1. \A stay, t : Taken(stay, t)' <=> Taken(stay, t)
    BY DEF Taken, OrderIds
  <2>. QED BY <1>1, <2>1 DEF Sound, Owns, Overdue, Clear, OrderIds
<1>. QED BY <1>1, <1>2, <1>3, Reading

\* The records a client begins with.
LEMMA Asked ==
  ASSUME NEW t, NEW cart, NEW wait, NEW idle, NEW r,
         idle = [pc |-> "idle", t |-> 0, cart |-> <<>>, wait |-> {}, sel |-> {}, target |-> "HELD"],
         r = [idle EXCEPT !.pc = "find_stale", !.t = t, !.cart = cart, !.wait = wait]
  PROVE  r = [pc |-> "find_stale", t |-> t, cart |-> cart, wait |-> wait, sel |-> {},
              target |-> "HELD"]
<1>1. /\ r = [x \in DOMAIN r |-> r[x]]
      /\ DOMAIN r = {"pc", "t", "cart", "wait", "sel", "target"}
  OBVIOUS
<1>2. /\ r.pc = "find_stale" /\ r.t = t /\ r.cart = cart /\ r.wait = wait /\ r.sel = {}
      /\ r.target = "HELD"
  OBVIOUS
<1>. QED BY <1>1, <1>2

LEMMA AskedSweep ==
  ASSUME NEW t, NEW idle, NEW r,
         idle = [pc |-> "idle", t |-> 0, cart |-> <<>>, wait |-> {}, sel |-> {}, target |-> "HELD"],
         r = [idle EXCEPT !.pc = "find_stale", !.t = t]
  PROVE  r = [pc |-> "find_stale", t |-> t, cart |-> <<>>, wait |-> {}, sel |-> {},
              target |-> "HELD"]
<1>1. /\ r = [x \in DOMAIN r |-> r[x]]
      /\ DOMAIN r = {"pc", "t", "cart", "wait", "sel", "target"}
  OBVIOUS
<1>2. /\ r.pc = "find_stale" /\ r.t = t /\ r.cart = <<>> /\ r.wait = {} /\ r.sel = {}
      /\ r.target = "HELD"
  OBVIOUS
<1>. QED BY <1>1, <1>2

LEMMA AskedMove ==
  ASSUME NEW sel, NEW target, NEW idle, NEW r,
         idle = [pc |-> "idle", t |-> 0, cart |-> <<>>, wait |-> {}, sel |-> {}, target |-> "HELD"],
         r = [idle EXCEPT !.pc = "write", !.sel = sel, !.target = target]
  PROVE  r = [pc |-> "write", t |-> 0, cart |-> <<>>, wait |-> {}, sel |-> sel,
              target |-> target]
<1>1. /\ r = [x \in DOMAIN r |-> r[x]]
      /\ DOMAIN r = {"pc", "t", "cart", "wait", "sel", "target"}
  OBVIOUS
<1>2. /\ r.pc = "write" /\ r.t = 0 /\ r.cart = <<>> /\ r.wait = {} /\ r.sel = sel
      /\ r.target = target
  OBVIOUS
<1>. QED BY <1>1, <1>2

LEMMA RequestKeeps ==
  ASSUME IInv, NEW c \in Clients, RequestHold(c) \/ RequestExpiry(c)
  PROVE  IInv'
<1>. DEFINE State(cart, wait) ==
       [pc |-> "find_stale", t |-> now, cart |-> cart, wait |-> wait, sel |-> {},
        target |-> "HELD"]
<1>1. Idle = [pc |-> "idle", t |-> 0, cart |-> <<>>, wait |-> {}, sel |-> {}, target |-> "HELD"]
  BY DEF Idle
<1>2. PICK cart \in Seq(Stays) : Become(c, State(cart, ObjectsOf(cart)))
  <2>1. CASE RequestHold(c)
    <3>1. PICK cart \in Carts :
            Become(c, [Idle EXCEPT !.pc = "find_stale", !.t = now, !.cart = cart,
                                   !.wait = ObjectsOf(cart)])
      BY <2>1 DEF RequestHold
    <3>2. [Idle EXCEPT !.pc = "find_stale", !.t = now, !.cart = cart, !.wait = ObjectsOf(cart)]
            = State(cart, ObjectsOf(cart))
      BY <1>1, Asked
    <3>3. cart \in Seq(Stays)
      BY CartsAssumption DEF Stays
    <3>. HIDE DEF State
    <3>. QED BY <3>1, <3>2, <3>3
  <2>2. CASE RequestExpiry(c)
    <3>1. [Idle EXCEPT !.pc = "find_stale", !.t = now] = State(<<>>, {})
      BY <1>1, AskedSweep
    <3>2. <<>> \in Seq(Stays) /\ ObjectsOf(<<>>) = {}
      BY DEF ObjectsOf, StaysOf
    <3>. HIDE DEF State
    <3>. QED BY <2>2, <3>1, <3>2 DEF RequestExpiry
  <2>. QED BY <2>1, <2>2
<1>. DEFINE s == State(cart, ObjectsOf(cart))
<1>3. now \in Nat /\ ObjectsOf(cart) \subseteq Objects
  BY CartStays DEF IInv, RowTypes
<1>4. s \in Requests
  BY <1>3 DEF Requests, Pcs, Statuses
<1>5. Sound(c, s)
  BY <1>3, <1>4 DEF Sound, Owns, Overdue, Clear
<1>. HIDE DEF State
<1>. QED BY <1>2, <1>5, MovedKeeps DEF RequestHold, RequestExpiry

LEMMA FindStaleKeeps ==
  ASSUME IInv, NEW c \in Clients, FindStale(c)
  PROVE  IInv'
<1>. DEFINE stale == Stale(client[c].t)
<1>1. Sound(c, client[c]) /\ client[c] \in Requests /\ client[c].pc = "find_stale"
  BY DEF FindStale, IInv, Sound
<1>2. CASE Become(c, Idle)
  BY <1>2, IdleSound, MovedKeeps DEF FindStale, IInv
<1>3. CASE Goto(c, "lock")
  <2>. DEFINE s == [client[c] EXCEPT !.pc = "lock"]
  <2>1. s \in Requests
    BY <1>1 DEF Requests, Pcs
  <2>2. Sound(c, s)
    BY <1>1, <2>1 DEF Sound, Owns, Overdue, Clear, Requests
  <2>. HIDE DEF s
  <2>. QED BY <1>3, <2>2, MovedKeeps DEF FindStale, Goto, s
<1>4. CASE Become(c, [client[c] EXCEPT !.pc = "expire", !.sel = stale])
  <2>. DEFINE s == [client[c] EXCEPT !.pc = "expire", !.sel = stale]
  <2>1. stale \subseteq OrderIds /\ stale \subseteq Nat
    BY DEF Stale, OrderIds
  <2>2. \A o \in stale : orders[o].hold_expires_at # NoExpiry
                        /\ orders[o].hold_expires_at <= client[c].t
    BY DEF Stale
  <2>. HIDE DEF stale
  <2>3. s \in Requests
    BY <1>1, <2>1 DEF Requests, Pcs
  <2>4. s.t = client[c].t /\ s.sel = stale /\ s.pc = "expire" /\ s.cart = client[c].cart
        /\ s.wait = client[c].wait
    BY <1>1 DEF Requests
  <2>. HIDE DEF s
  <2>5. Sound(c, s)
    BY <1>1, <2>1, <2>2, <2>3, <2>4 DEF Sound, Owns, Overdue, Clear
  <2>. QED BY <1>4, <2>5, MovedKeeps DEF FindStale, s
<1>. QED BY <1>2, <1>3, <1>4 DEF FindStale

LEMMA AvailableKeeps ==
  ASSUME IInv, NEW c \in Clients, Available(c)
  PROVE  IInv'
<1>. DEFINE s == [client[c] EXCEPT !.pc = "persist"]
<1>1. Sound(c, client[c]) /\ client[c] \in Requests /\ client[c].pc = "check"
  BY DEF Available, IInv, Sound
<1>2. s \in Requests
  BY <1>1 DEF Requests, Pcs
<1>3. /\ s.pc = "persist" /\ s.t = client[c].t /\ s.cart = client[c].cart
      /\ s.wait = client[c].wait
  BY <1>1 DEF Requests
<1>. HIDE DEF s
<1>4. Sound(c, s)
  BY <1>1, <1>2, <1>3 DEF Available, Sound, Owns, Overdue, Clear
<1>. QED BY <1>4, MovedKeeps DEF Available, Goto, s

LEMMA ReadOrderKeeps ==
  ASSUME IInv, NEW c \in Clients, ReadOrder(c)
  PROVE  IInv'
<1>1. PICK o \in OrderIds, target \in Targets :
        /\ target \in ALLOWED_TRANSITIONS[orders[o].status]
        /\ Become(c, [Idle EXCEPT !.pc = "write", !.sel = {o}, !.target = target])
  BY DEF ReadOrder
<1>. DEFINE s == [Idle EXCEPT !.pc = "write", !.sel = {o}, !.target = target]
<1>2. orders[o] \in OrderRows /\ o \in Nat
  BY DEF IInv, RowTypes, OrderIds
<1>3. orders[o].status \in Statuses
  BY <1>2 DEF OrderRows
<1>4. target \in Statuses \ {"HELD"}
  BY <1>1, <1>3, Transitions
<1>5. NoSubmit => target \in {"CANCELLED", "EXPIRED"}
  <2>1. ASSUME NoSubmit PROVE orders[o].status \in Unpaid /\ target # "PENDING_PAYMENT"
    BY <2>1 DEF IInv, NoSubmit
  <2>. QED BY <1>1, <2>1, Transitions
<1>6. Idle = [pc |-> "idle", t |-> 0, cart |-> <<>>, wait |-> {}, sel |-> {}, target |-> "HELD"]
  BY DEF Idle
<1>7. s = [pc |-> "write", t |-> 0, cart |-> <<>>, wait |-> {}, sel |-> {o}, target |-> target]
  BY <1>6, AskedMove
<1>. HIDE DEF s
<1>8. <<>> \in Seq(Stays) /\ ObjectsOf(<<>>) = {} /\ now \in Nat
  BY DEF ObjectsOf, StaysOf, IInv, RowTypes
<1>9. s \in Requests
  BY <1>2, <1>4, <1>7, <1>8 DEF Requests, Pcs
<1>10. Sound(c, s)
  BY <1>4, <1>5, <1>7, <1>8, <1>9 DEF Sound, Owns, Overdue, Clear, Unpaid
<1>. QED BY <1>1, <1>10, MovedKeeps DEF ReadOrder, s

LEMMA LockNextKeeps ==
  ASSUME IInv, NEW c \in Clients, LockNext(c)
  PROVE  IInv'
<1>1. PICK b \in client[c].wait :
        /\ owner[b] = NoClient /\ owner' = [owner EXCEPT ![b] = c]
        /\ Become(c, [client[c] EXCEPT !.wait = @ \ {b},
                                       !.pc = IF client[c].wait = {b} THEN "check" ELSE "lock"])
  BY DEF LockNext
<1>. DEFINE s == [client[c] EXCEPT !.wait = @ \ {b},
                                   !.pc = IF client[c].wait = {b} THEN "check" ELSE "lock"]
<1>2. Sound(c, client[c]) /\ client[c] \in Requests /\ b \in Objects
  BY DEF IInv, Sound, Requests
<1>3. s \in Requests
  BY <1>2 DEF Requests, Pcs
<1>4. /\ s.t = client[c].t /\ s.cart = client[c].cart /\ s.wait = client[c].wait \ {b}
      /\ s.pc \in {"check", "lock"} /\ (s.pc = "check" => client[c].wait = {b})
  BY <1>2 DEF Requests
<1>5. client'[c] = s /\ \A d \in Clients \ {c} : client'[d] = client[d]
  BY <1>1 DEF IInv, RowTypes, Become
<1>. HIDE DEF s
<1>6. owner \in [Objects -> Clients \cup {NoClient}]
  BY DEF IInv, RowTypes
<1>7. owner' \in [Objects -> Clients \cup {NoClient}]
  BY <1>1, <1>6
<1>8. RowTypes'
  BY <1>1, <1>7 DEF LockNext, IInv, RowTypes, Become
<1>9. \A d \in Clients \ {c}, x \in Objects : owner[x] = d => owner'[x] = d
  BY <1>1, <1>2, <1>6, ClientsAssumption
<1>10. Sound(c, client[c])'
  <2>1. ObjectsOf(s.cart) \subseteq Objects
    BY <1>2, <1>4, CartStays DEF Requests
  <2>2. \A x \in ObjectsOf(s.cart) \ s.wait : owner'[x] = c
    BY <1>1, <1>2, <1>4, <1>6, <2>1 DEF Sound, Owns
  <2>3. s.t <= now
    BY <1>2, <1>4 DEF Sound
  <2>. QED
    BY <1>3, <1>4, <1>5, <2>2, <2>3 DEF LockNext, Sound, Owns, Overdue, Clear, Requests, Stays,
       ObjectsOf, StaysOf
<1>. QED BY <1>5, <1>8, <1>9, <1>10, Reading DEF LockNext

\* The rows after a step that rewrites some of the orders.
LEMMA Rewritten ==
  ASSUME IInv, orders' = [o \in OrderIds |-> orders'[o]],
         \A o \in OrderIds : orders'[o] \in OrderRows
  PROVE  orders' \in Seq(OrderRows) /\ OrderIds' = OrderIds
<1>. DEFINE n == Len(orders)
            rows == orders'
<1>1. n \in Nat /\ rows = [o \in 1 .. n |-> rows[o]] /\ \A o \in 1 .. n : rows[o] \in OrderRows
  BY DEF IInv, RowTypes, OrderIds
<1>. HIDE DEF n, rows
<1>2. rows \in Seq(OrderRows) /\ Len(rows) = n
  BY <1>1
<1>. QED BY <1>2 DEF OrderIds, n, rows

LEMMA ExpireStaleKeeps ==
  ASSUME IInv, NEW c \in Clients, ExpireStale(c)
  PROVE  IInv'
<1>. DEFINE Over(r) == [r EXCEPT !.status = "EXPIRED", !.hold_expires_at = NoExpiry]
            Row(o) == IF o \in client[c].sel THEN Over(orders[o]) ELSE orders[o]
<1>1. Sound(c, client[c]) /\ client[c] \in Requests /\ client[c].pc = "expire"
  BY DEF ExpireStale, IInv, Sound
<1>2. \A o \in OrderIds : orders[o] \in OrderRows
  BY DEF IInv, RowTypes, OrderIds
<1>3. \A r \in OrderRows : Over(r) \in OrderRows /\ Over(r).status = "EXPIRED"
  <2>1. NoExpiry \in Int
    BY DEF NoExpiry
  <2>. SUFFICES ASSUME NEW r \in OrderRows
                PROVE  Over(r) \in OrderRows /\ Over(r).status = "EXPIRED"
    OBVIOUS
  <2>2. "EXPIRED" \in Statuses
    BY DEF Statuses
  <2>. QED BY <2>1, <2>2 DEF OrderRows
<1>4. orders' = [o \in OrderIds |-> Row(o)]
  BY DEF ExpireStale
<1>. HIDE DEF Over
<1>5. \A o \in OrderIds : Row(o) \in OrderRows
  BY <1>2, <1>3
<1>6. \A o \in OrderIds : orders'[o] = orders[o] \/ orders'[o].status = "EXPIRED"
  BY <1>2, <1>3, <1>4
<1>. HIDE DEF Row
<1>7. orders' \in Seq(OrderRows) /\ OrderIds' = OrderIds
  <2>1. \A o \in OrderIds : orders'[o] \in OrderRows
    BY <1>4, <1>5
  <2>. QED BY <1>4, <2>1, Rewritten
<1>8. \A d \in Clients \ {c} : client'[d] = client[d]
  BY DEF ExpireStale, IInv, RowTypes, Become
<1>9. RowTypes'
  BY <1>7 DEF ExpireStale, IInv, RowTypes, Become, OrderRows, Items, Statuses
<1>10. Sound(c, client[c])'
  <2>1. CASE Become(c, Idle)
    <3>1. client'[c] = Idle
      BY <2>1 DEF IInv, RowTypes, Become
    <3>2. Sound(c, Idle)'
      BY <1>9, IdleSound, PTL
    <3>. QED BY <3>1, <3>2 DEF Idle
  <2>2. CASE Become(c, [client[c] EXCEPT !.pc = "lock", !.sel = {}])
    <3>. DEFINE s == [client[c] EXCEPT !.pc = "lock", !.sel = {}]
    <3>1. s \in Requests
      BY <1>1 DEF Requests, Pcs
    <3>2. s.pc = "lock" /\ s.t = client[c].t /\ s.cart = client[c].cart
          /\ s.wait = client[c].wait
      BY <1>1 DEF Requests
    <3>3. client'[c] = s
      BY <2>2 DEF IInv, RowTypes, Become
    <3>. HIDE DEF s
    <3>4. s.t <= now /\ \A b \in ObjectsOf(s.cart) \ s.wait : owner[b] = c
      BY <1>1, <3>2 DEF Sound, Owns
    <3>5. now' = now /\ owner' = owner
      BY DEF ExpireStale
    <3>6. (client[c] \in Requests /\ client[c].t <= now /\ Owns(c, client[c]))'
      BY <3>1, <3>2, <3>3, <3>4, <3>5 DEF Owns, Requests, Stays, ObjectsOf, StaysOf
    <3>. QED BY <3>2, <3>3, <3>6 DEF Sound, Overdue, Clear
  <2>. QED BY <2>1, <2>2 DEF ExpireStale
<1>. QED BY <1>2, <1>6, <1>7, <1>8, <1>9, <1>10, WrittenKeeps DEF ExpireStale

LEMMA WriteOrderKeeps ==
  ASSUME IInv, NEW c \in Clients, WriteOrder(c)
  PROVE  IInv'
<1>. DEFINE target == client[c].target
            Row(o) == IF o \in client[c].sel THEN Applied(orders[o], target) ELSE orders[o]
<1>1. /\ Sound(c, client[c]) /\ client[c] \in Requests /\ client[c].pc = "write"
      /\ target \in Statuses \ {"HELD"} /\ (NoSubmit => target \in {"CANCELLED", "EXPIRED"})
  <2>1. Sound(c, client[c]) /\ client[c] \in Requests /\ client[c].pc = "write"
    BY DEF WriteOrder, IInv, Sound
  <2>. QED BY <2>1 DEF Sound, Requests, Unpaid
<1>2. \A o \in OrderIds : orders[o] \in OrderRows
  BY DEF IInv, RowTypes, OrderIds
<1>3. ASSUME NEW r \in OrderRows
      PROVE  Applied(r, target) \in OrderRows /\ Applied(r, target).status = target
  <2>1. r.items \in Seq(Items) /\ r.hold_expires_at \in Int
    BY DEF OrderRows
  <2>2. Cancelled(r.items) \in Seq(Items)
    <3>1. \A x \in Items : [x EXCEPT !.active = FALSE] \in Items
      BY DEF Items
    <3>2. \A i \in 1 .. Len(r.items) : [r.items[i] EXCEPT !.active = FALSE] \in Items
      BY <2>1, <3>1
    <3>. QED BY <2>1, <3>2 DEF Cancelled
  <2>. DEFINE hold == IF target \in {"PENDING_PAYMENT", "EXPIRED"}
                      THEN NoExpiry ELSE r.hold_expires_at
              items == IF target = "CANCELLED" THEN Cancelled(r.items) ELSE r.items
  <2>3. hold \in Int /\ items \in Seq(Items)
    BY <2>1, <2>2 DEF NoExpiry
  <2>4. Applied(r, target)
          = [r EXCEPT !.status = target, !.hold_expires_at = hold, !.items = items]
    BY DEF Applied
  <2>. HIDE DEF hold, items, target
  <2>5. target \in Statuses
    BY <1>1
  <2>. QED BY <2>3, <2>4, <2>5 DEF OrderRows
<1>4. orders' = [o \in OrderIds |-> Row(o)]
  BY DEF WriteOrder
<1>. HIDE DEF target
<1>5. \A o \in OrderIds : Row(o) \in OrderRows
  BY <1>2, <1>3
<1>6. \A o \in OrderIds : orders'[o] = orders[o] \/ orders'[o].status = target
  BY <1>2, <1>3, <1>4
<1>. HIDE DEF Row
<1>7. orders' \in Seq(OrderRows) /\ OrderIds' = OrderIds
  <2>1. \A o \in OrderIds : orders'[o] \in OrderRows
    BY <1>4, <1>5
  <2>. QED BY <1>4, <2>1, Rewritten
<1>8. client'[c] = Idle /\ \A d \in Clients \ {c} : client'[d] = client[d]
  BY DEF WriteOrder, IInv, RowTypes, Become
<1>9. RowTypes'
  BY <1>7 DEF WriteOrder, IInv, RowTypes, Become, OrderRows, Items, Statuses
<1>10. Sound(c, client[c])'
  <2>1. Sound(c, Idle)'
    BY <1>9, IdleSound, PTL
  <2>. QED BY <1>8, <2>1 DEF Idle
<1>11. \A o \in OrderIds : orders'[o].status = "HELD" => orders'[o] = orders[o]
  BY <1>1, <1>6
<1>12. NoSubmit => \A o \in OrderIds : \/ orders'[o] = orders[o]
                                       \/ orders'[o].status \in {"CANCELLED", "EXPIRED"}
  BY <1>1, <1>6
<1>. QED BY <1>7, <1>8, <1>9, <1>10, <1>11, <1>12, WrittenKeeps DEF WriteOrder

\* The new hold touches only objects its client owns, and no order that holds them now
\* could have been overlooked when the cart was checked.
LEMMA PersistKeeps ==
  ASSUME IInv, NEW c \in Clients, Persist(c)
  PROVE  IInv'
<1>. DEFINE cart == client[c].cart
            t == client[c].t
            new == HeldOrder(cart, t)
            n == Len(orders)
<1>1. /\ cart \in Seq(Stays) /\ t \in Nat /\ t <= now /\ now \in Nat
      /\ client[c].pc = "persist" /\ \A b \in ObjectsOf(cart) : owner[b] = c
      /\ NoSubmit => \A stay \in StaysOf(cart) : ~Taken(stay, t)
  <2>1. Sound(c, client[c]) /\ client[c].pc = "persist" /\ now \in Nat
    BY DEF IInv, RowTypes, Persist
  <2>. QED BY <2>1 DEF Sound, Requests, Owns, Clear
<1>2. /\ new \in OrderRows
      /\ \A i \in 1 .. Len(new.items) :
           \E stay \in StaysOf(cart) : /\ new.items[i].obj = stay.obj
                                       /\ new.items[i].from = stay.from
                                       /\ new.items[i].to = stay.to
      /\ new.status = "HELD"
  <2>1. new.status = "HELD"
    BY DEF HeldOrder
  <2>. QED BY <1>1, <2>1, HeldRow
<1>3. orders' = Append(orders, new)
  BY DEF Persist
<1>4. \A stay \in StaysOf(cart) : stay \in Stays /\ stay.obj \in ObjectsOf(cart)
  BY <1>1, CartStays
<1>. HIDE DEF cart, t, new
<1>5. /\ n \in Nat /\ orders' \in Seq(OrderRows) /\ OrderIds' = OrderIds \cup {n + 1}
      /\ \A o \in OrderIds : o # n + 1 /\ orders'[o] = orders[o] /\ orders[o] \in OrderRows
      /\ orders'[n + 1] = new
  <2>1. orders \in Seq(OrderRows)
    BY DEF IInv, RowTypes
  <2>. QED BY <1>2, <1>3, <2>1 DEF OrderIds
<1>. HIDE DEF n
<1>6. /\ client'[c] = Idle /\ now' = now
      /\ \A d \in Clients \ {c} : client'[d] = client[d]
  BY DEF Persist, IInv, RowTypes, Become
<1>7. RowTypes'
  <2>1. owner' \in [Objects -> Clients \cup {NoClient}]
    BY DEF Persist, ReleaseAll, IInv, RowTypes
  <2>. QED BY <1>5, <2>1 DEF Persist, IInv, RowTypes, Become, OrderRows, Statuses, Items
<1>8. Sound(c, client[c])'
  <2>1. Sound(c, Idle)'
    BY <1>7, IdleSound, PTL
  <2>. QED BY <1>6, <2>1 DEF Idle
<1>9. ASSUME NEW d \in Clients, d # c PROVE Sound(d, client[d])'
  <2>1. Sound(d, client[d]) /\ client'[d] = client[d]
    BY <1>6, <1>9 DEF IInv
  <2>2. \A b \in Objects : owner[b] = d => owner'[b] = d
    BY <1>9 DEF Persist, ReleaseAll
  <2>3. ASSUME NoSubmit, client[d].pc = "persist", NEW stay \in StaysOf(client[d].cart),
               Taken(stay, client[d].t)'
        PROVE  FALSE
    <3>1. client[d].cart \in Seq(Stays) /\ client[d].wait = {}
          /\ (\A b \in ObjectsOf(client[d].cart) : owner[b] = d)
          /\ ~Taken(stay, client[d].t)
      BY <2>1, <2>3 DEF Sound, Requests, Owns, Clear
    <3>2. owner[stay.obj] = d
      BY <3>1, CartStays
    <3>3. PICK o \in OrderIds' :
            /\ Blocking(orders'[o], client[d].t)
            /\ \E i \in 1 .. Len(orders'[o].items) :
                 orders'[o].items[i].active /\ Overlap(orders'[o].items[i], stay)
      BY <2>1, <2>3 DEF Taken, Blocking
    <3>4. o = n + 1
      BY <1>5, <3>1, <3>3 DEF Taken
    <3>5. PICK i \in 1 .. Len(new.items) : new.items[i].obj = stay.obj
      BY <1>5, <3>3, <3>4 DEF Overlap
    <3>6. owner[stay.obj] = c
      BY <1>1, <1>2, <1>4, <3>5
    <3>. QED BY <1>9, <3>2, <3>6
  <2>. QED BY <1>1, <1>5, <1>6, <2>1, <2>2, <2>3, OthersSound
<1>10. ASSUME NoSubmit
       PROVE  NoDoubleBooking' /\ \A o \in OrderIds' : orders'[o].status \in Unpaid
  <2>1. NoDoubleBooking /\ \A o \in OrderIds : orders[o].status \in Unpaid
    BY <1>10 DEF IInv
  <2>2. \A o \in OrderIds' : orders'[o].status \in Unpaid
    BY <1>2, <1>5, <2>1 DEF Unpaid
  <2>3. \A o \in OrderIds : Occupies(orders[o])' <=> Occupies(orders[o])
    BY <1>5, <1>6 DEF Occupies
  <2>4. ASSUME NEW o \in OrderIds, Occupies(orders[o]),
               NEW i \in 1 .. Len(orders[o].items), NEW j \in 1 .. Len(new.items),
               orders[o].items[i].active,
               \/ Overlap(orders[o].items[i], new.items[j])
               \/ Overlap(new.items[j], orders[o].items[i])
        PROVE  FALSE
    <3>1. PICK stay \in StaysOf(cart) : /\ new.items[j].obj = stay.obj
                                       /\ new.items[j].from = stay.from
                                       /\ new.items[j].to = stay.to
      BY <1>2
    <3>2. Overlap(orders[o].items[i], stay)
      BY <2>4, <3>1 DEF Overlap
    <3>3. orders[o].status = "HELD" /\ now < orders[o].hold_expires_at
          /\ orders[o].hold_expires_at \in Int
      <4>1. orders[o].hold_expires_at \in Int
        BY <1>5 DEF OrderRows
      <4>. QED BY <2>1, <2>4, <4>1 DEF Occupies, Unpaid
    <3>4. Blocking(orders[o], t)
      BY <1>1, <3>3 DEF Blocking, NoExpiry
    <3>5. Taken(stay, t)
      BY <2>4, <3>2, <3>4 DEF Taken
    <3>. QED BY <1>1, <1>10, <3>5
  <2>5. ASSUME NEW o1 \in OrderIds', NEW o2 \in OrderIds', o1 # o2,
               Occupies(orders[o1])', Occupies(orders[o2])',
               NEW i \in 1 .. Len(orders'[o1].items), NEW j \in 1 .. Len(orders'[o2].items),
               orders'[o1].items[i].active, orders'[o2].items[j].active,
               Overlap(orders'[o1].items[i], orders'[o2].items[j])
        PROVE  FALSE
    <3>1. CASE o1 \in OrderIds /\ o2 \in OrderIds
      BY <1>5, <2>1, <2>3, <2>5, <3>1 DEF NoDoubleBooking
    <3>2. CASE o1 \in OrderIds /\ o2 = n + 1
      <4>1. Occupies(orders[o1]) /\ orders'[o1] = orders[o1] /\ orders'[o2] = new
        BY <1>5, <2>3, <2>5, <3>2
      <4>. QED BY <2>4, <2>5, <3>2, <4>1
    <3>3. CASE o1 = n + 1 /\ o2 \in OrderIds
      <4>1. Occupies(orders[o2]) /\ orders'[o2] = orders[o2] /\ orders'[o1] = new
        BY <1>5, <2>3, <2>5, <3>3
      <4>. QED BY <2>4, <2>5, <3>3, <4>1
    <3>. QED BY <1>5, <2>5, <3>1, <3>2, <3>3
  <2>6. NoDoubleBooking'
    BY <2>5 DEF NoDoubleBooking, Overlap
  <2>. QED BY <2>2, <2>6
<1>. QED BY <1>7, <1>8, <1>9, <1>10 DEF IInv, NoSubmit

LEMMA TickKeeps ==
  ASSUME IInv, Tick
  PROVE  IInv'
<1>1. now \in Nat /\ now' \in Nat /\ now <= now' /\ OrderIds' = OrderIds
      /\ UNCHANGED <<orders, owner, client>>
  BY DEF Tick, IInv, RowTypes, OrderIds
<1>2. RowTypes'
  BY <1>1 DEF IInv, RowTypes, OrderRows, Statuses, Items
<1>3. NoSubmit => /\ \A stay, t : Taken(stay, t)' => Taken(stay, t)
                  /\ NoDoubleBooking'
                  /\ \A o \in OrderIds' : orders'[o].status \in Unpaid
  BY <1>1, Thinned
<1>4. ASSUME NEW d \in Clients PROVE Sound(d, client[d])'
  <2>1. Sound(d, client[d])
    BY DEF IInv
  <2>. QED BY <1>1, <1>3, <2>1, OthersSound DEF Sound, Clear
<1>. QED BY <1>2, <1>3, <1>4 DEF IInv, NoSubmit

-----------------------------------------------------------------------------
(* The theorems.                                                           *)

LEMMA InitHolds ==
  ASSUME Init
  PROVE  IInv
<1>1. RowTypes
  BY DEF Init, RowTypes
<1>2. \A c \in Clients : client[c] = Idle
  BY DEF Init
<1>3. \A c \in Clients : Sound(c, client[c])
  BY <1>1, <1>2, IdleSound
<1>4. OrderIds = {}
  BY DEF Init, OrderIds
<1>. QED BY <1>1, <1>3, <1>4 DEF IInv, NoDoubleBooking

LEMMA StepKeeps ==
  ASSUME IInv, [Next]_vars
  PROVE  IInv'
<1>1. ASSUME NEW c \in Clients, Step(c) \/ RequestHold(c) \/ RequestExpiry(c)
                                 \/ ReadOrder(c) \/ Abort(c)
      PROVE  IInv'
  <2>1. CASE Conflict(c) \/ Abort(c)
    BY <2>1, ReleaseKeeps DEF Conflict, Abort
  <2>. QED
    BY <1>1, <2>1, RequestKeeps, FindStaleKeeps, ExpireStaleKeeps, LockNextKeeps,
       AvailableKeeps, PersistKeeps, ReadOrderKeeps, WriteOrderKeeps DEF Step
<1>2. CASE UNCHANGED vars
  <2>1. \A stay, t : Taken(stay, t)' <=> Taken(stay, t)
    BY <1>2 DEF vars, Taken, OrderIds
  <2>. QED BY <1>2, <2>1 DEF vars, IInv, RowTypes, Sound, Owns, Overdue, Clear, OrderIds,
           NoDoubleBooking, Occupies
<1>. QED BY <1>1, <1>2, TickKeeps DEF Next

\* The invariant of the proofs: what every request has read and locked still supports what
\* it is about to do.
THEOREM Invariance == Spec => []IInv
BY InitHolds, StepKeeps, PTL DEF Spec

\* While orders are not submitted for payment, two orders never occupy one object in
\* overlapping times, however many guests ask, sweep, cancel and crash at once
\* (create_hold locks the objects of the cart before it checks them).
THEOREM HoldsNeverOverlap ==
  ASSUME "PENDING_PAYMENT" \notin Targets
  PROVE  Spec => []NoDoubleBooking
<1>1. IInv => NoDoubleBooking
  BY DEF IInv, NoSubmit
<1>. QED BY <1>1, Invariance, PTL

\* While nobody expires an order by hand, a hold becomes EXPIRED only after its time
\* (find_stale_held_orders compares with the instant the request began).
THEOREM SweepTakesOverdue ==
  ASSUME "EXPIRED" \notin Targets
  PROVE  Spec => ExpiresOnlyOverdue
<1>1. ASSUME IInv, [Next]_vars, NEW o \in OrderIds,
             orders'[o].status = "EXPIRED", orders[o].status = "HELD"
      PROVE  orders[o].hold_expires_at # NoExpiry /\ orders[o].hold_expires_at <= now
  <2>1. orders'[o] # orders[o] /\ orders[o] \in OrderRows
    BY <1>1 DEF IInv, RowTypes, OrderIds
  <2>2. \/ \E c \in Clients : ExpireStale(c) \/ WriteOrder(c)
        \/ \E c \in Clients : Persist(c)
    BY <1>1, <2>1 DEF Next, vars, Tick, Step, RequestHold, RequestExpiry, ReadOrder, Abort,
       FindStale, LockNext, Available, Conflict
  <2>3. ASSUME NEW c \in Clients, Persist(c) PROVE FALSE
    <3>1. orders \in Seq(OrderRows) /\ orders' = Append(orders, HeldOrder(client[c].cart, client[c].t))
      BY <1>1, <2>3 DEF IInv, RowTypes, Persist
    <3>2. orders'[o] = orders[o]
      BY <3>1 DEF OrderIds
    <3>. QED BY <2>1, <3>2
  <2>4. ASSUME NEW c \in Clients, WriteOrder(c) PROVE FALSE
    <3>1. client[c].target \in Targets
      BY <1>1, <2>4 DEF IInv, Sound, WriteOrder
    <3>2. orders'[o] = Applied(orders[o], client[c].target)
      BY <2>1, <2>4 DEF WriteOrder
    <3>3. orders'[o].status = client[c].target
      BY <2>1, <3>2 DEF Applied, OrderRows
    <3>. QED BY <1>1, <3>1, <3>3
  <2>5. ASSUME NEW c \in Clients, ExpireStale(c)
        PROVE  orders[o].hold_expires_at # NoExpiry /\ orders[o].hold_expires_at <= now
    <3>1. o \in client[c].sel
      BY <2>1, <2>5 DEF ExpireStale
    <3>2. Sound(c, client[c]) /\ client[c].pc = "expire" /\ now \in Nat
      BY <1>1, <2>5 DEF IInv, RowTypes, ExpireStale
    <3>3. /\ orders[o].hold_expires_at # NoExpiry
          /\ orders[o].hold_expires_at <= client[c].t /\ client[c].t <= now
      BY <1>1, <3>1, <3>2 DEF Sound, Overdue
    <3>4. orders[o].hold_expires_at \in Int /\ client[c].t \in Nat
      BY <2>1, <3>2 DEF OrderRows, Sound, Requests
    <3>. QED BY <3>2, <3>3, <3>4
  <2>. QED BY <2>2, <2>3, <2>4, <2>5
<1>. DEFINE A == \A o \in OrderIds : orders'[o].status = "EXPIRED" /\ orders[o].status = "HELD" =>
       orders[o].hold_expires_at # NoExpiry /\ orders[o].hold_expires_at <= now
<1>2. IInv /\ [Next]_vars => [A]_vars
  BY <1>1
<1>. HIDE DEF A
<1>3. Spec => [][A]_vars
  BY <1>2, Invariance, PTL DEF Spec
<1>. QED BY <1>3 DEF A, ExpiresOnlyOverdue
=============================================================================
