----------------------------- MODULE BookingHold -----------------------------
(***************************************************************************)
(* Holds and orders of the booking module.  create_hold first expires the  *)
(* stale holds of the territory (a transaction of its own), then locks the *)
(* bookable objects of the cart one by one in the order of their ids,      *)
(* checks the cart against the orders that block it, and inserts the order *)
(* as HELD.  The status transitions of BookingOrderService read an order   *)
(* without a lock, validate what they read and write the new status.       *)
(***************************************************************************)
EXTENDS Integers, Sequences, FiniteSets

CONSTANTS Clients, NoClient,
          Objects,     \* bookable objects of one territory; their ids are ordered
          Carts,       \* carts a guest may ask for: sequences of stays
          Targets,     \* statuses somebody moves an order to
          Solo,        \* bound: those asked for while nobody else asks, and in time
          HoldMinutes, \* hold_duration_minutes of the territory
          MaxTime,     \* bound: last minute of a run
          MaxOrders    \* bound: orders ever inserted

ASSUME ClientsAssumption == NoClient \notin Clients
ASSUME NumbersAssumption == /\ Objects \subseteq Nat /\ MaxTime \in Nat
                            /\ MaxOrders \in Nat /\ HoldMinutes \in Nat \ {0}
ASSUME CartsAssumption == Carts \subseteq Seq([obj : Objects, from : Int, to : Int])

VARIABLES now,     \* the clock
          orders,  \* committed orders, in insertion order
          owner,   \* holder of the FOR UPDATE lock of each bookable object
          client   \* what each client's request is doing

vars == <<now, orders, owner, client>>

Statuses == {"HELD", "PENDING_PAYMENT", "PAID", "CONFIRMED", "CANCELLED", "EXPIRED"}
NoExpiry == -1

ALLOWED_TRANSITIONS ==
  [s \in Statuses |->
     CASE s = "HELD" -> {"PENDING_PAYMENT", "CANCELLED", "EXPIRED"}
       [] s = "PENDING_PAYMENT" -> {"PAID", "CANCELLED"}
       [] s = "PAID" -> {"CONFIRMED"}
       [] OTHER -> {}]

OrderIds == 1..Len(orders)
StaysOf(cart) == {cart[i] : i \in 1..Len(cart)}
ObjectsOf(cart) == {stay.obj : stay \in StaysOf(cart)}

Idle == [pc |-> "idle", t |-> 0, cart |-> <<>>, wait |-> {}, sel |-> {}, target |-> "HELD"]

Pcs == {"idle", "find_stale", "expire", "lock", "check", "persist", "write"}

TypeOK ==
  /\ now \in 0..MaxTime
  /\ Len(orders) <= MaxOrders
  /\ \A o \in OrderIds :
       /\ orders[o].status \in Statuses
       /\ orders[o].hold_expires_at \in {NoExpiry} \cup (0..MaxTime + HoldMinutes)
       /\ orders[o].status = "HELD" => orders[o].hold_expires_at # NoExpiry
       /\ \A i \in 1..Len(orders[o].items) : orders[o].items[i].obj \in Objects
  /\ owner \in [Objects -> Clients \cup {NoClient}]
  /\ \A c \in Clients : client[c].pc \in Pcs /\ client[c].wait \subseteq Objects

Init ==
  /\ now = 0
  /\ orders = <<>>
  /\ owner = [b \in Objects |-> NoClient]
  /\ client = [c \in Clients |-> Idle]

-----------------------------------------------------------------------------
Overlap(a, b) == a.obj = b.obj /\ a.from < b.to /\ b.from < a.to

\* is_order_blocking: a hold blocks until it expires, the later statuses always.
Blocking(order, t) ==
  \/ order.status = "HELD" /\ order.hold_expires_at # NoExpiry /\ order.hold_expires_at > t
  \/ order.status \in {"PENDING_PAYMENT", "PAID", "CONFIRMED"}

\* find_overlapping_items for one stay.
Taken(stay, t) ==
  \E o \in OrderIds :
    /\ Blocking(orders[o], t)
    /\ \E i \in 1..Len(orders[o].items) :
         orders[o].items[i].active /\ Overlap(orders[o].items[i], stay)

\* Mutant: a hold still counts as live in the minute it expires.
Stale_Strict(t) ==
  {o \in OrderIds : /\ orders[o].status = "HELD"
                    /\ orders[o].hold_expires_at # NoExpiry
                    /\ orders[o].hold_expires_at >= t}

\* find_stale_held_orders
Stale(t) ==
  {o \in OrderIds : /\ orders[o].status = "HELD"
                    /\ orders[o].hold_expires_at # NoExpiry
                    /\ orders[o].hold_expires_at <= t}

Become(c, state) == client' = [client EXCEPT ![c] = state]
Goto(c, pc) == Become(c, [client[c] EXCEPT !.pc = pc])
ReleaseAll(c) == owner' = [b \in Objects |-> IF owner[b] = c THEN NoClient ELSE owner[b]]

InFlightHolds == {c \in Clients : client[c].cart # <<>>}

\* Nobody but c asks for anything; the order, if it is a hold, is not over; nobody but c
\* is in a transition that is asked for alone.
Alone(c) == \A other \in Clients \ {c} : client[other].pc = "idle"
InTime(order) == order.status = "HELD" => now < order.hold_expires_at
Undisturbed(c) == \A other \in Clients \ {c} :
                    client[other].pc = "write" => client[other].target \notin Solo

-----------------------------------------------------------------------------
(* create_hold and expire_stale_holds.                                     *)

\* The instant that every later decision of the request uses is taken first.
RequestHold(c) ==
  /\ client[c].pc = "idle" /\ Undisturbed(c)
  /\ Len(orders) + Cardinality(InFlightHolds) < MaxOrders
  /\ \E cart \in Carts :
       Become(c, [Idle EXCEPT !.pc = "find_stale", !.t = now, !.cart = cart,
                              !.wait = ObjectsOf(cart)])
  /\ UNCHANGED <<now, orders, owner>>

RequestExpiry(c) ==
  /\ client[c].pc = "idle" /\ Undisturbed(c)
  /\ Become(c, [Idle EXCEPT !.pc = "find_stale", !.t = now])
  /\ UNCHANGED <<now, orders, owner>>

FindStale(c) ==
  /\ client[c].pc = "find_stale"
  /\ LET stale == Stale(client[c].t) IN
       IF stale = {}
         THEN IF client[c].cart = <<>> THEN Become(c, Idle) ELSE Goto(c, "lock")
         ELSE Become(c, [client[c] EXCEPT !.pc = "expire", !.sel = stale])
  /\ UNCHANGED <<now, orders, owner>>

\* The orders are not read again: whatever they became meanwhile is overwritten.
ExpireStale(c) ==
  /\ client[c].pc = "expire"
  /\ orders' = [o \in OrderIds |->
                  IF o \in client[c].sel
                    THEN [orders[o] EXCEPT !.status = "EXPIRED", !.hold_expires_at = NoExpiry]
                    ELSE orders[o]]
  /\ IF client[c].cart = <<>> THEN Become(c, Idle)
                              ELSE Become(c, [client[c] EXCEPT !.pc = "lock", !.sel = {}])
  /\ UNCHANGED <<now, owner>>

\* Mutant: only the first object of the cart is locked.
LockNext_FirstOnly(c) ==
  /\ client[c].pc = "lock"
  /\ LET b == client[c].cart[1].obj IN
       /\ owner[b] = NoClient
       /\ owner' = [owner EXCEPT ![b] = c]
  /\ Become(c, [client[c] EXCEPT !.wait = {}, !.pc = "check"])
  /\ UNCHANGED <<now, orders>>

\* Mutant: the objects are locked in the order of the cart.
LockNext_CartOrder(c) ==
  /\ client[c].pc = "lock"
  /\ \E i \in 1..Len(client[c].cart) :
       LET b == client[c].cart[i].obj IN
       /\ b \in client[c].wait
       /\ \A j \in 1..(i - 1) : client[c].cart[j].obj \notin client[c].wait
       /\ owner[b] = NoClient
       /\ owner' = [owner EXCEPT ![b] = c]
       /\ Become(c, [client[c] EXCEPT !.wait = @ \ {b},
                                      !.pc = IF client[c].wait = {b} THEN "check" ELSE "lock"])
  /\ UNCHANGED <<now, orders>>

\* SELECT ... ORDER BY id FOR UPDATE: the next object in the order of the ids.
LockNext(c) ==
  /\ client[c].pc = "lock"
  /\ \E b \in client[c].wait :
       /\ \A other \in client[c].wait : b <= other
       /\ owner[b] = NoClient
       /\ owner' = [owner EXCEPT ![b] = c]
       /\ Become(c, [client[c] EXCEPT !.wait = @ \ {b},
                                      !.pc = IF client[c].wait = {b} THEN "check" ELSE "lock"])
  /\ UNCHANGED <<now, orders>>

\* assert_cart_available, against the orders committed by now.
Available(c) ==
  /\ client[c].pc = "check"
  /\ \A stay \in StaysOf(client[c].cart) : ~Taken(stay, client[c].t)
  /\ Goto(c, "persist")
  /\ UNCHANGED <<now, orders, owner>>

Conflict(c) ==
  /\ client[c].pc = "check"
  /\ \E stay \in StaysOf(client[c].cart) : Taken(stay, client[c].t)
  /\ Become(c, Idle)
  /\ ReleaseAll(c)
  /\ UNCHANGED <<now, orders>>

\* interval_by_object keeps one interval per object: that of its last stay in the cart.
IntervalOf(cart, i) ==
  LET last == CHOOSE j \in 1..Len(cart) :
                /\ cart[j].obj = cart[i].obj
                /\ \A k \in (j + 1)..Len(cart) : cart[k].obj # cart[i].obj
  IN cart[last]

HeldOrder(cart, t) ==
  [status |-> "HELD", hold_expires_at |-> t + HoldMinutes,
   items |-> [i \in 1..Len(cart) |->
                [obj |-> cart[i].obj, from |-> IntervalOf(cart, i).from,
                 to |-> IntervalOf(cart, i).to, active |-> TRUE]]]

Persist(c) ==
  /\ client[c].pc = "persist"
  /\ orders' = Append(orders, HeldOrder(client[c].cart, client[c].t))
  /\ Become(c, Idle)
  /\ ReleaseAll(c)
  /\ UNCHANGED now

-----------------------------------------------------------------------------
(* BookingOrderService.transition and the methods built on it.             *)

ReadOrder(c) ==
  /\ client[c].pc = "idle" /\ Undisturbed(c)
  /\ \E o \in OrderIds, target \in Targets :
       /\ target \in Solo => Alone(c) /\ InTime(orders[o])
       /\ target \in ALLOWED_TRANSITIONS[orders[o].status]
       /\ Become(c, [Idle EXCEPT !.pc = "write", !.sel = {o}, !.target = target])
  /\ UNCHANGED <<now, orders, owner>>

Cancelled(items) == [i \in 1..Len(items) |-> [items[i] EXCEPT !.active = FALSE]]

\* _apply_transition, and what submit_for_payment and expire add to it.
Applied(order, target) ==
  [order EXCEPT !.status = target,
                !.hold_expires_at = IF target \in {"PENDING_PAYMENT", "EXPIRED"}
                                    THEN NoExpiry ELSE @,
                !.items = IF target = "CANCELLED" THEN Cancelled(@) ELSE @]

WriteOrder(c) ==
  /\ client[c].pc = "write"
  /\ orders' = [o \in OrderIds |-> IF o \in client[c].sel
                                   THEN Applied(orders[o], client[c].target) ELSE orders[o]]
  /\ Become(c, Idle)
  /\ UNCHANGED <<now, owner>>

-----------------------------------------------------------------------------
(* The environment.                                                        *)

\* A request dies: its transaction is rolled back and its locks are dropped.
Abort(c) ==
  /\ client[c].pc # "idle"
  /\ Become(c, Idle)
  /\ ReleaseAll(c)
  /\ UNCHANGED <<now, orders>>

Tick ==
  /\ now < MaxTime
  /\ now' = now + 1
  /\ UNCHANGED <<orders, owner, client>>

Step(c) ==
  \/ FindStale(c) \/ ExpireStale(c) \/ LockNext(c) \/ Available(c) \/ Conflict(c)
  \/ Persist(c) \/ WriteOrder(c)

Next ==
  \/ Tick
  \/ \E c \in Clients :
       Step(c) \/ RequestHold(c) \/ RequestExpiry(c) \/ ReadOrder(c) \/ Abort(c)

Spec == Init /\ [][Next]_vars

\* Requests run to their end; a row lock is granted in the order it was asked for.
FairSpec == Spec /\ \A c \in Clients : SF_vars(Step(c))

-----------------------------------------------------------------------------
(* Correctness.                                                            *)

\* An order that has its stays now: a hold that is not over, or anything later.
Occupies(order) ==
  \/ order.status \in {"PENDING_PAYMENT", "PAID", "CONFIRMED"}
  \/ order.status = "HELD" /\ now < order.hold_expires_at

\* "[check_in_at, check_out_at) intervals do not overlap for confirmed and active held":
\* no two orders that occupy the calendar now have overlapping items on one object.
NoDoubleBooking ==
  \A o1, o2 \in OrderIds :
    o1 # o2 /\ Occupies(orders[o1]) /\ Occupies(orders[o2]) =>
      \A i \in 1..Len(orders[o1].items), j \in 1..Len(orders[o2].items) :
        ~ /\ orders[o1].items[i].active /\ orders[o2].items[j].active
          /\ Overlap(orders[o1].items[i], orders[o2].items[j])

\* A hold is expired by the sweep only once its time is over, although the instant the
\* sweep compares with and the orders it writes to were read earlier.
ExpiresOnlyOverdue ==
  [][\A o \in OrderIds : orders'[o].status = "EXPIRED" /\ orders[o].status = "HELD" =>
       orders[o].hold_expires_at # NoExpiry /\ orders[o].hold_expires_at <= now]_vars

\* Carts that need the same objects in any order never wait for each other for ever:
\* every request for a hold is answered ("sorted ids, deadlock-safe").
HoldsAnswered == \A c \in Clients : client[c].pc # "idle" ~> client[c].pc = "idle"
=============================================================================
