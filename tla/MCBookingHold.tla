---------------------------- MODULE MCBookingHold ----------------------------
(***************************************************************************)
(* Small instances of BookingHold for TLC: two objects, nights 1 to 3.     *)
(***************************************************************************)
EXTENDS BookingHold, TLC

Stay(b, from, to) == [obj |-> b, from |-> from, to |-> to]

\* Two carts that want both objects, named in opposite orders, one that overlaps
\* the second night of object 1 only, and one with two separate stays on object 1.
CrossedCarts == {<<Stay(1, 1, 2), Stay(2, 1, 2)>>,
                 <<Stay(2, 1, 2), Stay(1, 1, 3)>>,
                 <<Stay(1, 2, 3)>>,
                 <<Stay(1, 2, 3), Stay(1, 1, 2)>>}

ClientSymmetry == Permutations(Clients)
=============================================================================
