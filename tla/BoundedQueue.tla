---------------------------- MODULE BoundedQueue ----------------------------
(***************************************************************************)
(* What the rings of src/kernel/usb/xhci/ring.hpp are for: a first-in      *)
(* first-out queue of bounded length between two parties. The items are    *)
(* numbered in the order in which they are put in, so that getting them    *)
(* out in that order is getting the next number each time.                 *)
(***************************************************************************)
EXTENDS Integers

CONSTANT Capacity

VARIABLES
  put,  \* items put in so far
  got,  \* items got out so far
  last  \* number of the item got out last, 0 before the first

Init == put = 0 /\ got = 0 /\ last = 0

Put ==
  /\ put - got < Capacity
  /\ put' = put + 1
  /\ UNCHANGED <<got, last>>

Get ==
  /\ got < put
  /\ got' = got + 1
  /\ last' = got + 1
  /\ UNCHANGED put

Next == Put \/ Get

Spec == Init /\ [][Next]_<<put, got, last>>
=============================================================================
