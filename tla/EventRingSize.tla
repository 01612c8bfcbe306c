--------------------------- MODULE EventRingSize ---------------------------
(***************************************************************************)
(* What the event ring (module EventRing) and its use (module EventLoop)   *)
(* have in common.                                                         *)
(***************************************************************************)
EXTENDS Integers

CONSTANTS
  Size,      \* ring_segment_size, the entries of the ring
  MaxEvents  \* bound: events posted

ASSUME EventRingAssumption ==
  /\ Size \in Nat
  /\ Size > 1
  /\ MaxEvents \in Nat

=============================================================================
