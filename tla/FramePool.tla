----------------------------- MODULE FramePool -----------------------------
(***************************************************************************)
(* What BitmapMemoryManager of src/kernel/memory_manager.hpp promises: it  *)
(* gives out runs of frames of usable memory, frame 0 apart, a frame to    *)
(* one party at a time, and refuses a request only if no run is long       *)
(* enough.                                                                 *)
(***************************************************************************)
EXTENDS Integers

VARIABLES
  usable,   \* frames of memory that the kernel may use
  free,     \* frames not given out
  blocks,   \* runs given out
  request   \* frames asked for, 0 if nobody asks

Run(begin, n) == begin..(begin + n - 1)

Fits(begin, n) == Run(begin, n) \subseteq free

Init == free = {} /\ blocks = {} /\ request = 0

Open ==
  /\ free = {} /\ blocks = {} /\ request = 0
  /\ free' = usable \ {0}
  /\ UNCHANGED <<usable, blocks, request>>

Request ==
  /\ request = 0
  /\ request' \in Nat \ {0}
  /\ UNCHANGED <<usable, free, blocks>>

Allocate ==
  /\ request # 0
  /\ \E begin \in free :
       /\ Fits(begin, request)
       /\ free' = free \ Run(begin, request)
       /\ blocks' = blocks \union {[begin |-> begin, frames |-> request]}
  /\ request' = 0
  /\ UNCHANGED usable

Refuse ==
  /\ request # 0
  /\ \A begin \in free : ~Fits(begin, request)
  /\ request' = 0
  /\ UNCHANGED <<usable, free, blocks>>

Free ==
  /\ \E block \in blocks :
       /\ free' = free \union Run(block.begin, block.frames)
       /\ blocks' = blocks \ {block}
  /\ UNCHANGED <<usable, request>>

Next == Open \/ Request \/ Allocate \/ Refuse \/ Free

Spec == Init /\ [][Next]_<<usable, free, blocks, request>>
=============================================================================
