--------------------------- MODULE FrameAllocator ---------------------------
(***************************************************************************)
(* The frame allocator and the heap on top of it: memory_manager.cpp and   *)
(* newlib_support.c of src/kernel. The boot loader's memory map is turned  *)
(* into a bitmap; Allocate searches it for the first run of free frames    *)
(* that is long enough; the first run goes to the heap, in which sbrk      *)
(* moves the program break.                                                *)
(*                                                                         *)
(* A frame is as large as a page of the memory map, and the map's          *)
(* addresses are page aligned, so the map is given in frames. The bitmap   *)
(* is the set of the frames whose bit is set. An operator named _Mutant is *)
(* what a plausible slip would have made of the definition after it;       *)
(* nothing refers to it.                                                   *)
(***************************************************************************)
EXTENDS Integers

CONSTANTS
  FrameCount,      \* kFrameCount
  MaxDescriptors,  \* bound: descriptors of the memory map
  HeapFrames,      \* kHeapFrames
  BytesPerFrame,   \* kBytesPerFrame
  MaxIncrement     \* bound: bytes by which sbrk moves the break

ASSUME FramesAssumption ==
  /\ FrameCount \in Nat
  /\ MaxDescriptors \in Nat
  /\ HeapFrames \in Nat \ {0}
  /\ BytesPerFrame \in Nat \ {0}
  /\ MaxIncrement \in Nat

VARIABLES
  memory_map,        \* from the boot loader
  next,              \* place of the next descriptor to be read
  available_end,     \* end of the last available descriptor so far
  alloc_map,
  range_begin,
  range_end,
  pc,                \* where the kernel is
  num_frames,        \* Allocate: frames wanted
  start_frame_id,    \* Allocate: first frame of the run looked at
  i,                 \* Allocate: length of it known to be free
  blocks,            \* runs given out and not given back
  heap_start,        \* first frame of the heap, 0 before there is one
  program_break,
  program_break_end

map == <<memory_map, next, available_end>>
range == <<range_begin, range_end>>
search == <<num_frames, start_frame_id, i>>
heap == <<heap_start, program_break, program_break_end>>
vars == <<map, alloc_map, range, pc, search, blocks, heap>>

Frames == 0..(FrameCount - 1)

Run(begin, n) == begin..(begin + n - 1)

Descriptor == [start: Frames, pages: 1..FrameCount, type: {"available", "reserved"}]

End(desc) == desc.start + desc.pages

\* The map fits the bitmap and is sorted by address, and no two descriptors
\* overlap. The code relies on all three and checks none.
MemoryMaps ==
  {m \in UNION {[1..n -> Descriptor] : n \in 1..MaxDescriptors} :
     /\ \A k \in DOMAIN m : End(m[k]) <= FrameCount
     /\ \A j, k \in DOMAIN m : j < k => End(m[j]) <= m[k].start}

Init ==
  /\ memory_map \in MemoryMaps
  /\ next = 1 /\ available_end = 0
  /\ alloc_map = {}
  /\ range_begin = 0 /\ range_end = FrameCount
  /\ pc = "map"
  /\ num_frames = 0 /\ start_frame_id = 0 /\ i = 0
  /\ blocks = {}
  /\ heap_start = 0 /\ program_break = 0 /\ program_break_end = 0

-----------------------------------------------------------------------------
(* InitializeMemoryManager.                                                *)

IsAvailable(type) == type = "available"

\* A hole between two descriptors is no memory.
Hole(desc) ==
  IF available_end < desc.start THEN available_end..(desc.start - 1) ELSE {}

\* Holes are left as they are.
ReadDescriptor_Mutant ==
  /\ pc = "map"
  /\ next \in DOMAIN memory_map
  /\ LET desc == memory_map[next] IN
     IF IsAvailable(desc.type)
     THEN available_end' = End(desc) /\ UNCHANGED alloc_map
     ELSE /\ alloc_map' = alloc_map \union Run(desc.start, desc.pages)
          /\ UNCHANGED available_end
  /\ next' = next + 1
  /\ UNCHANGED <<memory_map, range, pc, search, blocks, heap>>

ReadDescriptor ==
  /\ pc = "map"
  /\ next \in DOMAIN memory_map
  /\ LET desc == memory_map[next] IN
     IF IsAvailable(desc.type)
     THEN /\ alloc_map' = alloc_map \union Hole(desc)
          /\ available_end' = End(desc)
     ELSE /\ alloc_map' = alloc_map \union Hole(desc) \union Run(desc.start, desc.pages)
          /\ UNCHANGED available_end
  /\ next' = next + 1
  /\ UNCHANGED <<memory_map, range, pc, search, blocks, heap>>

SetMemoryRange ==
  /\ pc = "map"
  /\ next \notin DOMAIN memory_map
  /\ range_begin' = 1
  /\ range_end' = available_end
  /\ pc' = "heap"
  /\ UNCHANGED <<map, alloc_map, search, blocks, heap>>

-----------------------------------------------------------------------------
(* Allocate and Free.                                                      *)

Start(n) ==
  /\ num_frames' = n
  /\ start_frame_id' = range_begin
  /\ i' = 0
  /\ pc' = "search"
  /\ UNCHANGED <<map, alloc_map, range, blocks, heap>>

InitializeHeap == pc = "heap" /\ Start(HeapFrames)

\* Nobody asks for more frames than there are.
StartAllocate == pc = "ready" /\ \E n \in 1..FrameCount : Start(n)

\* The frame that the search looks at.
Frame == start_frame_id + i

PastEnd == Frame >= range_end

Looking == pc = "search" /\ i < num_frames

\* Without a heap the kernel gives up.
NoEnoughMemory ==
  /\ Looking
  /\ PastEnd
  /\ pc' = IF heap_start = 0 THEN "exit" ELSE "ready"
  /\ UNCHANGED <<map, alloc_map, range, search, blocks, heap>>

\* The search goes on behind a run as long as the one wanted.
FrameTaken_Mutant ==
  /\ Looking
  /\ ~PastEnd
  /\ Frame \in alloc_map
  /\ start_frame_id' = start_frame_id + num_frames
  /\ i' = 0
  /\ UNCHANGED <<map, alloc_map, range, pc, num_frames, blocks, heap>>

\* The search starts again at the frame where it broke off.
FrameTaken_LoopMutant ==
  /\ Looking
  /\ ~PastEnd
  /\ Frame \in alloc_map
  /\ start_frame_id' = start_frame_id + i
  /\ i' = 0
  /\ UNCHANGED <<map, alloc_map, range, pc, num_frames, blocks, heap>>

FrameTaken ==
  /\ Looking
  /\ ~PastEnd
  /\ Frame \in alloc_map
  /\ start_frame_id' = start_frame_id + i + 1
  /\ i' = 0
  /\ UNCHANGED <<map, alloc_map, range, pc, num_frames, blocks, heap>>

FrameFree ==
  /\ Looking
  /\ ~PastEnd
  /\ Frame \notin alloc_map
  /\ i' = i + 1
  /\ UNCHANGED <<map, alloc_map, range, pc, num_frames, start_frame_id, blocks, heap>>

SetUpHeap ==
  /\ heap_start' = start_frame_id
  /\ program_break' = start_frame_id * BytesPerFrame
  /\ program_break_end' = program_break' + num_frames * BytesPerFrame

\* The last frame of the run is not marked.
Found_Mutant ==
  /\ pc = "search"
  /\ i = num_frames
  /\ alloc_map' = alloc_map \union Run(start_frame_id, num_frames - 1)
  /\ blocks' = blocks \union {[begin |-> start_frame_id, frames |-> num_frames]}
  /\ pc' = "ready"
  /\ IF heap_start = 0 THEN SetUpHeap ELSE UNCHANGED heap
  /\ UNCHANGED <<map, range, search>>

Found ==
  /\ pc = "search"
  /\ i = num_frames
  /\ alloc_map' = alloc_map \union Run(start_frame_id, num_frames)
  /\ blocks' = blocks \union {[begin |-> start_frame_id, frames |-> num_frames]}
  /\ pc' = "ready"
  /\ IF heap_start = 0 THEN SetUpHeap ELSE UNCHANGED heap
  /\ UNCHANGED <<map, range, search>>

Search == NoEnoughMemory \/ FrameTaken \/ FrameFree \/ Found

\* A party gives back what it got. The heap is never given back.
Free ==
  /\ pc = "ready"
  /\ \E block \in blocks :
       /\ block.begin # heap_start
       /\ alloc_map' = alloc_map \ Run(block.begin, block.frames)
       /\ blocks' = blocks \ {block}
  /\ UNCHANGED <<map, range, pc, search, heap>>

-----------------------------------------------------------------------------
(* sbrk. malloc gives back no more than it got.                            *)

\* The increment is not counted.
Sbrk_Mutant ==
  /\ pc = "ready"
  /\ \E incr \in (-MaxIncrement)..MaxIncrement :
       /\ program_break + incr >= heap_start * BytesPerFrame
       /\ program_break < program_break_end
       /\ program_break' = program_break + incr
  /\ UNCHANGED <<map, alloc_map, range, pc, search, blocks, heap_start, program_break_end>>

Sbrk ==
  /\ pc = "ready"
  /\ \E incr \in (-MaxIncrement)..MaxIncrement :
       /\ program_break + incr >= heap_start * BytesPerFrame
       /\ program_break + incr < program_break_end
       /\ program_break' = program_break + incr
  /\ UNCHANGED <<map, alloc_map, range, pc, search, blocks, heap_start, program_break_end>>

-----------------------------------------------------------------------------

Next ==
  \/ ReadDescriptor \/ SetMemoryRange \/ InitializeHeap
  \/ StartAllocate \/ Search \/ Free \/ Sbrk

Spec == Init /\ [][Next]_vars

\* The search is a loop that nothing blocks.
FairSpec == Spec /\ WF_vars(Search)

-----------------------------------------------------------------------------
(* Properties.                                                             *)

Usable ==
  {f \in Frames : \E k \in DOMAIN memory_map :
     /\ IsAvailable(memory_map[k].type)
     /\ f \in Run(memory_map[k].start, memory_map[k].pages)}

Block == [begin: Frames, frames: 1..FrameCount]

\* Every variable has its type: the search does not leave the bitmap.
TypeOK ==
  /\ memory_map \in MemoryMaps
  /\ next \in Nat
  /\ available_end \in 0..FrameCount
  /\ alloc_map \in SUBSET Frames
  /\ range_begin \in 0..1
  /\ range_end \in 0..FrameCount
  /\ pc \in {"map", "heap", "search", "ready", "exit"}
  /\ num_frames \in Nat
  /\ start_frame_id \in Nat
  /\ i \in Nat
  /\ blocks \in SUBSET Block
  /\ heap_start \in Frames \union {0}
  /\ program_break \in Nat
  /\ program_break_end \in Nat

\* No frame is given to two parties, and none that is not usable memory, whatever
\* was allocated and given back before.
BlocksDisjoint ==
  \A b \in blocks :
    /\ Run(b.begin, b.frames) \subseteq Usable \ {0}
    /\ \A c \in blocks : b # c => Run(b.begin, b.frames) \intersect Run(c.begin, c.frames) = {}

\* The heap is a block of its own all the time, and the break stays in it.
HeapInside ==
  heap_start # 0 =>
    /\ [begin |-> heap_start, frames |-> HeapFrames] \in blocks
    /\ heap_start * BytesPerFrame <= program_break
    /\ program_break < (heap_start + HeapFrames) * BytesPerFrame

\* Frames in the range that Allocate may give out.
FreeFrames == {f \in Frames : range_begin <= f /\ f < range_end /\ f \notin alloc_map}

\* Allocate takes the first run that is long enough.
LowestFit ==
  [][\A b \in blocks' \ blocks :
       \A f \in FreeFrames : f < b.begin => ~(Run(f, b.frames) \subseteq FreeFrames)]_vars

Pool == INSTANCE FramePool WITH
  usable <- Usable,
  free <- IF pc = "map" THEN {} ELSE FreeFrames,
  blocks <- blocks,
  request <- IF pc = "search" THEN num_frames ELSE 0

\* The bitmap holds exactly what is usable and not given out, from the memory
\* map onwards, and a request is refused only if no run is long enough.
ImplementsPool == Pool!Spec

\* The search comes to an end.
EveryRequestAnswered == pc = "search" ~> pc \in {"ready", "exit"}

=============================================================================
