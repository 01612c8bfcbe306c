----------------------- MODULE FrameAllocator_proofs -----------------------
(***************************************************************************)
(* Proofs about FrameAllocator, for every memory map, any number of frames *)
(* and any sequence of requests: it implements FramePool.                  *)
(***************************************************************************)
EXTENDS FrameAllocator, TLAPS

\* While the memory map is read: what lies before available_end is settled, and
\* what is still to be read lies behind it.
MapRead ==
  pc = "map" =>
    /\ next >= 1
    /\ \A k \in DOMAIN memory_map : k >= next => available_end <= memory_map[k].start
    /\ \A k \in DOMAIN memory_map :
         k < next /\ IsAvailable(memory_map[k].type) => End(memory_map[k]) <= available_end
    /\ \A f \in Frames : f < available_end => f \in alloc_map \/ f \in Usable
    /\ \A f \in alloc_map : f \notin Usable
    /\ blocks = {} /\ heap_start = 0

\* Afterwards the free frames are those usable and not given out.
Accounting ==
  pc # "map" =>
    /\ range_begin = 1
    /\ \A f \in Usable : f < range_end
    /\ \A f \in Frames :
         f \in FreeFrames <=> f \in Usable \ {0} /\ \A b \in blocks : f \notin Run(b.begin, b.frames)

\* A run that begins before start_frame_id has a frame that is not free; the
\* frames from there on that were looked at are free.
Searching ==
  pc = "search" =>
    /\ num_frames >= 1 /\ start_frame_id >= 1 /\ i <= num_frames
    /\ \A f \in Run(start_frame_id, i) : f \in FreeFrames
    /\ \A c \in FreeFrames : c < start_frame_id =>
         \E f \in Run(c, num_frames) : f \notin FreeFrames

\* The heap is what is allocated first.
HeapFirst ==
  /\ pc = "heap" => heap_start = 0
  /\ pc = "ready" => heap_start # 0
  /\ heap_start = 0 => blocks = {}
  /\ pc = "search" /\ heap_start = 0 => num_frames = HeapFrames
  /\ heap_start # 0 => program_break_end = (heap_start + HeapFrames) * BytesPerFrame

IInv ==
  /\ TypeOK
  /\ MapRead
  /\ Accounting
  /\ Searching
  /\ HeapFirst
  /\ BlocksDisjoint
  /\ HeapInside

\* What the assumption and the types say, in numbers.
LEMMA Numbers ==
  ASSUME TypeOK
  PROVE  /\ FrameCount \in Nat /\ HeapFrames \in Nat /\ HeapFrames >= 1
         /\ next \in Nat /\ available_end \in 0..FrameCount
         /\ range_begin \in 0..1 /\ range_end \in 0..FrameCount
         /\ num_frames \in Nat /\ start_frame_id \in Nat /\ i \in Nat
         /\ alloc_map \in SUBSET Frames /\ blocks \in SUBSET Block
         /\ \A b \in blocks : b.begin \in Frames /\ b.frames \in 1..FrameCount
<1>1. FrameCount \in Nat /\ HeapFrames \in Nat /\ HeapFrames >= 1
  BY FramesAssumption
<1>2. QED
  BY <1>1 DEF TypeOK, Block

\* Sorted descriptors do not overlap, and lie within the bitmap.
LEMMA MapFacts ==
  ASSUME TypeOK, NEW k \in DOMAIN memory_map
  PROVE  /\ k \in Nat
         /\ memory_map[k].start \in Nat /\ memory_map[k].pages \in Nat
         /\ memory_map[k].pages >= 1 /\ End(memory_map[k]) <= FrameCount
         /\ memory_map[k].type \in {"available", "reserved"}
         /\ \A j \in DOMAIN memory_map :
              j < k => memory_map[j].start + memory_map[j].pages <= memory_map[k].start
<1>1. FrameCount \in Nat /\ MaxDescriptors \in Nat
  BY FramesAssumption
<1>2. memory_map \in MemoryMaps
  BY DEF TypeOK
<1>3. PICK n \in 1..MaxDescriptors : memory_map \in [1..n -> Descriptor]
  BY <1>2 DEF MemoryMaps
<1>4. memory_map[k] \in Descriptor /\ k \in 1..n
  BY <1>3
<1>5. QED
  BY <1>1, <1>2, <1>4 DEF MemoryMaps, Descriptor, Frames, End

\* The invariant holds at the start.
LEMMA InitIInv == Init => IInv
<1> SUFFICES ASSUME Init PROVE IInv
  OBVIOUS
<1> USE DEF Init
<1>1. TypeOK
  BY FramesAssumption DEF TypeOK, Block
<1>2. MapRead
  <2>1. \A k \in DOMAIN memory_map : k >= 1 /\ 0 <= memory_map[k].start
    <3> SUFFICES ASSUME NEW k \in DOMAIN memory_map PROVE k >= 1 /\ 0 <= memory_map[k].start
      OBVIOUS
    <3>1. PICK n \in 1..MaxDescriptors : memory_map \in [1..n -> Descriptor]
      BY DEF MemoryMaps
    <3>2. k >= 1
      BY <3>1, FramesAssumption
    <3>3. QED
      BY <1>1, <3>2, MapFacts
  <2>2. \A k \in DOMAIN memory_map : ~(k < 1)
    BY <1>1, <2>1, MapFacts
  <2>3. \A f \in Frames : ~(f < 0)
    BY FramesAssumption DEF Frames
  <2>4. QED
    BY <2>1, <2>2, <2>3 DEF MapRead
<1>3. QED
  BY <1>1, <1>2 DEF IInv, Accounting, Searching, HeapFirst, BlocksDisjoint, HeapInside

\* Reading a descriptor settles what lies before its end.
LEMMA ReadDescriptorStep ==
  ASSUME IInv, ReadDescriptor
  PROVE  IInv'
<1> USE DEF ReadDescriptor
<1> DEFINE desc == memory_map[next]
           marked == Hole(desc) \union (IF IsAvailable(desc.type) THEN {} ELSE Run(desc.start, desc.pages))
<1>1. TypeOK /\ next \in DOMAIN memory_map /\ pc = "map"
  BY DEF IInv
<1>2. /\ desc.start \in Nat /\ desc.pages \in Nat /\ desc.pages >= 1
      /\ End(desc) = desc.start + desc.pages /\ End(desc) <= FrameCount
      /\ next \in Nat /\ FrameCount \in Nat /\ available_end \in 0..FrameCount
      /\ available_end <= desc.start /\ next >= 1
  BY <1>1, MapFacts, Numbers DEF IInv, MapRead, End
<1>3. /\ alloc_map' = alloc_map \union marked
      /\ available_end' = IF IsAvailable(desc.type) THEN End(desc) ELSE available_end
      /\ next' = next + 1
  BY Zenon
<1>4. marked \in SUBSET Frames
  BY <1>2 DEF Hole, Run, Frames
<1>5. TypeOK'
  <2>1. available_end' \in 0..FrameCount
    BY <1>2, <1>3
  <2>2. alloc_map' \in SUBSET Frames
    BY <1>1, <1>3, <1>4 DEF TypeOK
  <2>3. next' \in Nat
    BY <1>2, <1>3
  <2>4. QED
    BY <1>1, <2>1, <2>2, <2>3 DEF TypeOK, range, search, heap
<1>6. Usable' = Usable
  BY DEF Usable
<1>7. MapRead'
  <2>1. ASSUME NEW k \in DOMAIN memory_map, k >= next + 1
        PROVE  available_end' <= memory_map[k].start
    <3>1. k \in Nat /\ memory_map[k].start \in Nat
      BY <1>1, MapFacts
    <3>2. k > next
      BY <1>2, <2>1, <3>1
    <3>3. End(desc) <= memory_map[k].start
      BY <1>1, <1>2, <3>1, <3>2, MapFacts DEF End
    <3>4. QED
      BY <1>2, <1>3, <3>1, <3>3
  <2>2. ASSUME NEW k \in DOMAIN memory_map, k < next + 1, IsAvailable(memory_map[k].type)
        PROVE  End(memory_map[k]) <= available_end'
    <3>1. k \in Nat /\ End(memory_map[k]) \in Nat
      BY <1>1, MapFacts DEF End
    <3>2. CASE k = next
      BY <1>3, <2>2, <3>2, <1>2
    <3>3. CASE k # next
      <4>1. k < next
        BY <1>2, <2>2, <3>1, <3>3
      <4>2. End(memory_map[k]) <= available_end
        BY <1>1, <2>2, <4>1 DEF IInv, MapRead
      <4>3. available_end <= available_end'
        BY <1>2, <1>3
      <4>4. QED
        BY <1>2, <1>3, <3>1, <4>2, <4>3
    <3>4. QED
      BY <3>2, <3>3
  <2>3. ASSUME NEW f \in Frames, f < available_end'
        PROVE  f \in alloc_map' \/ f \in Usable
    <3>1. f \in Nat
      BY <1>2 DEF Frames
    <3>2. CASE f < available_end
      BY <1>1, <1>3, <3>2 DEF IInv, MapRead
    <3>3. CASE ~(f < available_end)
      <4>1. IsAvailable(desc.type) /\ f < desc.start + desc.pages
        BY <1>2, <1>3, <2>3, <3>3
      <4>2. CASE f < desc.start
        BY <1>2, <1>3, <3>1, <3>3, <4>2 DEF Hole
      <4>3. CASE ~(f < desc.start)
        <5>1. f \in Run(desc.start, desc.pages)
          BY <1>2, <3>1, <4>1, <4>3 DEF Run
        <5>2. QED
          BY <1>1, <4>1, <5>1 DEF Usable
      <4>4. QED
        BY <4>2, <4>3
    <3>4. QED
      BY <3>2, <3>3
  <2>4. ASSUME NEW f \in marked, f \in Usable
        PROVE  FALSE
    <3>1. PICK k \in DOMAIN memory_map :
            IsAvailable(memory_map[k].type) /\ f \in Run(memory_map[k].start, memory_map[k].pages)
      BY <2>4 DEF Usable
    <3>2. /\ k \in Nat /\ memory_map[k].start \in Nat /\ memory_map[k].pages \in Nat
          /\ End(memory_map[k]) = memory_map[k].start + memory_map[k].pages
      BY <1>1, MapFacts DEF End
    <3>3. f \in Nat /\ memory_map[k].start <= f /\ f < End(memory_map[k])
      BY <3>1, <3>2 DEF Run
    <3>4. available_end <= f /\ f < End(desc) /\ (f >= desc.start => ~IsAvailable(desc.type))
      BY <1>2, <3>3 DEF Hole, Run
    <3>5. CASE k < next
      <4>1. End(memory_map[k]) <= available_end
        BY <1>1, <3>1, <3>5 DEF IInv, MapRead
      <4>2. QED
        BY <1>2, <3>2, <3>3, <3>4, <4>1
    <3>6. CASE k = next
      BY <3>1, <3>3, <3>4, <3>6
    <3>7. CASE k > next
      <4>1. End(desc) <= memory_map[k].start
        BY <1>1, <1>2, <3>2, <3>7, MapFacts DEF End
      <4>2. QED
        BY <1>2, <3>2, <3>3, <3>4, <4>1
    <3>8. QED
      BY <1>2, <3>2, <3>5, <3>6, <3>7
  <2>5. \A f \in alloc_map' : f \notin Usable
    BY <1>1, <1>3, <2>4 DEF IInv, MapRead
  <2>6. next' >= 1
    BY <1>2, <1>3
  <2>7. blocks' = {} /\ heap_start' = 0 /\ memory_map' = memory_map
    BY <1>1 DEF IInv, MapRead, heap
  <2>8. QED
    BY <1>3, <1>6, <2>1, <2>2, <2>3, <2>5, <2>6, <2>7 DEF MapRead, End, Frames
<1>8. Accounting' /\ Searching'
  BY <1>1 DEF Accounting, Searching
<1>9. HeapFirst' /\ BlocksDisjoint' /\ HeapInside'
  BY <1>1 DEF IInv, MapRead, HeapFirst, BlocksDisjoint, HeapInside, heap
<1>10. QED
  BY <1>5, <1>7, <1>8, <1>9 DEF IInv

\* When the whole map is read, the range has all that is usable.
LEMMA SetMemoryRangeStep ==
  ASSUME IInv, SetMemoryRange
  PROVE  /\ IInv'
         /\ FreeFrames' = Usable \ {0}
<1> USE DEF SetMemoryRange
<1>1. TypeOK /\ pc = "map"
  BY DEF IInv
<1>2. /\ FrameCount \in Nat /\ available_end \in 0..FrameCount /\ next \in Nat /\ next >= 1
      /\ range_begin' = 1 /\ range_end' = available_end /\ alloc_map' = alloc_map
  BY <1>1, Numbers DEF IInv, MapRead
<1>3. TypeOK'
  <2>1. range_begin' \in 0..1 /\ range_end' \in 0..FrameCount
    BY <1>2
  <2>2. QED
    BY <1>1, <2>1 DEF TypeOK, map, search, heap
<1>4. Usable' = Usable
  BY DEF Usable, map
<1>5. \A k \in DOMAIN memory_map : k < next
  <2>1. PICK n \in 1..MaxDescriptors : memory_map \in [1..n -> Descriptor]
    BY <1>1 DEF TypeOK, MemoryMaps
  <2>2. n \in Nat /\ DOMAIN memory_map = 1..n
    BY <2>1, FramesAssumption
  <2>3. ASSUME NEW k \in DOMAIN memory_map, k >= next PROVE FALSE
    <3>1. next \in DOMAIN memory_map
      BY <1>2, <2>2, <2>3
    <3>2. QED
      BY <3>1
  <2>4. QED
    BY <1>2, <2>2, <2>3
<1>6. \A f \in Usable : f < available_end
  <2> SUFFICES ASSUME NEW f \in Usable PROVE f < available_end
    OBVIOUS
  <2>1. PICK k \in DOMAIN memory_map :
          IsAvailable(memory_map[k].type) /\ f \in Run(memory_map[k].start, memory_map[k].pages)
    BY DEF Usable
  <2>2. /\ memory_map[k].start \in Nat /\ memory_map[k].pages \in Nat
        /\ End(memory_map[k]) = memory_map[k].start + memory_map[k].pages
    BY <1>1, MapFacts DEF End
  <2>3. End(memory_map[k]) <= available_end
    BY <1>1, <1>5, <2>1 DEF IInv, MapRead
  <2>4. QED
    BY <1>2, <2>1, <2>2, <2>3 DEF Run
<1>7. \A f \in Frames : f \in FreeFrames' <=> f \in Usable \ {0}
  <2> SUFFICES ASSUME NEW f \in Frames PROVE f \in FreeFrames' <=> f \in Usable \ {0}
    OBVIOUS
  <2>1. f \in Nat
    BY <1>2 DEF Frames
  <2>2. f \in FreeFrames' <=> 1 <= f /\ f < available_end /\ f \notin alloc_map
    BY <1>2 DEF FreeFrames, Frames
  <2>3. f < available_end => (f \in alloc_map <=> f \notin Usable)
    BY <1>1 DEF IInv, MapRead
  <2>4. QED
    BY <1>6, <2>1, <2>2, <2>3
<1>8. FreeFrames' = Usable \ {0}
  BY <1>7 DEF FreeFrames, Usable, Frames
<1>9. blocks' = {} /\ heap_start' = 0 /\ pc' = "heap"
  BY <1>1 DEF IInv, MapRead, heap
<1>10. Accounting'
  BY <1>2, <1>4, <1>6, <1>7, <1>9 DEF Accounting, Frames
<1>11. MapRead' /\ Searching' /\ HeapFirst' /\ BlocksDisjoint' /\ HeapInside'
  BY <1>9 DEF MapRead, Searching, HeapFirst, BlocksDisjoint, HeapInside
<1>12. QED
  BY <1>3, <1>8, <1>10, <1>11 DEF IInv

\* A step that leaves map, bitmap, range, blocks and heap alone keeps what is said
\* of them.
LEMMA KeptParts ==
  ASSUME IInv, pc # "map", pc' # "map",
         UNCHANGED <<map, alloc_map, range, blocks, heap>>
  PROVE  /\ MapRead' /\ Accounting' /\ BlocksDisjoint' /\ HeapInside'
         /\ FreeFrames' = FreeFrames
<1>1. Usable' = Usable /\ FreeFrames' = FreeFrames
  BY DEF Usable, FreeFrames, map, range
<1>2. MapRead'
  BY DEF MapRead
<1>3. Accounting'
  BY <1>1 DEF IInv, Accounting, range
<1>4. BlocksDisjoint' /\ HeapInside'
  BY <1>1 DEF IInv, BlocksDisjoint, HeapInside, heap
<1>5. QED
  BY <1>1, <1>2, <1>3, <1>4

\* Allocate starts.
LEMMA StartStep ==
  ASSUME IInv, NEW n \in Nat, n >= 1, Start(n), pc \in {"heap", "ready"},
         pc = "heap" => n = HeapFrames
  PROVE  IInv'
<1> USE DEF Start
<1>1. TypeOK /\ pc # "map" /\ pc' = "search"
  BY DEF IInv
<1>2. range_begin = 1
  BY <1>1 DEF IInv, Accounting
<1>3. TypeOK'
  BY <1>1, <1>2 DEF TypeOK, map, range, heap
<1>4. MapRead' /\ Accounting' /\ BlocksDisjoint' /\ HeapInside' /\ FreeFrames' = FreeFrames
  BY <1>1, KeptParts
<1>5. Searching'
  <2>1. num_frames' = n /\ start_frame_id' = 1 /\ i' = 0
    BY <1>2
  <2>2. \A f : f \notin Run(1, 0)
    BY DEF Run
  <2>3. \A c \in FreeFrames : ~(c < 1)
    <3>1. FrameCount \in Nat
      BY FramesAssumption
    <3>2. QED
      BY <1>2, <3>1 DEF FreeFrames, Frames
  <2>4. QED
    BY <1>4, <2>1, <2>2, <2>3 DEF Searching
<1>6. HeapFirst'
  BY <1>1 DEF IInv, HeapFirst, heap
<1>7. QED
  BY <1>3, <1>4, <1>5, <1>6 DEF IInv

\* The frame looked at is free exactly if it is in the range and its bit is not set.
LEMMA FrameIsFree ==
  ASSUME IInv, pc = "search"
  PROVE  /\ Frame \in FreeFrames <=> ~PastEnd /\ Frame \notin alloc_map
         /\ Frame = start_frame_id + i /\ Frame >= 1
<1>1. /\ TypeOK /\ range_begin = 1 /\ start_frame_id >= 1
  BY DEF IInv, Accounting, Searching
<1>2. /\ FrameCount \in Nat /\ range_end \in 0..FrameCount
      /\ start_frame_id \in Nat /\ i \in Nat
  BY <1>1, Numbers
<1>3. QED
  BY <1>1, <1>2 DEF FreeFrames, Frames, Frame, PastEnd

\* A request is refused only if no run of free frames is long enough.
LEMMA NoEnoughMemoryStep ==
  ASSUME IInv, NoEnoughMemory
  PROVE  /\ IInv'
         /\ \A c \in FreeFrames : ~(Run(c, num_frames) \subseteq FreeFrames)
<1> USE DEF NoEnoughMemory, Looking
<1>1. TypeOK /\ pc = "search" /\ pc' \in {"exit", "ready"} /\ pc' # "map" /\ pc' # "search"
  BY DEF IInv
<1>2. TypeOK'
  BY <1>1 DEF TypeOK, map, range, search, heap
<1>3. MapRead' /\ Accounting' /\ BlocksDisjoint' /\ HeapInside'
  BY <1>1, KeptParts
<1>4. Searching' /\ HeapFirst'
  BY <1>1 DEF IInv, Searching, HeapFirst, heap, search
<1>5. ASSUME NEW c \in FreeFrames, Run(c, num_frames) \subseteq FreeFrames
      PROVE  FALSE
  <2>1. /\ FrameCount \in Nat /\ range_end \in 0..FrameCount /\ num_frames \in Nat
        /\ start_frame_id \in Nat /\ i \in Nat /\ i < num_frames
        /\ c \in Nat /\ c < range_end /\ start_frame_id + i >= range_end
    BY <1>1, Numbers DEF FreeFrames, Frames, PastEnd, Frame
  <2>2. ~(c < start_frame_id)
    BY <1>1, <1>5 DEF IInv, Searching
  <2>3. start_frame_id + i \in Run(c, num_frames)
    <3>1. c + num_frames - 1 >= start_frame_id + i
      BY <2>1, <2>2
    <3>2. QED
      BY <2>1, <2>2, <3>1 DEF Run
  <2>4. start_frame_id + i \notin FreeFrames
    BY <2>1 DEF FreeFrames
  <2>5. QED
    BY <1>5, <2>3, <2>4
<1>6. QED
  BY <1>2, <1>3, <1>4, <1>5 DEF IInv

\* No run is missed by going on behind the frame that is taken.
LEMMA FrameTakenStep ==
  ASSUME IInv, FrameTaken
  PROVE  IInv'
<1> USE DEF FrameTaken, Looking
<1>1. TypeOK /\ pc = "search" /\ pc' = "search" /\ pc' # "map"
  BY DEF IInv
<1>2. /\ num_frames \in Nat /\ start_frame_id \in Nat /\ i \in Nat /\ i < num_frames
      /\ num_frames >= 1 /\ start_frame_id >= 1 /\ FrameCount \in Nat
      /\ start_frame_id' = start_frame_id + i + 1 /\ i' = 0 /\ num_frames' = num_frames
  BY <1>1, Numbers DEF IInv, Searching
<1>3. TypeOK'
  <2>1. start_frame_id' \in Nat /\ i' \in Nat
    BY <1>2
  <2>2. QED
    BY <1>1, <2>1 DEF TypeOK, map, range, heap
<1>4. MapRead' /\ Accounting' /\ BlocksDisjoint' /\ HeapInside' /\ FreeFrames' = FreeFrames
  BY <1>1, KeptParts
<1>5. start_frame_id + i \notin FreeFrames
  BY <1>1, FrameIsFree
<1>6. ASSUME NEW c \in FreeFrames, c < start_frame_id + i + 1
      PROVE  \E f \in Run(c, num_frames) : f \notin FreeFrames
  <2>1. c \in Nat
    BY <1>2 DEF FreeFrames, Frames
  <2>2. CASE c < start_frame_id
    BY <1>1, <2>2 DEF IInv, Searching
  <2>3. CASE ~(c < start_frame_id)
    <3>1. start_frame_id + i \in Run(c, num_frames)
      <4>1. c <= start_frame_id + i /\ start_frame_id + i <= c + num_frames - 1
        BY <1>2, <1>6, <2>1, <2>3
      <4>2. QED
        BY <1>2, <2>1, <4>1 DEF Run
    <3>2. QED
      BY <1>5, <3>1
  <2>4. QED
    BY <2>2, <2>3
<1>7. Searching'
  <2>1. \A f : f \notin Run(start_frame_id + i + 1, 0)
    BY <1>2 DEF Run
  <2>2. start_frame_id' >= 1 /\ i' <= num_frames'
    BY <1>2
  <2>3. QED
    BY <1>2, <1>4, <1>6, <2>1, <2>2 DEF Searching
<1>8. HeapFirst'
  BY <1>1 DEF IInv, HeapFirst, heap
<1>9. QED
  BY <1>3, <1>4, <1>7, <1>8 DEF IInv

\* The run looked at grows by a free frame.
LEMMA FrameFreeStep ==
  ASSUME IInv, FrameFree
  PROVE  IInv'
<1> USE DEF FrameFree, Looking
<1>1. TypeOK /\ pc = "search" /\ pc' = "search" /\ pc' # "map"
  BY DEF IInv
<1>2. /\ num_frames \in Nat /\ start_frame_id \in Nat /\ i \in Nat /\ i < num_frames
      /\ num_frames >= 1 /\ start_frame_id >= 1
      /\ i' = i + 1 /\ start_frame_id' = start_frame_id /\ num_frames' = num_frames
  BY <1>1, Numbers DEF IInv, Searching
<1>3. TypeOK'
  <2>1. i' \in Nat
    BY <1>2
  <2>2. QED
    BY <1>1, <2>1 DEF TypeOK, map, range, heap
<1>4. MapRead' /\ Accounting' /\ BlocksDisjoint' /\ HeapInside' /\ FreeFrames' = FreeFrames
  BY <1>1, KeptParts
<1>5. start_frame_id + i \in FreeFrames
  BY <1>1, FrameIsFree
<1>6. \A f \in Run(start_frame_id, i + 1) : f \in Run(start_frame_id, i) \/ f = start_frame_id + i
  BY <1>2 DEF Run
<1>7. Searching'
  <2>1. i' <= num_frames'
    BY <1>2
  <2>2. \A f \in Run(start_frame_id, i + 1) : f \in FreeFrames
    BY <1>1, <1>5, <1>6 DEF IInv, Searching
  <2>3. QED
    BY <1>1, <1>2, <1>4, <2>1, <2>2 DEF IInv, Searching
<1>8. HeapFirst'
  BY <1>1 DEF IInv, HeapFirst, heap
<1>9. QED
  BY <1>3, <1>4, <1>7, <1>8 DEF IInv

\* Bytes of frames.
LEMMA Bytes ==
  ASSUME NEW b \in Nat
  PROVE  /\ BytesPerFrame \in Nat /\ b * BytesPerFrame \in Nat
         /\ HeapFrames * BytesPerFrame \in Nat /\ HeapFrames * BytesPerFrame >= 1
         /\ (b + HeapFrames) * BytesPerFrame = b * BytesPerFrame + HeapFrames * BytesPerFrame
<1>1. /\ BytesPerFrame \in Nat /\ BytesPerFrame >= 1
      /\ HeapFrames \in Nat /\ HeapFrames >= 1
  BY FramesAssumption
<1>2. \A x, y \in Nat : x * y \in Nat
  OBVIOUS
<1>3. \A x, y, z \in Nat : (x + y) * z = x * z + y * z
  OBVIOUS
<1>4. \A x, y \in Nat : x >= 1 /\ y >= 1 => x * y >= 1
  OBVIOUS
<1>5. QED
  BY <1>1, <1>2, <1>3, <1>4

\* The run found becomes a block, apart from all others; the first one is the
\* heap's.
LEMMA FoundStep ==
  ASSUME IInv, Found
  PROVE  /\ IInv'
         /\ start_frame_id \in FreeFrames
         /\ Run(start_frame_id, num_frames) \subseteq FreeFrames
         /\ \A c \in FreeFrames : c < start_frame_id => ~(Run(c, num_frames) \subseteq FreeFrames)
         /\ FreeFrames' = FreeFrames \ Run(start_frame_id, num_frames)
<1> USE DEF Found
<1> DEFINE new == [begin |-> start_frame_id, frames |-> num_frames]
<1>1. TypeOK /\ pc = "search" /\ pc' = "ready" /\ i = num_frames
  BY DEF IInv
<1>2. /\ num_frames \in Nat /\ start_frame_id \in Nat /\ num_frames >= 1 /\ start_frame_id >= 1
      /\ FrameCount \in Nat /\ HeapFrames \in Nat
  BY <1>1, Numbers DEF IInv, Searching
<1>3. Run(start_frame_id, num_frames) \subseteq FreeFrames
  BY <1>1 DEF IInv, Searching
<1>4. start_frame_id \in Run(start_frame_id, num_frames)
      /\ start_frame_id + num_frames - 1 \in Run(start_frame_id, num_frames)
  BY <1>2 DEF Run
<1>5. /\ start_frame_id \in Frames /\ num_frames \in 1..FrameCount
      /\ start_frame_id \in FreeFrames
  BY <1>2, <1>3, <1>4 DEF FreeFrames, Frames
<1>6. new \in Block /\ new.begin = start_frame_id /\ new.frames = num_frames
  BY <1>5 DEF Block
<1>7. \A f \in Run(start_frame_id, num_frames) :
        /\ f \in Usable \ {0} /\ f \in Frames
        /\ \A b \in blocks : f \notin Run(b.begin, b.frames)
  BY <1>1, <1>3 DEF IInv, Accounting, FreeFrames
<1>8. FreeFrames' = FreeFrames \ Run(start_frame_id, num_frames)
  BY DEF FreeFrames, range
<1>9. Usable' = Usable
  BY DEF Usable, map
<1>10. blocks' = blocks \union {new}
  OBVIOUS
<1>11. heap_start' = IF heap_start = 0 THEN start_frame_id ELSE heap_start
  BY DEF SetUpHeap, heap
<1>12. start_frame_id * BytesPerFrame \in Nat /\ num_frames * BytesPerFrame \in Nat
  <2>1. BytesPerFrame \in Nat
    BY FramesAssumption
  <2>2. \A x, y \in Nat : x * y \in Nat
    OBVIOUS
  <2>3. QED
    BY <1>2, <2>1, <2>2
<1>13. TypeOK'
  <2>1. alloc_map' \in SUBSET Frames
    BY <1>1, <1>7 DEF TypeOK
  <2>2. blocks' \in SUBSET Block
    BY <1>1, <1>6, <1>10 DEF TypeOK
  <2>3. heap_start' \in Frames \union {0}
    BY <1>1, <1>5, <1>11 DEF TypeOK
  <2>4. program_break' \in Nat /\ program_break_end' \in Nat
    BY <1>1, <1>12 DEF TypeOK, SetUpHeap, heap
  <2>5. QED
    BY <1>1, <2>1, <2>2, <2>3, <2>4 DEF TypeOK, map, range, search
<1>14. MapRead' /\ Searching'
  BY <1>1 DEF MapRead, Searching
<1>15. Accounting'
  <2>1. \A f \in Frames :
          (\A b \in blocks' : f \notin Run(b.begin, b.frames)) <=>
            f \notin Run(start_frame_id, num_frames) /\ \A b \in blocks : f \notin Run(b.begin, b.frames)
    BY <1>6, <1>10
  <2>2. QED
    BY <1>1, <1>8, <1>9, <2>1 DEF IInv, Accounting, range, Frames
<1>16. BlocksDisjoint'
  <2>1. ASSUME NEW b \in blocks'
        PROVE  Run(b.begin, b.frames) \subseteq Usable \ {0}
    BY <1>6, <1>7, <1>10 DEF IInv, BlocksDisjoint
  <2>2. ASSUME NEW b \in blocks', NEW c \in blocks', b # c
        PROVE  Run(b.begin, b.frames) \intersect Run(c.begin, c.frames) = {}
    <3>1. CASE b \in blocks /\ c \in blocks
      BY <2>2, <3>1 DEF IInv, BlocksDisjoint
    <3>2. CASE b = new /\ c \in blocks
      BY <1>6, <1>7, <3>2
    <3>3. CASE b \in blocks /\ c = new
      BY <1>6, <1>7, <3>3
    <3>4. QED
      BY <1>10, <2>2, <3>1, <3>2, <3>3
  <2>3. QED
    BY <1>9, <2>1, <2>2 DEF BlocksDisjoint
<1>17. ASSUME heap_start = 0 PROVE HeapFirst' /\ HeapInside'
  <2>1. /\ heap_start' = start_frame_id /\ num_frames = HeapFrames
        /\ program_break' = start_frame_id * BytesPerFrame
        /\ program_break_end' = start_frame_id * BytesPerFrame + HeapFrames * BytesPerFrame
    BY <1>1, <1>17 DEF SetUpHeap, IInv, HeapFirst
  <2>2. HeapFirst'
    <3>1. (start_frame_id + HeapFrames) * BytesPerFrame
            = start_frame_id * BytesPerFrame + HeapFrames * BytesPerFrame
      BY <1>2, Bytes
    <3>2. QED
      BY <1>1, <1>2, <2>1, <3>1 DEF HeapFirst
  <2>3. HeapInside'
    <3>1. [begin |-> heap_start', frames |-> HeapFrames] \in blocks'
      BY <1>10, <2>1
    <3>2. /\ start_frame_id * BytesPerFrame <= program_break'
          /\ program_break' < (start_frame_id + HeapFrames) * BytesPerFrame
      <4>1. /\ start_frame_id * BytesPerFrame \in Nat
            /\ HeapFrames * BytesPerFrame \in Nat /\ HeapFrames * BytesPerFrame >= 1
            /\ (start_frame_id + HeapFrames) * BytesPerFrame
                 = start_frame_id * BytesPerFrame + HeapFrames * BytesPerFrame
        BY <1>2, Bytes
      <4>2. QED
        BY <2>1, <4>1
    <3>3. QED
      BY <2>1, <3>1, <3>2 DEF HeapInside
  <2>4. QED
    BY <2>2, <2>3
<1>18. ASSUME heap_start # 0 PROVE HeapFirst' /\ HeapInside'
  <2>1. heap_start' = heap_start /\ program_break' = program_break
        /\ program_break_end' = program_break_end
    BY <1>18 DEF heap
  <2>2. QED
    BY <1>1, <1>10, <1>18, <2>1 DEF IInv, HeapFirst, HeapInside
<1>19. HeapFirst' /\ HeapInside'
  BY <1>17, <1>18
<1>20. \A c \in FreeFrames : c < start_frame_id => ~(Run(c, num_frames) \subseteq FreeFrames)
  BY <1>1 DEF IInv, Searching
<1>21. QED
  BY <1>3, <1>5, <1>8, <1>13, <1>14, <1>15, <1>16, <1>19, <1>20 DEF IInv

\* A block given back is free again, and the heap stays.
LEMMA FreeStep ==
  ASSUME IInv, Free
  PROVE  /\ IInv'
         /\ \E block \in blocks :
              /\ FreeFrames' = FreeFrames \union Run(block.begin, block.frames)
              /\ blocks' = blocks \ {block}
<1> USE DEF Free
<1>1. TypeOK /\ pc = "ready" /\ pc' = "ready"
  BY DEF IInv
<1>2. PICK block \in blocks :
        /\ block.begin # heap_start
        /\ alloc_map' = alloc_map \ Run(block.begin, block.frames)
        /\ blocks' = blocks \ {block}
  OBVIOUS
<1>3. FrameCount \in Nat /\ range_begin = 1 /\ range_end \in 0..FrameCount
  BY <1>1, Numbers DEF IInv, Accounting
<1>4. TypeOK'
  BY <1>1, <1>2 DEF TypeOK, map, range, search, heap
<1>5. Usable' = Usable
  BY DEF Usable, map
<1>6. \A f \in Run(block.begin, block.frames) :
        /\ f \in Frames /\ f \in Usable \ {0} /\ f < range_end
        /\ \A b \in blocks \ {block} : f \notin Run(b.begin, b.frames)
  BY <1>1 DEF IInv, BlocksDisjoint, Accounting, Usable
<1>7. \A f \in Run(block.begin, block.frames) : 1 <= f
  BY <1>3, <1>6 DEF Frames
<1>8. FreeFrames' = FreeFrames \union Run(block.begin, block.frames)
  BY <1>2, <1>3, <1>6, <1>7 DEF FreeFrames, range
<1>9. Accounting'
  <2>1. \A f \in Frames : f \in FreeFrames' <=>
          f \in Usable \ {0} /\ \A b \in blocks' : f \notin Run(b.begin, b.frames)
    <3> SUFFICES ASSUME NEW f \in Frames
                 PROVE  f \in FreeFrames' <=>
                          f \in Usable \ {0} /\ \A b \in blocks' : f \notin Run(b.begin, b.frames)
      OBVIOUS
    <3>1. CASE f \in Run(block.begin, block.frames)
      BY <1>2, <1>6, <1>8, <3>1
    <3>2. CASE f \notin Run(block.begin, block.frames)
      <4>1. f \in FreeFrames <=> f \in Usable \ {0} /\ \A b \in blocks : f \notin Run(b.begin, b.frames)
        BY <1>1 DEF IInv, Accounting
      <4>2. QED
        BY <1>2, <1>8, <3>2, <4>1
    <3>3. QED
      BY <3>1, <3>2
  <2>2. QED
    BY <1>1, <1>3, <1>5, <2>1 DEF IInv, Accounting, range, Frames
<1>10. BlocksDisjoint'
  BY <1>2, <1>5 DEF IInv, BlocksDisjoint
<1>11. HeapInside' /\ HeapFirst'
  <2>1. [begin |-> heap_start, frames |-> HeapFrames] # block
    BY <1>2
  <2>2. QED
    BY <1>1, <1>2, <2>1 DEF IInv, HeapInside, HeapFirst, heap
<1>12. MapRead' /\ Searching'
  BY <1>1 DEF MapRead, Searching
<1>13. QED
  BY <1>2, <1>4, <1>8, <1>9, <1>10, <1>11, <1>12 DEF IInv

\* The break stays in the heap.
LEMMA SbrkStep ==
  ASSUME IInv, Sbrk
  PROVE  IInv'
<1> USE DEF Sbrk
<1>1. TypeOK /\ pc = "ready" /\ pc' = "ready" /\ pc # "map" /\ pc' # "map"
  BY DEF IInv
<1>2. /\ heap_start # 0 /\ heap_start \in Nat
      /\ program_break_end = (heap_start + HeapFrames) * BytesPerFrame
  <2>1. FrameCount \in Nat
    BY FramesAssumption
  <2>2. heap_start \in Nat
    BY <1>1, <2>1 DEF TypeOK, Frames
  <2>3. QED
    BY <1>1, <2>2 DEF IInv, HeapFirst
<1>3. PICK incr \in (-MaxIncrement)..MaxIncrement :
        /\ program_break + incr >= heap_start * BytesPerFrame
        /\ program_break + incr < program_break_end
        /\ program_break' = program_break + incr
  OBVIOUS
<1>4. heap_start * BytesPerFrame \in Nat
  BY <1>2, Bytes
<1>5. /\ program_break' \in Nat
      /\ heap_start * BytesPerFrame <= program_break'
      /\ program_break' < (heap_start + HeapFrames) * BytesPerFrame
  <2>1. MaxIncrement \in Nat /\ program_break \in Nat
    BY <1>1, FramesAssumption DEF TypeOK
  <2>2. QED
    BY <1>2, <1>3, <1>4, <2>1
<1>6. TypeOK'
  BY <1>1, <1>5 DEF TypeOK, map, range, search
<1>7. Usable' = Usable /\ FreeFrames' = FreeFrames
  BY DEF Usable, FreeFrames, map, range
<1>8. Accounting' /\ BlocksDisjoint' /\ MapRead' /\ Searching'
  BY <1>1, <1>7 DEF IInv, Accounting, BlocksDisjoint, MapRead, Searching, range
<1>9. HeapFirst' /\ HeapInside'
  BY <1>1, <1>5 DEF IInv, HeapFirst, HeapInside
<1>10. QED
  BY <1>6, <1>8, <1>9 DEF IInv

\* Every step keeps the invariant.
LEMMA NextIInv == IInv /\ [Next]_vars => IInv'
<1> SUFFICES ASSUME IInv, [Next]_vars PROVE IInv'
  OBVIOUS
<1>1. CASE UNCHANGED vars
  BY <1>1 DEF IInv, TypeOK, MapRead, Accounting, Searching, HeapFirst, BlocksDisjoint, HeapInside,
              Usable, FreeFrames, vars, map, range, search, heap
<1>2. CASE InitializeHeap
  BY <1>2, StartStep, FramesAssumption DEF InitializeHeap
<1>3. CASE StartAllocate
  <2>1. PICK n \in 1..FrameCount : Start(n)
    BY <1>3 DEF StartAllocate
  <2>2. n \in Nat /\ n >= 1
    BY FramesAssumption
  <2>3. QED
    BY <1>3, <2>1, <2>2, StartStep DEF StartAllocate
<1>4. QED
  BY <1>1, <1>2, <1>3, ReadDescriptorStep, SetMemoryRangeStep, NoEnoughMemoryStep,
     FrameTakenStep, FrameFreeStep, FoundStep, FreeStep, SbrkStep
  DEF Next, Search

\* Hence it always holds.
LEMMA Invariance == Spec => []IInv
BY InitIInv, NextIInv, PTL DEF Spec

\* The search does not leave the bitmap, and the other variables keep their types.
THEOREM TypeCorrect == Spec => []TypeOK
<1>1. IInv => TypeOK
  BY DEF IInv
<1>2. QED
  BY <1>1, Invariance, PTL

\* Allocate and Free (memory_manager.cpp:12-52): no frame is given to two parties,
\* and none that is not usable memory, whatever the memory map and the requests.
THEOREM BlocksAreDisjoint == Spec => []BlocksDisjoint
<1>1. IInv => BlocksDisjoint
  BY DEF IInv
<1>2. QED
  BY <1>1, Invariance, PTL

\* sbrk (newlib_support.c:26-36): the heap is a block of its own all the time, and
\* the break stays in it.
THEOREM HeapStaysInside == Spec => []HeapInside
<1>1. IInv => HeapInside
  BY DEF IInv
<1>2. QED
  BY <1>1, Invariance, PTL

\* Blocks are added by Found alone.
LEMMA BlocksKept ==
  ASSUME [Next]_vars, ~Found
  PROVE  blocks' \subseteq blocks
BY DEF Next, Search, ReadDescriptor, SetMemoryRange, InitializeHeap, StartAllocate, Start,
       NoEnoughMemory, FrameTaken, FrameFree, Free, Sbrk, vars

\* Allocate (memory_manager.cpp:12-39) takes the first run that is long enough:
\* going on behind a frame that is taken misses none.
THEOREM LowestIsTaken == Spec => LowestFit
<1> DEFINE Lowest ==
  \A b \in blocks' \ blocks :
     \A f \in FreeFrames : f < b.begin => ~(Run(f, b.frames) \subseteq FreeFrames)
<1>1. IInv /\ [Next]_vars => [Lowest]_vars
  <2> SUFFICES ASSUME IInv, [Next]_vars PROVE Lowest
    OBVIOUS
  <2>1. CASE Found
    <3>1. \A c \in FreeFrames : c < start_frame_id => ~(Run(c, num_frames) \subseteq FreeFrames)
      BY <2>1, FoundStep
    <3>2. \A b \in blocks' \ blocks : b.begin = start_frame_id /\ b.frames = num_frames
      BY <2>1 DEF Found
    <3>3. QED
      BY <3>1, <3>2
  <2>2. CASE ~Found
    BY <2>2, BlocksKept
  <2>3. QED
    BY <2>1, <2>2
<1>2. QED
  BY <1>1, Invariance, PTL DEF Spec, LowestFit

\* The allocator implements the pool (memory_manager.cpp): the bitmap holds exactly
\* what is usable and not given out, from the memory map onwards, and a request is
\* refused only if no run is long enough.
THEOREM ImplementsFramePool == Spec => ImplementsPool
<1> DEFINE free == IF pc = "map" THEN {} ELSE FreeFrames
           request == IF pc = "search" THEN num_frames ELSE 0
<1>1. Init => Pool!Init
  BY DEF Init, Pool!Init
<1>2. IInv /\ [Next]_vars => [Pool!Next]_<<Usable, free, blocks, request>>
  <2> SUFFICES ASSUME IInv, [Next]_vars
               PROVE  [Pool!Next]_<<Usable, free, blocks, request>>
    OBVIOUS
  <2>1. UNCHANGED map => Usable' = Usable
    BY DEF Usable, map
  <2>2. UNCHANGED memory_map => Usable' = Usable
    BY DEF Usable
  <2>3. UNCHANGED <<range, alloc_map>> => FreeFrames' = FreeFrames
    BY DEF FreeFrames, range
  <2>4. CASE ReadDescriptor
    BY <2>2, <2>4 DEF ReadDescriptor
  <2>5. CASE SetMemoryRange
    <3>1. pc = "map" /\ pc' = "heap" /\ blocks = {} /\ blocks' = {}
      BY <2>5 DEF SetMemoryRange, IInv, MapRead
    <3>2. Usable' = Usable /\ FreeFrames' = Usable \ {0}
      BY <2>1, <2>5, SetMemoryRangeStep DEF SetMemoryRange
    <3>3. Pool!Open
      BY <3>1, <3>2 DEF Pool!Open
    <3>4. QED
      BY <3>3 DEF Pool!Next
  <2>6. ASSUME NEW n \in Nat, n >= 1, Start(n), pc \in {"heap", "ready"}
        PROVE  [Pool!Next]_<<Usable, free, blocks, request>>
    <3>1. Usable' = Usable /\ FreeFrames' = FreeFrames /\ blocks' = blocks
      BY <2>1, <2>3, <2>6 DEF Start
    <3>2. pc' = "search" /\ num_frames' = n /\ n \in Nat \ {0}
      BY <2>6 DEF Start
    <3>3. Pool!Request
      BY <2>6, <3>1, <3>2 DEF Pool!Request
    <3>4. QED
      BY <3>3 DEF Pool!Next
  <2>7. CASE InitializeHeap
    BY <2>6, <2>7, FramesAssumption DEF InitializeHeap
  <2>8. CASE StartAllocate
    <3>1. PICK n \in 1..FrameCount : Start(n)
      BY <2>8 DEF StartAllocate
    <3>2. n \in Nat /\ n >= 1
      BY FramesAssumption
    <3>3. QED
      BY <2>6, <2>8, <3>1, <3>2 DEF StartAllocate
  <2>9. CASE NoEnoughMemory
    <3>1. /\ pc = "search" /\ pc' \in {"exit", "ready"} /\ num_frames # 0
          /\ Usable' = Usable /\ FreeFrames' = FreeFrames /\ blocks' = blocks
      BY <2>1, <2>3, <2>9, Numbers DEF NoEnoughMemory, Looking, IInv, Searching
    <3>2. \A c \in FreeFrames : ~(Run(c, num_frames) \subseteq FreeFrames)
      BY <2>9, NoEnoughMemoryStep
    <3>3. Pool!Refuse
      BY <3>1, <3>2 DEF Pool!Refuse, Pool!Fits, Pool!Run, Run
    <3>4. QED
      BY <3>3 DEF Pool!Next
  <2>10. CASE FrameTaken \/ FrameFree
    BY <2>1, <2>3, <2>10 DEF FrameTaken, FrameFree, Looking
  <2>11. CASE Found
    <3>1. /\ pc = "search" /\ pc' = "ready" /\ num_frames # 0 /\ Usable' = Usable
          /\ blocks' = blocks \union {[begin |-> start_frame_id, frames |-> num_frames]}
      BY <2>1, <2>11, Numbers DEF Found, IInv, Searching
    <3>2. /\ start_frame_id \in FreeFrames
          /\ Run(start_frame_id, num_frames) \subseteq FreeFrames
          /\ FreeFrames' = FreeFrames \ Run(start_frame_id, num_frames)
      BY <2>11, FoundStep
    <3>3. Pool!Allocate
      BY <3>1, <3>2 DEF Pool!Allocate, Pool!Fits, Pool!Run, Run
    <3>4. QED
      BY <3>3 DEF Pool!Next
  <2>12. CASE Free
    <3>1. pc = "ready" /\ pc' = "ready" /\ Usable' = Usable
      BY <2>1, <2>12 DEF Free
    <3>2. \E block \in blocks :
            /\ FreeFrames' = FreeFrames \union Run(block.begin, block.frames)
            /\ blocks' = blocks \ {block}
      BY <2>12, FreeStep
    <3>3. Pool!Free
      BY <3>1, <3>2 DEF Pool!Free, Pool!Run, Run
    <3>4. QED
      BY <3>3 DEF Pool!Next
  <2>13. CASE Sbrk
    BY <2>1, <2>3, <2>13 DEF Sbrk
  <2>14. CASE UNCHANGED vars
    BY <2>1, <2>3, <2>14 DEF vars, search
  <2>15. QED
    BY <2>4, <2>5, <2>7, <2>8, <2>9, <2>10, <2>11, <2>12, <2>13, <2>14 DEF Next, Search
<1>3. QED
  BY <1>1, <1>2, Invariance, PTL DEF Spec, ImplementsPool, Pool!Spec

=============================================================================
