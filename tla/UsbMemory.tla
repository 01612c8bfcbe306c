----------------------------- MODULE UsbMemory -----------------------------
(***************************************************************************)
(* The memory pool of the USB driver (src/kernel/usb/memory.cpp): a        *)
(* pointer that moves through the pool and never back. FreeMem does        *)
(* nothing.                                                                *)
(*                                                                         *)
(* An operator named _Mutant is what a plausible slip would have made of   *)
(* the definition after it; nothing refers to it.                          *)
(***************************************************************************)
EXTENDS Integers

CONSTANTS
  PoolBases,  \* where memory_pool may lie; it is aligned to 64 bytes only
  PoolSize    \* kMemoryPoolSize

ASSUME UsbMemoryAssumption == PoolBases \subseteq Nat /\ PoolSize \in Nat

VARIABLES
  pool_base,  \* memory_pool
  alloc_ptr,  \* the first byte that may be free
  blocks      \* what has been handed out: [at, size, alignment, boundary]

pool == <<pool_base, alloc_ptr, blocks>>

Null == -1

MemoryInit == pool_base = 0 /\ alloc_ptr = 0 /\ blocks = {}

\* The pool is where the linker has put it.
MemoryFound ==
  /\ pool_base' \in PoolBases
  /\ alloc_ptr' = pool_base'
  /\ UNCHANGED blocks

Ceil(value, alignment) == ((value + alignment - 1) \div alignment) * alignment

\* Where a block would begin, were there room for it. The end of the block is
\* not looked at.
BlockAt_Mutant(size, alignment, boundary) ==
  IF alignment > 0 THEN Ceil(alloc_ptr, alignment) ELSE alloc_ptr

BlockAt(size, alignment, boundary) ==
  LET aligned == IF alignment > 0 THEN Ceil(alloc_ptr, alignment) ELSE alloc_ptr
      next_boundary == IF boundary > 0 THEN Ceil(aligned, boundary) ELSE aligned
  IN  IF boundary > 0 /\ next_boundary < aligned + size THEN next_boundary ELSE aligned

\* What AllocMem returns. In a pool without room for the block the pointer has
\* been moved to where it would begin.
Allocated(size, alignment, boundary) ==
  LET at == BlockAt(size, alignment, boundary)
  IN  IF pool_base + PoolSize < at + size THEN Null ELSE at

AllocMem(size, alignment, boundary) ==
  LET at == BlockAt(size, alignment, boundary) IN
  /\ IF Allocated(size, alignment, boundary) = Null
       THEN alloc_ptr' = at /\ UNCHANGED blocks
       ELSE /\ alloc_ptr' = at + size
            /\ blocks' = blocks \cup
                 {[at |-> at, size |-> size, alignment |-> alignment, boundary |-> boundary]}
  /\ UNCHANGED pool_base

-----------------------------------------------------------------------------
(* Properties.                                                             *)

\* The blocks that the driver and the controller share lie apart in the pool,
\* aligned as asked for, and across no boundary that they are small enough not
\* to cross.
BlocksAsAsked ==
  \A b \in blocks :
    /\ pool_base <= b.at /\ b.at + b.size <= pool_base + PoolSize
    /\ b.alignment > 0 => b.at % b.alignment = 0
    /\ b.boundary > 0 /\ b.size <= b.boundary =>
         b.at \div b.boundary = (b.at + b.size - 1) \div b.boundary
    /\ \A c \in blocks \ {b} : b.at + b.size <= c.at \/ c.at + c.size <= b.at

=============================================================================
