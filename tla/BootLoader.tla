----------------------------- MODULE BootLoader -----------------------------
(***************************************************************************)
(* The boot loader (src/MikanLoaderPkg/Main.c), a UEFI application: it     *)
(* reads the kernel's ELF file into a temporary buffer, copies its         *)
(* segments to the addresses they are linked for, takes leave of the       *)
(* firmware with the key of a current memory map, and enters the kernel    *)
(* with that map and the screen's configuration.                           *)
(*                                                                         *)
(* Memory is a row of cells, some to a page. A cell's content is the       *)
(* offset of the file's cell copied there, Zero or Junk. The firmware      *)
(* knows the use of every page and changes the key of its map with it; it  *)
(* may take memory for itself at any time.                                 *)
(*                                                                         *)
(* An operator named _Mutant is what a plausible slip would have made of   *)
(* the definition after it; nothing refers to it.                          *)
(***************************************************************************)
EXTENDS Integers, FiniteSetsExt

CONSTANTS
  PageSize,        \* cells in a page
  Pages,           \* pages of memory
  EntryOffset,     \* where the ELF header keeps the entry point: 24
  Images,          \* kernel files: [size |-> cells, headers |-> program headers]
  MaxDisturbances  \* bound: times the firmware takes memory for itself

Junk == -1
Zero == -2

\* What the program headers of type PT_LOAD are about.
LoadSegments(file) == {h \in file.headers : h.load}

FilePart(s) == s.vaddr..(s.vaddr + s.filesz - 1)
ZeroPart(s) == (s.vaddr + s.filesz)..(s.vaddr + s.memsz - 1)

ProgramHeader == [load : BOOLEAN, vaddr : Nat, offset : Nat, filesz : Nat, memsz : Nat]

\* The cells of a kernel are in memory and in its file, its segments apart, and
\* the first begins a page and has the ELF header in it, as the linker lays them.
ASSUME BootLoaderAssumption ==
  /\ {PageSize, Pages} \subseteq Nat \ {0} /\ {EntryOffset, MaxDisturbances} \subseteq Nat
  /\ \A file \in Images :
       /\ file.size \in Nat \ {0} /\ file.headers \subseteq ProgramHeader
       /\ \A s \in LoadSegments(file) :
            /\ s.filesz <= s.memsz /\ s.offset + s.filesz <= file.size
            /\ s.vaddr + s.memsz <= Pages * PageSize
            /\ \A t \in LoadSegments(file) \ {s} :
                 (FilePart(s) \cup ZeroPart(s)) \cap (FilePart(t) \cup ZeroPart(t)) = {}
       /\ \E s \in LoadSegments(file) :
            /\ \A t \in LoadSegments(file) : s.vaddr <= t.vaddr
            /\ s.vaddr % PageSize = 0 /\ s.offset = 0 /\ EntryOffset < s.filesz
       /\ \E s \in LoadSegments(file) :
            \A t \in LoadSegments(file) : t.vaddr + t.memsz <= s.vaddr + s.memsz

VARIABLES
  loader,         \* what UefiMain does next, "halted", or "entered"
  image,          \* the kernel file
  page_type,      \* the firmware's use of each page
  map_key,        \* the key of that use
  boot_services,  \* whether the firmware is still in charge
  disturbances,   \* times the firmware has taken memory for itself
  memory,         \* content of each cell
  memmap,         \* the loader's copy of the map: [types, map_key]
  kernel_buffer,  \* first page of the temporary buffer
  kernel_first    \* kernel_first_addr

firmware == <<page_type, map_key, boot_services, disturbances>>
loader_vars == <<loader, image, firmware, memory, memmap, kernel_buffer, kernel_first>>

PageSet == 0..(Pages - 1)
Cells == 0..(Pages * PageSize - 1)
PageOf(cell) == cell \div PageSize
Rounded(cells) == (cells + PageSize - 1) \div PageSize

\* Page 0 has the loader, its stack and with it the buffer of the map; the rest
\* is free, but for a page that the machine may keep to itself.
LoaderInit ==
  /\ loader = "get_map"
  /\ image \in Images
  /\ \E kept \in SUBSET (PageSet \ {0}) :
       /\ Cardinality(kept) <= 1
       /\ page_type = [p \in PageSet |-> CASE p = 0 -> "boot_services"
                                           [] p \in kept -> "reserved"
                                           [] OTHER -> "conventional"]
  /\ map_key = 1 /\ boot_services = TRUE /\ disturbances = 0
  /\ memory = [c \in Cells |-> Junk]
  /\ memmap = [types |-> [p \in PageSet |-> "none"], map_key |-> 0]
  /\ kernel_buffer = 0 /\ kernel_first = 0

-----------------------------------------------------------------------------
(* The firmware.                                                           *)

\* The use of the pages changes, and with it the key of the map.
Use(pages, type) ==
  /\ page_type' = [p \in PageSet |-> IF p \in pages THEN type ELSE page_type[p]]
  /\ map_key' = map_key + 1

Conventional(pages) == \A p \in pages : p \in PageSet /\ page_type[p] = "conventional"

\* A driver of the firmware takes a page, on a timer or within some call.
FirmwareAllocates ==
  /\ boot_services /\ loader # "halted"
  /\ disturbances < MaxDisturbances
  /\ disturbances' = disturbances + 1
  /\ \E p \in PageSet : Conventional({p}) /\ Use({p}, "boot_services")
  /\ UNCHANGED <<loader, image, boot_services, memory, memmap, kernel_buffer, kernel_first>>

-----------------------------------------------------------------------------
(* The loader.                                                             *)

Step(from, to) == loader = from /\ loader' = to /\ UNCHANGED image

GetMemoryMap == memmap' = [types |-> page_type, map_key |-> map_key]

\* Every call may fail, which is met with Halt.
FailCall ==
  /\ loader \notin {"save_map", "exit", "enter", "entered", "halted"}
  /\ loader' = "halted"
  /\ UNCHANGED <<image, firmware, memory, memmap, kernel_buffer, kernel_first>>

GetFirstMap ==
  /\ Step("get_map", "open_root")
  /\ GetMemoryMap
  /\ UNCHANGED <<firmware, memory, kernel_buffer, kernel_first>>

OpenRootDir ==
  /\ Step("open_root", "save_map")
  /\ UNCHANGED <<firmware, memory, memmap, kernel_buffer, kernel_first>>

\* A file that cannot be opened is done without; one that cannot be written is not.
SaveMemoryMap ==
  /\ Step("save_map", "open_gop") \/ Step("save_map", "halted")
  /\ UNCHANGED <<firmware, memory, memmap, kernel_buffer, kernel_first>>

\* The buffer with the handles comes and goes.
OpenGOP ==
  /\ Step("open_gop", "open_kernel")
  /\ Use({}, "loader")
  /\ UNCHANGED <<boot_services, disturbances, memory, memmap, kernel_buffer, kernel_first>>

OpenKernel ==
  /\ Step("open_kernel", "allocate_buffer")
  /\ UNCHANGED <<firmware, memory, memmap, kernel_buffer, kernel_first>>

\* The pages of the temporary buffer, which the firmware places where it likes.
BufferPages(first) == first..(first + Rounded(image.size) - 1)

AllocateBuffer ==
  /\ Step("allocate_buffer", "read_file")
  /\ \E first \in PageSet :
       /\ Conventional(BufferPages(first))
       /\ kernel_buffer' = first
       /\ Use(BufferPages(first), "loader")
  /\ UNCHANGED <<boot_services, disturbances, memory, memmap, kernel_first>>

BufferCell(offset) == kernel_buffer * PageSize + offset

ReadFile ==
  /\ Step("read_file", "allocate_pages")
  /\ memory' = [c \in Cells |->
       IF c \in BufferCell(0)..BufferCell(image.size - 1) THEN c - BufferCell(0) ELSE memory[c]]
  /\ UNCHANGED <<firmware, memmap, kernel_buffer, kernel_first>>

\* CalcLoadAddressRange, which looks at nothing but the segments to be loaded.
FirstAddress == Min({s.vaddr : s \in LoadSegments(image)})
LastAddress == Max({s.vaddr + s.memsz : s \in LoadSegments(image)})

\* Rounded down.
KernelPages_Mutant ==
  PageOf(FirstAddress)..(PageOf(FirstAddress) + (LastAddress - FirstAddress) \div PageSize - 1)

KernelPages ==
  PageOf(FirstAddress)..(PageOf(FirstAddress) + Rounded(LastAddress - FirstAddress) - 1)

\* As memory of the firmware's own, which the kernel takes over when it is up.
AllocatePages_Mutant ==
  /\ Step("allocate_pages", "copy_segments")
  /\ Conventional(KernelPages)
  /\ Use(KernelPages, "boot_services")
  /\ kernel_first' = FirstAddress
  /\ UNCHANGED <<boot_services, disturbances, memory, memmap, kernel_buffer>>

\* AllocateAddress: at that place or not at all.
AllocatePages ==
  /\ Step("allocate_pages", "copy_segments")
  /\ Conventional(KernelPages)
  /\ Use(KernelPages, "loader")
  /\ kernel_first' = FirstAddress
  /\ UNCHANGED <<boot_services, disturbances, memory, memmap, kernel_buffer>>

\* The rest of a segment is left as it is.
Loaded_Mutant(c) ==
  IF \E s \in LoadSegments(image) : c \in FilePart(s)
    THEN LET s == CHOOSE t \in LoadSegments(image) : c \in FilePart(t)
         IN  memory[BufferCell(s.offset + c - s.vaddr)]
    ELSE memory[c]

\* The content of a cell after CopyLoadSegments.
Loaded(c) ==
  CASE \E s \in LoadSegments(image) : c \in FilePart(s) ->
         LET s == CHOOSE t \in LoadSegments(image) : c \in FilePart(t)
         IN  memory[BufferCell(s.offset + c - s.vaddr)]
    [] \E s \in LoadSegments(image) : c \in ZeroPart(s) -> Zero
    [] OTHER -> memory[c]

CopyLoadSegments ==
  /\ Step("copy_segments", "free_buffer")
  /\ memory' = [c \in Cells |-> Loaded(c)]
  /\ UNCHANGED <<firmware, memmap, kernel_buffer, kernel_first>>

FreeBuffer ==
  /\ Step("free_buffer", "exit")
  /\ Use(BufferPages(kernel_buffer), "conventional")
  /\ UNCHANGED <<boot_services, disturbances, memory, memmap, kernel_buffer, kernel_first>>

\* The firmware lets go only of who knows its map as it is.
ExitBootServices ==
  /\ memmap.map_key = map_key
  /\ boot_services' = FALSE
  /\ UNCHANGED <<page_type, map_key, disturbances>>

\* The first attempt, with the key from before the pages were allocated; its
\* failure is not the end.
ExitAtOnce ==
  /\ loader = "exit"
  /\ IF memmap.map_key = map_key
       THEN loader' = "enter" /\ ExitBootServices
       ELSE loader' = "get_map_again" /\ UNCHANGED firmware
  /\ UNCHANGED <<image, memory, memmap, kernel_buffer, kernel_first>>

GetMapAgain ==
  /\ Step("get_map_again", "exit_again")
  /\ GetMemoryMap
  /\ UNCHANGED <<firmware, memory, kernel_buffer, kernel_first>>

ExitAgain ==
  /\ Step("exit_again", "enter")
  /\ ExitBootServices
  /\ UNCHANGED <<memory, memmap, kernel_buffer, kernel_first>>

\* The kernel is entered where its header says, unless the screen has a pixel
\* format that is neither RGB nor BGR.
EnterKernel ==
  /\ Step("enter", "entered") \/ Step("enter", "halted")
  /\ UNCHANGED <<firmware, memory, memmap, kernel_buffer, kernel_first>>

UefiMain ==
  \/ GetFirstMap \/ OpenRootDir \/ SaveMemoryMap \/ OpenGOP \/ OpenKernel \/ AllocateBuffer
  \/ ReadFile \/ AllocatePages \/ CopyLoadSegments \/ FreeBuffer \/ ExitAtOnce \/ GetMapAgain
  \/ ExitAgain \/ EnterKernel \/ FailCall

LoaderNext == UefiMain \/ FirmwareAllocates

LoaderSpec == LoaderInit /\ [][LoaderNext]_loader_vars

-----------------------------------------------------------------------------
(* Properties.                                                             *)

\* The kernel that is entered is all there: each segment is the file's as far as
\* the file has it and zero beyond, and what is taken for the entry point is the
\* header's.
KernelInPlace ==
  loader = "entered" =>
    /\ \A s \in LoadSegments(image) :
         /\ \A c \in FilePart(s) : memory[c] = s.offset + c - s.vaddr
         /\ \A c \in ZeroPart(s) : memory[c] = Zero
    /\ memory[kernel_first + EntryOffset] = EntryOffset

\* The map that the kernel gets says what the firmware left, and that the pages
\* the kernel is in are nobody's to give out, neither free nor the firmware's.
KernelKept ==
  loader = "entered" =>
    /\ memmap.types = page_type
    /\ \A s \in LoadSegments(image) : \A c \in FilePart(s) \cup ZeroPart(s) :
         memmap.types[PageOf(c)] \notin {"conventional", "boot_services"}

\* The loader writes no cell that it has not been given by the firmware, not even
\* with the zeros at the end of the kernel.
WritesOwnMemory ==
  [][\A c \in Cells : memory'[c] # memory[c] => page_type[PageOf(c)] = "loader"]_loader_vars

=============================================================================
