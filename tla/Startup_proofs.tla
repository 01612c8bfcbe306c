--------------------------- MODULE Startup_proofs ---------------------------
(***************************************************************************)
(* The start of the system, for any machine, kernel file, device and       *)
(* controller. The loader writes no memory that is not its own, the kernel *)
(* is complete when it is entered, and the map that it is handed keeps it, *)
(* also while the kernel runs; the controller is reset only when halted,   *)
(* it runs with what the driver wrote, and memory is handed out as it was  *)
(* asked for.                                                              *)
(***************************************************************************)
EXTENDS Startup, FiniteSetTheorems, TLAPS

-----------------------------------------------------------------------------
(* Pages and cells.                                                        *)

\* A cell lies between the beginning of its page and the next one's.
LEMMA CellInPage ==
  ASSUME NEW c \in Nat
  PROVE  /\ PageOf(c) \in Nat
         /\ PageOf(c) * PageSize <= c
         /\ c < (PageOf(c) + 1) * PageSize
<1>1. PageSize \in Nat \ {0}
  BY BootLoaderAssumption
<1> QED
  BY <1>1 DEF PageOf

\* A number of cells fits in as many pages as it is rounded to.
LEMMA RoundedIsEnough ==
  ASSUME NEW n \in Nat
  PROVE  Rounded(n) \in Nat /\ n <= Rounded(n) * PageSize
<1>1. PageSize \in Nat \ {0}
  BY BootLoaderAssumption
<1> QED
  BY <1>1 DEF Rounded

\* Products with the page size keep the order.
LEMMA PagesInOrder ==
  ASSUME NEW a \in Int, NEW b \in Int, a * PageSize < b * PageSize
  PROVE  a < b
<1>1. PageSize \in Nat \ {0}
  BY BootLoaderAssumption
<1> QED
  BY <1>1

\* The cells from the beginning of a page on are in as many pages as their
\* number is rounded to.
LEMMA CellsInPages ==
  ASSUME NEW first \in Nat, NEW n \in Nat, NEW c \in Nat,
         first * PageSize <= c, c < first * PageSize + n
  PROVE  PageOf(c) \in first..(first + Rounded(n) - 1)
<1>1. PageSize \in Nat \ {0}
  BY BootLoaderAssumption
<1>2. /\ PageOf(c) \in Nat
      /\ PageOf(c) * PageSize <= c
      /\ c < (PageOf(c) + 1) * PageSize
  BY CellInPage
<1>3. Rounded(n) \in Nat /\ n <= Rounded(n) * PageSize
  BY RoundedIsEnough
<1>4. first * PageSize < (PageOf(c) + 1) * PageSize
  BY <1>1, <1>2
<1>5. (first + Rounded(n)) * PageSize = first * PageSize + Rounded(n) * PageSize
  BY <1>1, <1>3
<1>6. PageOf(c) * PageSize < (first + Rounded(n)) * PageSize
  BY <1>1, <1>2, <1>3, <1>5
<1>7. first < PageOf(c) + 1
  BY <1>2, <1>4, PagesInOrder
<1>8. PageOf(c) < first + Rounded(n)
  BY <1>2, <1>3, <1>6, PagesInOrder
<1> QED
  BY <1>2, <1>3, <1>7, <1>8

\* What is on a page of the memory is in the memory.
LEMMA CellOfPage ==
  ASSUME NEW c \in Nat, PageOf(c) \in PageSet
  PROVE  c \in Cells
<1>1. PageSize \in Nat \ {0} /\ Pages \in Nat \ {0}
  BY BootLoaderAssumption
<1>2. /\ PageOf(c) \in Nat
      /\ c < (PageOf(c) + 1) * PageSize
  BY CellInPage
<1>3. PageOf(c) + 1 <= Pages
  BY <1>1, <1>2 DEF PageSet
<1>4. (PageOf(c) + 1) * PageSize <= Pages * PageSize
  BY <1>1, <1>2, <1>3
<1>5. Pages * PageSize \in Nat /\ (PageOf(c) + 1) * PageSize \in Nat
  BY <1>1, <1>2
<1> QED
  BY <1>2, <1>4, <1>5 DEF Cells

\* What BootLoaderAssumption says of one kernel file.
LEMMA ImageFacts ==
  ASSUME NEW file \in Images
  PROVE  /\ file.size \in Nat \ {0}
         /\ \A s \in LoadSegments(file) :
              /\ s.vaddr \in Nat /\ s.offset \in Nat /\ s.filesz \in Nat /\ s.memsz \in Nat
              /\ s.filesz <= s.memsz /\ s.offset + s.filesz <= file.size
              /\ s.vaddr + s.memsz <= Pages * PageSize
              /\ \A t \in LoadSegments(file) \ {s} :
                   (FilePart(s) \cup ZeroPart(s)) \cap (FilePart(t) \cup ZeroPart(t)) = {}
<1>1. file.headers \subseteq ProgramHeader
  BY BootLoaderAssumption
<1>2. \A s \in LoadSegments(file) : s \in ProgramHeader
  BY <1>1 DEF LoadSegments
<1>3. \A s \in LoadSegments(file) : s.vaddr \in Nat /\ s.offset \in Nat /\ s.filesz \in Nat /\ s.memsz \in Nat
  BY <1>2 DEF ProgramHeader
<1> QED
  BY <1>3, BootLoaderAssumption

\* The first address of the kernel is that of a segment with the ELF header, at
\* the beginning of a page.
LEMMA FirstAddressFacts ==
  ASSUME image \in Images
  PROVE  /\ FirstAddress \in Nat /\ FirstAddress % PageSize = 0
         /\ \A s \in LoadSegments(image) : FirstAddress <= s.vaddr
         /\ \E s \in LoadSegments(image) :
              s.vaddr = FirstAddress /\ s.offset = 0 /\ EntryOffset < s.filesz
<1> DEFINE A == {t.vaddr : t \in LoadSegments(image)}
<1>1. PICK s \in LoadSegments(image) :
        /\ \A t \in LoadSegments(image) : s.vaddr <= t.vaddr
        /\ s.vaddr % PageSize = 0 /\ s.offset = 0 /\ EntryOffset < s.filesz
  BY BootLoaderAssumption
<1>2. \A t \in LoadSegments(image) : t.vaddr \in Nat
  BY ImageFacts
<1>3. s.vaddr \in A /\ \A y \in A : s.vaddr <= y
  BY <1>1
<1>4. Min(A) \in A /\ \A y \in A : Min(A) <= y
  BY <1>3 DEF Min
<1>5. A \subseteq Nat
  BY <1>2
<1>6. Min(A) = s.vaddr
  <2>1. Min(A) \in Nat /\ s.vaddr \in Nat
    BY <1>3, <1>4, <1>5
  <2>2. Min(A) <= s.vaddr /\ s.vaddr <= Min(A)
    BY <1>3, <1>4
  <2> HIDE DEF A
  <2> QED
    BY <2>1, <2>2
<1>7. FirstAddress = s.vaddr
  BY <1>6 DEF FirstAddress
<1> QED
  BY <1>1, <1>2, <1>7

\* No segment goes beyond the last address.
LEMMA LastAddressFacts ==
  ASSUME image \in Images
  PROVE  /\ LastAddress \in Nat
         /\ \A s \in LoadSegments(image) : s.vaddr + s.memsz <= LastAddress
<1> DEFINE A == {t.vaddr + t.memsz : t \in LoadSegments(image)}
<1>1. PICK s \in LoadSegments(image) :
        \A t \in LoadSegments(image) : t.vaddr + t.memsz <= s.vaddr + s.memsz
  BY BootLoaderAssumption
<1>2. \A t \in LoadSegments(image) : t.vaddr \in Nat /\ t.memsz \in Nat
  BY ImageFacts
<1>3. s.vaddr + s.memsz \in A /\ \A y \in A : s.vaddr + s.memsz >= y
  BY <1>1, <1>2
<1>4. Max(A) \in A /\ \A y \in A : Max(A) >= y
  BY <1>3 DEF Max
<1>5. A \subseteq Nat
  BY <1>2
<1>6. Max(A) = s.vaddr + s.memsz
  <2>1. Max(A) \in Nat /\ s.vaddr + s.memsz \in Nat
    BY <1>3, <1>4, <1>5
  <2>2. Max(A) >= s.vaddr + s.memsz /\ s.vaddr + s.memsz >= Max(A)
    BY <1>3, <1>4
  <2> HIDE DEF A
  <2> QED
    BY <2>1, <2>2
<1>7. LastAddress = s.vaddr + s.memsz
  BY <1>6 DEF LastAddress
<1> QED
  BY <1>1, <1>2, <1>7

CellsOf(s) == FilePart(s) \cup ZeroPart(s)

\* All cells of the kernel are in the memory, on the pages that are allocated for
\* it, though only its length is rounded up to pages.
LEMMA KernelCells ==
  ASSUME image \in Images, NEW s \in LoadSegments(image), NEW c \in CellsOf(s)
  PROVE  c \in Nat /\ c \in Cells /\ PageOf(c) \in KernelPages
<1>1. PageSize \in Nat \ {0} /\ Pages \in Nat \ {0}
  BY BootLoaderAssumption
<1>2. /\ s.vaddr \in Nat /\ s.filesz \in Nat /\ s.memsz \in Nat /\ s.filesz <= s.memsz
      /\ s.vaddr + s.memsz <= Pages * PageSize
  BY ImageFacts
<1>3. c \in Nat /\ s.vaddr <= c /\ c < s.vaddr + s.memsz
  BY <1>2 DEF CellsOf, FilePart, ZeroPart
<1>4. FirstAddress \in Nat /\ FirstAddress % PageSize = 0 /\ FirstAddress <= s.vaddr
  BY FirstAddressFacts
<1>5. LastAddress \in Nat /\ s.vaddr + s.memsz <= LastAddress
  BY LastAddressFacts
<1>6. FirstAddress = PageOf(FirstAddress) * PageSize /\ PageOf(FirstAddress) \in Nat
  BY <1>1, <1>4 DEF PageOf
<1>7. LastAddress - FirstAddress \in Nat
  BY <1>2, <1>4, <1>5
<1>8. /\ PageOf(FirstAddress) * PageSize <= c
      /\ c < PageOf(FirstAddress) * PageSize + (LastAddress - FirstAddress)
  BY <1>2, <1>3, <1>4, <1>5, <1>6
<1>9. PageOf(c) \in KernelPages
  BY <1>3, <1>6, <1>7, <1>8, CellsInPages DEF KernelPages
<1>10. Pages * PageSize \in Nat
  BY <1>1
<1> QED
  BY <1>2, <1>3, <1>9, <1>10 DEF Cells

\* All cells of the temporary buffer are on its pages.
LEMMA BufferCells ==
  ASSUME image \in Images, kernel_buffer \in Nat, NEW c \in BufferCell(0)..BufferCell(image.size - 1)
  PROVE  c \in Nat /\ PageOf(c) \in BufferPages(kernel_buffer)
<1>1. PageSize \in Nat \ {0} /\ image.size \in Nat \ {0}
  BY BootLoaderAssumption, ImageFacts
<1>2. kernel_buffer * PageSize \in Nat
  BY <1>1
<1>3. /\ c \in Nat /\ kernel_buffer * PageSize <= c
      /\ c < kernel_buffer * PageSize + image.size
  BY <1>1, <1>2 DEF BufferCell
<1> QED
  BY <1>1, <1>3, CellsInPages DEF BufferPages

-----------------------------------------------------------------------------
(* The inductive invariant.                                                *)

PageType == {"boot_services", "reserved", "conventional", "loader"}

LoaderTypeOK ==
  /\ image \in Images
  /\ page_type \in [PageSet -> PageType]
  /\ map_key \in Nat
  /\ memory \in [Cells -> Int]
  /\ memmap.map_key \in Nat
  /\ kernel_buffer \in Nat

HasBuffer == {"read_file", "allocate_pages", "copy_segments", "free_buffer"}
HasKernel == {"copy_segments", "free_buffer", "exit", "get_map_again", "exit_again", "enter", "entered"}
HasBoth == {"copy_segments", "free_buffer"}

Given(pages) == \A p \in pages : p \in PageSet /\ page_type[p] = "loader"

\* The pages of the buffer and of the kernel are the loader's, and apart.
PagesGiven ==
  /\ loader \in HasBuffer => Given(BufferPages(kernel_buffer))
  /\ loader \in HasKernel => Given(KernelPages) /\ kernel_first = FirstAddress
  /\ loader \in HasBoth => BufferPages(kernel_buffer) \cap KernelPages = {}

\* The key says whether the loader's copy of the map is current, and once the
\* firmware has let go it stays so.
MapCurrent ==
  /\ memmap.map_key <= map_key
  /\ memmap.map_key = map_key => memmap.types = page_type
  /\ loader \in {"enter", "entered"} => ~boot_services /\ memmap.types = page_type

\* The file in the buffer, and later the kernel in its place.
FileRead ==
  loader \in {"allocate_pages", "copy_segments"} =>
    \A o \in 0..(image.size - 1) : memory[BufferCell(o)] = o

KernelCopied ==
  loader \in HasKernel \ {"copy_segments"} =>
    \A s \in LoadSegments(image) :
      /\ \A c \in FilePart(s) : memory[c] = s.offset + c - s.vaddr
      /\ \A c \in ZeroPart(s) : memory[c] = Zero

LoaderInv == LoaderTypeOK /\ PagesGiven /\ MapCurrent /\ FileRead /\ KernelCopied

-----------------------------------------------------------------------------
(* What most steps leave alone.                                            *)

\* Where the kernel goes depends on the file alone, where the buffer is on the
\* file and its first page.
LEMMA ImageKept ==
  ASSUME image' = image
  PROVE  /\ FirstAddress' = FirstAddress /\ KernelPages' = KernelPages
         /\ kernel_buffer' = kernel_buffer => BufferPages(kernel_buffer)' = BufferPages(kernel_buffer)
<1>1. FirstAddress' = FirstAddress /\ LastAddress' = LastAddress
  BY DEF FirstAddress, LastAddress
<1>2. KernelPages' = KernelPages
  BY <1>1 DEF KernelPages
<1>3. ASSUME kernel_buffer' = kernel_buffer
      PROVE  BufferPages(kernel_buffer)' = BufferPages(kernel_buffer)
  BY <1>3 DEF BufferPages
<1> QED
  BY <1>1, <1>2, <1>3

\* A step that keeps the pages and the memory, and gets the loader nothing more.
LEMMA QuietStep ==
  ASSUME LoaderInv,
         UNCHANGED <<image, page_type, memory, kernel_buffer, kernel_first>>,
         loader' # loader => loader' \notin HasBuffer,
         loader' \in HasKernel => loader \in HasKernel \ HasBoth \/ loader' = loader
  PROVE  PagesGiven' /\ FileRead' /\ KernelCopied'
<1>1. /\ FirstAddress' = FirstAddress /\ KernelPages' = KernelPages
      /\ BufferPages(kernel_buffer)' = BufferPages(kernel_buffer)
  BY ImageKept
<1>2. PagesGiven'
  BY <1>1 DEF LoaderInv, PagesGiven, Given, HasBuffer, HasKernel, HasBoth
<1>3. FileRead'
  BY DEF LoaderInv, FileRead, BufferCell, HasBuffer
<1>4. KernelCopied'
  BY DEF LoaderInv, KernelCopied, HasKernel, HasBoth
<1> QED
  BY <1>2, <1>3, <1>4

\* When the use of pages changes the old map is out of date.
LEMMA UseOutdates ==
  ASSUME LoaderInv, NEW pages, NEW type, Use(pages, type),
         UNCHANGED memmap, loader' \notin {"enter", "entered"}
  PROVE  MapCurrent'
BY DEF LoaderInv, LoaderTypeOK, MapCurrent, Use

\* The firmware goes on using every page for something.
LEMMA UseTypes ==
  ASSUME LoaderTypeOK, NEW pages, NEW type \in PageType, Use(pages, type)
  PROVE  map_key' \in Nat /\ page_type' \in [PageSet -> PageType]
BY DEF LoaderTypeOK, Use

-----------------------------------------------------------------------------
(* The invariant holds initially and in every step.                        *)

\* The loader has nothing yet.
LEMMA LoaderInitially == LoaderInit => LoaderInv
<1> SUFFICES ASSUME LoaderInit PROVE LoaderInv
  OBVIOUS
<1>1. LoaderTypeOK
  BY DEF LoaderInit, LoaderTypeOK, PageType, Junk
<1>2. PagesGiven
  BY DEF LoaderInit, PagesGiven, HasBuffer, HasKernel, HasBoth
<1>3. MapCurrent
  BY DEF LoaderInit, MapCurrent
<1>4. FileRead /\ KernelCopied
  BY DEF LoaderInit, FileRead, KernelCopied, HasKernel
<1> QED
  BY <1>1, <1>2, <1>3, <1>4 DEF LoaderInv

\* The steps that only look, or fail.
QuietSteps ==
  \/ GetFirstMap \/ OpenRootDir \/ SaveMemoryMap \/ OpenKernel \/ FailCall
  \/ ExitAtOnce \/ GetMapAgain \/ ExitAgain \/ EnterKernel

\* The steps that change neither memory nor its use.
LEMMA QuietStepsKeep == ASSUME LoaderInv, QuietSteps PROVE LoaderInv'
<1>1. /\ UNCHANGED <<image, page_type, map_key, memory, kernel_buffer, kernel_first>>
      /\ loader' # loader => loader' \notin HasBuffer
      /\ loader' \in HasKernel => loader \in HasKernel \ HasBoth \/ loader' = loader
  BY DEF QuietSteps, GetFirstMap, OpenRootDir, SaveMemoryMap, OpenKernel, FailCall, ExitAtOnce,
         GetMapAgain, ExitAgain, EnterKernel, Step, ExitBootServices, firmware, HasBuffer, HasKernel, HasBoth
<1>2. PagesGiven' /\ FileRead' /\ KernelCopied'
  BY <1>1, QuietStep
<1>3. \/ memmap' = memmap
      \/ memmap' = [types |-> page_type, map_key |-> map_key]
  BY DEF QuietSteps, GetFirstMap, OpenRootDir, SaveMemoryMap, OpenKernel, FailCall, ExitAtOnce,
         GetMapAgain, ExitAgain, EnterKernel, GetMemoryMap
<1>4. LoaderTypeOK'
  BY <1>1, <1>3 DEF LoaderInv, LoaderTypeOK
<1>5. loader' \in {"enter", "entered"} => ~boot_services' /\ memmap'.types = page_type
  BY DEF LoaderInv, MapCurrent, QuietSteps, GetFirstMap, OpenRootDir, SaveMemoryMap, OpenKernel, FailCall,
         ExitAtOnce, GetMapAgain, ExitAgain, EnterKernel, Step, ExitBootServices, firmware
<1>6. MapCurrent'
  BY <1>1, <1>3, <1>5 DEF LoaderInv, LoaderTypeOK, MapCurrent
<1> QED
  BY <1>2, <1>4, <1>6 DEF LoaderInv

\* The key grows, and no page changes hands.
LEMMA OpenGOPKeeps == ASSUME LoaderInv, OpenGOP PROVE LoaderInv'
<1>1. /\ UNCHANGED <<image, memory, memmap, kernel_buffer, kernel_first>>
      /\ loader = "open_gop" /\ loader' = "open_kernel" /\ Use({}, "loader")
  BY DEF OpenGOP, Step
<1>2. page_type' = page_type
  BY <1>1 DEF Use, LoaderInv, LoaderTypeOK
<1>3. LoaderTypeOK'
  BY <1>1, UseTypes DEF LoaderInv, LoaderTypeOK, PageType
<1>4. PagesGiven' /\ FileRead' /\ KernelCopied'
  BY <1>1, <1>2, QuietStep DEF HasBuffer, HasKernel
<1>5. MapCurrent'
  BY <1>1, UseOutdates
<1> QED
  BY <1>3, <1>4, <1>5 DEF LoaderInv

\* The buffer's pages become the loader's.
LEMMA AllocateBufferKeeps == ASSUME LoaderInv, AllocateBuffer PROVE LoaderInv'
<1>1. PICK first \in PageSet :
        /\ Conventional(BufferPages(first))
        /\ kernel_buffer' = first
        /\ Use(BufferPages(first), "loader")
  BY DEF AllocateBuffer
<1>2. UNCHANGED <<image, memory, memmap, kernel_first>> /\ loader' = "read_file"
  BY DEF AllocateBuffer, Step
<1>3. first \in Nat
  BY BootLoaderAssumption DEF PageSet
<1>4. LoaderTypeOK'
  BY <1>1, <1>2, <1>3, UseTypes DEF LoaderInv, LoaderTypeOK, PageType
<1>5. BufferPages(kernel_buffer)' = BufferPages(first)
  BY <1>1, <1>2 DEF BufferPages
<1>6. PagesGiven'
  BY <1>1, <1>2, <1>5 DEF PagesGiven, Given, Conventional, Use, HasKernel, HasBoth
<1>7. FileRead' /\ KernelCopied'
  BY <1>2 DEF FileRead, KernelCopied, HasKernel
<1>8. MapCurrent'
  BY <1>1, <1>2, UseOutdates
<1> QED
  BY <1>4, <1>6, <1>7, <1>8 DEF LoaderInv

\* The file is in the buffer.
LEMMA ReadFileKeeps == ASSUME LoaderInv, ReadFile PROVE LoaderInv'
<1> DEFINE B == BufferCell(0)..BufferCell(image.size - 1)
<1>1. /\ UNCHANGED <<image, page_type, map_key, boot_services, memmap, kernel_buffer, kernel_first>>
      /\ loader = "read_file" /\ loader' = "allocate_pages"
      /\ memory' = [c \in Cells |-> IF c \in B THEN c - BufferCell(0) ELSE memory[c]]
  BY DEF ReadFile, Step, firmware
<1>2. PageSize \in Nat \ {0} /\ image.size \in Nat \ {0} /\ kernel_buffer \in Nat /\ image \in Images
  BY BootLoaderAssumption, ImageFacts DEF LoaderInv, LoaderTypeOK
<1>3. kernel_buffer * PageSize \in Nat
  BY <1>2
<1>4. \A c \in B : c \in Nat /\ PageOf(c) \in BufferPages(kernel_buffer)
  BY <1>2, BufferCells
<1>5. B \subseteq Cells
  BY <1>1, <1>4, CellOfPage DEF LoaderInv, PagesGiven, Given, HasBuffer
<1>6. \A o \in 0..(image.size - 1) : BufferCell(o) \in B /\ BufferCell(o) - BufferCell(0) = o
  BY <1>2, <1>3 DEF BufferCell
<1>7. FileRead'
  BY <1>1, <1>5, <1>6 DEF FileRead, BufferCell
<1>8. memory' \in [Cells -> Int]
  <2>1. \A c \in B : c - BufferCell(0) \in Int
    BY <1>2, <1>3, <1>4 DEF BufferCell
  <2> QED
    BY <1>1, <2>1 DEF LoaderInv, LoaderTypeOK
<1>9. LoaderTypeOK'
  BY <1>1, <1>8 DEF LoaderInv, LoaderTypeOK
<1>10. PagesGiven'
  BY <1>1, ImageKept DEF LoaderInv, PagesGiven, Given, HasBuffer, HasKernel, HasBoth
<1>11. KernelCopied' /\ MapCurrent'
  BY <1>1 DEF LoaderInv, KernelCopied, MapCurrent, HasKernel
<1> QED
  BY <1>7, <1>9, <1>10, <1>11 DEF LoaderInv

\* The kernel's pages become the loader's, too, and so are none of the buffer's.
LEMMA AllocatePagesKeeps == ASSUME LoaderInv, AllocatePages PROVE LoaderInv'
<1>1. /\ UNCHANGED <<image, memory, memmap, kernel_buffer>> /\ kernel_first' = FirstAddress
      /\ loader = "allocate_pages" /\ loader' = "copy_segments"
      /\ Conventional(KernelPages) /\ Use(KernelPages, "loader")
  BY DEF AllocatePages, Step
<1>2. LoaderTypeOK'
  BY <1>1, UseTypes DEF LoaderInv, LoaderTypeOK, PageType
<1>3. /\ FirstAddress' = FirstAddress /\ KernelPages' = KernelPages
      /\ BufferPages(kernel_buffer)' = BufferPages(kernel_buffer)
  BY <1>1, ImageKept
<1>4. Given(BufferPages(kernel_buffer))
  BY <1>1 DEF LoaderInv, PagesGiven, HasBuffer
<1>5. BufferPages(kernel_buffer) \cap KernelPages = {}
  BY <1>1, <1>4 DEF Given, Conventional
<1>6. \A p \in KernelPages \cup BufferPages(kernel_buffer) : p \in PageSet /\ page_type'[p] = "loader"
  BY <1>1, <1>4 DEF Given, Conventional, Use
<1>7. PagesGiven'
  BY <1>1, <1>3, <1>5, <1>6 DEF PagesGiven, Given
<1>8. FileRead' /\ KernelCopied'
  BY <1>1 DEF LoaderInv, FileRead, KernelCopied, BufferCell
<1>9. MapCurrent'
  BY <1>1, UseOutdates
<1> QED
  BY <1>2, <1>7, <1>8, <1>9 DEF LoaderInv

\* The buffer's pages go back, when the kernel has been copied.
LEMMA FreeBufferKeeps == ASSUME LoaderInv, FreeBuffer PROVE LoaderInv'
<1>1. /\ UNCHANGED <<image, memory, memmap, kernel_buffer, kernel_first>>
      /\ loader = "free_buffer" /\ loader' = "exit"
      /\ Use(BufferPages(kernel_buffer), "conventional")
  BY DEF FreeBuffer, Step
<1>2. LoaderTypeOK'
  BY <1>1, UseTypes DEF LoaderInv, LoaderTypeOK, PageType
<1>3. /\ FirstAddress' = FirstAddress /\ KernelPages' = KernelPages
  BY <1>1, ImageKept
<1>4. /\ Given(KernelPages) /\ kernel_first = FirstAddress
      /\ BufferPages(kernel_buffer) \cap KernelPages = {}
  BY <1>1 DEF LoaderInv, PagesGiven, HasKernel, HasBoth
<1>5. \A p \in KernelPages : p \in PageSet /\ page_type'[p] = "loader"
  BY <1>1, <1>4 DEF Given, Use
<1>6. PagesGiven'
  BY <1>1, <1>3, <1>4, <1>5 DEF PagesGiven, Given, HasBuffer, HasBoth
<1>7. FileRead' /\ KernelCopied'
  BY <1>1 DEF LoaderInv, FileRead, KernelCopied, HasKernel
<1>8. MapCurrent'
  BY <1>1, UseOutdates
<1> QED
  BY <1>2, <1>6, <1>7, <1>8 DEF LoaderInv

\* The firmware takes only what is free.
LEMMA FirmwareAllocatesKeeps == ASSUME LoaderInv, FirmwareAllocates PROVE LoaderInv'
<1>1. PICK q \in PageSet : Conventional({q}) /\ Use({q}, "boot_services")
  BY DEF FirmwareAllocates
<1>2. /\ UNCHANGED <<loader, image, memory, memmap, kernel_buffer, kernel_first, boot_services>>
      /\ boot_services
  BY DEF FirmwareAllocates
<1>3. loader \notin {"enter", "entered"}
  BY <1>2 DEF LoaderInv, MapCurrent
<1>4. LoaderTypeOK'
  BY <1>1, <1>2, UseTypes DEF LoaderInv, LoaderTypeOK, PageType
<1>5. /\ FirstAddress' = FirstAddress /\ KernelPages' = KernelPages
      /\ BufferPages(kernel_buffer)' = BufferPages(kernel_buffer)
  BY <1>2, ImageKept
<1>6. \A p \in PageSet : page_type[p] = "loader" => page_type'[p] = "loader"
  BY <1>1 DEF Conventional, Use
<1>7. PagesGiven'
  BY <1>2, <1>5, <1>6 DEF LoaderInv, PagesGiven, Given
<1>8. FileRead' /\ KernelCopied'
  BY <1>2 DEF LoaderInv, FileRead, KernelCopied, BufferCell
<1>9. MapCurrent'
  BY <1>1, <1>2, <1>3, UseOutdates
<1> QED
  BY <1>4, <1>7, <1>8, <1>9 DEF LoaderInv

\* The copy puts each cell of a segment where it belongs: no cell belongs to two.
LEMMA LoadedCells ==
  ASSUME LoaderInv, loader = "copy_segments", NEW s \in LoadSegments(image)
  PROVE  /\ \A c \in FilePart(s) : Loaded(c) = s.offset + c - s.vaddr
         /\ \A c \in ZeroPart(s) : Loaded(c) = Zero
<1>1. image \in Images
  BY DEF LoaderInv, LoaderTypeOK
<1>2. /\ s.vaddr \in Nat /\ s.offset \in Nat /\ s.filesz \in Nat /\ s.memsz \in Nat
      /\ s.offset + s.filesz <= image.size /\ image.size \in Nat
      /\ \A t \in LoadSegments(image) \ {s} : CellsOf(s) \cap CellsOf(t) = {}
  BY <1>1, ImageFacts DEF CellsOf
<1>3. \A t \in LoadSegments(image), c \in CellsOf(s) : c \in CellsOf(t) => t = s
  BY <1>2
<1>4. ASSUME NEW c \in FilePart(s) PROVE Loaded(c) = s.offset + c - s.vaddr
  <2>1. \A t \in LoadSegments(image) : c \in FilePart(t) => t = s
    BY <1>3 DEF CellsOf
  <2>2. (CHOOSE t \in LoadSegments(image) : c \in FilePart(t)) = s
    BY <2>1
  <2>3. Loaded(c) = memory[BufferCell(s.offset + c - s.vaddr)]
    <3> DEFINE u == CHOOSE t \in LoadSegments(image) : c \in FilePart(t)
    <3>1. ~ \E t \in LoadSegments(image) : c \in ZeroPart(t)
      BY <1>2, <1>3 DEF CellsOf, FilePart, ZeroPart
    <3>2. Loaded(c) = memory[BufferCell(u.offset + c - u.vaddr)]
      BY <3>1 DEF Loaded
    <3> QED
      BY <2>2, <3>2
  <2>4. s.offset + c - s.vaddr \in 0..(image.size - 1)
    BY <1>2 DEF FilePart
  <2> QED
    BY <2>3, <2>4 DEF LoaderInv, FileRead
<1>5. ASSUME NEW c \in ZeroPart(s) PROVE Loaded(c) = Zero
  <2>1. \A t \in LoadSegments(image) : c \in FilePart(t) => t = s
    BY <1>3 DEF CellsOf
  <2>2. c \notin FilePart(s)
    BY <1>2 DEF FilePart, ZeroPart
  <2> QED
    BY <2>1, <2>2 DEF Loaded
<1> QED
  BY <1>4, <1>5

\* The kernel is copied without the buffer being written over.
LEMMA CopyLoadSegmentsKeeps == ASSUME LoaderInv, CopyLoadSegments PROVE LoaderInv'
<1>1. /\ UNCHANGED <<image, page_type, map_key, boot_services, memmap, kernel_buffer, kernel_first>>
      /\ loader = "copy_segments" /\ loader' = "free_buffer"
      /\ memory' = [c \in Cells |-> Loaded(c)]
  BY DEF CopyLoadSegments, Step, firmware
<1>2. image \in Images /\ memory \in [Cells -> Int]
  BY DEF LoaderInv, LoaderTypeOK
<1>3. ASSUME NEW s \in LoadSegments(image), NEW c \in CellsOf(s)
      PROVE  c \in Cells
  BY <1>2, <1>3, KernelCells
<1>4. KernelCopied'
  <2> SUFFICES ASSUME NEW s \in LoadSegments(image)
               PROVE  /\ \A c \in FilePart(s) : memory'[c] = s.offset + c - s.vaddr
                      /\ \A c \in ZeroPart(s) : memory'[c] = Zero
    BY <1>1 DEF KernelCopied
  <2>1. \A c \in FilePart(s) \cup ZeroPart(s) : memory'[c] = Loaded(c)
    BY <1>1, <1>3 DEF CellsOf
  <2> QED
    BY <1>1, <2>1, LoadedCells
<1>5. ASSUME NEW c \in Cells PROVE Loaded(c) \in Int
  <2>1. ASSUME NEW s \in LoadSegments(image), c \in FilePart(s)
        PROVE  Loaded(c) \in Int
    <3>1. s.offset \in Nat /\ s.vaddr \in Nat /\ s.filesz \in Nat
      BY <1>2, ImageFacts
    <3>2. c \in Int
      BY <2>1, <3>1 DEF FilePart
    <3> QED
      BY <1>1, <2>1, <3>1, <3>2, LoadedCells
  <2>2. ASSUME NEW s \in LoadSegments(image), c \in ZeroPart(s)
        PROVE  Loaded(c) \in Int
    BY <1>1, <2>2, LoadedCells DEF Zero
  <2>3. ASSUME \A s \in LoadSegments(image) : c \notin FilePart(s) /\ c \notin ZeroPart(s)
        PROVE  Loaded(c) \in Int
    BY <1>2, <2>3 DEF Loaded
  <2> QED
    BY <2>1, <2>2, <2>3
<1>6. LoaderTypeOK'
  BY <1>1, <1>5 DEF LoaderInv, LoaderTypeOK
<1>7. PagesGiven'
  BY <1>1, ImageKept DEF LoaderInv, PagesGiven, Given, HasBuffer, HasKernel, HasBoth
<1>8. FileRead' /\ MapCurrent'
  BY <1>1 DEF LoaderInv, FileRead, MapCurrent
<1> QED
  BY <1>4, <1>6, <1>7, <1>8 DEF LoaderInv

\* Every step, and none, keeps the invariant.
LEMMA LoaderStepKeeps == LoaderInv /\ [LoaderNext]_loader_vars => LoaderInv'
<1> SUFFICES ASSUME LoaderInv, [LoaderNext]_loader_vars PROVE LoaderInv'
  OBVIOUS
<1>1. CASE QuietSteps
  BY <1>1, QuietStepsKeep
<1>2. CASE OpenGOP
  BY <1>2, OpenGOPKeeps
<1>3. CASE AllocateBuffer
  BY <1>3, AllocateBufferKeeps
<1>4. CASE ReadFile
  BY <1>4, ReadFileKeeps
<1>5. CASE AllocatePages
  BY <1>5, AllocatePagesKeeps
<1>6. CASE CopyLoadSegments
  BY <1>6, CopyLoadSegmentsKeeps
<1>7. CASE FreeBuffer
  BY <1>7, FreeBufferKeeps
<1>8. CASE FirmwareAllocates
  BY <1>8, FirmwareAllocatesKeeps
<1>9. CASE UNCHANGED loader_vars
  BY <1>9 DEF loader_vars, firmware, LoaderInv, LoaderTypeOK, PagesGiven, Given, MapCurrent, FileRead,
              KernelCopied, KernelPages, BufferPages, BufferCell, FirstAddress, LastAddress
<1> QED
  BY <1>1, <1>2, <1>3, <1>4, <1>5, <1>6, <1>7, <1>8, <1>9 DEF LoaderNext, UefiMain, QuietSteps

\* What is known of the memory at each step of the loader (UefiMain): the kernel's
\* pages and the buffer are the loader's from their allocation on, lie apart, and
\* hold what has been read and copied so far.
THEOREM LoaderInvariant == LoaderSpec => []LoaderInv
BY LoaderInitially, LoaderStepKeeps, PTL DEF LoaderSpec

-----------------------------------------------------------------------------
(* The theorems.                                                           *)

\* The kernel that is entered is all there, each cell as the file has it and
\* zeros beyond, and what is taken for its entry point is the header's: the
\* buffer and the place of the kernel never overlap.
THEOREM KernelIsInPlace == LoaderSpec => []KernelInPlace
<1>1. LoaderInv => KernelInPlace
  <2> SUFFICES ASSUME LoaderInv, loader = "entered" PROVE KernelInPlace
    BY DEF KernelInPlace
  <2>1. /\ kernel_first = FirstAddress
        /\ image \in Images
    BY DEF LoaderInv, PagesGiven, HasKernel, LoaderTypeOK
  <2>2. \A s \in LoadSegments(image) :
          /\ \A c \in FilePart(s) : memory[c] = s.offset + c - s.vaddr
          /\ \A c \in ZeroPart(s) : memory[c] = Zero
    BY DEF LoaderInv, KernelCopied, HasKernel
  <2>3. PICK s \in LoadSegments(image) :
          s.vaddr = FirstAddress /\ s.offset = 0 /\ EntryOffset < s.filesz
    BY <2>1, FirstAddressFacts
  <2>4. s.vaddr \in Nat /\ s.filesz \in Nat /\ EntryOffset \in Nat
    BY <2>1, ImageFacts, BootLoaderAssumption
  <2>5. kernel_first + EntryOffset \in FilePart(s)
    BY <2>1, <2>3, <2>4 DEF FilePart
  <2>6. memory[kernel_first + EntryOffset] = EntryOffset
    BY <2>1, <2>2, <2>3, <2>4, <2>5
  <2> QED
    BY <2>2, <2>6 DEF KernelInPlace
<1> QED
  BY <1>1, LoaderInvariant, PTL

\* The map that the kernel gets is what the firmware left, and has all of the
\* kernel's memory as the loader's, which nobody gives out.
THEOREM KernelIsKept == LoaderSpec => []KernelKept
<1>1. LoaderInv => KernelKept
  <2> SUFFICES ASSUME LoaderInv, loader = "entered",
                      NEW s \in LoadSegments(image), NEW c \in FilePart(s) \cup ZeroPart(s)
               PROVE  /\ memmap.types = page_type
                      /\ memmap.types[PageOf(c)] \notin {"conventional", "boot_services"}
    BY DEF KernelKept, LoaderInv, MapCurrent
  <2>1. memmap.types = page_type /\ Given(KernelPages) /\ image \in Images
    BY DEF LoaderInv, MapCurrent, PagesGiven, HasKernel, LoaderTypeOK
  <2>2. PageOf(c) \in KernelPages
    BY <2>1, KernelCells DEF CellsOf
  <2> QED
    BY <2>1, <2>2 DEF Given
<1> QED
  BY <1>1, LoaderInvariant, PTL

\* The loader writes no cell of a page that the firmware has not given it, not
\* even where the kernel's length is not a number of pages.
THEOREM LoaderWritesItsOwn == LoaderSpec => WritesOwnMemory
<1> DEFINE Own == \A c \in Cells : memory'[c] # memory[c] => page_type[PageOf(c)] = "loader"
<1>1. LoaderInv /\ [LoaderNext]_loader_vars => [Own]_loader_vars
  <2> SUFFICES ASSUME LoaderInv, LoaderNext, NEW c \in Cells, memory'[c] # memory[c]
               PROVE  page_type[PageOf(c)] = "loader"
    OBVIOUS
  <2>1. image \in Images /\ kernel_buffer \in Nat
    BY DEF LoaderInv, LoaderTypeOK
  <2>2. CASE ReadFile
    <3>1. c \in BufferCell(0)..BufferCell(image.size - 1)
      BY <2>2 DEF ReadFile
    <3>2. PageOf(c) \in BufferPages(kernel_buffer)
      BY <2>1, <3>1, BufferCells
    <3> QED
      BY <2>2, <3>2 DEF ReadFile, Step, LoaderInv, PagesGiven, Given, HasBuffer
  <2>3. CASE CopyLoadSegments
    <3>1. PICK s \in LoadSegments(image) : c \in CellsOf(s)
      BY <2>3 DEF CopyLoadSegments, Loaded, CellsOf
    <3>2. PageOf(c) \in KernelPages
      BY <2>1, <3>1, KernelCells
    <3> QED
      BY <2>3, <3>2 DEF CopyLoadSegments, Step, LoaderInv, PagesGiven, Given, HasKernel
  <2>4. CASE ~ReadFile /\ ~CopyLoadSegments
    BY <2>4 DEF LoaderNext, UefiMain, FirmwareAllocates, GetFirstMap, OpenRootDir, SaveMemoryMap, OpenGOP,
                OpenKernel, AllocateBuffer, AllocatePages, FreeBuffer, ExitAtOnce, GetMapAgain, ExitAgain,
                EnterKernel, FailCall
  <2> QED
    BY <2>2, <2>3, <2>4
<1> QED
  BY <1>1, LoaderInvariant, PTL DEF LoaderSpec, WritesOwnMemory


-----------------------------------------------------------------------------
(* Numbers and their multiples.                                            *)

\* A quotient is known by the multiples that the number lies between.
LEMMA Quotient ==
  ASSUME NEW x \in Nat, NEW n \in Nat \ {0}, NEW q \in Nat, q * n <= x, x < q * n + n
  PROVE  x \div n = q
<1>1. /\ x \div n \in Nat
      /\ (x \div n) * n <= x
      /\ x < (x \div n) * n + n
  OBVIOUS
<1>2. \A a, b \in Nat : a * n < b * n + n => a < b + 1
  OBVIOUS
<1>3. (x \div n) * n < q * n + n /\ q * n < (x \div n) * n + n
  BY <1>1
<1>4. x \div n < q + 1 /\ q < x \div n + 1
  BY <1>1, <1>2, <1>3
<1> QED
  BY <1>1, <1>4

\* A multiple of a number is divided by it without a rest.
LEMMA Multiples ==
  ASSUME NEW n \in Nat \ {0}, NEW q \in Nat
  PROVE  q * n \in Nat /\ (q * n) % n = 0
<1>1. q * n \in Nat
  OBVIOUS
<1>2. (q * n) \div n = q
  BY <1>1, Quotient
<1>3. (q * n) % n = q * n - ((q * n) \div n) * n
  BY <1>1
<1> QED
  BY <1>1, <1>2, <1>3

\* What is divided without a rest is a multiple.
LEMMA MultipleOf ==
  ASSUME NEW x \in Nat, NEW n \in Nat \ {0}, x % n = 0
  PROVE  x \div n \in Nat /\ x = (x \div n) * n
OBVIOUS

\* A multiple of a multiple is a multiple.
LEMMA MultipleOfMultiple ==
  ASSUME NEW x \in Nat, NEW m \in Nat \ {0}, NEW n \in Nat \ {0}, x % m = 0, m % n = 0
  PROVE  x % n = 0
<1>1. x \div m \in Nat /\ x = (x \div m) * m /\ m \div n \in Nat /\ m = (m \div n) * n
  BY MultipleOf
<1>2. x = ((x \div m) * (m \div n)) * n
  BY <1>1
<1>3. (x \div m) * (m \div n) \in Nat
  BY <1>1
<1> QED
  BY <1>2, <1>3, Multiples

\* Ceil gives a multiple that is not below the value, and no farther than the next.
LEMMA CeilFacts ==
  ASSUME NEW v \in Nat, NEW a \in Nat \ {0}
  PROVE  /\ Ceil(v, a) \in Nat /\ Ceil(v, a) % a = 0
         /\ v <= Ceil(v, a) /\ Ceil(v, a) <= (v \div a) * a + a
<1> DEFINE q == (v + a - 1) \div a
<1>1. /\ q \in Nat /\ q * a <= v + a - 1
      /\ v + a - 1 < q * a + a
  OBVIOUS
<1>2. Ceil(v, a) = q * a
  BY DEF Ceil
<1>3. q * a \in Nat /\ (q * a) % a = 0
  BY <1>1, Multiples
<1>4. v <= q * a
  BY <1>1, <1>3
<1>5. /\ v \div a \in Nat
      /\ v < (v \div a) * a + a
  OBVIOUS
<1>6. q * a < (v \div a + 1) * a + a
  BY <1>1, <1>3, <1>5
<1>7. \A i, j \in Nat : i * a < j * a + a => i < j + 1
  OBVIOUS
<1>8. q <= v \div a + 1
  BY <1>1, <1>5, <1>6, <1>7
<1>9. q * a <= (v \div a + 1) * a
  BY <1>1, <1>5, <1>8
<1>10. (v \div a + 1) * a = (v \div a) * a + a
  BY <1>5
<1> QED
  BY <1>2, <1>3, <1>4, <1>9, <1>10

\* What ends before the next multiple of a boundary, or begins on one and is no
\* larger, does not cross it.
LEMMA NotCrossed ==
  ASSUME NEW x \in Nat, NEW size \in Nat \ {0}, NEW n \in Nat \ {0}, size <= n,
         x % n = 0 \/ x + size <= Ceil(x, n)
  PROVE  x \div n = (x + size - 1) \div n
<1>1. /\ x \div n \in Nat /\ (x \div n) * n \in Nat
      /\ (x \div n) * n <= x
  OBVIOUS
<1>2. x + size - 1 < (x \div n) * n + n
  <2>1. CASE x % n = 0
    <3>1. x <= (x \div n) * n
      BY <2>1, MultipleOf
    <3> QED
      BY <1>1, <3>1
  <2>2. CASE x + size <= Ceil(x, n)
    <3>1. Ceil(x, n) \in Nat /\ Ceil(x, n) <= (x \div n) * n + n
      BY CeilFacts
    <3> QED
      BY <1>1, <2>2, <3>1
  <2> QED
    BY <2>1, <2>2
<1>3. (x \div n) * n <= x + size - 1 /\ x + size - 1 \in Nat
  BY <1>1
<1> QED
  BY <1>1, <1>2, <1>3, Quotient

-----------------------------------------------------------------------------
(* The memory pool.                                                        *)

\* All blocks are as asked for, and before the pointer.
PoolInv ==
  /\ pool_base \in Nat /\ alloc_ptr \in Nat /\ pool_base <= alloc_ptr
  /\ blocks \subseteq [at : Nat, size : Nat \ {0}, alignment : Nat, boundary : Nat]
  /\ \A b \in blocks : b.at + b.size <= alloc_ptr
  /\ BlocksAsAsked

\* A block begins where it should.
LEMMA BlockAtFacts ==
  ASSUME alloc_ptr \in Nat, NEW size \in Nat \ {0}, NEW alignment \in Nat, NEW boundary \in Nat,
         alignment > 0 /\ boundary > 0 => boundary % alignment = 0
  PROVE  LET at == BlockAt(size, alignment, boundary) IN
         /\ at \in Nat /\ alloc_ptr <= at
         /\ alignment > 0 => at % alignment = 0
         /\ boundary > 0 /\ size <= boundary => at \div boundary = (at + size - 1) \div boundary
<1> DEFINE aligned == IF alignment > 0 THEN Ceil(alloc_ptr, alignment) ELSE alloc_ptr
           next_boundary == IF boundary > 0 THEN Ceil(aligned, boundary) ELSE aligned
           at == IF boundary > 0 /\ next_boundary < aligned + size THEN next_boundary ELSE aligned
<1>1. aligned \in Nat /\ alloc_ptr <= aligned /\ (alignment > 0 => aligned % alignment = 0)
  BY CeilFacts
<1>2. boundary > 0 => /\ next_boundary \in Nat /\ aligned <= next_boundary
                      /\ next_boundary % boundary = 0 /\ next_boundary = Ceil(aligned, boundary)
  <2> HIDE DEF aligned
  <2> QED
    BY <1>1, CeilFacts
<1>3. BlockAt(size, alignment, boundary) = at
  BY DEF BlockAt
<1> HIDE DEF aligned, next_boundary
<1>4. at \in Nat /\ alloc_ptr <= at
  BY <1>1, <1>2
<1>5. ASSUME alignment > 0 PROVE at % alignment = 0
  <2>1. CASE at = aligned
    BY <1>1, <1>5, <2>1
  <2>2. CASE at = next_boundary /\ boundary > 0
    BY <1>2, <1>5, <2>2, MultipleOfMultiple
  <2> QED
    BY <2>1, <2>2
<1>6. ASSUME boundary > 0, size <= boundary PROVE at \div boundary = (at + size - 1) \div boundary
  <2>1. at % boundary = 0 \/ at + size <= Ceil(at, boundary)
    BY <1>1, <1>2, <1>6
  <2>2. boundary \in Nat \ {0} /\ at \in Nat
    BY <1>4, <1>6
  <2> HIDE DEF at
  <2> QED
    BY <1>6, <2>1, <2>2, NotCrossed
<1> HIDE DEF at
<1> QED
  BY <1>3, <1>4, <1>5, <1>6

\* Whatever is asked for, the blocks remain as asked for, none is taken back, and
\* one that is handed out is a new block.
LEMMA AllocMemKeeps ==
  ASSUME PoolInv, PoolSize \in Nat,
         NEW size \in Nat \ {0}, NEW alignment \in Nat, NEW boundary \in Nat,
         alignment > 0 /\ boundary > 0 => boundary % alignment = 0,
         AllocMem(size, alignment, boundary)
  PROVE  /\ PoolInv' /\ blocks \subseteq blocks'
         /\ Allocated(size, alignment, boundary) \in Int
         /\ Allocated(size, alignment, boundary) # Null =>
              \E b \in blocks' : b.at = Allocated(size, alignment, boundary)
<1> DEFINE at == BlockAt(size, alignment, boundary)
           new == [at |-> at, size |-> size, alignment |-> alignment, boundary |-> boundary]
<1>1. /\ at \in Nat /\ alloc_ptr <= at
      /\ alignment > 0 => at % alignment = 0
      /\ boundary > 0 /\ size <= boundary => at \div boundary = (at + size - 1) \div boundary
  BY BlockAtFacts DEF PoolInv
<1>2. Allocated(size, alignment, boundary) = IF pool_base + PoolSize < at + size THEN Null ELSE at
  BY DEF Allocated
<1>3. pool_base' = pool_base
  BY DEF AllocMem
<1>4. CASE pool_base + PoolSize < at + size
  <2>1. alloc_ptr' = at /\ blocks' = blocks /\ Allocated(size, alignment, boundary) = Null
    BY <1>2, <1>4 DEF AllocMem
  <2> HIDE DEF at
  <2>2. PoolInv'
    BY <1>1, <1>3, <2>1 DEF PoolInv, BlocksAsAsked
  <2> QED
    BY <2>1, <2>2 DEF Null
<1>5. CASE ~(pool_base + PoolSize < at + size)
  <2>1. Allocated(size, alignment, boundary) = at /\ at # Null
    BY <1>1, <1>2, <1>5 DEF Null
  <2>2. alloc_ptr' = at + size /\ blocks' = blocks \cup {new}
    BY <2>1 DEF AllocMem
  <2> HIDE DEF at
  <2>3. /\ new \in [at : Nat, size : Nat \ {0}, alignment : Nat, boundary : Nat]
        /\ new.at = at /\ new.size = size /\ new.alignment = alignment /\ new.boundary = boundary
    BY <1>1
  <2>4. \A b \in blocks : b.at \in Nat /\ b.size \in Nat /\ b.at + b.size <= new.at
    BY <1>1, <2>3 DEF PoolInv
  <2> HIDE DEF new
  <2>5. \A b \in blocks' : b.at + b.size <= alloc_ptr'
    BY <1>1, <2>2, <2>3, <2>4
  <2>6. /\ pool_base <= new.at /\ new.at + new.size <= pool_base + PoolSize
        /\ new.alignment > 0 => new.at % new.alignment = 0
        /\ new.boundary > 0 /\ new.size <= new.boundary =>
             new.at \div new.boundary = (new.at + new.size - 1) \div new.boundary
    BY <1>1, <1>5, <2>3 DEF PoolInv
  <2>7. \A b, c \in blocks' : b # c => b.at + b.size <= c.at \/ c.at + c.size <= b.at
    BY <2>2, <2>4 DEF PoolInv, BlocksAsAsked
  <2>8. BlocksAsAsked'
    BY <1>3, <2>2, <2>6, <2>7 DEF PoolInv, BlocksAsAsked
  <2>9. PoolInv'
    BY <1>1, <1>3, <2>2, <2>3, <2>5, <2>8 DEF PoolInv
  <2> QED
    BY <1>1, <2>1, <2>2, <2>3, <2>9
<1> QED
  BY <1>4, <1>5

-----------------------------------------------------------------------------
(* Where the driver is.                                                    *)

\* The steps in their order, from the last one back.
Running == {"wait_running", "running"}
WithINTE == {"run"} \cup Running
WithIMAN == {"inte"} \cup WithINTE
WithERSTBA == {"iman"} \cup WithIMAN
WithERDP == {"erstba"} \cup WithERSTBA
WithERSTSZ == {"erdp"} \cup WithERDP
WithTable == {"erstsz"} \cup WithERSTSZ
WithEvents == {"table"} \cup WithTable
WithCRCR == {"events"} \cup WithEvents
WithCommands == {"crcr"} \cup WithCRCR
WithDCBAAP == {"commands"} \cup WithCommands
WithCONFIG == {"array", "buffers", "dcbaap"} \cup WithDCBAAP
Ready == {"config"} \cup WithCONFIG
OutOfReset == {"wait_ready"} \cup Ready
Stopped == {"wait_halted", "reset"}
Owned == {"halt"} \cup Stopped \cup {"wait_reset"} \cup OutOfReset
WithContexts == {"own", "wait_owned"} \cup Owned
Unpicked == {"off", "scan", "pick"}
Unasked == Unpicked \cup {"message", "switch", "devices", "contexts", "own"}
Untouched == Unasked \cup {"wait_owned", "halt"}

StartTypeOK ==
  /\ start \in Untouched \cup Owned \cup {"stopped"}
  /\ owner \in [bios : BOOLEAN, os : BOOLEAN]
  /\ legacy \in BOOLEAN
  /\ run_stop \in BOOLEAN /\ halted \in BOOLEAN
  /\ reset \in BOOLEAN /\ not_ready \in BOOLEAN
  /\ op \in [OpRegister -> Int]
  /\ given \in [Purpose -> Int]
  /\ scratchpads \in Nat /\ filled \in Nat

\* The firmware has the controller, if it does, until it is asked and gives it up, and
\* does so at rest; so a controller that the kernel seems to own already is at rest.
TakenOver ==
  /\ ~legacy => ~owner.bios
  /\ start \in Unasked => ~(owner.bios /\ owner.os)
  /\ start \in Owned => ~owner.bios
  /\ start \in Untouched /\ ~owner.bios => (halted <=> ~run_stop)

\* From the order to stop until the reset the controller comes to rest and stays.
Rests ==
  /\ start \in Untouched \cup Stopped => ~reset /\ ~not_ready
  /\ start \in Stopped => ~run_stop
  /\ start = "reset" => halted
  /\ start \in OutOfReset => ~reset
  /\ start \in Ready => ~not_ready

\* What is for a purpose has been handed out, and is in the registers.
Block(purpose) == \E b \in blocks : b.at = given[purpose]

HasBlocks ==
  /\ start \in WithContexts => Block("contexts")
  /\ start \in WithCommands => Block("commands")
  /\ start \in WithEvents => Block("events")
  /\ start \in WithTable => Block("table")

Programmed ==
  /\ start \in WithCONFIG => op["CONFIG"] = Slots
  /\ start \in WithDCBAAP => op["DCBAAP"] = given["contexts"]
  /\ start \in WithCRCR => op["CRCR"] = given["commands"]
  /\ start \in WithERSTSZ => op["ERSTSZ"] = 1
  /\ start \in WithERDP => op["ERDP"] = given["events"]
  /\ start \in WithERSTBA => op["ERSTBA"] = given["table"]
  /\ start \in WithIMAN => op["IMAN"] = 1
  /\ start \in WithINTE => op["INTE"] = 1

Pooled ==
  /\ PoolInv
  /\ start \in Unpicked => blocks = {}
  /\ start \in {"array", "buffers"} => scratchpads > 0

StartInv == StartTypeOK /\ TakenOver /\ Rests /\ HasBlocks /\ Programmed /\ Pooled

-----------------------------------------------------------------------------
(* The controller and the firmware.                                        *)

\* Whatever the controller and the firmware do by themselves.
LEMMA ControllerKeeps == ASSUME StartInv, Controller PROVE StartInv'
<1>1. UNCHANGED <<start, given, filled, scratchpads, legacy, pool_base, alloc_ptr, blocks>>
  BY DEF Controller, driver_vars, pool, FirmwareUses, FirmwareLetsGo, Halt, Start, FinishReset, GetReady
<1>2. StartTypeOK'
  <2>1. op' \in [OpRegister -> Int]
    BY DEF StartInv, StartTypeOK, Controller, FirmwareUses, FirmwareLetsGo, Halt, Start, FinishReset, GetReady,
           registers, FirmwareValue, ResetValue
  <2>2. owner' \in [bios : BOOLEAN, os : BOOLEAN]
    BY DEF StartInv, StartTypeOK, Controller, FirmwareUses, FirmwareLetsGo, Halt, Start, FinishReset, GetReady
  <2>3. run_stop' \in BOOLEAN /\ halted' \in BOOLEAN /\ reset' \in BOOLEAN /\ not_ready' \in BOOLEAN
    BY DEF StartInv, StartTypeOK, Controller, FirmwareUses, FirmwareLetsGo, Halt, Start, FinishReset, GetReady,
           registers
  <2> QED
    BY <1>1, <2>1, <2>2, <2>3 DEF StartInv, StartTypeOK
<1>3. HasBlocks' /\ Pooled'
  BY <1>1 DEF StartInv, HasBlocks, Block, Pooled, PoolInv, BlocksAsAsked
<1>4. op' = op \/ owner.bios \/ reset
  BY DEF Controller, FirmwareUses, FirmwareLetsGo, Halt, Start, FinishReset, GetReady, registers
<1>5. Programmed'
  <2>1. start \in WithCONFIG => op' = op
    BY <1>4 DEF StartInv, TakenOver, Rests, Owned, OutOfReset, Ready
  <2> QED
    BY <1>1, <2>1 DEF StartInv, Programmed, WithCONFIG, WithDCBAAP, WithCommands, WithCRCR, WithEvents, WithTable,
                      WithERSTSZ, WithERDP, WithERSTBA, WithIMAN, WithINTE, Running
<1>6. TakenOver'
  <2>1. CASE FirmwareUses
    BY <1>1, <2>1 DEF FirmwareUses, StartInv, TakenOver
  <2>2. CASE FirmwareLetsGo
    BY <1>1, <2>2 DEF FirmwareLetsGo, registers, StartInv, StartTypeOK, TakenOver
  <2>3. CASE Halt
    BY <1>1, <2>3 DEF Halt, StartInv, TakenOver
  <2>4. CASE Start
    BY <1>1, <2>4 DEF Start, StartInv, TakenOver
  <2>5. CASE FinishReset
    BY <1>1, <2>5 DEF FinishReset, StartInv, TakenOver, Rests
  <2>6. CASE GetReady
    BY <1>1, <2>6 DEF GetReady, StartInv, TakenOver
  <2> QED
    BY <2>1, <2>2, <2>3, <2>4, <2>5, <2>6 DEF Controller
<1>7. Rests'
  <2>1. CASE FirmwareUses
    <3>1. start \notin Owned
      BY <2>1 DEF FirmwareUses, StartInv, TakenOver
    <3> QED
      BY <1>1, <2>1, <3>1 DEF FirmwareUses, StartInv, Rests, Owned
  <2>2. CASE FirmwareLetsGo
    BY <1>1, <2>2 DEF FirmwareLetsGo, registers, StartInv, Rests
  <2>3. CASE Halt
    BY <1>1, <2>3 DEF Halt, StartInv, Rests
  <2>4. CASE Start
    BY <1>1, <2>4 DEF Start, StartInv, Rests, Stopped
  <2>5. CASE FinishReset
    <3>1. start \notin Untouched \cup Stopped \cup OutOfReset
      BY <2>5 DEF FinishReset, StartInv, Rests
    <3> QED
      BY <1>1, <2>5, <3>1 DEF FinishReset, Rests, OutOfReset, Stopped
  <2>6. CASE GetReady
    BY <1>1, <2>6 DEF GetReady, StartInv, Rests
  <2> QED
    BY <2>1, <2>2, <2>3, <2>4, <2>5, <2>6 DEF Controller
<1> QED
  BY <1>2, <1>3, <1>5, <1>6, <1>7 DEF StartInv

-----------------------------------------------------------------------------
(* The driver.                                                             *)

USE DEF WithContexts, WithCONFIG, WithDCBAAP, WithCommands, WithCRCR, WithEvents, WithTable, WithERSTSZ,
        WithERDP, WithERSTBA, WithIMAN, WithINTE, Running, Untouched, Unasked, Unpicked, Owned, Stopped, OutOfReset, Ready

\* The steps that only go on, to where their guard and the steps before allow.
Advance ==
  \/ start = "off" /\ start' = "scan"
  \/ start = "scan" /\ start' \in {"scan", "pick", "stopped"}
  \/ start = "pick" /\ start' = "stopped"
  \/ start = "message" /\ start' \in {"message", "switch"}
  \/ start = "switch" /\ start' = "devices"
  \/ start = "wait_owned" /\ start' = "halt" /\ ~owner.bios
  \/ start = "wait_halted" /\ start' = "reset" /\ halted
  \/ start = "wait_reset" /\ start' = "wait_ready" /\ ~reset
  \/ start = "wait_ready" /\ start' = "config" /\ ~not_ready
  \/ start = "wait_running" /\ start' = "running"

\* A step of the driver that changes neither registers nor memory.
LEMMA AdvanceKeeps ==
  ASSUME StartInv, Advance, UNCHANGED <<controller_vars, pool, given, filled>>
  PROVE  StartInv'
<1>1. UNCHANGED <<owner, legacy, op, run_stop, reset, halted, not_ready, scratchpads, pool_base, alloc_ptr, blocks>>
  BY DEF controller_vars, registers, pool
<1>2. StartTypeOK'
  BY <1>1 DEF StartInv, StartTypeOK, Advance
<1>3. start' \in {"scan", "pick", "stopped", "message", "switch", "devices", "halt", "reset", "wait_ready", "config",
                  "running"}
  BY DEF Advance
<1>4. TakenOver'
  BY <1>1 DEF StartInv, TakenOver, Advance
<1>5. Rests'
  BY <1>1 DEF StartInv, Rests, Advance
<1>6. Programmed' /\ HasBlocks'
  <2>1. start' \in WithCONFIG => start = "wait_running"
    BY DEF Advance
  <2>2. start' \in WithContexts => start \in WithContexts
    BY DEF Advance
  <2> QED
    BY <1>1, <2>1, <2>2 DEF StartInv, Programmed, HasBlocks, Block
<1>7. Pooled'
  BY <1>1 DEF StartInv, Advance, Pooled, PoolInv, BlocksAsAsked
<1> QED
  BY <1>2, <1>4, <1>5, <1>6, <1>7 DEF StartInv

\* A controller is picked, in any state, and the pool is found.
LEMMA PickControllerKeeps == ASSUME StartInv, PickController PROVE StartInv'
<1>1. CASE Of("xhci") = {}
  <2>1. Advance /\ UNCHANGED <<controller_vars, pool, given, filled>>
    BY <1>1 DEF PickController, Advance
  <2> QED
    BY <2>1, AdvanceKeeps
<1>2. CASE Of("xhci") # {}
  <2>1. /\ start = "pick" /\ start' = "message"
        /\ ControllerFound /\ MemoryFound
        /\ UNCHANGED <<filled, given>>
    BY <1>2 DEF PickController
  <2>2. PoolBases \subseteq Nat /\ ScratchpadCounts \subseteq Nat
    BY UsbMemoryAssumption, XhciStartAssumption
  <2>3. blocks = {} /\ blocks' = {} /\ pool_base' \in Nat /\ alloc_ptr' = pool_base'
    BY <2>1, <2>2 DEF StartInv, Pooled, MemoryFound
  <2>4. StartTypeOK'
    BY <2>1, <2>2 DEF StartInv, StartTypeOK, ControllerFound
  <2>5. TakenOver'
    BY <2>1 DEF TakenOver, ControllerFound
  <2>6. Rests'
    BY <2>1 DEF StartInv, Rests, ControllerFound
  <2>7. HasBlocks' /\ Programmed'
    BY <2>1 DEF HasBlocks, Programmed
  <2>8. Pooled'
    BY <2>1, <2>3 DEF Pooled, PoolInv, BlocksAsAsked
  <2> QED
    BY <2>4, <2>5, <2>6, <2>7, <2>8 DEF StartInv
<1> QED
  BY <1>1, <1>2

\* Where memory is allocated, where the driver goes on with it, and for what.
Allocations ==
  {<<"devices", "contexts", "devices">>, <<"contexts", "own", "contexts">>,
   <<"commands", "crcr", "commands">>, <<"events", "table", "events">>, <<"table", "erstsz", "table">>}

\* The driver allocates memory for a purpose.
LEMMA AllocateKeeps ==
  ASSUME StartInv, NEW from, NEW to, NEW purpose, <<from, to, purpose>> \in Allocations,
         NEW size \in Nat \ {0}, NEW alignment \in Nat, NEW boundary \in Nat,
         alignment > 0 /\ boundary > 0 => boundary % alignment = 0,
         Allocate(from, to, purpose, size, alignment, boundary),
         UNCHANGED controller_vars
  PROVE  StartInv'
<1> DEFINE block == Allocated(size, alignment, boundary)
<1>1. /\ AllocMem(size, alignment, boundary)
      /\ start = from /\ start' = IF block = Null THEN "stopped" ELSE to
      /\ given' = [given EXCEPT ![purpose] = block]
      /\ UNCHANGED <<owner, legacy, op, run_stop, reset, halted, not_ready, scratchpads, filled>>
  BY DEF Allocate, controller_vars, registers
<1>2. PoolSize \in Nat
  BY UsbMemoryAssumption
<1>3. /\ PoolInv' /\ blocks \subseteq blocks' /\ block \in Int
      /\ block # Null => \E b \in blocks' : b.at = block
  BY <1>1, <1>2, AllocMemKeeps DEF StartInv, Pooled
<1> HIDE DEF block
<1>4. purpose \in Purpose /\ given \in [Purpose -> Int]
  BY DEF Allocations, Purpose, StartInv, StartTypeOK
<1>5. /\ given'[purpose] = block
      /\ \A p \in Purpose \ {purpose} : given'[p] = given[p]
      /\ given' \in [Purpose -> Int]
  BY <1>1, <1>3, <1>4
<1>6. /\ start = from
      /\ start' = "stopped" \/ (start' = to /\ Block(purpose)')
  BY <1>1, <1>3, <1>5 DEF Block
<1>7. \A p \in Purpose \ {purpose} : Block(p) => Block(p)'
  BY <1>3, <1>5 DEF Block
<1>8. StartTypeOK'
  BY <1>1, <1>5, <1>6 DEF StartInv, StartTypeOK, Allocations
<1>9. TakenOver'
  BY <1>1, <1>6 DEF StartInv, TakenOver, Allocations
<1>10. Rests'
  BY <1>1, <1>6 DEF StartInv, Rests, Allocations
<1>11. HasBlocks'
  BY <1>6, <1>7 DEF StartInv, HasBlocks, Allocations, Purpose
<1>12. Programmed'
  BY <1>1, <1>5, <1>6 DEF StartInv, Programmed, Allocations, Purpose
<1>13. Pooled'
  BY <1>1, <1>3, <1>6 DEF Pooled, Allocations
<1> QED
  BY <1>8, <1>9, <1>10, <1>11, <1>12, <1>13 DEF StartInv

\* What is allocated, in the sizes and on the boundaries of the code.
LEMMA AllocationsKeep ==
  ASSUME StartInv,
         AllocateDevices \/ AllocateContexts \/ AllocateCommandRing \/ AllocateEventRing \/ AllocateTable
  PROVE  StartInv'
<1>1. /\ Slots + 1 \in Nat \ {0} /\ RingBytes \in Nat \ {0} /\ EntryBytes \in Nat \ {0}
      /\ 0 \in Nat /\ Page \in Nat /\ Segment \in Nat /\ Line \in Nat
  BY XhciStartAssumption
<1>2. Page % Line = 0 /\ Segment % Line = 0
  BY XhciStartAssumption
<1>3. CASE AllocateDevices
  BY <1>1, <1>3, AllocateKeeps DEF AllocateDevices, Allocations
<1>4. CASE AllocateContexts
  BY <1>1, <1>2, <1>4, AllocateKeeps DEF AllocateContexts, Allocations
<1>5. ASSUME NEW from, NEW to, NEW purpose, <<from, to, purpose>> \in Allocations,
             NEW size \in {RingBytes, EntryBytes},
             Allocate(from, to, purpose, size, Line, Segment), UNCHANGED controller_vars
      PROVE  StartInv'
  <2>1. size \in Nat \ {0}
    BY <1>1
  <2> QED
    BY <1>1, <1>2, <1>5, <2>1, AllocateKeeps
<1>6. /\ <<"commands", "crcr", "commands">> \in Allocations
      /\ <<"events", "table", "events">> \in Allocations
      /\ <<"table", "erstsz", "table">> \in Allocations
  BY DEF Allocations
<1>7. CASE AllocateCommandRing
  BY <1>5, <1>6, <1>7 DEF AllocateCommandRing
<1>8. CASE AllocateEventRing
  BY <1>5, <1>6, <1>8 DEF AllocateEventRing
<1>9. CASE AllocateTable
  BY <1>5, <1>6, <1>9 DEF AllocateTable
<1> QED
  BY <1>3, <1>4, <1>7, <1>8, <1>9

\* The array and the buffers are for the controller alone.
LEMMA ScratchpadsKeep ==
  ASSUME StartInv, AllocateArray \/ AllocateScratchpad
  PROVE  StartInv'
<1>1. /\ Page \in Nat \ {0} /\ Line \in Nat \ {0} /\ Page % Line = 0 /\ Page % Page = 0
      /\ PoolSize \in Nat
  BY XhciStartAssumption, UsbMemoryAssumption
<1>2. /\ start \in {"array", "buffers"} /\ start' \in {"buffers", "dcbaap"}
      /\ UNCHANGED <<owner, legacy, op, run_stop, reset, halted, not_ready, scratchpads>>
  BY DEF AllocateArray, AllocateScratchpad, Programming, At, controller_vars, registers
<1>3. scratchpads \in Nat \ {0}
  BY <1>2 DEF StartInv, StartTypeOK, Pooled
<1>4. /\ PoolInv' /\ blocks \subseteq blocks'
      /\ given' \in [Purpose -> Int] /\ filled' \in Nat
      /\ \A p \in Purpose \ {"array"} : given'[p] = given[p]
  <2>1. CASE AllocateArray
    <3>1. /\ AllocMem(scratchpads, Line, Page) /\ filled' = filled
          /\ given' = [given EXCEPT !["array"] = Allocated(scratchpads, Line, Page)]
      BY <2>1 DEF AllocateArray
    <3>2. PoolInv' /\ blocks \subseteq blocks' /\ Allocated(scratchpads, Line, Page) \in Int
      BY <1>1, <1>3, <3>1, AllocMemKeeps DEF StartInv, Pooled
    <3> QED
      BY <3>1, <3>2 DEF StartInv, StartTypeOK
  <2>2. CASE AllocateScratchpad
    <3>1. AllocMem(Page, Page, Page) /\ filled' = filled + 1 /\ given' = given
      BY <2>2 DEF AllocateScratchpad
    <3>2. PoolInv' /\ blocks \subseteq blocks'
      BY <1>1, <3>1, AllocMemKeeps DEF StartInv, Pooled
    <3> QED
      BY <3>1, <3>2 DEF StartInv, StartTypeOK
  <2> QED
    BY <2>1, <2>2
<1>5. \A p \in Purpose \ {"array"} : Block(p) => Block(p)'
  BY <1>4 DEF Block
<1>6. StartTypeOK'
  BY <1>2, <1>4 DEF StartInv, StartTypeOK
<1>7. TakenOver' /\ Rests'
  BY <1>2 DEF StartInv, TakenOver, Rests
<1>8. HasBlocks'
  BY <1>2, <1>5 DEF StartInv, HasBlocks, Purpose
<1>9. Programmed'
  BY <1>2, <1>4 DEF StartInv, Programmed, Purpose
<1>10. Pooled'
  BY <1>2, <1>3, <1>4 DEF Pooled
<1> QED
  BY <1>6, <1>7, <1>8, <1>9, <1>10 DEF StartInv

\* The steps that order the controller about.
LEMMA OrdersKeep ==
  ASSUME StartInv, RequestHCOwnership \/ StopController \/ ResetController \/ Run
  PROVE  StartInv'
<1>1. UNCHANGED <<legacy, halted, not_ready, scratchpads, filled, given, pool_base, alloc_ptr, blocks>>
  BY DEF RequestHCOwnership, StopController, ResetController, Run, registers, pool
<1>2. Pooled' /\ StartTypeOK' /\ HasBlocks' /\ TakenOver' /\ Rests' /\ Programmed'
  <2>1. CASE RequestHCOwnership
    <3>1. /\ start = "own"
          /\ \/ start' = "halt" /\ (~legacy \/ owner.os) /\ owner' = owner
             \/ start' = "wait_owned" /\ owner' = [owner EXCEPT !.os = TRUE]
          /\ UNCHANGED <<op, run_stop, reset>>
      BY <2>1 DEF RequestHCOwnership, Programming, At, registers
    <3>2. owner' \in [bios : BOOLEAN, os : BOOLEAN] /\ owner'.bios = owner.bios
      BY <3>1 DEF StartInv, StartTypeOK
    <3>3. StartTypeOK'
      BY <1>1, <3>1, <3>2 DEF StartInv, StartTypeOK
    <3>4. start' = "halt" => ~owner.bios
      BY <3>1 DEF StartInv, TakenOver
    <3>5. TakenOver'
      BY <1>1, <3>1, <3>2, <3>4 DEF StartInv, TakenOver
    <3>6. Rests' /\ HasBlocks' /\ Programmed'
      BY <1>1, <3>1 DEF StartInv, Rests, HasBlocks, Block, Programmed
    <3>7. Pooled'
      BY <1>1, <3>1 DEF StartInv, Pooled, PoolInv, BlocksAsAsked
    <3> QED
      BY <3>3, <3>5, <3>6, <3>7
  <2>2. CASE StopController
    <3>1. /\ start = "halt" /\ start' = "wait_halted"
          /\ run_stop' = (run_stop /\ halted)
          /\ op' = op \/ op' = [r \in OpRegister |-> IF r \in {"INTE"} THEN 0 ELSE op[r]]
          /\ UNCHANGED <<owner, reset>>
      BY <2>2 DEF StopController, Programming, At, WriteOp
    <3>2. ~owner.bios /\ (halted <=> ~run_stop) /\ ~reset /\ ~not_ready
      BY <3>1 DEF StartInv, TakenOver, Rests
    <3>3. ~run_stop'
      BY <3>1, <3>2
    <3>4. op' \in [OpRegister -> Int]
      BY <3>1 DEF StartInv, StartTypeOK
    <3>5. StartTypeOK'
      BY <1>1, <3>1, <3>3, <3>4 DEF StartInv, StartTypeOK
    <3>6. TakenOver'
      BY <1>1, <3>1 DEF StartInv, TakenOver
    <3>7. Rests'
      BY <1>1, <3>1, <3>2, <3>3 DEF Rests
    <3>8. HasBlocks' /\ Programmed'
      BY <1>1, <3>1 DEF StartInv, HasBlocks, Block, Programmed
    <3>9. Pooled'
      BY <1>1, <3>1 DEF StartInv, Pooled, PoolInv, BlocksAsAsked
    <3> QED
      BY <3>5, <3>6, <3>7, <3>8, <3>9
  <2>3. CASE ResetController
    <3>1. /\ start = "reset" /\ start' = "wait_reset" /\ reset' = TRUE
          /\ UNCHANGED <<owner, op, run_stop>>
      BY <2>3 DEF ResetController, Programming, At
    <3>2. StartTypeOK'
      BY <1>1, <3>1 DEF StartInv, StartTypeOK
    <3>3. TakenOver' /\ Rests'
      BY <1>1, <3>1 DEF StartInv, TakenOver, Rests
    <3>4. HasBlocks' /\ Programmed'
      BY <1>1, <3>1 DEF StartInv, HasBlocks, Block, Programmed
    <3>5. Pooled'
      BY <1>1, <3>1 DEF StartInv, Pooled, PoolInv, BlocksAsAsked
    <3> QED
      BY <3>2, <3>3, <3>4, <3>5
  <2>4. CASE Run
    <3>1. /\ start = "run" /\ start' = "wait_running" /\ run_stop' = TRUE
          /\ UNCHANGED <<owner, op, reset>>
      BY <2>4 DEF Run, Programming, At
    <3>2. StartTypeOK'
      BY <1>1, <3>1 DEF StartInv, StartTypeOK
    <3>3. TakenOver' /\ Rests'
      BY <1>1, <3>1 DEF StartInv, TakenOver, Rests
    <3>4. HasBlocks' /\ Programmed'
      BY <1>1, <3>1 DEF StartInv, HasBlocks, Block, Programmed
    <3>5. Pooled'
      BY <1>1, <3>1 DEF StartInv, Pooled, PoolInv, BlocksAsAsked
    <3> QED
      BY <3>2, <3>3, <3>4, <3>5
  <2> QED
    BY <2>1, <2>2, <2>3, <2>4
<1> QED
  BY <1>2 DEF StartInv

\* Where a register is written, where the driver goes on with it, and which.
Writes ==
  {<<"dcbaap", "commands", "DCBAAP">>, <<"crcr", "events", "CRCR">>, <<"erstsz", "erdp", "ERSTSZ">>,
   <<"erdp", "erstba", "ERDP">>, <<"erstba", "iman", "ERSTBA">>, <<"iman", "inte", "IMAN">>,
   <<"inte", "run", "INTE">>}

\* What the driver writes to a register it programs.
ValueOf(register) ==
  CASE register = "CONFIG" -> Slots
    [] register = "DCBAAP" -> given["contexts"]
    [] register = "CRCR" -> given["commands"]
    [] register = "ERDP" -> given["events"]
    [] register = "ERSTBA" -> given["table"]
    [] OTHER -> 1

\* The driver writes a register of a controller that takes it.
LEMMA ProgramKeeps ==
  ASSUME StartInv, NEW from, NEW to, NEW register,
         \/ <<from, to, register>> \in Writes
         \/ from = "config" /\ register = "CONFIG"
              /\ to = IF scratchpads > 0 THEN "array" ELSE "dcbaap",
         Program(from, to, [r \in {register} |-> ValueOf(register)])
  PROVE  StartInv'
<1> DEFINE value == ValueOf(register)
<1>1. Slots \in Nat
  BY XhciStartAssumption
<1>2. /\ start = from /\ start' = to
      /\ WriteOp([r \in {register} |-> value])
      /\ UNCHANGED <<owner, legacy, run_stop, reset, halted, not_ready, scratchpads, filled, given,
                     pool_base, alloc_ptr, blocks>>
  BY DEF Program, Programming, At, pool
<1>3. register \in OpRegister /\ start \in Ready
  BY <1>2 DEF Writes, OpRegister
<1>4. value \in Int
  BY <1>1 DEF ValueOf, StartInv, StartTypeOK, Purpose
<1>5. ~reset /\ ~not_ready
  BY <1>3 DEF StartInv, Rests
<1>6. op' = [r \in OpRegister |-> IF r = register THEN value ELSE op[r]]
  BY <1>2, <1>5 DEF WriteOp
<1>7. op' \in [OpRegister -> Int]
  BY <1>4, <1>6 DEF StartInv, StartTypeOK
<1>8. StartTypeOK'
  BY <1>2, <1>7 DEF StartInv, StartTypeOK, Writes
<1>9. TakenOver' /\ Rests'
  BY <1>2, <1>3, <1>5 DEF StartInv, TakenOver, Rests, Writes
<1>10. HasBlocks'
  BY <1>2 DEF StartInv, HasBlocks, Block, Writes
<1>11. /\ op'[register] = value
       /\ \A r \in OpRegister \ {register} : op'[r] = op[r]
  BY <1>3, <1>6
<1>12. Programmed'
  <2> HIDE DEF value
  <2>1. CASE from = "config"
    BY <1>2, <1>11, <2>1 DEF Programmed, Writes, OpRegister, value, ValueOf
  <2>2. CASE <<from, to, register>> \in Writes
    BY <1>2, <1>11, <2>2 DEF StartInv, Programmed, Writes, OpRegister, value, ValueOf
  <2> QED
    BY <2>1, <2>2
<1>13. Pooled'
  <2>1. start' \in {"array", "buffers"} => scratchpads > 0
    BY <1>2 DEF Writes
  <2> QED
    BY <1>2, <1>3, <2>1 DEF StartInv, Pooled, PoolInv, BlocksAsAsked, Writes
<1> QED
  BY <1>8, <1>9, <1>10, <1>12, <1>13 DEF StartInv

\* The steps of Controller::Initialize that write a register.
LEMMA ProgramsKeep ==
  ASSUME StartInv,
         \/ EnableSlots \/ PointToContexts \/ RegisterCommandRing \/ WriteTableSize
         \/ WriteDequeuePointer \/ WriteTable \/ EnableInterrupter \/ EnableController
  PROVE  StartInv'
<1>1. CASE EnableSlots
  <2>1. Program("config", IF scratchpads > 0 THEN "array" ELSE "dcbaap",
                [r \in {"CONFIG"} |-> ValueOf("CONFIG")])
    BY <1>1 DEF EnableSlots, ValueOf
  <2> QED
    BY <2>1, ProgramKeeps
<1>2. ASSUME NEW from, NEW to, NEW register, <<from, to, register>> \in Writes,
             Program(from, to, [r \in {register} |-> ValueOf(register)])
      PROVE  StartInv'
  BY <1>2, ProgramKeeps
<1>3. CASE PointToContexts
  BY <1>2, <1>3 DEF PointToContexts, Writes, ValueOf
<1>4. CASE RegisterCommandRing
  BY <1>2, <1>4 DEF RegisterCommandRing, Writes, ValueOf
<1>5. CASE WriteTableSize
  BY <1>2, <1>5 DEF WriteTableSize, Writes, ValueOf
<1>6. CASE WriteDequeuePointer
  BY <1>2, <1>6 DEF WriteDequeuePointer, Writes, ValueOf
<1>7. CASE WriteTable
  BY <1>2, <1>7 DEF WriteTable, Writes, ValueOf
<1>8. CASE EnableInterrupter
  BY <1>2, <1>8 DEF EnableInterrupter, Writes, ValueOf
<1>9. CASE EnableController
  BY <1>2, <1>9 DEF EnableController, Writes, ValueOf
<1> QED
  BY <1>1, <1>3, <1>4, <1>5, <1>6, <1>7, <1>8, <1>9

\* The remaining steps only go on.
LEMMA AdvancesKeep ==
  ASSUME StartInv,
         \/ KernelMain \/ ScanBuses \/ ConfigureMessages \/ SwitchEhci2Xhci \/ WaitOwned \/ WaitHalted
         \/ WaitReset \/ WaitReady \/ WaitRunning
  PROVE  StartInv'
<1>1. UNCHANGED <<controller_vars, pool, given, filled>>
  BY DEF KernelMain, ScanBuses, ConfigureMessages, SwitchEhci2Xhci, WaitOwned, WaitHalted, WaitReset, WaitReady,
         WaitRunning
<1>2. Advance
  BY DEF KernelMain, ScanBuses, ConfigureMessages, SwitchEhci2Xhci, WaitOwned, WaitHalted, WaitReset, WaitReady,
         WaitRunning, Programming, At, Advance
<1> QED
  BY <1>1, <1>2, AdvanceKeeps

\* Nothing is under way before the kernel runs.
LEMMA StartInitially == StartInit => StartInv
<1> SUFFICES ASSUME StartInit PROVE StartInv
  OBVIOUS
<1>1. start = "off" /\ legacy = FALSE /\ owner = [bios |-> FALSE, os |-> FALSE]
  BY DEF StartInit
<1>2. op \in [OpRegister -> Int] /\ given \in [Purpose -> Int]
  BY DEF StartInit, FirmwareValue, Null
<1>3. StartTypeOK
  <2>1. owner \in [bios : BOOLEAN, os : BOOLEAN]
    BY <1>1
  <2>2. /\ run_stop \in BOOLEAN /\ halted \in BOOLEAN /\ reset \in BOOLEAN /\ not_ready \in BOOLEAN
        /\ scratchpads \in Nat /\ filled \in Nat
    BY DEF StartInit
  <2>3. legacy \in BOOLEAN /\ start \in Untouched
    BY <1>1
  <2> QED
    BY <1>2, <2>1, <2>2, <2>3 DEF StartTypeOK
<1>4. TakenOver /\ Rests
  BY <1>1 DEF StartInit, TakenOver, Rests
<1>5. HasBlocks /\ Programmed
  BY <1>1 DEF HasBlocks, Programmed
<1>6. Pooled
  BY <1>1 DEF StartInit, MemoryInit, Pooled, PoolInv, BlocksAsAsked
<1> QED
  BY <1>3, <1>4, <1>5, <1>6 DEF StartInv

\* Every step, of the driver or of the controller.
LEMMA StartStepKeeps == StartInv /\ [StartNext]_kernel_vars => StartInv'
<1> SUFFICES ASSUME StartInv, [StartNext]_kernel_vars PROVE StartInv'
  OBVIOUS
<1>1. CASE Controller
  BY <1>1, ControllerKeeps
<1>2. CASE Driver \/ KernelMain
  BY <1>2, PickControllerKeeps, AllocationsKeep, ScratchpadsKeep, OrdersKeep, ProgramsKeep, AdvancesKeep DEF Driver
<1>3. CASE UNCHANGED kernel_vars
  <2>1. UNCHANGED <<start_vars, pool>>
    BY <1>3 DEF kernel_vars
  <2>2. UNCHANGED <<start, owner, legacy, op, run_stop, reset, halted, not_ready, scratchpads, filled, given,
                    pool_base, alloc_ptr, blocks>>
    BY <2>1 DEF start_vars, driver_vars, controller_vars, registers, pool
  <2> QED
    BY <2>2 DEF StartInv, StartTypeOK, TakenOver, Rests, HasBlocks, Block, Programmed, Pooled, PoolInv, BlocksAsAsked
<1> QED
  BY <1>1, <1>2, <1>3 DEF StartNext

-----------------------------------------------------------------------------
(* The theorems.                                                           *)

\* What the loader has put in place is in place however far the kernel has got: once
\* it has entered the kernel the loader is over. That the kernel does not write over
\* itself is not shown here.
THEOREM KernelStaysInPlace == Spec => [](KernelInPlace /\ KernelKept)
<1>1. Init => LoaderInit
  BY DEF Init
<1>2. [Next]_startup_vars => [LoaderNext]_loader_vars
  BY DEF Next, Loader, Kernel, startup_vars
<1>3. Spec => LoaderSpec
  BY <1>1, <1>2, PTL DEF Spec, LoaderSpec
<1> QED
  BY <1>3, KernelIsInPlace, KernelIsKept, PTL

\* What is known at each step of the start of the controller (Controller::Initialize
\* and Run): whose it is, what of it is still to come to rest, which registers have
\* been written, and which blocks have been given out.
THEOREM StartInvariant == Spec => []StartInv
<1>1. Init => StartInv
  BY StartInitially DEF Init
<1>2. StartInv /\ [Next]_startup_vars => StartInv'
  <2>1. [Next]_startup_vars => [StartNext]_kernel_vars
    BY DEF Next, Loader, Kernel, startup_vars
  <2> QED
    BY <2>1, StartStepKeeps
<1> QED
  BY <1>1, <1>2, PTL DEF Spec

\* The controller is halted whenever it is reset, whatever state the firmware
\* has had it in and however long that takes to let go of it.
THEOREM ResetIsSafe == Spec => ResetWhenHalted
<1> DEFINE Safe == reset' /\ ~reset => halted
<1>1. StartInv /\ [Next]_startup_vars => [Safe]_start_vars
  <2> SUFFICES ASSUME StartInv, [Next]_startup_vars, reset', ~reset
               PROVE  halted
    OBVIOUS
  <2>1. StartNext
    BY DEF Next, Loader, Kernel, startup_vars, kernel_vars, start_vars, controller_vars, registers
  <2>2. ResetController
    BY <2>1 DEF StartNext, KernelMain, Driver, ScanBuses, PickController, ConfigureMessages, SwitchEhci2Xhci,
                AllocateDevices, AllocateContexts, RequestHCOwnership, WaitOwned, StopController, WaitHalted,
                WaitReset, WaitReady, EnableSlots, AllocateArray, AllocateScratchpad, PointToContexts,
                AllocateCommandRing, RegisterCommandRing, AllocateEventRing, AllocateTable, WriteTableSize,
                WriteDequeuePointer, WriteTable, EnableInterrupter, EnableController, Run, WaitRunning, Program,
                Controller, FirmwareUses, FirmwareLetsGo, Halt, Start, FinishReset, GetReady,
                ControllerFound, controller_vars, registers
  <2> QED
    BY <2>2 DEF ResetController, Programming, At, StartInv, Rests
<1> QED
  BY <1>1, StartInvariant, PTL DEF Spec, ResetWhenHalted

\* The controller runs with what the driver wrote to it, and every structure it
\* has been told of is one that was allocated.
THEOREM ControllerIsProgrammed == Spec => []RunsAsProgrammed
<1>1. StartInv => RunsAsProgrammed
  <2> SUFFICES ASSUME StartInv, start \in {"wait_running", "running"} PROVE RunsAsProgrammed
    BY DEF RunsAsProgrammed
  <2>1. op \in [OpRegister -> Int]
    BY DEF StartInv, StartTypeOK
  <2>2. op = [CONFIG |-> Slots, DCBAAP |-> given["contexts"], CRCR |-> given["commands"],
              ERSTSZ |-> 1, ERDP |-> given["events"], ERSTBA |-> given["table"], IMAN |-> 1, INTE |-> 1]
    BY <2>1 DEF StartInv, Programmed, OpRegister
  <2>3. \A p \in {"contexts", "commands", "events", "table"} : \E b \in blocks : b.at = given[p]
    BY DEF StartInv, HasBlocks, Block
  <2> QED
    BY <2>2, <2>3 DEF RunsAsProgrammed
<1> QED
  BY <1>1, StartInvariant, PTL

\* Whatever the driver allocates lies apart from all else, in the pool, aligned
\* and across no boundary.
THEOREM MemoryIsAsAsked == Spec => []BlocksAsAsked
<1>1. StartInv => BlocksAsAsked
  BY DEF StartInv, Pooled, PoolInv
<1> QED
  BY <1>1, StartInvariant, PTL

-----------------------------------------------------------------------------
(* The messages that are asked of the device.                              *)

\* The walk has come to place k of the list, and has seen what is before it.
WalkedTo(k, order) ==
  LET n == Cardinality(DOMAIN space.header)
  IN  /\ cap_addr = IF k <= n THEN order[k] ELSE 0
      /\ \A j \in 1..n : j < k /\ space.header[order[j]].id = "msi" => msi_cap_addr # 0

Walking ==
  \E order \in [1..Cardinality(DOMAIN space.header) -> DOMAIN space.header] :
    /\ IsListOf(order, space)
    /\ \E k \in 1..(Cardinality(DOMAIN space.header) + 1) : WalkedTo(k, order)

\* Until it is over nothing is written; the capability that will be is an MSI
\* capability of the list, and is missed only if there is none before the walk.
MsiInv ==
  /\ msi \in {"idle", "walking", "kSuccess", "kNotImplemented", "kNoPCIMSI"}
  /\ msi # "idle" => space \in ConfSpaces
  /\ msi \in {"idle", "walking"} => cap_header = space.header /\ conf = space.conf
  /\ msi = "idle" => msi_cap_addr = 0
  /\ msi_cap_addr # 0 =>
       msi_cap_addr \in DOMAIN space.header /\ space.header[msi_cap_addr].id = "msi"
  /\ msi = "walking" => Walking
  /\ MessageAsAsked

\* Before the walk begins nothing has been said of any function.
LEMMA MsiInitially == MsiInit => MsiInv
BY DEF MsiInit, MsiInv, MessageAsAsked

\* The walk begins at the front of the list.
LEMMA BeginWalkKeeps == ASSUME MsiInv, BeginWalk PROVE MsiInv'
<1>1. /\ msi = "idle" /\ msi' = "walking" /\ space' \in ConfSpaces
      /\ cap_header' = space'.header /\ conf' = space'.conf /\ cap_addr' = space'.first
      /\ msi_cap_addr' = msi_cap_addr
  BY DEF BeginWalk
<1>2. msi_cap_addr' = 0
  BY <1>1 DEF MsiInv
<1>3. PICK c : c = space'
  OBVIOUS
<1>4. c \in ConfSpaces
  BY <1>1, <1>3
<1>5. PICK order \in [1..Cardinality(DOMAIN c.header) -> DOMAIN c.header] : IsListOf(order, c)
  BY <1>4, PciMsiAssumption
<1>6. Cardinality(DOMAIN c.header) \in Nat
  BY <1>4, PciMsiAssumption, FS_CardinalityType
<1>7. cap_addr' = IF 1 <= Cardinality(DOMAIN c.header) THEN order[1] ELSE 0
  BY <1>1, <1>3, <1>5 DEF IsListOf
<1>8. 1 \in 1..(Cardinality(DOMAIN c.header) + 1)
      /\ \A j \in 1..Cardinality(DOMAIN c.header) : ~(j < 1)
  BY <1>6
<1>9. Walking'
  BY <1>3, <1>5, <1>7, <1>8 DEF Walking, WalkedTo
<1>10. MessageAsAsked'
  BY <1>1 DEF MessageAsAsked
<1> QED
  BY <1>1, <1>2, <1>9, <1>10 DEF MsiInv

\* A step of the walk remembers the capability it passes, if that is one of MSI.
LEMMA ReadCapabilityKeeps == ASSUME MsiInv, ReadCapabilityHeader PROVE MsiInv'
<1>1. /\ msi = "walking" /\ msi' = msi /\ cap_addr # 0 /\ space' = space
      /\ cap_header' = cap_header /\ conf' = conf
      /\ cap_header = space.header /\ conf = space.conf
      /\ msi_cap_addr' = IF space.header[cap_addr].id = "msi" THEN cap_addr ELSE msi_cap_addr
      /\ cap_addr' = space.header[cap_addr].next
  BY DEF ReadCapabilityHeader, MsiInv
<1>2. PICK n : n = Cardinality(DOMAIN space.header)
  OBVIOUS
<1>3. n \in Nat /\ 0 \notin DOMAIN space.header
  BY <1>1, <1>2, PciMsiAssumption, FS_CardinalityType DEF MsiInv
<1>4. PICK order \in [1..n -> DOMAIN space.header] :
        IsListOf(order, space) /\ \E k \in 1..(n + 1) : WalkedTo(k, order)
  BY <1>1, <1>2 DEF MsiInv, Walking
<1>5. PICK k \in 1..(n + 1) : WalkedTo(k, order)
  BY <1>4
<1>6. k \in 1..n /\ cap_addr = order[k]
  BY <1>1, <1>2, <1>3, <1>5 DEF WalkedTo
<1>7. cap_addr \in DOMAIN space.header
  BY <1>4, <1>6
<1>8. k + 1 \in 1..(n + 1) /\ cap_addr' = IF k + 1 <= n THEN order[k + 1] ELSE 0
  BY <1>1, <1>2, <1>3, <1>4, <1>6 DEF IsListOf
<1>9. ASSUME NEW j \in 1..n, j < k + 1, space.header[order[j]].id = "msi"
      PROVE  msi_cap_addr' # 0
  <2>1. CASE j < k
    BY <1>1, <1>2, <1>3, <1>5, <1>7, <1>9, <2>1 DEF WalkedTo
  <2>2. CASE j = k
    BY <1>1, <1>3, <1>6, <1>7, <1>9, <2>2
  <2> QED
    BY <1>3, <1>6, <1>9, <2>1, <2>2
<1>10. Walking'
  <2>1. WalkedTo(k + 1, order)'
    BY <1>1, <1>2, <1>8, <1>9 DEF WalkedTo
  <2> QED
    BY <1>1, <1>2, <1>4, <1>8, <2>1 DEF Walking
<1>11. msi_cap_addr' # 0 =>
         msi_cap_addr' \in DOMAIN space'.header /\ space'.header[msi_cap_addr'].id = "msi"
  BY <1>1, <1>7 DEF MsiInv
<1>12. MessageAsAsked'
  BY <1>1 DEF MessageAsAsked
<1> QED
  BY <1>1, <1>10, <1>11, <1>12 DEF MsiInv

\* At the end of the list all capabilities have been seen.
LEMMA AllSeen ==
  ASSUME MsiInv, msi = "walking", cap_addr = 0, msi_cap_addr = 0
  PROVE  \A at \in DOMAIN space.header : space.header[at].id # "msi"
<1>1. PICK n : n = Cardinality(DOMAIN space.header)
  OBVIOUS
<1>2. n \in Nat /\ 0 \notin DOMAIN space.header
  BY <1>1, PciMsiAssumption, FS_CardinalityType DEF MsiInv
<1>3. PICK order \in [1..n -> DOMAIN space.header] :
        IsListOf(order, space) /\ \E k \in 1..(n + 1) : WalkedTo(k, order)
  BY <1>1 DEF MsiInv, Walking
<1>4. PICK k \in 1..(n + 1) : WalkedTo(k, order)
  BY <1>3
<1>5. ~(k \in 1..n)
  BY <1>1, <1>2, <1>3, <1>4 DEF WalkedTo
<1>6. k = n + 1
  BY <1>2, <1>5
<1> SUFFICES ASSUME NEW at \in DOMAIN space.header, space.header[at].id = "msi" PROVE FALSE
  OBVIOUS
<1>7. PICK j \in 1..n : at = order[j]
  BY <1>1, <1>3 DEF IsListOf
<1>8. j < k
  BY <1>2, <1>6
<1> QED
  BY <1>1, <1>4, <1>7, <1>8 DEF WalkedTo

\* The capability is written back with the message, and with all else as it was
\* read: the places of the fields do not depend on what is changed in them.
LEMMA MessageIsWritten ==
  ASSUME NEW at \in DOMAIN space.header, space \in ConfSpaces, space.header[at].id = "msi",
         cap_header = space.header, conf = space.conf, msi_cap_addr = at,
         ConfigureMSIRegister
  PROVE  /\ conf' = [space.conf EXCEPT ![Layout(at).address] = MessageAddress,
                                       ![Layout(at).data] = MessageData]
         /\ \E n \in 0..space.header[at].multi_msg_capable :
              /\ n <= VectorExponent
              /\ cap_header' = [space.header EXCEPT ![at].msi_enable = 1,
                                                    ![at].multi_msg_enable = n]
<1>1. PICK h : h = space.header[at]
  OBVIOUS
<1>2. h \in Header /\ space.header \in [DOMAIN space.header -> Header]
  BY <1>1, PciMsiAssumption
<1>3. PICK n : n = Vectors(h)
  OBVIOUS
<1>4. n \in 0..h.multi_msg_capable /\ n <= VectorExponent
  BY <1>2, <1>3, PciMsiAssumption DEF Vectors, Header
<1>5. PICK cap : cap = ReadMSICapability(at)
  OBVIOUS
<1>6. /\ cap.header = h /\ cap.msg_addr = conf[at + 1]
      /\ cap.msg_upper_addr = IF h.addr_64_capable THEN conf[at + 2] ELSE 0
      /\ cap.msg_data = conf[DataAt(at)]
      /\ cap.mask_bits = IF h.per_vector_mask_capable THEN conf[DataAt(at) + 1] ELSE 0
      /\ cap.pending_bits = IF h.per_vector_mask_capable THEN conf[DataAt(at) + 2] ELSE 0
  BY <1>1, <1>5 DEF ReadMSICapability
<1>7. PICK now : now = [cap EXCEPT !.header.multi_msg_enable = n,
                                   !.header.msi_enable = 1,
                                   !.msg_addr = MessageAddress,
                                   !.msg_data = MessageData]
  OBVIOUS
<1>8. /\ now.header = [h EXCEPT !.multi_msg_enable = n, !.msi_enable = 1]
      /\ now.msg_addr = MessageAddress /\ now.msg_data = MessageData
      /\ now.msg_upper_addr = cap.msg_upper_addr
      /\ now.mask_bits = cap.mask_bits /\ now.pending_bits = cap.pending_bits
  BY <1>5, <1>6, <1>7 DEF ReadMSICapability
<1>9. WriteMSICapability(at, now)
  BY <1>3, <1>5, <1>6, <1>7 DEF ConfigureMSIRegister
<1>10. cap_header' = [space.header EXCEPT ![at] = [h EXCEPT !.multi_msg_enable = n, !.msi_enable = 1]]
  BY <1>8, <1>9 DEF WriteMSICapability
<1>11. [h EXCEPT !.multi_msg_enable = n, !.msi_enable = 1] =
       [h EXCEPT !.msi_enable = 1, !.multi_msg_enable = n]
  BY <1>2 DEF Header
<1>12. cap_header' = [space.header EXCEPT ![at].msi_enable = 1, ![at].multi_msg_enable = n]
  BY <1>1, <1>2, <1>10, <1>11
<1>13. Layout(at).address = at + 1 /\ Layout(at).data = DataAt(at) /\ at + 1 # DataAt(at)
  <2>1. at \in Nat
    BY PciMsiAssumption
  <2> QED
    BY <1>1, <2>1 DEF Layout, DataAt
<1>14. ASSUME NEW r \in DOMAIN conf
       PROVE  conf'[r] = IF r = at + 1 THEN MessageAddress
                         ELSE IF r = DataAt(at) THEN MessageData ELSE conf[r]
  <2>1. at \in Nat /\ DataAt(at) = IF h.addr_64_capable THEN at + 3 ELSE at + 2
    BY <1>1, PciMsiAssumption DEF DataAt
  <2>2. /\ now.header.addr_64_capable = h.addr_64_capable
        /\ now.header.per_vector_mask_capable = h.per_vector_mask_capable
    BY <1>2, <1>8 DEF Header
  <2>3. conf'[r] =
          CASE r = at + 1 -> MessageAddress
            [] r = DataAt(at) -> MessageData
            [] r = at + 2 /\ h.addr_64_capable -> now.msg_upper_addr
            [] r = DataAt(at) + 1 /\ h.per_vector_mask_capable -> now.mask_bits
            [] r = DataAt(at) + 2 /\ h.per_vector_mask_capable -> now.pending_bits
            [] OTHER -> conf[r]
    BY <1>8, <1>9, <1>14, <2>2 DEF WriteMSICapability
  <2>4. CASE r = at + 1
    BY <1>13, <2>1, <2>3, <2>4
  <2>5. CASE r = DataAt(at)
    BY <1>13, <2>1, <2>3, <2>5
  <2>6. CASE r # at + 1 /\ r # DataAt(at)
    BY <1>6, <1>8, <2>1, <2>3, <2>6
  <2> QED
    BY <2>4, <2>5, <2>6
<1>15. conf \in [DOMAIN conf -> Nat]
  BY PciMsiAssumption
<1>16. conf' = [r \in DOMAIN conf |-> conf'[r]]
  BY <1>9 DEF WriteMSICapability
<1>17. conf' = [space.conf EXCEPT ![at + 1] = MessageAddress, ![DataAt(at)] = MessageData]
  BY <1>13, <1>14, <1>15, <1>16
<1> QED
  BY <1>1, <1>4, <1>12, <1>13, <1>17

\* The end of a walk leaves what has been written.
LEMMA FinishWalkKeeps == ASSUME MsiInv, FinishWalk PROVE MsiInv'
<1>1. /\ msi = "walking" /\ cap_addr = 0 /\ space' = space /\ msi_cap_addr' = msi_cap_addr
      /\ cap_header = space.header /\ conf = space.conf /\ space \in ConfSpaces
  BY DEF FinishWalk, MsiInv
<1>2. CASE msi_cap_addr # 0
  <2>1. ConfigureMSIRegister /\ msi' = "kSuccess"
    BY <1>2 DEF FinishWalk
  <2>2. msi_cap_addr \in DOMAIN space.header /\ space.header[msi_cap_addr].id = "msi"
    BY <1>2 DEF MsiInv
  <2>3. /\ conf' = [space.conf EXCEPT ![Layout(msi_cap_addr).address] = MessageAddress,
                                      ![Layout(msi_cap_addr).data] = MessageData]
        /\ \E n \in 0..space.header[msi_cap_addr].multi_msg_capable :
             /\ n <= VectorExponent
             /\ cap_header' = [space.header EXCEPT ![msi_cap_addr].msi_enable = 1,
                                                   ![msi_cap_addr].multi_msg_enable = n]
    BY <1>1, <2>1, <2>2, MessageIsWritten
  <2>4. Layout(msi_cap_addr)' = Layout(msi_cap_addr)
    BY <1>1 DEF Layout
  <2>5. MessageAsAsked'
    BY <1>1, <2>1, <2>2, <2>3 DEF MessageAsAsked, Layout
  <2> QED
    BY <1>1, <1>2, <2>1, <2>2, <2>5 DEF MsiInv
<1>3. CASE msi_cap_addr = 0
  <2>1. msi' \in {"kNotImplemented", "kNoPCIMSI"} /\ cap_header' = cap_header /\ conf' = conf
    BY <1>3 DEF FinishWalk
  <2>2. \A at \in DOMAIN space.header : space.header[at].id # "msi"
    BY <1>1, <1>3, AllSeen
  <2>3. MessageAsAsked'
    BY <1>1, <2>1, <2>2 DEF MessageAsAsked
  <2> QED
    BY <1>1, <1>3, <2>1, <2>3 DEF MsiInv
<1> QED
  BY <1>2, <1>3

\* For any list of capabilities, in any order and of any layout: the device is
\* asked for the message as the standard has it, and nothing else of its
\* configuration is changed; it is not asked only if it has no MSI capability.
THEOREM MessagesAreAsAsked == Spec => []MessageAsAsked
<1>1. Init => MsiInv
  BY MsiInitially DEF Init, StartInit
<1>2. MsiInv /\ [Next]_startup_vars => MsiInv'
  <2> SUFFICES ASSUME MsiInv, [Next]_startup_vars PROVE MsiInv'
    OBVIOUS
  <2>1. MsiNext \/ UNCHANGED msi_vars
    BY DEF Next, Loader, Kernel, startup_vars, kernel_vars, StartNext, KernelMain, Driver,
           ScanBuses, PickController, ConfigureMessages, SwitchEhci2Xhci, Allocate,
           AllocateDevices, AllocateContexts, RequestHCOwnership, WaitOwned, StopController,
           WaitHalted, ResetController, WaitReset, WaitReady, EnableSlots, AllocateArray,
           AllocateScratchpad, PointToContexts, AllocateCommandRing, RegisterCommandRing,
           AllocateEventRing, AllocateTable, WriteTableSize, WriteDequeuePointer, WriteTable,
           EnableInterrupter, EnableController, Run, WaitRunning, Program, Programming, Controller
  <2>2. CASE UNCHANGED msi_vars
    BY <2>2 DEF msi_vars, MsiInv, Walking, WalkedTo, MessageAsAsked, Layout
  <2> QED
    BY <2>1, <2>2, BeginWalkKeeps, ReadCapabilityKeeps, FinishWalkKeeps DEF MsiNext
<1>3. MsiInv => MessageAsAsked
  BY DEF MsiInv
<1> QED
  BY <1>1, <1>2, <1>3, PTL DEF Spec

-----------------------------------------------------------------------------
(* What the search finds.                                                  *)

\* Where there may be a function, and where the loops of a bus may be.
PlaceSet == Nat \X (0..(Devices - 1)) \X (0..(Functions - 1))
Stop == Nat \X (0..Devices) \X (0..(Functions - 1))

\* Where the loops of a bus come to p before they come to q.
Before(p, q) == p[2] < q[2] \/ (p[2] = q[2] /\ p[3] < q[3])

\* A bus is begun with its host bridge, or when the bridge to it is found.
Begun ==
  {bus \in RootBuses : bus < host}
  \cup {machine[p].secondary : p \in {q \in Found : machine[q].class = "bridge"}}

\* The loops of a bus are past p.
Passed(p, stack) == \A k \in DOMAIN stack : stack[k][1] = p[1] => Before(p, stack[k])

\* What is found are the functions that the loops have passed, on the buses begun;
\* of a bus there is one level on the stack at most; and no bus is begun that is not
\* in all closed sets.
Searched(begun, found, stack) ==
  /\ \A p \in found : p \in Shown /\ p[1] \in begun /\ Passed(p, stack)
  /\ \A p \in Shown : p[1] \in begun /\ Passed(p, stack) => p \in found
  /\ \A k \in DOMAIN stack : stack[k][1] \in begun
  /\ \A k, l \in DOMAIN stack : stack[k][1] = stack[l][1] => k = l
  /\ \A S \in ClosedSets : begun \subseteq S

\* A loop over functions beyond the first is under way only in a device that has them.
InDevice(stop) ==
  stop[3] # 0 => <<stop[1], stop[2], 0>> \in DOMAIN machine /\ machine[<<stop[1], stop[2], 0>>].multi

\* All levels of the stack are where there is something to look at.
InDevices(stack) == \A k \in DOMAIN stack : InDevice(stack[k])

\* The table has each function once, and those that have been passed; what is left of
\* the invariant when the table is full is that there are too many functions.
ScanInv ==
  /\ scan \in {"idle", "scanning", "done", "failed"}
  /\ scan # "idle" => machine \in Machines
  /\ host \in 0..Functions
  /\ scan_stack \in Seq(Stop)
  /\ devices \in Seq(PlaceSet)
  /\ Len(devices) <= TableSize
  /\ IsTree => \A i, j \in DOMAIN devices : devices[i] = devices[j] => i = j
  /\ scan = "idle" => devices = <<>> /\ scan_stack = <<>> /\ host = 0
  /\ scan = "scanning" => InDevices(scan_stack)
  /\ scan = "scanning" /\ ~machine[<<0, 0, 0>>].multi => host = Functions
  /\ scan = "done" => scan_stack = <<>> /\ host = Functions
  /\ scan \in {"scanning", "done"} /\ IsTree => Searched(Begun, Found, scan_stack)
  /\ scan = "failed" /\ IsTree => Found \subseteq Reachable /\ Cardinality(Reachable) > TableSize

\* What the assumption says of the machine that the kernel runs on.
LEMMA MachineFacts ==
  ASSUME machine \in Machines
  PROVE  /\ DOMAIN machine \subseteq PlaceSet /\ IsFiniteSet(DOMAIN machine)
         /\ \A p \in DOMAIN machine : machine[p].multi \in BOOLEAN /\ machine[p].secondary \in Nat
         /\ <<0, 0, 0>> \in DOMAIN machine
         /\ Shown \subseteq DOMAIN machine
         /\ RootBuses \subseteq 0..(Functions - 1)
         /\ Devices \in Nat \ {0} /\ Functions \in Nat \ {0} /\ TableSize \in Nat \ {0}
BY PciScanAssumption DEF PlaceSet, Shown, RootBuses

\* A place by its parts.
LEMMA Parts ==
  /\ \A p \in PlaceSet : /\ p[1] \in Nat /\ p[2] \in 0..(Devices - 1) /\ p[3] \in 0..(Functions - 1)
                         /\ p = <<p[1], p[2], p[3]>>
  /\ \A p \in Stop : /\ p[1] \in Nat /\ p[2] \in 0..Devices /\ p[3] \in 0..(Functions - 1)
                     /\ p = <<p[1], p[2], p[3]>>
BY DEF PlaceSet, Stop

\* The loops go on to the next place there may be, and miss none on their bus.
LEMMA LoopsGoOn ==
  ASSUME machine \in Machines, NEW stop \in Stop, stop[2] < Devices, InDevice(stop)
  PROVE  /\ NextPlace(stop) \in Stop /\ InDevice(NextPlace(stop)) /\ NextPlace(stop)[1] = stop[1]
         /\ \A p \in Shown : p[1] = stop[1] /\ Before(p, NextPlace(stop)) => Before(p, stop) \/ p = stop
         /\ \A p \in Shown : p[1] = stop[1] /\ (Before(p, stop) \/ p = stop) => Before(p, NextPlace(stop))
         /\ stop \in DOMAIN machine => stop \in Shown
<1>1. PICK b \in Nat, d \in 0..(Devices - 1), f \in 0..(Functions - 1) : stop = <<b, d, f>>
  <2>1. stop[2] \in 0..(Devices - 1)
    BY Parts, MachineFacts
  <2> QED
    BY <2>1, Parts
<1>2. stop[1] = b /\ stop[2] = d /\ stop[3] = f
  BY <1>1
<1>3. PICK next : next = NextPlace(stop)
  OBVIOUS
<1>4. CASE (f = 0 /\ (stop \notin DOMAIN machine \/ ~machine[stop].multi)) \/ f = Functions - 1
  <2>1. next = <<b, d + 1, 0>>
    BY <1>2, <1>3, <1>4 DEF NextPlace, Answers, IsSingleFunctionDevice
  <2>2. next \in Stop /\ next[1] = b /\ next[2] = d + 1 /\ next[3] = 0
    BY <2>1, MachineFacts DEF Stop
  <2>3. InDevice(next)
    BY <2>2 DEF InDevice
  <2>4. ASSUME NEW p \in Shown, p[1] = b, Before(p, next)
        PROVE  Before(p, stop) \/ p = stop
    <3>1. p \in PlaceSet /\ p = <<p[1], p[2], p[3]>> /\ p[2] \in Nat /\ p[3] \in 0..(Functions - 1)
      BY MachineFacts, Parts
    <3>2. p[2] <= d
      BY <2>2, <2>4, <3>1 DEF Before
    <3>3. CASE p[2] = d /\ f = 0 /\ (stop \notin DOMAIN machine \/ ~machine[stop].multi)
      <4>1. <<p[1], p[2], 0>> = stop
        BY <1>1, <2>4, <3>3
      <4>2. p[3] = 0
        BY <3>3, <4>1 DEF Shown
      <4> QED
        BY <3>1, <4>1, <4>2
    <3>4. CASE p[2] = d /\ f = Functions - 1
      BY <1>1, <1>2, <2>4, <3>1, <3>4 DEF Before
    <3>5. CASE p[2] < d
      BY <1>2, <3>5 DEF Before
    <3> QED
      BY <1>4, <3>1, <3>2, <3>3, <3>4, <3>5
  <2>5. ASSUME NEW p \in Shown, p[1] = b, Before(p, stop) \/ p = stop
        PROVE  Before(p, next)
    <3>1. p \in PlaceSet /\ p[2] \in Nat /\ p[3] \in 0..(Functions - 1)
      BY MachineFacts, Parts
    <3> QED
      BY <1>2, <2>2, <2>5, <3>1 DEF Before
  <2>6. stop \in DOMAIN machine => stop \in Shown
    BY <1>1, <1>2 DEF Shown, InDevice
  <2> QED
    BY <1>2, <1>3, <2>2, <2>3, <2>4, <2>5, <2>6
<1>5. CASE ~((f = 0 /\ (stop \notin DOMAIN machine \/ ~machine[stop].multi)) \/ f = Functions - 1)
  <2>1. next = <<b, d, f + 1>>
    BY <1>2, <1>3, <1>5 DEF NextPlace, Answers, IsSingleFunctionDevice
  <2>2. next \in Stop /\ next[1] = b /\ next[2] = d /\ next[3] = f + 1
    BY <1>5, <2>1, MachineFacts DEF Stop
  <2>3. <<b, d, 0>> \in DOMAIN machine /\ machine[<<b, d, 0>>].multi
    BY <1>1, <1>2, <1>5 DEF InDevice
  <2>4. InDevice(next)
    BY <2>2, <2>3 DEF InDevice
  <2>5. ASSUME NEW p \in Shown, p[1] = b, Before(p, next)
        PROVE  Before(p, stop) \/ p = stop
    <3>1. p \in PlaceSet /\ p = <<p[1], p[2], p[3]>> /\ p[2] \in Nat /\ p[3] \in 0..(Functions - 1)
      BY MachineFacts, Parts
    <3>2. p[2] < d \/ (p[2] = d /\ p[3] < f) \/ (p[2] = d /\ p[3] = f)
      BY <2>2, <2>5, <3>1 DEF Before
    <3> QED
      BY <1>1, <1>2, <2>5, <3>1, <3>2 DEF Before
  <2>6. ASSUME NEW p \in Shown, p[1] = b, Before(p, stop) \/ p = stop
        PROVE  Before(p, next)
    <3>1. p \in PlaceSet /\ p[2] \in Nat /\ p[3] \in 0..(Functions - 1)
      BY MachineFacts, Parts
    <3> QED
      BY <1>2, <2>2, <2>6, <3>1 DEF Before
  <2>7. stop \in DOMAIN machine => stop \in Shown
    BY <1>1, <2>3 DEF Shown
  <2> QED
    BY <1>2, <1>3, <2>2, <2>4, <2>5, <2>6, <2>7
<1> QED
  BY <1>4, <1>5

\* A stack without its front.
LEMMA PoppedStack ==
  ASSUME NEW stack \in Seq(Stop), stack # <<>>
  PROVE  /\ Tail(stack) \in Seq(Stop) /\ 1 \in DOMAIN stack /\ Head(stack) = stack[1]
         /\ stack[1] \in Stop
         /\ \A k \in DOMAIN Tail(stack) : k + 1 \in DOMAIN stack /\ Tail(stack)[k] = stack[k + 1]
                                          /\ k \in Nat /\ k + 1 # 1
         /\ \A k \in DOMAIN stack : k # 1 => k - 1 \in DOMAIN Tail(stack) /\ Tail(stack)[k - 1] = stack[k]
                                             /\ k \in Nat /\ (k - 1) + 1 = k
OBVIOUS

\* A stack with a new front.
LEMMA PushedStack ==
  ASSUME NEW stack \in Seq(Stop), NEW stop \in Stop
  PROVE  /\ <<stop>> \o stack \in Seq(Stop)
         /\ 1 \in DOMAIN (<<stop>> \o stack) /\ (<<stop>> \o stack)[1] = stop
         /\ \A k \in DOMAIN stack : k \in Nat /\ k + 1 \in DOMAIN (<<stop>> \o stack) /\ k + 1 # 1
                                    /\ (<<stop>> \o stack)[k + 1] = stack[k]
         /\ \A k \in DOMAIN (<<stop>> \o stack) :
              k # 1 => k - 1 \in DOMAIN stack /\ (<<stop>> \o stack)[k] = stack[k - 1]
                       /\ k \in Nat /\ (k - 1) + 1 = k
OBVIOUS

\* A stack whose front is exchanged.
LEMMA MovedStack ==
  ASSUME NEW stack \in Seq(Stop), stack # <<>>, NEW stop \in Stop
  PROVE  \E moved \in Seq(Stop) :
           /\ moved = <<stop>> \o Tail(stack)
           /\ DOMAIN moved = DOMAIN stack
           /\ 1 \in DOMAIN stack /\ moved[1] = stop
           /\ \A k \in DOMAIN stack : k # 1 => moved[k] = stack[k]
<1>1. PICK tail \in Seq(Stop) : tail = Tail(stack)
  BY PoppedStack
<1>2. PICK moved : moved = <<stop>> \o tail
  OBVIOUS
<1>3. moved \in Seq(Stop) /\ Len(moved) = Len(stack) /\ moved[1] = stop
  BY <1>1, <1>2
<1>4. \A k \in DOMAIN stack : k # 1 => moved[k] = stack[k]
  BY <1>1, <1>2, PoppedStack, PushedStack
<1>5. DOMAIN moved = DOMAIN stack
  BY <1>3
<1> QED
  BY <1>1, <1>2, <1>3, <1>4, <1>5, PoppedStack

\* The loop of the innermost bus goes on, past a place where nothing answers or over
\* a function that is found and is no bridge.
LEMMA SearchGoesOn ==
  ASSUME machine \in Machines, NEW begun, NEW found, NEW stack \in Seq(Stop), stack # <<>>,
         NEW moved \in Seq(Stop), NEW next \in Stop,
         Searched(begun, found, stack), stack[1][2] < Devices, InDevice(stack[1]),
         next = NextPlace(stack[1]),
         DOMAIN moved = DOMAIN stack, moved[1] = next,
         \A k \in DOMAIN stack : k # 1 => moved[k] = stack[k],
         NEW more, more = {p \in {stack[1]} : p \in DOMAIN machine}
  PROVE  Searched(begun, found \cup more, moved)
<1>1. PICK here \in Stop : here = stack[1]
  BY PoppedStack
<1>2. 1 \in DOMAIN stack
  BY PoppedStack
<1>3. /\ next[1] = here[1]
      /\ \A p \in Shown : p[1] = here[1] /\ Before(p, next) => Before(p, here) \/ p = here
      /\ \A p \in Shown : p[1] = here[1] /\ (Before(p, here) \/ p = here) => Before(p, next)
      /\ here \in DOMAIN machine => here \in Shown
  BY <1>1, LoopsGoOn
<1>5. \A k \in DOMAIN moved : moved[k][1] = stack[k][1]
  BY <1>1, <1>3
<1>6. ASSUME NEW p \in Shown, Passed(p, stack) \/ p = here PROVE Passed(p, moved)
  <2> SUFFICES ASSUME NEW k \in DOMAIN moved, moved[k][1] = p[1] PROVE Before(p, moved[k])
    BY DEF Passed
  <2>1. k \in DOMAIN stack /\ stack[k][1] = p[1]
    BY <1>5
  <2>2. CASE k = 1
    BY <1>1, <1>3, <1>6, <2>1, <2>2 DEF Passed
  <2>3. CASE k # 1
    <3>1. p # here
      BY <1>1, <1>2, <2>1, <2>3 DEF Searched
    <3> QED
      BY <1>6, <2>1, <2>3, <3>1 DEF Passed
  <2> QED
    BY <2>2, <2>3
<1>7. ASSUME NEW p \in Shown, Passed(p, moved), p # here PROVE Passed(p, stack)
  <2> SUFFICES ASSUME NEW k \in DOMAIN stack, stack[k][1] = p[1] PROVE Before(p, stack[k])
    BY DEF Passed
  <2>1. k \in DOMAIN moved /\ moved[k][1] = p[1] /\ Before(p, moved[k])
    BY <1>5, <1>7 DEF Passed
  <2>2. CASE k = 1
    BY <1>1, <1>3, <1>7, <2>1, <2>2
  <2>3. CASE k # 1
    BY <2>1, <2>3
  <2> QED
    BY <2>2, <2>3
<1>8. \A p \in found \cup more : p \in Shown /\ p[1] \in begun /\ Passed(p, moved)
  <2>1. \A p \in found : p \in Shown /\ p[1] \in begun /\ Passed(p, stack)
    BY DEF Searched
  <2>2. \A p \in more : p = here /\ p \in Shown /\ p[1] \in begun
    BY <1>1, <1>2, <1>3 DEF Searched
  <2> QED
    BY <1>6, <2>1, <2>2
<1>9. \A p \in Shown : p[1] \in begun /\ Passed(p, moved) => p \in found \cup more
  <2> SUFFICES ASSUME NEW p \in Shown, p[1] \in begun, Passed(p, moved)
               PROVE  p \in found \cup more
    OBVIOUS
  <2>1. CASE p = here
    BY <1>1, <2>1, MachineFacts
  <2>2. CASE p # here
    BY <1>7, <2>2 DEF Searched
  <2> QED
    BY <2>1, <2>2
<1>10. \A k \in DOMAIN moved : moved[k][1] \in begun
  BY <1>5 DEF Searched
<1>11. \A k, l \in DOMAIN moved : moved[k][1] = moved[l][1] => k = l
  BY <1>5 DEF Searched
<1>12. \A S \in ClosedSets : begun \subseteq S
  BY DEF Searched
<1> QED
  BY <1>8, <1>9, <1>10, <1>11, <1>12 DEF Searched

\* A bus that is searched to its end is left.
LEMMA SearchReturns ==
  ASSUME machine \in Machines, NEW begun, NEW found, NEW stack \in Seq(Stop), stack # <<>>,
         Searched(begun, found, stack), stack[1][2] = Devices
  PROVE  Searched(begun, found, Tail(stack))
<1>1. \A p \in Shown : Passed(p, Tail(stack)) => Passed(p, stack)
  <2> SUFFICES ASSUME NEW p \in Shown, Passed(p, Tail(stack)), NEW k \in DOMAIN stack,
                      stack[k][1] = p[1]
               PROVE  Before(p, stack[k])
    BY DEF Passed
  <2>1. CASE k = 1
    <3>1. p \in PlaceSet
      BY MachineFacts
    <3>2. p[2] < Devices
      BY <3>1, Parts, MachineFacts
    <3> QED
      BY <2>1, <3>2 DEF Before
  <2>2. CASE k # 1
    <3>1. PICK l \in DOMAIN Tail(stack) : Tail(stack)[l] = stack[k]
      BY <2>2, PoppedStack
    <3> QED
      BY <3>1 DEF Passed
  <2> QED
    BY <2>1, <2>2
<1>2. \A p : Passed(p, stack) => Passed(p, Tail(stack))
  BY PoppedStack DEF Passed
<1>3. \A k \in DOMAIN Tail(stack) : Tail(stack)[k][1] \in begun
  BY PoppedStack DEF Searched
<1>4. \A k, l \in DOMAIN Tail(stack) : Tail(stack)[k][1] = Tail(stack)[l][1] => k = l
  BY PoppedStack DEF Searched
<1> QED
  BY <1>1, <1>2, <1>3, <1>4 DEF Searched

\* The loops of a bus begin at a place there may be.
LEMMA BeginsAreStops ==
  ASSUME machine \in Machines, NEW bus \in Nat
  PROVE  /\ BusBegin(bus) \in Stop /\ InDevice(BusBegin(bus))
         /\ BusBegin(bus)[1] = bus /\ BusBegin(bus)[2] = 0 /\ BusBegin(bus)[3] = 0
<1>1. 0 \in 0..Devices /\ 0 \in 0..(Functions - 1)
  BY MachineFacts
<1> QED
  BY <1>1 DEF BusBegin, Stop, InDevice

\* A bus is begun, of which nothing is found yet.
LEMMA SearchBegins ==
  ASSUME machine \in Machines, NEW begun, NEW found, NEW stack \in Seq(Stop),
         Searched(begun, found, stack), NEW bus \in Nat, bus \notin begun,
         \A S \in ClosedSets : bus \in S
  PROVE  Searched(begun \cup {bus}, found, <<BusBegin(bus)>> \o stack)
<1>1. PICK first \in Stop : /\ first = BusBegin(bus)
                            /\ first[1] = bus /\ first[2] = 0 /\ first[3] = 0
  BY BeginsAreStops
<1>2. PICK more \in Seq(Stop) : more = <<first>> \o stack
  BY <1>1, PushedStack
<1>3. 1 \in DOMAIN more /\ more[1] = first
  BY <1>1, <1>2, PushedStack
<1>4. \A k \in DOMAIN more : k # 1 => k - 1 \in DOMAIN stack /\ more[k] = stack[k - 1]
                                       /\ k \in Nat /\ (k - 1) + 1 = k
  BY <1>2, PushedStack
<1>5. \A k \in DOMAIN stack : k \in Nat /\ k + 1 \in DOMAIN more /\ more[k + 1] = stack[k]
  BY <1>2, PushedStack
<1>6. ASSUME NEW p \in Shown PROVE ~Before(p, first)
  <2>1. p \in PlaceSet
    BY MachineFacts
  <2>2. p[2] \in Nat /\ p[3] \in Nat
    BY <2>1, Parts
  <2> QED
    BY <1>1, <2>2 DEF Before
<1>7. ASSUME NEW p \in Shown, p[1] \in begun, Passed(p, stack) PROVE Passed(p, more)
  <2> SUFFICES ASSUME NEW k \in DOMAIN more, more[k][1] = p[1] PROVE Before(p, more[k])
    BY DEF Passed
  <2>1. k # 1
    BY <1>1, <1>3, <1>7
  <2> QED
    BY <1>4, <1>7, <2>1 DEF Passed
<1>8. ASSUME NEW p \in Shown, Passed(p, more) PROVE p[1] # bus /\ Passed(p, stack)
  <2>1. p[1] # bus
    BY <1>1, <1>3, <1>6, <1>8 DEF Passed
  <2>2. \A k \in DOMAIN stack : stack[k][1] = p[1] => Before(p, stack[k])
    <3> SUFFICES ASSUME NEW k \in DOMAIN stack, stack[k][1] = p[1] PROVE Before(p, stack[k])
      OBVIOUS
    <3>1. PICK l \in DOMAIN more : more[l] = stack[k]
      BY <1>5
    <3> QED
      BY <1>8, <3>1 DEF Passed
  <2> QED
    BY <2>1, <2>2 DEF Passed
<1>9. \A p \in found : p \in Shown /\ p[1] \in begun \cup {bus} /\ Passed(p, more)
  BY <1>7 DEF Searched
<1>10. \A p \in Shown : p[1] \in begun \cup {bus} /\ Passed(p, more) => p \in found
  BY <1>8 DEF Searched
<1>11. \A k \in DOMAIN more : more[k][1] \in begun \cup {bus}
  BY <1>1, <1>3, <1>4 DEF Searched
<1>12. ASSUME NEW k \in DOMAIN more, NEW l \in DOMAIN more, more[k][1] = more[l][1] PROVE k = l
  <2>1. \A j \in DOMAIN more : j # 1 => more[j][1] # bus
    BY <1>4 DEF Searched
  <2>2. k = 1 <=> l = 1
    BY <1>1, <1>3, <1>12, <2>1
  <2>3. CASE k # 1
    <3>1. k - 1 \in DOMAIN stack /\ l - 1 \in DOMAIN stack /\ stack[k - 1][1] = stack[l - 1][1]
      BY <1>4, <1>12, <2>2, <2>3
    <3>2. k - 1 = l - 1
      BY <3>1 DEF Searched
    <3> QED
      BY <1>4, <2>2, <2>3, <3>2
  <2> QED
    BY <2>2, <2>3
<1>13. \A S \in ClosedSets : begun \cup {bus} \subseteq S
  BY DEF Searched
<1> QED
  BY <1>1, <1>2, <1>9, <1>10, <1>11, <1>12, <1>13 DEF Searched

\* What is found is no more than can be reached.
LEMMA FoundIsReachable ==
  ASSUME NEW begun, NEW found, NEW stack, Searched(begun, found, stack)
  PROVE  found \subseteq Reachable /\ \A p \in Shown : p[1] \in begun => p \in Reachable
BY DEF Searched, Reachable

\* When the buses begun are those of the hosts and of all bridges found, and no loop is
\* under way, they are a closed set.
LEMMA AllIsFound ==
  ASSUME machine \in Machines, Searched(Begun, Found, <<>>), host = Functions
  PROVE  Found = Reachable
<1>1. \A p : Passed(p, <<>>)
  BY DEF Passed
<1>2. \A p \in Shown : p[1] \in Begun => p \in Found
  BY <1>1 DEF Searched
<1>3. Found \subseteq Shown /\ Shown \subseteq DOMAIN machine
  BY MachineFacts DEF Searched
<1>4. RootBuses \subseteq Begun
  BY MachineFacts DEF Begun
<1>5. Begun \subseteq Buses
  BY <1>3 DEF Begun, Buses, Bridges
<1>6. \A p \in Bridges \cap Shown : p[1] \in Begun => machine[p].secondary \in Begun
  BY <1>2 DEF Bridges, Begun
<1>7. Begun \in ClosedSets
  BY <1>4, <1>5, <1>6 DEF ClosedSets
<1>8. Reachable \subseteq Found
  BY <1>2, <1>7 DEF Reachable
<1> QED
  BY <1>8, FoundIsReachable

\* The machine stays what it is.
LEMMA SameMachine ==
  ASSUME machine' = machine
  PROVE  /\ Shown' = Shown /\ ClosedSets' = ClosedSets /\ Reachable' = Reachable
         /\ RootBuses' = RootBuses /\ IsTree' = IsTree
         /\ InDevices(scan_stack)' = InDevices(scan_stack')
BY DEF Shown, ClosedSets, Reachable, RootBuses, Buses, Bridges, IsTree, InDevice, InDevices

\* What has been searched does not depend on anything else.
LEMMA SameSearch ==
  ASSUME machine' = machine, Searched(Begun', Found', scan_stack')
  PROVE  Searched(Begun, Found, scan_stack)'
BY SameMachine DEF Searched, Passed

\* As long as the table is the same, the buses are begun by the hosts.
LEMMA SameBegun ==
  ASSUME machine' = machine, devices' = devices
  PROVE  Found' = Found /\ (host' = host => Begun' = Begun)
BY SameMachine DEF Begun, Found

\* One more in the table.
LEMMA OneMore ==
  ASSUME machine' = machine, host' = host, devices \in Seq(PlaceSet),
         NEW place \in PlaceSet, devices' = Append(devices, place)
  PROVE  /\ devices' \in Seq(PlaceSet) /\ Len(devices') = Len(devices) + 1
         /\ Found' = Found \cup {place}
         /\ (\A i, j \in DOMAIN devices : devices[i] = devices[j] => i = j) /\ place \notin Found
              => \A i, j \in DOMAIN devices' : devices'[i] = devices'[j] => i = j
         /\ machine[place].class # "bridge" => Begun' = Begun
         /\ machine[place].class = "bridge" => Begun' = Begun \cup {machine[place].secondary}
<1>1. PICK table : table = devices'
  OBVIOUS
<1>2. /\ table \in Seq(PlaceSet) /\ Len(table) = Len(devices) + 1
      /\ \A i \in DOMAIN devices : i \in DOMAIN table /\ table[i] = devices[i]
      /\ Len(devices) + 1 \in DOMAIN table /\ table[Len(devices) + 1] = place
      /\ \A i \in DOMAIN table : i \in DOMAIN devices \/ i = Len(devices) + 1
  BY <1>1
<1>3. Found' = {table[i] : i \in DOMAIN table}
  BY <1>1 DEF Found
<1>4. Found' = Found \cup {place}
  BY <1>2, <1>3 DEF Found
<1>5. (\A i, j \in DOMAIN devices : devices[i] = devices[j] => i = j) /\ place \notin Found
        => \A i, j \in DOMAIN table : table[i] = table[j] => i = j
  BY <1>2 DEF Found
<1>6. Begun' = {bus \in RootBuses : bus < host}
                 \cup {machine[p].secondary : p \in {q \in Found \cup {place} : machine[q].class = "bridge"}}
  BY <1>4, SameMachine DEF Begun
<1>7. machine[place].class # "bridge" => Begun' = Begun
  BY <1>6 DEF Begun
<1>8. machine[place].class = "bridge" => Begun' = Begun \cup {machine[place].secondary}
  BY <1>6 DEF Begun
<1> QED
  BY <1>1, <1>2, <1>4, <1>5, <1>7, <1>8

\* A table without duplicates has as many entries as it has functions.
LEMMA TableCounts ==
  ASSUME devices \in Seq(PlaceSet), \A i, j \in DOMAIN devices : devices[i] = devices[j] => i = j
  PROVE  IsFiniteSet(Found) /\ Cardinality(Found) = Len(devices)
<1>1. devices \in Injection(1..Len(devices), Found) /\ devices \in Surjection(1..Len(devices), Found)
  <2>1. DOMAIN devices = 1..Len(devices) /\ devices \in [1..Len(devices) -> Found]
    BY DEF Found
  <2>2. \A f \in Found : \E i \in 1..Len(devices) : devices[i] = f
    BY <2>1 DEF Found
  <2> QED
    BY <2>1, <2>2 DEF Injection, Surjection, IsInjective
<1>2. IsFiniteSet(1..Len(devices)) /\ Cardinality(1..Len(devices)) = Len(devices)
  <2>1. Len(devices) \in Nat
    OBVIOUS
  <2> QED
    BY <2>1, FS_Interval
<1> QED
  BY <1>1, <1>2, FS_Surjection

\* In a tree the bus behind a bridge is not begun before the bridge is found.
LEMMA BusIsNew ==
  ASSUME IsTree, machine \in Machines, Searched(Begun, Found, scan_stack),
         NEW p \in Bridges, p \notin Found
  PROVE  machine[p].secondary \notin Begun
<1>1. Found \subseteq DOMAIN machine
  BY MachineFacts DEF Searched
<1> QED
  BY <1>1 DEF IsTree, Begun, Bridges

\* At first nothing is found.
LEMMA ScanInitially == PciInit => ScanInv
<1> SUFFICES ASSUME PciInit PROVE ScanInv
  OBVIOUS
<1>1. /\ scan = "idle" /\ devices = <<>> /\ scan_stack = <<>> /\ host = 0
  BY DEF PciInit
<1>2. Len(devices) <= TableSize /\ host \in 0..Functions
  BY <1>1, PciScanAssumption
<1> QED
  BY <1>1, <1>2 DEF ScanInv

\* The kernel finds itself on a machine, of which it knows nothing.
LEMMA ScanFoundKeeps == ASSUME ScanInv, PciFound, scan = "idle" PROVE ScanInv'
<1>1. UNCHANGED <<scan, host, scan_stack, devices>>
  BY DEF PciFound
<1>2. \A i, j \in DOMAIN devices : FALSE
  BY DEF ScanInv
<1> QED
  BY <1>1, <1>2 DEF ScanInv

\* The search begins at bus 0, or with the hosts.
LEMMA ScanAllBusKeeps == ASSUME ScanInv, ScanAllBus, machine \in Machines PROVE ScanInv'
<1>1. /\ scan = "idle" /\ scan' = "scanning" /\ machine' = machine /\ devices' = <<>>
      /\ devices = <<>> /\ scan_stack = <<>> /\ Found = {} /\ Found' = {}
  BY DEF ScanAllBus, ScanInv, Found
<1>2. Searched({}, {}, <<>>)
  BY DEF Searched, Passed
<1>3. machine[<<0, 0, 0>>].multi \in BOOLEAN
  BY MachineFacts
<1>4. Begun' = {bus \in RootBuses : bus < host'}
  BY <1>1, SameMachine DEF Begun
<1>5. Functions \in Nat \ {0} /\ Len(<<>>) <= TableSize
  BY MachineFacts
<1>6. CASE ~machine[<<0, 0, 0>>].multi
  <2>1. host' = Functions /\ scan_stack' = <<BusBegin(0)>> /\ RootBuses = {0}
    BY <1>6 DEF ScanAllBus, IsSingleFunctionDevice, RootBuses
  <2>2. Begun' = {0}
    BY <1>4, <1>5, <2>1
  <2>3. \A S \in ClosedSets : 0 \in S
    BY <2>1 DEF ClosedSets
  <2>4. Searched({} \cup {0}, {}, <<BusBegin(0)>> \o <<>>)
    <3>1. <<>> \in Seq(Stop)
      OBVIOUS
    <3> QED
      BY <1>2, <2>3, <3>1, SearchBegins
  <2>5. <<BusBegin(0)>> \o <<>> = <<BusBegin(0)>> /\ {} \cup {0} = {0}
    BY BeginsAreStops
  <2>6. Searched(Begun, Found, scan_stack)'
    BY <1>1, <2>1, <2>2, <2>4, <2>5, SameSearch
  <2>7. scan_stack' \in Seq(Stop) /\ InDevices(scan_stack)'
    BY <1>1, <2>1, BeginsAreStops, SameMachine DEF InDevices
  <2> QED
    BY <1>1, <1>5, <2>1, <2>6, <2>7 DEF ScanInv
<1>7. CASE machine[<<0, 0, 0>>].multi
  <2>1. host' = 0 /\ scan_stack' = <<>> /\ RootBuses \subseteq Nat
    BY <1>7, MachineFacts DEF ScanAllBus, IsSingleFunctionDevice
  <2>2. Begun' = {}
    <3>1. \A bus \in RootBuses : ~(bus < 0)
      BY <2>1
    <3> QED
      BY <1>4, <2>1, <3>1
  <2>3. Searched(Begun, Found, scan_stack)'
    BY <1>1, <1>2, <2>1, <2>2, SameSearch
  <2>4. InDevices(scan_stack)'
    BY <1>1, <2>1, SameMachine DEF InDevices
  <2>5. host' \in 0..Functions /\ scan_stack' \in Seq(Stop) /\ machine'[<<0, 0, 0>>].multi
    BY <1>1, <1>5, <1>7, <2>1
  <2> QED
    BY <1>1, <1>5, <2>1, <2>3, <2>4, <2>5 DEF ScanInv
<1> QED
  BY <1>3, <1>6, <1>7

\* The next host bridge, if it is there, begins its bus.
LEMMA ScanNextHostKeeps == ASSUME ScanInv, ScanNextHost PROVE ScanInv'
<1>1. /\ scan = "scanning" /\ scan' = scan /\ machine' = machine /\ devices' = devices
      /\ scan_stack = <<>> /\ host' = host + 1 /\ host < Functions /\ machine \in Machines
      /\ scan_stack' = IF <<0, 0, host>> \in DOMAIN machine THEN <<BusBegin(host)>> ELSE <<>>
  BY DEF ScanNextHost, ScanInv, Answers
<1>2. machine[<<0, 0, 0>>].multi /\ host \in 0..(Functions - 1)
  BY <1>1, MachineFacts DEF ScanInv
<1>3. \A bus \in RootBuses : bus \in Nat
  BY <1>1, MachineFacts
<1>4. Found' = Found
  BY <1>1, SameBegun
<1>5. host \in RootBuses <=> <<0, 0, host>> \in DOMAIN machine
  BY <1>2 DEF RootBuses
<1>8. host' \in 0..Functions /\ machine'[<<0, 0, 0>>].multi
  BY <1>1, <1>2, MachineFacts
<1>6. CASE <<0, 0, host>> \in DOMAIN machine
  <2>1. scan_stack' = <<BusBegin(host)>>
    BY <1>1, <1>6
  <2>2. scan_stack' \in Seq(Stop) /\ InDevices(scan_stack)'
    BY <1>1, <1>2, <2>1, BeginsAreStops, SameMachine DEF InDevices
  <2>3. ASSUME IsTree PROVE Searched(Begun, Found, scan_stack)'
    <3>1. Searched(Begun, Found, <<>>)
      BY <1>1, <2>3 DEF ScanInv
    <3>2. Begun' = Begun \cup {host}
      <4>1. {bus \in RootBuses : bus < host + 1} = {bus \in RootBuses : bus < host} \cup {host}
        BY <1>2, <1>3, <1>5, <1>6
      <4> QED
        BY <1>1, <1>4, <4>1, SameMachine DEF Begun
    <3>3. host \notin Begun
      <4>1. Found \subseteq DOMAIN machine
        BY <1>1, <3>1, MachineFacts DEF Searched
      <4> QED
        BY <1>2, <1>5, <1>6, <2>3, <4>1 DEF Begun, IsTree, Bridges
    <3>4. \A S \in ClosedSets : host \in S
      BY <1>5, <1>6 DEF ClosedSets
    <3>5. Searched(Begun \cup {host}, Found, <<BusBegin(host)>> \o <<>>)
      <4>1. <<>> \in Seq(Stop) /\ host \in Nat
        BY <1>2
      <4> QED
        BY <1>1, <3>1, <3>3, <3>4, <4>1, SearchBegins
    <3>6. <<BusBegin(host)>> \o <<>> = <<BusBegin(host)>>
      BY <1>1, <1>2, BeginsAreStops
    <3> QED
      BY <1>1, <1>4, <2>1, <3>2, <3>5, <3>6, SameSearch
  <2> QED
    BY <1>1, <1>8, <2>2, <2>3, SameMachine DEF ScanInv
<1>7. CASE <<0, 0, host>> \notin DOMAIN machine
  <2>1. scan_stack' = <<>>
    BY <1>1, <1>7
  <2>2. Begun' = Begun
    <3>1. {bus \in RootBuses : bus < host + 1} = {bus \in RootBuses : bus < host}
      BY <1>2, <1>3, <1>5, <1>7
    <3> QED
      BY <1>1, <1>4, <3>1, SameMachine DEF Begun
  <2>3. IsTree => Searched(Begun, Found, scan_stack)'
    BY <1>1, <1>4, <2>1, <2>2, SameSearch DEF ScanInv
  <2>4. InDevices(scan_stack)'
    BY <1>1, <2>1, SameMachine DEF InDevices
  <2> QED
    BY <1>1, <1>8, <2>1, <2>3, <2>4, SameMachine DEF ScanInv
<1> QED
  BY <1>6, <1>7

\* The search is over when no host bridge is left.
LEMMA FinishScanKeeps == ASSUME ScanInv, FinishScan PROVE ScanInv'
<1>1. /\ scan = "scanning" /\ scan' = "done" /\ scan_stack = <<>> /\ host = Functions
      /\ UNCHANGED <<machine, host, scan_stack, devices>>
  BY DEF FinishScan
<1>2. IsTree => Searched(Begun, Found, scan_stack)'
  BY <1>1, SameSearch, SameBegun DEF ScanInv
<1> QED
  BY <1>1, <1>2, SameMachine DEF ScanInv

\* A level of the stack is left at the end of its bus.
LEMMA ReturnFromBusKeeps == ASSUME ScanInv, ReturnFromBus PROVE ScanInv'
<1>1. /\ scan = "scanning" /\ scan' = scan /\ host' = host /\ machine' = machine
      /\ devices' = devices /\ machine \in Machines
      /\ scan_stack # <<>> /\ scan_stack' = Tail(scan_stack) /\ scan_stack \in Seq(Stop)
      /\ Head(scan_stack)[2] = Devices
  BY DEF ReturnFromBus, Scanning, Here, ScanInv
<1>2. scan_stack' \in Seq(Stop) /\ InDevices(scan_stack)'
  BY <1>1, PoppedStack, SameMachine DEF ScanInv, InDevices
<1>3. IsTree => Searched(Begun, Found, scan_stack)'
  <2>1. IsTree => Searched(Begun, Found, Tail(scan_stack))
    BY <1>1, PoppedStack, SearchReturns DEF ScanInv
  <2> QED
    BY <1>1, <2>1, SameSearch, SameBegun
<1> QED
  BY <1>1, <1>2, <1>3, SameMachine DEF ScanInv

\* The loops of the innermost bus go on: what that does to the stack and to the search.
LEMMA StackGoesOn ==
  ASSUME ScanInv, Scanning, Here[2] < Devices
  PROVE  /\ Here \in Stop /\ Here = scan_stack[1] /\ InDevice(Here) /\ machine \in Machines
         /\ <<NextPlace(Here)>> \o Tail(scan_stack) \in Seq(Stop)
         /\ InDevices(<<NextPlace(Here)>> \o Tail(scan_stack))
         /\ IsTree => Searched(Begun, Found \cup {p \in {Here} : p \in DOMAIN machine},
                               <<NextPlace(Here)>> \o Tail(scan_stack))
         /\ IsTree => Here \notin Found
<1>1. /\ scan = "scanning" /\ machine \in Machines /\ scan_stack # <<>> /\ scan_stack \in Seq(Stop)
      /\ InDevices(scan_stack)
      /\ IsTree => Searched(Begun, Found, scan_stack)
  BY DEF ScanInv, Scanning
<1>2. 1 \in DOMAIN scan_stack /\ Here = scan_stack[1] /\ Here \in Stop
  BY <1>1, PoppedStack DEF Here
<1>3. InDevice(Here)
  BY <1>1, <1>2 DEF InDevices
<1>4. PICK here \in Stop : here = Here
  BY <1>2
<1>5. PICK next : next = NextPlace(here)
  OBVIOUS
<1>6. next \in Stop /\ InDevice(next)
  BY <1>1, <1>3, <1>4, <1>5, LoopsGoOn
<1>7. PICK moved \in Seq(Stop) :
        /\ moved = <<next>> \o Tail(scan_stack)
        /\ DOMAIN moved = DOMAIN scan_stack
        /\ 1 \in DOMAIN scan_stack /\ moved[1] = next
        /\ \A k \in DOMAIN scan_stack : k # 1 => moved[k] = scan_stack[k]
  BY <1>1, <1>6, MovedStack
<1>8. InDevices(moved)
  BY <1>1, <1>6, <1>7 DEF InDevices
<1>9. PICK more : more = {p \in {scan_stack[1]} : p \in DOMAIN machine}
  OBVIOUS
<1>10. next = NextPlace(scan_stack[1]) /\ scan_stack[1][2] < Devices /\ InDevice(scan_stack[1])
  BY <1>2, <1>3, <1>4, <1>5
<1>11. IsTree => Searched(Begun, Found \cup more, moved)
  BY <1>1, <1>6, <1>7, <1>9, <1>10, SearchGoesOn
<1>12. IsTree => Here \notin Found
  <2>1. ~Before(Here, Here)
    BY <1>2, Parts DEF Before
  <2>2. ASSUME IsTree, Here \in Found PROVE FALSE
    <3>1. Passed(Here, scan_stack)
      BY <1>1, <2>2 DEF Searched
    <3> QED
      BY <1>2, <2>1, <3>1 DEF Passed
  <2> QED
    BY <2>2
<1> QED
  BY <1>1, <1>2, <1>3, <1>4, <1>5, <1>7, <1>8, <1>9, <1>11, <1>12

\* A place where nothing answers is passed.
LEMMA SkipPlaceKeeps == ASSUME ScanInv, SkipPlace PROVE ScanInv'
<1>1. /\ Scanning /\ Here[2] < Devices /\ Here \notin DOMAIN machine
      /\ scan = "scanning" /\ scan' = scan /\ host' = host /\ machine' = machine
      /\ devices' = devices /\ scan_stack' = <<NextPlace(Here)>> \o Tail(scan_stack)
  BY DEF SkipPlace, Scanning, Answers
<1>2. scan_stack' \in Seq(Stop) /\ InDevices(scan_stack)'
  BY <1>1, StackGoesOn, SameMachine
<1>3. IsTree => Searched(Begun, Found, scan_stack)'
  <2>1. Found \cup {p \in {Here} : p \in DOMAIN machine} = Found
    BY <1>1
  <2>2. IsTree => Searched(Begun, Found, scan_stack')
    BY <1>1, <2>1, StackGoesOn
  <2> QED
    BY <1>1, <2>2, SameSearch, SameBegun
<1> QED
  BY <1>1, <1>2, <1>3, SameMachine DEF ScanInv

\* A function is found. If it is a bridge, the bus behind it is begun; if the table is
\* full, there are more than it has entries.
LEMMA ScanFunctionKeeps == ASSUME ScanInv, ScanFunction PROVE ScanInv'
<1>1. /\ Scanning /\ Here[2] < Devices /\ Here \in DOMAIN machine
      /\ scan = "scanning" /\ host' = host /\ machine' = machine
  BY DEF ScanFunction, Scanning, Answers
<1>2. PICK here \in PlaceSet : here = Here
  BY <1>1, MachineFacts, StackGoesOn
<1>3. PICK stack \in Seq(Stop) : stack = <<NextPlace(Here)>> \o Tail(scan_stack)
  BY <1>1, StackGoesOn
<1>4. /\ InDevices(stack) /\ machine \in Machines
      /\ IsTree => Searched(Begun, Found \cup {here}, stack) /\ here \notin Found
  <2>1. {p \in {Here} : p \in DOMAIN machine} = {here}
    BY <1>1, <1>2
  <2> QED
    BY <1>1, <1>2, <1>3, <2>1, StackGoesOn
<1>5. CASE Len(devices) = TableSize
  <2>1. scan' = "failed" /\ scan_stack' = <<>> /\ devices' = devices
    BY <1>5 DEF ScanFunction, AddDevice
  <2>2. ASSUME IsTree PROVE Found \subseteq Reachable /\ Cardinality(Reachable) > TableSize
    <3>1. Found \cup {here} \subseteq Reachable /\ here \notin Found
      BY <1>4, <2>2, FoundIsReachable
    <3>2. IsFiniteSet(Reachable)
      BY <1>4, MachineFacts, FS_Subset DEF Reachable
    <3>3. IsFiniteSet(Found) /\ Cardinality(Found) = Len(devices)
      BY <2>2, TableCounts DEF ScanInv
    <3>4. IsFiniteSet(Found \cup {here}) /\ Cardinality(Found \cup {here}) = TableSize + 1
      BY <1>5, <3>1, <3>3, FS_AddElement
    <3>5. Cardinality(Found \cup {here}) <= Cardinality(Reachable)
      BY <3>1, <3>2, FS_Subset
    <3>6. Cardinality(Reachable) \in Nat /\ TableSize \in Nat
      BY <1>4, <3>2, FS_CardinalityType, MachineFacts
    <3> QED
      BY <3>1, <3>4, <3>5, <3>6
  <2> QED
    BY <1>1, <2>1, <2>2, SameMachine, SameBegun DEF ScanInv
<1>6. CASE Len(devices) # TableSize
  <2>1. /\ scan' = "scanning" /\ devices' = Append(devices, here)
        /\ scan_stack' = IF machine[here].class = "bridge"
                           THEN <<BusBegin(machine[here].secondary)>> \o stack ELSE stack
    BY <1>1, <1>2, <1>3, <1>6 DEF ScanFunction, AddDevice
  <2>2. /\ devices \in Seq(PlaceSet) /\ Len(devices) < TableSize
        /\ host \in 0..Functions /\ (~machine[<<0, 0, 0>>].multi => host = Functions)
    BY <1>1, <1>4, <1>6, MachineFacts DEF ScanInv
  <2>3. devices' \in Seq(PlaceSet) /\ Len(devices') <= TableSize
    BY <1>1, <2>1, <2>2, OneMore, PciScanAssumption
  <2>4. IsTree => \A i, j \in DOMAIN devices' : devices'[i] = devices'[j] => i = j
    BY <1>1, <1>4, <2>1, <2>2, OneMore DEF ScanInv
  <2>5. CASE machine[here].class # "bridge"
    <3>1. scan_stack' = stack
      BY <2>1, <2>5
    <3>2. IsTree => Searched(Begun, Found, scan_stack)'
      BY <1>1, <1>4, <2>1, <2>2, <2>5, <3>1, OneMore, SameSearch
    <3>3. InDevices(scan_stack)'
      BY <1>1, <1>4, <3>1, SameMachine
    <3> QED
      BY <1>1, <1>4, <2>1, <2>2, <2>3, <2>4, <3>1, <3>2, <3>3, SameMachine DEF ScanInv
  <2>6. CASE machine[here].class = "bridge"
    <3>1. PICK bus \in Nat : bus = machine[here].secondary
      BY <1>1, <1>2, <1>4, MachineFacts
    <3>2. scan_stack' = <<BusBegin(bus)>> \o stack
      BY <2>1, <2>6, <3>1
    <3>3. BusBegin(bus) \in Stop /\ InDevice(BusBegin(bus))
      BY <1>4, BeginsAreStops
    <3>4. scan_stack' \in Seq(Stop) /\ InDevices(scan_stack)'
      <4>1. scan_stack' \in Seq(Stop) /\ InDevices(scan_stack')
        BY <1>4, <3>2, <3>3, PushedStack DEF InDevices
      <4> QED
        BY <1>1, <4>1, SameMachine
    <3>5. ASSUME IsTree PROVE Searched(Begun, Found, scan_stack)'
      <4>1. here \in Bridges /\ here \notin Found
        BY <1>1, <1>2, <1>4, <2>6, <3>5 DEF Bridges
      <4>2. bus \notin Begun
        BY <1>1, <1>4, <3>1, <3>5, <4>1, BusIsNew DEF ScanInv
      <4>3. \A S \in ClosedSets : bus \in S
        BY <1>4, <3>1, <3>5, <4>1 DEF ClosedSets, Searched
      <4>4. Searched(Begun \cup {bus}, Found \cup {here}, <<BusBegin(bus)>> \o stack)
        BY <1>4, <3>5, <4>2, <4>3, SearchBegins
      <4>5. Begun' = Begun \cup {bus} /\ Found' = Found \cup {here}
        BY <1>1, <2>1, <2>2, <2>6, <3>1, OneMore
      <4>6. Searched(Begun', Found', scan_stack')
        BY <3>2, <4>4, <4>5
      <4> QED
        BY <1>1, <4>6, SameSearch
    <3>6. scan' = "scanning" /\ machine' \in Machines /\ host' \in 0..Functions
          /\ (~machine'[<<0, 0, 0>>].multi => host' = Functions)
      BY <1>1, <1>4, <2>1, <2>2
    <3> QED
      BY <2>3, <2>4, <3>4, <3>5, <3>6, SameMachine, <1>1 DEF ScanInv
  <2> QED
    BY <2>5, <2>6
<1> QED
  BY <1>5, <1>6

\* The table is empty until the kernel runs, and then there is a machine to be searched.
ScanStarts ==
  /\ start = "off" => scan = "idle"
  /\ start # "off" => machine \in Machines

\* On any machine whose buses are a tree, with any number of bridges one behind the
\* other: the search finds the functions of all buses that can be reached, each once,
\* and gives up only if they are more than the table has entries. How the stack of
\* ScanBus, ScanDevice and ScanFunction grows and shrinks is no matter.
THEOREM EachIsFoundOnce == Spec => []FindsEachOnce
<1>1. Init => ScanInv /\ ScanStarts
  BY ScanInitially DEF Init, StartInit, PciInit, ScanStarts
<1>2. ScanInv /\ ScanStarts /\ [Next]_startup_vars => (ScanInv /\ ScanStarts)'
  <2> SUFFICES ASSUME ScanInv, ScanStarts, [Next]_startup_vars
               PROVE  ScanInv' /\ ScanStarts'
    OBVIOUS
  <2>1. \/ UNCHANGED pci_vars /\ (start' = start \/ (start # "off" /\ start' # "off"))
        \/ KernelMain
        \/ ScanBuses
    BY DEF Next, Loader, Kernel, startup_vars, kernel_vars, start_vars, driver_vars, StartNext,
           Driver, PickController, ConfigureMessages, SwitchEhci2Xhci, Allocate, At,
           AllocateDevices, AllocateContexts, RequestHCOwnership, WaitOwned, StopController,
           WaitHalted, ResetController, WaitReset, WaitReady, EnableSlots, AllocateArray,
           AllocateScratchpad, PointToContexts, AllocateCommandRing, RegisterCommandRing,
           AllocateEventRing, AllocateTable, WriteTableSize, WriteDequeuePointer, WriteTable,
           EnableInterrupter, EnableController, Run, WaitRunning, Program, Programming, Controller
  <2>2. CASE UNCHANGED pci_vars /\ (start' = start \/ (start # "off" /\ start' # "off"))
    <3>1. UNCHANGED <<machine, scan, host, scan_stack, devices>>
      BY <2>2 DEF pci_vars
    <3>2. Found' = Found /\ Begun' = Begun
      BY <3>1, SameBegun
    <3>3. ScanInv /\ IsTree => (scan \in {"scanning", "done"} => Searched(Begun, Found, scan_stack)')
      BY <3>1, <3>2, SameSearch DEF ScanInv
    <3>4. ScanInv'
      BY <3>1, <3>2, <3>3, SameMachine DEF ScanInv
    <3> QED
      BY <2>2, <3>1, <3>4 DEF ScanStarts
  <2>3. CASE KernelMain
    BY <2>3, ScanFoundKeeps DEF KernelMain, ScanStarts, PciFound, At
  <2>4. CASE ScanBuses
    <3>1. start = "scan" /\ start' # "off" /\ PciNext /\ machine \in Machines
      BY <2>4 DEF ScanBuses, ScanStarts
    <3>2. machine' = machine
      BY <3>1 DEF PciNext, ScanAllBus, ScanNextHost, FinishScan, ReturnFromBus, SkipPlace, ScanFunction
    <3>3. ScanInv'
      BY <3>1, ScanAllBusKeeps, ScanNextHostKeeps, FinishScanKeeps, ReturnFromBusKeeps,
         SkipPlaceKeeps, ScanFunctionKeeps DEF PciNext
    <3> QED
      BY <3>1, <3>2, <3>3 DEF ScanStarts
  <2> QED
    BY <2>1, <2>2, <2>3, <2>4
<1>3. ScanInv => FindsEachOnce
  <2> SUFFICES ASSUME ScanInv, scan # "idle", IsTree PROVE FindsEachOnce
    BY DEF FindsEachOnce
  <2>1. Len(devices) = Cardinality(Found)
    BY TableCounts DEF ScanInv
  <2>2. scan = "done" => Found = Reachable
    BY AllIsFound DEF ScanInv
  <2> QED
    BY <2>1, <2>2 DEF ScanInv, FindsEachOnce
<1> QED
  BY <1>1, <1>2, <1>3, PTL DEF Spec

=============================================================================
