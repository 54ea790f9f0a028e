--------------------------------- MODULE Boot ---------------------------------
(***************************************************************************)
(* kernelMain up to the switch to paged memory: the placement allocator,   *)
(* the firmware's memory map and CompletePaging, one action per iteration  *)
(* of its loops.  Addresses are bytes, scaled down; `page` holds the       *)
(* entries of every virtual page, which are zero (kmemset) until something *)
(* is mapped there, and `tables` the page tables that exist.               *)
(* The module implements Frames: every call it makes to the frame          *)
(* allocator is one of Frames' steps, in the order Frames allows.          *)
(***************************************************************************)
EXTENDS FrameBitmap

CONSTANTS
  TablePages,   \* PAGE_ENTRIES: pages per page table (1024)
  DirSize,      \* sizeof(PageDirectory): two pages and a word
  LowEnd,       \* 0x100000: the end of low memory
  VgaStart,     \* 0xb8000
  VgaEnd,       \* 0xc0000
  Slack,        \* 0x3000: what is mapped beyond placementAddress
  HeapGap,      \* 0x100000: the distance kept to the new heap start
  HeapInit,     \* KERNEL_HEAP_INIT
  HeapLimit,    \* KERNEL_HEAP_END
  LastMods,     \* the values of lastMod, rounded up to half a page
  Reserved      \* page-aligned addresses the firmware may report as reserved

MaxPage == FrameOf(HeapLimit)
Pages == 0 .. MaxPage
TableOf(addr) == FrameOf(addr) \div TablePages
TableNos == 0 .. TableOf(HeapLimit)

\* kmallocReal with align = 1, while heapEnd is 0.
Aligned(addr) ==
  IF addr % PageSize = 0 THEN addr ELSE addr - (addr % PageSize) + PageSize

\* InitializePaging: frames[] (nframes / 4 bytes), then the page directory.
AfterInitializePaging(start) == Aligned(start + NFrames \div 4) + DirSize

\* The kernel, its modules, the bitmap, the directory and every page table leave
\* room for the heap space below KERNEL_HEAP_END.
ASSUME BootAssumption ==
  /\ TablePages \in Nat \ {0} /\ DirSize \in Nat /\ HeapGap \in Nat
  /\ LowEnd \in Nat /\ VgaStart \in Nat /\ VgaEnd \in Nat /\ Slack \in Nat
  /\ HeapInit \in Nat /\ HeapLimit \in Nat
  /\ LowEnd % PageSize = 0 /\ VgaStart % PageSize = 0 /\ HeapInit % PageSize = 0
  /\ Slack % PageSize = 0
  /\ 0 < VgaStart /\ VgaStart < VgaEnd /\ VgaEnd <= LowEnd
  /\ LowEnd < HeapInit /\ HeapInit < HeapLimit
  /\ HeapGap >= Slack + (TableOf(HeapLimit) + 1) * PageSize
  /\ \A a \in LastMods :
       /\ a \in Nat /\ a >= LowEnd /\ (2 * a) % PageSize = 0
       /\ Aligned(AfterInitializePaging(a)) + HeapGap
            + (TableOf(HeapLimit) + 1) * PageSize <= HeapLimit
  /\ \A a \in Reserved : a \in Nat /\ a % PageSize = 0

VARIABLES
  pc,          \* where kernelMain is
  i,           \* the loop variable of CompletePaging
  placement,   \* placementAddress
  tables,      \* Tables[] and PhysicalTables[]: a table's address, 0 if none
  page,        \* the page entries of kernelDirectory
  frames,      \* frames[]
  memMap,      \* the reserved pages of the memory map still to be marked
  reserved,    \* history: the frames marked for the firmware
  heapStart,   \* tmpHeapStart
  heapEnd      \* heapEnd: 0 while kmalloc is the placement allocator

alloc == <<placement, tables>>
heap == <<heapStart, heapEnd>>
firmware == <<memMap, reserved>>
vars == <<pc, i, placement, tables, page, frames, memMap, reserved,
          heapStart, heapEnd>>

--------------------------------------------------------------------------------
(* The placement allocator and the page tables *)

\* A GetPage that does not keep the tables apart.
GetPageOverlapping(addr) ==
  LET t == TableOf(addr) IN
  IF tables[t] = 0
    THEN /\ tables' = [tables EXCEPT ![t] = Aligned(placement)]
         /\ placement' = Aligned(placement)
    ELSE UNCHANGED alloc

\* GetPage(addr, 1, kernelDirectory): the table is made where there is none.
GetPage(addr) ==
  LET t == TableOf(addr) IN
  IF tables[t] = 0
    THEN /\ tables' = [tables EXCEPT ![t] = Aligned(placement)]
         /\ placement' = Aligned(placement) + PageSize
    ELSE UNCHANGED alloc

--------------------------------------------------------------------------------
(* kernelMain *)

Init ==
  /\ pc = "start"
  /\ i = 0
  /\ placement \in LastMods
  /\ tables = [t \in TableNos |-> 0]
  /\ page = [p \in Pages |-> NoPage]
  /\ frames = {}
  /\ memMap \in SUBSET Reserved
  /\ reserved = {}
  /\ heapStart = 0
  /\ heapEnd = 0

\* kmalloc_startAt(lastMod) is the initial placement; then InitializePaging,
\* or a panic when the boot loader does not say how much RAM there is.
InitializePaging ==
  /\ pc = "start"
  /\ pc' = "marking"
  /\ placement' = AfterInitializePaging(placement)
  /\ UNCHANGED <<i, tables, page, frames, firmware, heap>>

NoRamInformation ==
  /\ pc = "start"
  /\ pc' = "panic"
  /\ UNCHANGED <<i, alloc, page, frames, firmware, heap>>

MarkPagingSystem(addr) ==
  /\ pc = "marking"
  /\ addr \in memMap
  /\ memMap' = memMap \ {addr}
  /\ frames' = SetFrame(frames, addr)
  /\ reserved' = reserved \cup (SetFrame(frames, addr) \ frames)
  /\ UNCHANGED <<pc, i, alloc, page, heap>>

\* CompletePaging, its first two lines.
TakePageZero ==
  /\ pc = "marking"
  /\ memMap = {}
  /\ GetPage(0)
  /\ page' = [page EXCEPT ![0].Present = 0]
  /\ frames' = SetFrame(frames, 0)
  /\ pc' = "identity"
  /\ i' = PageSize
  /\ UNCHANGED <<firmware, heap>>

\* A bound that leaves out the memory mapped in advance.
IdentityEndTight == placement

\* The end of the third loop, which moves with the tables GetPage makes.
IdentityEnd == placement + Slack

\* An identity map that does not mark the frames it uses.
IdentityMapUnmarked ==
  /\ pc = "identity"
  /\ i < LowEnd \/ i < IdentityEnd
  /\ GetPage(i)
  /\ page' = [page EXCEPT ![FrameOf(i)] = DMAFramePage(@, 1, 0, i)]
  /\ i' = i + PageSize
  /\ UNCHANGED <<pc, frames, firmware, heap>>

\* The three loops that identity map low memory and what the placement
\* allocator has used have the same body, and each starts where the one before
\* it ends.  GetPage moves the bound of the third.
IdentityMap ==
  /\ pc = "identity"
  /\ i < LowEnd \/ i < IdentityEnd
  /\ GetPage(i)
  /\ page' = [page EXCEPT ![FrameOf(i)] = DMAFramePage(@, 1, 0, i)]
  /\ frames' = SetFrame(frames, i)
  /\ i' = i + PageSize
  /\ UNCHANGED <<pc, firmware, heap>>

IdentityMapDone ==
  /\ pc = "identity"
  /\ ~(i < LowEnd \/ i < IdentityEnd)
  /\ pc' = "vga"
  /\ i' = VgaStart
  /\ UNCHANGED <<alloc, page, frames, firmware, heap>>

\* A VGA loop that runs one page too far.
VgaMapTooFar ==
  /\ pc = "vga"
  /\ i <= VgaEnd
  /\ page' = [page EXCEPT ![FrameOf(i)] = DMAFramePage(@, 0, 1, i)]
  /\ frames' = SetFrame(frames, i)
  /\ i' = i + PageSize
  /\ UNCHANGED <<pc, alloc, firmware, heap>>

\* A VGA loop that does not advance.
VgaMapStuck ==
  /\ pc = "vga"
  /\ i < VgaEnd
  /\ page' = [page EXCEPT ![FrameOf(i)] = DMAFramePage(@, 0, 1, i)]
  /\ frames' = SetFrame(frames, i)
  /\ UNCHANGED <<pc, i, alloc, firmware, heap>>

\* The VGA window is mapped again, for the user, with GetPage(i, 0, ...).
VgaMap ==
  /\ pc = "vga"
  /\ i < VgaEnd
  /\ page' = [page EXCEPT ![FrameOf(i)] = DMAFramePage(@, 0, 1, i)]
  /\ frames' = SetFrame(frames, i)
  /\ i' = i + PageSize
  /\ UNCHANGED <<pc, alloc, firmware, heap>>

\* The check for a "bad heap address" moves every heap start that is past the
\* mapped memory, and leaves the others.
ChooseHeapStart(start) ==
  IF start >= placement + Slack THEN placement + HeapGap ELSE start

VgaMapDone ==
  /\ pc = "vga"
  /\ ~(i < VgaEnd)
  /\ heapStart' = ChooseHeapStart(HeapInit)
  /\ i' = placement + Slack
  /\ pc' = "heap"
  /\ UNCHANGED <<alloc, page, frames, firmware, heapEnd>>

\* A heap space that relies on tables that nobody made.
HeapSpaceNoMake ==
  /\ pc = "heap"
  /\ i < heapStart
  /\ page' = [page EXCEPT ![FrameOf(i)] = AllocFramePage(frames, @, 1, 0)]
  /\ frames' = AllocFrameBits(frames, page[FrameOf(i)])
  /\ i' = i + PageSize
  /\ UNCHANGED <<pc, alloc, firmware, heap>>

\* "Kernel Heap Space"
HeapSpace ==
  /\ pc = "heap"
  /\ i < heapStart
  /\ GetPage(i)
  /\ page' = [page EXCEPT ![FrameOf(i)] = AllocFramePage(frames, @, 1, 0)]
  /\ frames' = AllocFrameBits(frames, page[FrameOf(i)])
  /\ i' = i + PageSize
  /\ UNCHANGED <<pc, firmware, heap>>

HeapSpaceDone ==
  /\ pc = "heap"
  /\ ~(i < heapStart)
  /\ pc' = "prealloc"
  /\ i' = heapStart
  /\ UNCHANGED <<alloc, page, frames, firmware, heap>>

\* "Preallocate the page entries for all the rest of the kernel heap aswell"
Preallocate ==
  /\ pc = "prealloc"
  /\ i <= HeapLimit
  /\ GetPage(i)
  /\ i' = i + PageSize
  /\ UNCHANGED <<pc, page, frames, firmware, heap>>

\* SwitchPageDirectory, and heapEnd: from here on kmalloc uses the heap.
SwitchPageDirectory ==
  /\ pc = "prealloc"
  /\ ~(i <= HeapLimit)
  /\ pc' = "paged"
  /\ heapEnd' = (placement + PageSize) - ((placement + PageSize) % PageSize)
  /\ UNCHANGED <<i, alloc, page, frames, firmware, heapStart>>

\* for(;;) hlt - also what panic ends in.
Halt ==
  /\ pc \in {"paged", "panic"}
  /\ UNCHANGED vars

Next ==
  \/ InitializePaging \/ NoRamInformation
  \/ \E addr \in Reserved : MarkPagingSystem(addr)
  \/ TakePageZero
  \/ IdentityMap \/ IdentityMapDone
  \/ VgaMap \/ VgaMapDone
  \/ HeapSpace \/ HeapSpaceDone
  \/ Preallocate \/ SwitchPageDirectory
  \/ Halt

\* One processor runs kernelMain, with interrupts off: it does not stop.
Spec == Init /\ [][Next]_vars /\ WF_vars(Next)

--------------------------------------------------------------------------------
(* Properties *)

TypeOK ==
  /\ pc \in {"start", "panic", "marking", "identity", "vga", "heap", "prealloc",
             "paged"}
  /\ i \in Nat /\ placement \in Nat /\ heapStart \in Nat /\ heapEnd \in Nat
  /\ tables \in [TableNos -> Nat]
  /\ page \in [Pages -> [Frame : Nat, Present : Bit, RW : Bit, User : Bit]]
  /\ frames \subseteq InRam /\ reserved \subseteq InRam
  /\ memMap \subseteq Reserved

\* Virtual page p is present and is the physical page of the same number.
MappedToItself(p) ==
  /\ tables[p \div TablePages] # 0
  /\ page[p].Present = 1
  /\ page[p].Frame = p

\* The pages between the identity map and the heap start.
HeapSpacePages == {p \in Pages : /\ page[p].Present = 1
                                 /\ p * PageSize < heapStart
                                 /\ p * PageSize >= LowEnd}

\* The heap start was moved past the used memory, the frames there are ones
\* FirstFrame can find, and the firmware keeps none of them.
RoomAboveKernel ==
  /\ heapStart # HeapInit
  /\ HeapSpacePages \subseteq Scanned \ reserved

\* When paging is switched on, all the memory the placement allocator has used
\* is mapped to itself: kernelMain, the bitmap, the directory and every page
\* table GetPage writes through Tables[].  The tables that Preallocate makes
\* come after the identity map and rely on FirstFrame having given the heap
\* space its own frames, in order (memorym.cpp:363-442).
UsedMemoryMappedIfRoom ==
  pc = "paged" /\ RoomAboveKernel =>
    \A p \in 1 .. FrameOf(placement - 1) : MappedToItself(p)

\* The page tables are page aligned and do not overlap, so that the low bits of
\* PhysicalTables[] hold only the flags, and none lies in a frame that AllocFrame
\* could still hand out, however the firmware's reserved frames fall
\* (memorym.cpp:425-435, 1024-1028).
TablesApart ==
  /\ \A t, u \in TableNos :
       tables[t] # 0 =>
         /\ tables[t] % PageSize = 0
         /\ t # u => tables[t] # tables[u]
  /\ pc = "paged" /\ heapStart # HeapInit =>
       \A t \in TableNos :
         FrameOf(tables[t]) \in Scanned => FrameOf(tables[t]) \in frames

\* The VGA window is the only memory a user page reaches, and the only one that
\* is writable: no other mapping of kernelMain covers it or spills past it
\* (memorym.cpp:363-387).
OnlyVgaForUser ==
  \A p \in Pages :
    page[p].Present = 1 /\ (page[p].User = 1 \/ page[p].RW = 1) =>
      p * PageSize >= VgaStart /\ p * PageSize < VgaEnd

\* Every entry that is present belongs to a table that exists: GetPage(i, 0)
\* never returns a null page to DMAFrame (memorym.cpp:384-387, 1014-1033).
EntriesHaveTables ==
  /\ \A p \in Pages : page[p].Present = 1 => tables[p \div TablePages] # 0
  /\ pc = "vga" /\ i < VgaEnd => tables[TableOf(i)] # 0

\* CompletePaging ends although GetPage moves the bound of its loop
\* (memorym.cpp:379-382).
BootEnds == <>(pc \in {"paged", "panic"})

--------------------------------------------------------------------------------
(* Refinement *)

FramesPhase ==
  CASE pc \in {"start", "panic", "marking"} -> "marking"
    [] pc \in {"identity", "vga"} -> "identity"
    [] OTHER -> "running"

Allocator == INSTANCE Frames WITH
  phase <- FramesPhase, Modes <- {<<1, 0>>, <<0, 1>>}

\* The boot uses the frame allocator only in the ways Frames describes, so the
\* invariants of Frames hold of it.
ImplementsFrames == Allocator!Spec

--------------------------------------------------------------------------------
(* What the comments of the code say, and the code does not do *)

\* "We need to identity map (physical address = virtual address) from 0x0 to
\* the end of used memory, so we can access this transparently, as if paging
\* wasn't enabled." (memorym.cpp:389-392)
UsedMemoryMapped ==
  pc = "paged" =>
    \A p \in 1 .. FrameOf(placement - 1) : MappedToItself(p)
================================================================================
