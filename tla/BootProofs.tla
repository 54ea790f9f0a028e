------------------------------ MODULE BootProofs ------------------------------
(***************************************************************************)
(* Proofs about Boot, for every amount of RAM, page and table size, layout *)
(* of low memory, size of the kernel and memory map.                       *)
(* The last section is about the segment descriptors of Gdt, which the     *)
(* boot makes first.                                                       *)
(***************************************************************************)
EXTENDS Boot, FrameBitmapProofs, Gdt

\* The tables that exist, and kernelMain once CompletePaging has begun.
Made == {t \in TableNos : tables[t] # 0}
Started == pc \in {"identity", "vga", "heap", "prealloc", "paged"}

\* Until CompletePaging nothing is mapped and no table made.
Untouched ==
  ~Started =>
    /\ tables = [t \in TableNos |-> 0]
    /\ page = [p \in Pages |-> NoPage]
    /\ frames \subseteq reserved
    /\ pc = "start" => placement \in LastMods

\* The placement allocator has given page tables, one after the other, since
\* InitializePaging.
Laid ==
  /\ \E a \in LastMods : Aligned(placement) =
       Aligned(AfterInitializePaging(a)) + PageSize * Cardinality(Made)
  /\ placement >= LowEnd
  /\ \A t \in Made : tables[t] % PageSize = 0 /\ tables[t] + PageSize <= placement
  /\ \A t \in Made, u \in TableNos : t # u => tables[t] # tables[u]

Consecutive ==
  /\ pc \notin {"start", "panic"} => Laid
  /\ Started => placement % PageSize = 0

\* Where each loop is.  The identity maps end where the heap space begins.
LoopVariable ==
  /\ pc = "identity" => /\ i % PageSize = 0 /\ i >= PageSize
                        /\ i <= placement + Slack
  /\ pc = "vga" => i % PageSize = 0 /\ i >= VgaStart
  /\ pc = "heap" => i % PageSize = 0 /\ i >= LowEnd

\* The first page that is not mapped yet.
Top == FrameOf(IF pc = "vga" THEN placement + Slack ELSE i)

\* Below it every page is mapped and every frame taken, in order: to the page
\* itself unless the firmware has or FirstFrame misses a frame of the heap space.
MappedInOrder ==
  pc \in {"identity", "vga", "heap"} =>
    /\ \A p \in Pages : p = 0 \/ p >= Top => page[p] = NoPage
    /\ \A f \in Scanned : f < Top => f \in frames
    /\ (pc = "heap" => RoomAboveKernel) =>
         /\ \A p \in Pages : 0 < p /\ p < Top => page[p].Present = 1 /\ page[p].Frame = p
         /\ \A f \in frames : f < Top \/ f \in reserved

\* The heap space ends in reach, and far enough above the tables made since.
HeapSpaceChosen ==
  pc \in {"heap", "prealloc", "paged"} =>
    /\ heapStart <= HeapLimit
    /\ heapStart # HeapInit =>
         placement + HeapGap <= heapStart + PageSize * Cardinality(Made)

\* What the heap space leaves behind.
HeapSpaceMapped ==
  pc \in {"prealloc", "paged"} /\ heapStart # HeapInit =>
    /\ \A f \in Scanned : f < FrameOf(heapStart) => f \in frames
    /\ RoomAboveKernel =>
         \A p \in Pages : 0 < p /\ p < FrameOf(heapStart) =>
           page[p].Present = 1 /\ page[p].Frame = p

Inv ==
  /\ TypeOK
  /\ Untouched
  /\ Consecutive
  /\ LoopVariable
  /\ MappedInOrder
  /\ HeapSpaceChosen
  /\ HeapSpaceMapped
  /\ OnlyVgaForUser
  /\ EntriesHaveTables

--------------------------------------------------------------------------------
(* The placement allocator and the page tables *)

\* kmallocReal rounds up to a page, and leaves what is on one
\* (memorym.cpp:26-41).
LEMMA AlignedFacts ==
  ASSUME NEW x \in Nat
  PROVE  /\ Aligned(x) \in Nat
         /\ Aligned(x) >= x
         /\ Aligned(x) % PageSize = 0
         /\ x % PageSize = 0 => Aligned(x) = x
<1>1. CASE x % PageSize = 0
  BY <1>1 DEF Aligned
<1>2. CASE x % PageSize # 0
  <2> DEFINE whole == PageSize * FrameOf(x)
  <2>1. /\ FrameOf(x) \in Nat /\ whole \in Nat
        /\ x = whole + (x % PageSize) /\ x <= whole + PageSize
    BY ModFacts, FrameAssumption DEF FrameOf
  <2>2. whole = PageSize * FrameOf(x) + 0
    BY <2>1
  <2>3. whole % PageSize = 0
    BY <2>1, <2>2, ModUnique, FrameAssumption
  <2> HIDE DEF whole
  <2>4. (whole + PageSize) % PageSize = 0
    BY <2>1, <2>3, FrameFacts
  <2>5. Aligned(x) = whole + PageSize
    BY <1>2, <2>1, FrameAssumption DEF Aligned
  <2> QED BY <1>2, <2>1, <2>4, <2>5, FrameAssumption
<1> QED BY <1>1, <1>2

\* Page tables are few enough to leave room for the heap space.
LEMMA Reach ==
  ASSUME TypeOK, Laid
  PROVE  /\ placement > 0
         /\ IsFiniteSet(Made)
         /\ Cardinality(Made) \in Nat
         /\ PageSize * Cardinality(Made) \in Nat
         /\ PageSize * Cardinality(Made) <= (TableOf(HeapLimit) + 1) * PageSize
         /\ Aligned(placement) + HeapGap <= HeapLimit
<1>1. TableOf(HeapLimit) \in Nat
  BY BootAssumption, FrameFacts, DivFacts DEF TableOf
<1>2. IsFiniteSet(TableNos) /\ Cardinality(TableNos) = TableOf(HeapLimit) + 1
  BY <1>1, FS_Interval DEF TableNos
<1>3. /\ IsFiniteSet(Made) /\ Cardinality(Made) \in Nat
      /\ Cardinality(Made) <= TableOf(HeapLimit) + 1
  BY <1>2, FS_Subset, FS_CardinalityType DEF Made
<1>4. ASSUME NEW n \in Nat, NEW m \in Nat, n <= m, NEW d \in Nat \ {0}
      PROVE  d * n \in Nat /\ d * n <= m * d
  BY <1>4, SMT
<1>5. /\ PageSize * Cardinality(Made) \in Nat
      /\ PageSize * Cardinality(Made) <= (TableOf(HeapLimit) + 1) * PageSize
  BY <1>1, <1>3, <1>4, FrameAssumption
<1>6. PICK a \in LastMods : Aligned(placement) =
        Aligned(AfterInitializePaging(a)) + PageSize * Cardinality(Made)
  BY DEF Laid
<1>7. Aligned(AfterInitializePaging(a)) \in Nat
  <2>1. a \in Nat /\ a + NFrames \div 4 \in Nat
    BY BootAssumption, FrameAssumption
  <2> QED BY <2>1, AlignedFacts, BootAssumption DEF AfterInitializePaging
<1>8. Aligned(AfterInitializePaging(a)) + HeapGap
        + (TableOf(HeapLimit) + 1) * PageSize <= HeapLimit
  BY BootAssumption
<1>9. (TableOf(HeapLimit) + 1) * PageSize \in Nat
  BY <1>1, <1>4, FrameAssumption
<1>10. placement > 0
  BY BootAssumption DEF Laid, TypeOK
<1> HIDE DEF Made, TableNos
<1>11. ASSUME NEW x \in Nat, NEW y \in Nat, NEW z \in Nat, NEW w \in Nat, y <= w,
              z = x + y, x + HeapGap + w <= HeapLimit
       PROVE  z + HeapGap <= HeapLimit
  BY <1>11, BootAssumption
<1>12. Aligned(placement) \in Nat
  BY AlignedFacts DEF TypeOK
<1> QED BY <1>3, <1>5, <1>6, <1>7, <1>8, <1>9, <1>10, <1>11, <1>12

\* The same of the next state.
LEMMA ReachNext ==
  (TypeOK /\ Laid)' => PageSize * Cardinality(Made') \in Nat
<1>1. TypeOK /\ Laid => PageSize * Cardinality(Made) \in Nat
  BY Reach
<1>2. (TypeOK /\ Laid => PageSize * Cardinality(Made) \in Nat)'
  BY <1>1, PTL
<1> QED BY <1>2

\* GetPage makes a table where there is none, and keeps the others
\* (memorym.cpp:1007-1033).
LEMMA GetPageLaid ==
  ASSUME TypeOK, Laid, NEW addr \in Nat, addr <= HeapLimit, GetPage(addr)
  PROVE  /\ placement' \in Nat
         /\ tables' \in [TableNos -> Nat]
         /\ placement <= placement'
         /\ TableOf(addr) \in TableNos
         /\ tables'[TableOf(addr)] # 0
         /\ \A t \in TableNos : tables[t] # 0 => tables'[t] # 0
         /\ tables[TableOf(addr)] = 0 \/ placement % PageSize = 0
              => placement' % PageSize = 0
         /\ placement % PageSize = 0 =>
              placement' + PageSize * Cardinality(Made)
                = placement + PageSize * Cardinality(Made')
         /\ Laid'
<1> DEFINE t == TableOf(addr)
           base == Aligned(placement)
<1>1. t \in TableNos
  <2>1. /\ FrameOf(addr) \in Nat /\ FrameOf(HeapLimit) \in Nat
        /\ FrameOf(addr) <= FrameOf(HeapLimit)
    BY FrameFacts, FrameMonotone, BootAssumption
  <2> QED BY <2>1, DivMonotone, DivFacts, BootAssumption DEF TableOf, TableNos
<1>2. /\ base \in Nat /\ base >= placement /\ base % PageSize = 0
      /\ placement % PageSize = 0 => base = placement
      /\ placement \in Nat /\ placement > 0
  BY AlignedFacts, Reach DEF TypeOK
<1>3. CASE tables[t] # 0
  <2>1. placement' = placement /\ tables' = tables
    BY <1>3 DEF GetPage, alloc
  <2>2. Made' = Made
    BY <2>1 DEF Made
  <2>3. Laid'
    BY <2>1, <2>2 DEF Laid
  <2>4. Cardinality(Made') = Cardinality(Made)
    BY <2>2
  <2> QED BY <1>1, <1>3, <2>1, <2>3, <2>4 DEF TypeOK
<1>4. CASE tables[t] = 0
  <2>1. placement' = base + PageSize /\ tables' = [tables EXCEPT ![t] = base]
    BY <1>4 DEF GetPage
  <2> HIDE DEF t, base
  <2>2. /\ tables' \in [TableNos -> Nat]
        /\ tables'[t] = base
        /\ \A u \in TableNos \ {t} : tables'[u] = tables[u]
    BY <1>1, <1>2, <2>1 DEF TypeOK
  <2>3. base # 0 /\ placement' \in Nat /\ placement < placement'
    BY <1>2, <2>1, FrameAssumption
  <2>4. Made' = Made \cup {t} /\ t \notin Made
    BY <1>1, <1>4, <2>2, <2>3 DEF Made
  <2>5. Cardinality(Made') = Cardinality(Made) + 1 /\ Cardinality(Made) \in Nat
    BY <2>4, Reach, FS_AddElement
  <2>6. PageSize * Cardinality(Made') = PageSize * Cardinality(Made) + PageSize
        /\ PageSize * Cardinality(Made) \in Nat
    <3>1. ASSUME NEW n \in Nat, NEW d \in Nat PROVE d * (n + 1) = d * n + d
      BY SMT
    <3> QED BY <2>5, <3>1, Reach, FrameAssumption
  <2>7. placement' % PageSize = 0 /\ Aligned(placement') = placement'
    BY <1>2, <2>1, <2>3, FrameFacts, AlignedFacts
  <2>8. Laid'
    <3>1. PICK a \in LastMods : base =
            Aligned(AfterInitializePaging(a)) + PageSize * Cardinality(Made)
      BY DEF Laid, base
    <3>2. Aligned(AfterInitializePaging(a)) \in Nat
      <4>1. a \in Nat /\ a + NFrames \div 4 \in Nat
        BY BootAssumption, FrameAssumption
      <4> QED BY <4>1, AlignedFacts, BootAssumption DEF AfterInitializePaging
    <3>3. Aligned(placement') =
            Aligned(AfterInitializePaging(a)) + PageSize * Cardinality(Made')
      BY <2>1, <2>6, <2>7, <3>1, <3>2, FrameAssumption
    <3>4. placement' >= LowEnd
      BY <1>2, <2>3, BootAssumption DEF Laid
    <3>5. \A u \in Made' : tables'[u] % PageSize = 0 /\ tables'[u] + PageSize <= placement'
      <4>1. tables'[t] % PageSize = 0 /\ tables'[t] + PageSize <= placement'
        BY <1>2, <2>1, <2>2, FrameAssumption
      <4>2. ASSUME NEW u \in Made
            PROVE  tables'[u] % PageSize = 0 /\ tables'[u] + PageSize <= placement'
        <5>1. /\ tables'[u] = tables[u] /\ tables[u] \in Nat
              /\ tables[u] % PageSize = 0 /\ tables[u] + PageSize <= placement
          BY <2>2, <2>4 DEF Laid, Made, TypeOK
        <5>2. tables[u] + PageSize <= placement'
          BY <1>2, <2>3, <5>1, FrameAssumption
        <5> QED BY <5>1, <5>2
      <4> QED BY <2>4, <4>1, <4>2
    <3>6. \A u \in Made', v \in TableNos : u # v => tables'[u] # tables'[v]
      <4>1. ASSUME NEW u \in Made PROVE tables[u] \in Nat /\ tables[u] < base /\ u \in TableNos
        <5>1. tables[u] \in Nat /\ tables[u] + PageSize <= placement /\ u \in TableNos
          BY DEF Laid, Made, TypeOK
        <5> QED BY <5>1, <1>2, FrameAssumption
      <4>2. ASSUME NEW u \in Made', NEW v \in TableNos, u # v
            PROVE  tables'[u] # tables'[v]
        <5>1. CASE u # t /\ v # t
          <6>1. u \in Made /\ tables'[u] = tables[u] /\ tables'[v] = tables[v]
            BY <2>2, <2>4, <5>1 DEF Made
          <6> QED BY <4>2, <6>1 DEF Laid
        <5>2. CASE u = t
          <6>1. v # t /\ tables'[v] = tables[v]
            BY <2>2, <4>2, <5>2
          <6>2. CASE v \in Made
            BY <2>2, <4>1, <5>2, <6>1, <6>2, <1>2
          <6>3. CASE v \notin Made
            BY <2>2, <2>3, <5>2, <6>1, <6>3 DEF Made
          <6> QED BY <6>2, <6>3
        <5>3. CASE v = t
          <6>1. u \in Made /\ tables'[u] = tables[u]
            BY <2>2, <2>4, <4>2, <5>3 DEF Made
          <6> QED BY <2>2, <4>1, <5>3, <6>1, <1>2
        <5> QED BY <5>1, <5>2, <5>3
      <4> QED BY <4>2
    <3> QED BY <3>3, <3>4, <3>5, <3>6 DEF Laid
  <2>9. \A u \in TableNos : tables[u] # 0 => tables'[u] # 0
    BY <1>4, <2>2
  <2>10. tables'[t] # 0
    BY <2>2, <2>3
  <2>11. placement % PageSize = 0 =>
           placement' + PageSize * Cardinality(Made)
             = placement + PageSize * Cardinality(Made')
    BY <1>2, <2>1, <2>6, FrameAssumption
  <2>12. placement <= placement'
    BY <1>2, <2>3
  <2> QED BY <1>1, <2>2, <2>3, <2>7, <2>8, <2>9, <2>10, <2>11, <2>12 DEF t
<1> QED BY <1>3, <1>4

--------------------------------------------------------------------------------
(* Page entries *)

Entries == [Frame : Nat, Present : Bit, RW : Bit, User : Bit]

Entry(e, frame, rw, user) ==
  e \in Entries /\ e.Frame = frame /\ e.Present = 1 /\ e.RW = rw /\ e.User = user

\* A kernel page is neither writable nor a user's, a page of the VGA window is
\* both, and AllocFrame gives a page without a frame the first free one
\* (memorym.cpp:247-277, 316-325).
LEMMA EntryValues ==
  ASSUME NEW pg \in Entries, NEW x \in Nat, NEW bits
  PROVE  /\ Entry(DMAFramePage(pg, 1, 0, x), FrameOf(x), 0, 0)
         /\ Entry(DMAFramePage(pg, 0, 1, x), FrameOf(x), 1, 1)
         /\ Entry(AllocFramePage(bits, pg, 1, 0), AllocatedFrame(bits, pg), 0, 0)
         /\ FrameOf(x) \in Nat
<1>1. FrameOf(x) \in Nat
  BY FrameFacts
<1>2. AllocatedFrame(bits, pg) \in Nat
  BY FirstFrameInRam, FrameAssumption DEF AllocatedFrame, Entries, InRam
<1>3. Entry(DMAFramePage(pg, 1, 0, x), FrameOf(x), 0, 0)
  BY <1>1 DEF DMAFramePage, Entries, Entry, Bit, AsBit
<1>4. Entry(DMAFramePage(pg, 0, 1, x), FrameOf(x), 1, 1)
  BY <1>1 DEF DMAFramePage, Entries, Entry, Bit, AsBit
<1>5. Entry(AllocFramePage(bits, pg, 1, 0), AllocatedFrame(bits, pg), 0, 0)
  BY <1>2 DEF AllocFramePage, Entries, Entry, Bit, AsBit
<1> QED BY <1>1, <1>3, <1>4, <1>5

\* An address below the end of the heap has a page, whose address it is.
LEMMA PageBounds ==
  ASSUME NEW x \in Nat, x % PageSize = 0, x >= PageSize, x <= HeapLimit
  PROVE  /\ FrameOf(x) \in Pages /\ FrameOf(x) # 0
         /\ FrameOf(x) * PageSize = x
         /\ FrameOf(x + PageSize) = FrameOf(x) + 1
         /\ (x + PageSize) % PageSize = 0
         /\ FrameOf(x) \div TablePages = TableOf(x)
<1>1. FrameOf(x) \in Nat /\ FrameOf(HeapLimit) \in Nat /\ FrameOf(x) <= FrameOf(HeapLimit)
  BY FrameFacts, FrameMonotone, BootAssumption
<1>2. FrameOf(x) # 0
  <2>1. FrameOf(0 + PageSize) = FrameOf(0) + 1 /\ FrameOf(0) \in Nat
    BY FrameFacts
  <2>2. FrameOf(0 + PageSize) <= FrameOf(x)
    BY FrameMonotone, FrameAssumption
  <2> QED BY <1>1, <2>1, <2>2
<1> QED BY <1>1, <1>2, FrameFacts DEF Pages, MaxPage, TableOf

\* The page number of an address is a page's.
LEMMA PagesAreNatural == Pages \subseteq Nat
BY FrameFacts, BootAssumption DEF Pages, MaxPage

\* The layout of low memory and of the heap.
LEMMA Layout ==
  /\ PageSize \in Nat \ {0} /\ LowEnd \in Nat /\ VgaStart \in Nat /\ VgaEnd \in Nat
  /\ Slack \in Nat /\ HeapGap \in Nat /\ HeapInit \in Nat /\ HeapLimit \in Nat
  /\ 0 < VgaStart /\ VgaStart < VgaEnd /\ VgaEnd <= LowEnd
  /\ LowEnd < HeapInit /\ HeapInit < HeapLimit
BY BootAssumption, FrameAssumption

\* Low memory has at least one page.
LEMMA LowMemory ==
  /\ PageSize <= LowEnd
  /\ \A x \in Nat : x >= LowEnd => x + Slack \in Nat /\ PageSize <= x + Slack
<1>1. 0 % PageSize = 0 /\ 0 < LowEnd
  BY FrameAssumption, BootAssumption
<1>2. PageSize <= LowEnd
  BY <1>1, WholePages, BootAssumption, FrameAssumption
<1> QED BY <1>2, Layout

\* CompletePaging maps nothing beyond the end of the heap (memorym.cpp:363-417).
LEMMA Bounds ==
  ASSUME TypeOK, Consecutive, Started
  PROVE  /\ placement \in Nat /\ placement % PageSize = 0 /\ placement > 0
         /\ LowEnd <= placement + Slack
         /\ placement + Slack <= placement + HeapGap
         /\ placement + HeapGap <= HeapLimit
         /\ (placement + Slack) % PageSize = 0
         /\ PageSize <= LowEnd
<1>1. placement \in Nat /\ Laid /\ placement % PageSize = 0 /\ Aligned(placement) = placement
  BY AlignedFacts DEF TypeOK, Consecutive, Started
<1>2. /\ placement > 0 /\ placement >= LowEnd
      /\ placement + HeapGap <= HeapLimit
  BY <1>1, Reach DEF Laid
<1>3. Slack <= HeapGap
  <2>1. ASSUME NEW n \in Nat, NEW d \in Nat PROVE (n + 1) * d \in Nat
    BY SMT
  <2>2. TableOf(HeapLimit) \in Nat
    BY BootAssumption, FrameFacts, DivFacts DEF TableOf
  <2>3. (TableOf(HeapLimit) + 1) * PageSize \in Nat
    BY <2>1, <2>2, FrameAssumption
  <2> QED BY <2>3, BootAssumption
<1>4. (placement + Slack) % PageSize = 0
  BY <1>1, WholePages, BootAssumption
<1> QED BY <1>1, <1>2, <1>3, <1>4, LowMemory, BootAssumption

--------------------------------------------------------------------------------
(* The invariant: before the identity maps *)

\* The boot loader leaves nothing mapped (kernel.cpp:119-150).
LEMMA InvInit == Init => Inv
<1> SUFFICES ASSUME Init PROVE Inv
  OBVIOUS
<1>1. TypeOK
  <2>1. LastMods \subseteq Nat
    BY BootAssumption
  <2>2. NoPage \in Entries
    BY DEF NoPage, Entries, Bit
  <2> QED BY <2>1, <2>2 DEF Init, TypeOK, Entries
<1>2. ~Started /\ pc = "start" /\ frames = {} /\ placement \in LastMods
      /\ tables = [t \in TableNos |-> 0] /\ page = [p \in Pages |-> NoPage]
  BY DEF Init, Started
<1>3. \A p \in Pages : page[p].Present = 0
  BY <1>2 DEF NoPage
<1> QED
  BY <1>1, <1>2, <1>3 DEF Inv, Untouched, Consecutive, LoopVariable,
     MappedInOrder, HeapSpaceChosen, HeapSpaceMapped, OnlyVgaForUser,
     EntriesHaveTables, Started

\* While nothing is mapped and no table made, the rest of the invariant is about
\* the bitmap and the placement address.
LEMMA InvWhileUntouched ==
  /\ TypeOK /\ Untouched /\ pc \in {"start", "panic", "marking"}
  /\ pc = "marking" => Laid
  => Inv
<1> SUFFICES ASSUME TypeOK, Untouched, pc \in {"start", "panic", "marking"},
                    pc = "marking" => Laid
             PROVE  Inv
  OBVIOUS
<1>1. \A p \in Pages : page[p].Present = 0
  BY DEF Untouched, Started, NoPage
<1> QED
  BY <1>1 DEF Inv, Consecutive, LoopVariable,
     MappedInOrder, HeapSpaceChosen, HeapSpaceMapped, OnlyVgaForUser,
     EntriesHaveTables, Started

\* The same of the next state.
LEMMA InvWhileStillUntouched ==
  (/\ TypeOK /\ Untouched /\ pc \in {"start", "panic", "marking"}
   /\ pc = "marking" => Laid)' => Inv'
BY InvWhileUntouched, PTL

\* The bitmap and the page directory come first, where there is memory for them
\* (memorym.cpp:327-336).
LEMMA InitializePagingKeeps ==
  ASSUME Inv, InitializePaging \/ NoRamInformation
  PROVE  Inv'
<1> USE DEF Inv
<1>1. /\ pc = "start" /\ placement \in LastMods
      /\ UNCHANGED <<i, tables, page, frames, memMap, reserved, heapStart, heapEnd>>
  BY DEF InitializePaging, NoRamInformation, firmware, heap, alloc, Untouched, Started
<1>2. CASE NoRamInformation
  <2>1. pc' = "panic" /\ placement' = placement
    BY <1>2 DEF NoRamInformation, alloc
  <2>2. TypeOK'
    BY <1>1, <2>1 DEF TypeOK
  <2>3. Untouched'
    BY <1>1, <2>1 DEF Untouched, Started
  <2> QED BY <2>1, <2>2, <2>3, InvWhileStillUntouched
<1>3. CASE InitializePaging
  <2>1. pc' = "marking" /\ placement' = AfterInitializePaging(placement)
    BY <1>3 DEF InitializePaging
  <2>2. placement \in Nat /\ placement >= LowEnd /\ placement + NFrames \div 4 \in Nat
        /\ placement + NFrames \div 4 >= placement
    BY <1>1, BootAssumption, FrameAssumption
  <2>3. placement' \in Nat /\ placement' >= LowEnd
    BY <2>1, <2>2, AlignedFacts, BootAssumption DEF AfterInitializePaging
  <2>4. TypeOK'
    BY <1>1, <2>1, <2>3 DEF TypeOK
  <2>5. Untouched'
    BY <1>1, <2>1 DEF Untouched, Started
  <2>6. Made' = {}
    BY <1>1 DEF Made, Untouched, Started
  <2>7. PageSize * Cardinality(Made') = 0
    BY <2>6, FS_EmptySet, FrameAssumption
  <2>8. Aligned(placement') =
          Aligned(AfterInitializePaging(placement)) + PageSize * Cardinality(Made')
    BY <2>1, <2>3, <2>7, AlignedFacts
  <2>9. Laid'
    BY <1>1, <2>3, <2>6, <2>8 DEF Laid
  <2> QED BY <2>1, <2>4, <2>5, <2>9, InvWhileStillUntouched
<1> QED BY <1>2, <1>3

\* The firmware's pages are marked one at a time (kernel.cpp:173-194).
LEMMA MarkPagingSystemKeeps ==
  ASSUME Inv, NEW addr \in Reserved, MarkPagingSystem(addr)
  PROVE  Inv'
<1> USE DEF Inv
<1>1. /\ pc = "marking" /\ pc' = pc /\ memMap' = memMap \ {addr}
      /\ frames' = SetFrame(frames, addr)
      /\ reserved' = reserved \cup (SetFrame(frames, addr) \ frames)
      /\ UNCHANGED <<i, placement, tables, page, heapStart, heapEnd>>
  BY DEF MarkPagingSystem, alloc, heap
<1>2. addr \in Nat
  BY BootAssumption
<1>3. SetFrame(frames, addr) \subseteq InRam
  BY <1>2, SetFrameInRam DEF TypeOK
<1>4. TypeOK'
  BY <1>1, <1>3 DEF TypeOK
<1>5. Untouched'
  BY <1>1 DEF Untouched, Started
<1>6. Laid'
  <2>1. Made' = Made /\ Laid
    BY <1>1 DEF Made, Consecutive
  <2> QED BY <1>1, <2>1 DEF Laid
<1> QED BY <1>1, <1>4, <1>5, <1>6, InvWhileStillUntouched

\* CompletePaging takes frame 0 and makes the first table (memorym.cpp:355-356).
LEMMA TakePageZeroKeeps == ASSUME Inv, TakePageZero PROVE Inv'
<1> USE DEF Inv
<1>1. /\ pc = "marking" /\ pc' = "identity" /\ i' = PageSize /\ GetPage(0)
      /\ page' = [page EXCEPT ![0].Present = 0]
      /\ frames' = SetFrame(frames, 0)
      /\ UNCHANGED <<memMap, reserved, heapStart, heapEnd>>
  BY DEF TakePageZero, firmware, heap
<1>2. /\ tables = [t \in TableNos |-> 0] /\ page = [p \in Pages |-> NoPage]
      /\ frames \subseteq reserved /\ Laid
  BY <1>1 DEF Untouched, Started, Consecutive
<1>3. 0 \in Nat /\ 0 <= HeapLimit
  BY BootAssumption
<1>4. /\ placement' \in Nat /\ tables' \in [TableNos -> Nat] /\ Laid'
      /\ placement' % PageSize = 0
  <2>1. tables[TableOf(0)] = 0
    BY <1>1, <1>2, <1>3, GetPageLaid
  <2> QED BY <1>1, <1>2, <1>3, <2>1, GetPageLaid
<1>5. page' = [p \in Pages |-> NoPage]
  <2>1. [NoPage EXCEPT !.Present = 0] = NoPage
    BY DEF NoPage
  <2>2. \A p \in Pages : page[p] = NoPage
    BY <1>2
  <2> QED BY <1>1, <1>2, <2>1, <2>2
<1>6. frames' = frames \cup {0} /\ frames' \subseteq InRam
  <2>1. 0 * PageSize = 0 /\ 0 \in InRam
    BY FrameAssumption DEF InRam
  <2>2. SetFrame(frames, 0 * PageSize) = frames \cup {0}
    BY <2>1, SetFrameByAddress
  <2> QED BY <1>1, <2>1, <2>2 DEF TypeOK
<1>7. FrameOf(PageSize) = 1 /\ PageSize % PageSize = 0 /\ PageSize \in Nat
  <2>1. FrameOf(0 + PageSize) = FrameOf(0) + 1 /\ (0 + PageSize) % PageSize = 0 % PageSize
        /\ FrameOf(0) * PageSize <= 0 /\ FrameOf(0) \in Nat /\ 0 % PageSize = 0
    BY FrameFacts, FrameAssumption
  <2>2. FrameOf(0) = 0
    <3>1. ASSUME NEW n \in Nat, NEW d \in Nat \ {0}, n * d <= 0 PROVE n = 0
      BY <3>1, SMT
    <3> QED BY <2>1, <3>1, FrameAssumption
  <2> QED BY <2>1, <2>2, FrameAssumption
<1>8. TypeOK'
  <2>1. NoPage \in [Frame : Nat, Present : Bit, RW : Bit, User : Bit]
    BY DEF NoPage, Bit
  <2>2. page' \in [Pages -> [Frame : Nat, Present : Bit, RW : Bit, User : Bit]]
    BY <1>5, <2>1
  <2> QED BY <1>1, <1>4, <1>6, <1>7, <2>2 DEF TypeOK
<1>9. Untouched'
  BY <1>1 DEF Untouched, Started
<1>10. Consecutive'
  BY <1>1, <1>4 DEF Consecutive
<1>11. LoopVariable'
  <2>1. PageSize <= placement' + Slack
    <3>1. placement' >= LowEnd /\ placement' \in Nat
      BY <1>4 DEF Laid
    <3> QED BY <3>1, LowMemory
  <2> QED BY <1>1, <1>7, <2>1 DEF LoopVariable
<1>12. MappedInOrder'
  <2>1. Top' = 1
    BY <1>1, <1>7 DEF Top
  <2>2. Scanned \subseteq Nat
    BY FrameAssumption DEF Scanned
  <2>3. frames' \subseteq {0} \cup reserved'
    BY <1>1, <1>2, <1>6
  <2> QED BY <1>1, <1>5, <1>6, <2>1, <2>2, <2>3, PagesAreNatural DEF MappedInOrder
<1>13. HeapSpaceChosen' /\ HeapSpaceMapped'
  BY <1>1 DEF HeapSpaceChosen, HeapSpaceMapped
<1>14. \A p \in Pages : page'[p].Present = 0
  BY <1>5 DEF NoPage
<1>15. OnlyVgaForUser' /\ EntriesHaveTables'
  BY <1>1, <1>14 DEF OnlyVgaForUser, EntriesHaveTables
<1> QED BY <1>8, <1>9, <1>10, <1>11, <1>12, <1>13, <1>15

--------------------------------------------------------------------------------
(* The invariant: the identity maps *)

\* The table of a page of kernelDirectory is one of its tables.
LEMMA TableOfPage == \A p \in Pages : p \div TablePages \in TableNos
<1>1. FrameOf(HeapLimit) \in Nat
  BY FrameFacts, Layout
<1>2. ASSUME NEW p \in Pages PROVE p \div TablePages \in TableNos
  <2>1. p \in Nat /\ p <= FrameOf(HeapLimit)
    BY <1>1 DEF Pages, MaxPage
  <2> QED BY <1>1, <2>1, DivMonotone, DivFacts, BootAssumption DEF TableNos, TableOf
<1> QED BY <1>2

\* Mapping a page whose table exists changes that entry alone: what is writable
\* or a user's stays in the VGA window, and every entry keeps its table.
LEMMA MapPage ==
  ASSUME TypeOK, OnlyVgaForUser, EntriesHaveTables,
         NEW p \in Pages, NEW e, NEW fr, NEW rw, NEW us, Entry(e, fr, rw, us),
         page' = [page EXCEPT ![p] = e],
         \A t \in TableNos : tables[t] # 0 => tables'[t] # 0,
         tables'[p \div TablePages] # 0,
         \/ rw = 0 /\ us = 0
         \/ p * PageSize >= VgaStart /\ p * PageSize < VgaEnd
  PROVE  /\ page' \in [Pages -> Entries]
         /\ page'[p] = e
         /\ \A q \in Pages \ {p} : page'[q] = page[q]
         /\ OnlyVgaForUser'
         /\ \A q \in Pages : page'[q].Present = 1 => tables'[q \div TablePages] # 0
<1>1. /\ page' \in [Pages -> Entries] /\ page'[p] = e
      /\ \A q \in Pages \ {p} : page'[q] = page[q]
  BY DEF TypeOK, Entries, Entry
<1>2. OnlyVgaForUser'
  BY <1>1 DEF OnlyVgaForUser, Entry
<1>3. \A q \in Pages : page'[q].Present = 1 => tables'[q \div TablePages] # 0
  BY <1>1, TableOfPage DEF EntriesHaveTables
<1> QED BY <1>1, <1>2, <1>3

\* The VGA window has been mapped before, with the rest of low memory
\* (memorym.cpp:363-387).
LEMMA VgaMapped ==
  ASSUME TypeOK, Consecutive, LoopVariable, MappedInOrder, pc = "vga", i < VgaEnd
  PROVE  /\ i \in Nat /\ i >= PageSize /\ i <= HeapLimit /\ i % PageSize = 0
         /\ i >= VgaStart
         /\ FrameOf(i) \in Pages /\ FrameOf(i) # 0 /\ FrameOf(i) < Top
         /\ FrameOf(i) * PageSize = i
         /\ page[FrameOf(i)].Present = 1
<1>1. i \in Nat /\ i % PageSize = 0 /\ i >= VgaStart
  BY DEF TypeOK, LoopVariable
<1>2. i >= PageSize
  <2>1. 0 % PageSize = 0 /\ 0 < i
    BY <1>1, Layout
  <2> QED BY <1>1, <2>1, WholePages, FrameAssumption
<1>3. i <= HeapLimit /\ i < LowEnd
  BY <1>1, Layout
<1>4. FrameOf(i) \in Pages /\ FrameOf(i) # 0 /\ FrameOf(i) \in Nat
  BY <1>1, <1>2, <1>3, PageBounds, FrameFacts
<1>5. FrameOf(i) < Top
  <2>1. Top = FrameOf(placement + Slack)
    BY DEF Top
  <2>2. placement + Slack \in Nat /\ LowEnd <= placement + Slack
    BY Bounds, Layout DEF Started
  <2>3. (placement + Slack) % PageSize = 0
    BY Bounds DEF Started
  <2>4. i < placement + Slack
    BY <1>3, <2>2, Layout DEF TypeOK
  <2> QED BY <1>1, <2>1, <2>2, <2>3, <2>4, WholePages
<1>6. 0 < FrameOf(i)
  BY <1>4
<1>7. page[FrameOf(i)].Present = 1
  <2>1. \A p \in Pages : 0 < p /\ p < Top => page[p].Present = 1
    BY DEF MappedInOrder
  <2> QED BY <1>4, <1>5, <1>6, <2>1
<1>8. FrameOf(i) * PageSize = i
  BY <1>1, <1>2, <1>3, PageBounds
<1> QED BY <1>1, <1>2, <1>3, <1>4, <1>5, <1>7, <1>8

\* So the page GetPage(i, 0, ...) returns there exists.
LEMMA VgaHasTables ==
  /\ TypeOK /\ Consecutive /\ LoopVariable /\ MappedInOrder
  /\ \A p \in Pages : page[p].Present = 1 => tables[p \div TablePages] # 0
  => EntriesHaveTables
BY VgaMapped DEF EntriesHaveTables, TableOf

\* The same of the next state.
LEMMA VgaKeepsTables ==
  (/\ TypeOK /\ Consecutive /\ LoopVariable /\ MappedInOrder
   /\ \A p \in Pages : page[p].Present = 1 => tables[p \div TablePages] # 0)'
  => EntriesHaveTables'
BY VgaHasTables, PTL

\* DMAFrame marks the frame of the page it maps to itself, if there is one.
LEMMA MarkOwnFrame ==
  ASSUME TypeOK, NEW x \in Nat, FrameOf(x) * PageSize = x
  PROVE  SetFrame(frames, x) =
           IF FrameOf(x) \in InRam THEN frames \cup {FrameOf(x)} ELSE frames
BY FrameFacts, SetFrameByAddress

\* The page that the identity map has reached has an entry.
LEMMA IdentityMapped ==
  ASSUME TypeOK, Consecutive, LoopVariable, pc = "identity",
         i < LowEnd \/ i < placement + Slack
  PROVE  /\ i + PageSize <= placement + Slack /\ i <= HeapLimit
         /\ FrameOf(i) \in Pages /\ FrameOf(i) # 0
         /\ FrameOf(i) * PageSize = i
<1>1. /\ placement \in Nat /\ placement + Slack \in Nat
      /\ LowEnd <= placement + Slack /\ placement + Slack <= HeapLimit
  BY Bounds, Layout DEF Started
<1>2. i \in Nat /\ i % PageSize = 0 /\ i >= PageSize
  BY DEF TypeOK, LoopVariable
<1>3. i < placement + Slack
  BY <1>1, <1>2, Layout
<1>4. i + PageSize <= placement + Slack
  BY <1>1, <1>2, <1>3, Bounds, WholePages DEF Started
<1>5. i <= HeapLimit
  BY <1>1, <1>2, <1>3, Layout
<1>6. FrameOf(i) \in Pages /\ FrameOf(i) # 0 /\ FrameOf(i) * PageSize = i
  BY <1>2, <1>5, PageBounds
<1> QED BY <1>4, <1>5, <1>6

\* Every page below the bound is mapped to itself, in order
\* (memorym.cpp:363-382).
LEMMA IdentityMapKeeps == ASSUME Inv, IdentityMap PROVE Inv'
<1>1. /\ pc = "identity" /\ pc' = pc /\ i' = i + PageSize /\ GetPage(i)
      /\ i < LowEnd \/ i < placement + Slack
      /\ page' = [page EXCEPT ![FrameOf(i)] = DMAFramePage(@, 1, 0, i)]
      /\ frames' = SetFrame(frames, i)
      /\ UNCHANGED <<memMap, reserved, heapStart, heapEnd>>
  BY DEF IdentityMap, IdentityEnd, firmware, heap
<1>2. /\ TypeOK /\ Laid /\ OnlyVgaForUser /\ EntriesHaveTables /\ MappedInOrder
      /\ i \in Nat /\ i % PageSize = 0 /\ i >= PageSize /\ Consecutive /\ Started
  BY <1>1 DEF Inv, TypeOK, Consecutive, LoopVariable, Started
<1>3. /\ placement \in Nat /\ placement + Slack \in Nat
      /\ LowEnd <= placement + Slack /\ placement + Slack <= HeapLimit
  BY <1>2, Bounds, Layout
<1>4. i + PageSize <= placement + Slack /\ i <= HeapLimit
  BY <1>1, <1>2, IdentityMapped DEF Inv
<1> DEFINE p == FrameOf(i)
<1>5. /\ p \in Pages /\ p # 0 /\ p \in Nat
      /\ FrameOf(i') = p + 1 /\ i' % PageSize = 0
      /\ p \div TablePages = TableOf(i)
  BY <1>1, <1>2, <1>4, PageBounds, PagesAreNatural
<1>6. i' \in Nat /\ i' >= PageSize
  BY <1>1, Layout DEF Inv, TypeOK
<1>7. p * PageSize = i
  BY <1>2, <1>4, PageBounds
<1>8. /\ placement' \in Nat /\ tables' \in [TableNos -> Nat] /\ Laid'
      /\ placement' % PageSize = 0 /\ placement <= placement'
      /\ tables'[TableOf(i)] # 0
      /\ \A t \in TableNos : tables[t] # 0 => tables'[t] # 0
  BY <1>1, <1>2, <1>4, Bounds, GetPageLaid
<1>9. frames' = IF p \in InRam THEN frames \cup {p} ELSE frames
  BY <1>1, <1>2, <1>7, MarkOwnFrame
<1> DEFINE e == DMAFramePage(page[p], 1, 0, i)
<1>10. Entry(e, p, 0, 0) /\ page' = [page EXCEPT ![p] = e]
  BY <1>1, <1>2, <1>5, EntryValues DEF TypeOK, Entries
<1> HIDE DEF e
<1>11. /\ page' \in [Pages -> Entries] /\ page'[p] = e
       /\ \A q \in Pages \ {p} : page'[q] = page[q]
       /\ OnlyVgaForUser'
       /\ \A q \in Pages : page'[q].Present = 1 => tables'[q \div TablePages] # 0
  BY <1>2, <1>5, <1>8, <1>10, MapPage
<1>12. TypeOK'
  BY <1>1, <1>2, <1>6, <1>8, <1>9, <1>11 DEF TypeOK, Entries
<1>13. Untouched' /\ Consecutive' /\ HeapSpaceChosen' /\ HeapSpaceMapped'
  BY <1>1, <1>8 DEF Untouched, Consecutive, HeapSpaceChosen, HeapSpaceMapped, Started
<1>14. LoopVariable'
  <2>1. i' <= placement' + Slack
    BY <1>1, <1>3, <1>4, <1>8, Layout
  <2> QED BY <1>1, <1>5, <1>6, <2>1 DEF LoopVariable
<1>15. MappedInOrder'
  <2>1. Top = p /\ Top' = p + 1
    BY <1>1, <1>5 DEF Top
  <2>2. Scanned \subseteq InRam /\ Scanned \subseteq Nat /\ frames \subseteq Nat
    BY <1>2, ScannedInRam DEF TypeOK
  <2>3. /\ \A q \in Pages : q = 0 \/ q >= p => page[q] = NoPage
        /\ \A f \in Scanned : f < p => f \in frames
        /\ \A q \in Pages : 0 < q /\ q < p => page[q].Present = 1 /\ page[q].Frame = q
        /\ \A f \in frames : f < p \/ f \in reserved
    BY <1>1, <1>2, <2>1 DEF MappedInOrder
  <2>4. ASSUME NEW q \in Pages, q = 0 \/ q >= p + 1 PROVE page'[q] = NoPage
    BY <1>5, <1>11, <2>3, <2>4, PagesAreNatural
  <2>5. ASSUME NEW f \in Scanned, f < p + 1 PROVE f \in frames'
    BY <1>5, <1>9, <2>2, <2>3, <2>5
  <2>6. ASSUME NEW q \in Pages, 0 < q, q < p + 1
        PROVE  page'[q].Present = 1 /\ page'[q].Frame = q
    <3>1. q = p \/ q < p
      BY <1>5, <2>6, PagesAreNatural
    <3> QED BY <1>10, <1>11, <2>3, <2>6, <3>1, PagesAreNatural DEF Entry
  <2>7. ASSUME NEW f \in frames' PROVE f < p + 1 \/ f \in reserved'
    BY <1>1, <1>5, <1>9, <2>2, <2>3
  <2> QED BY <1>1, <2>1, <2>4, <2>5, <2>6, <2>7 DEF MappedInOrder
<1>16. EntriesHaveTables'
  <2>1. \A q \in Pages : page'[q].Present = 1 => tables'[q \div TablePages] # 0
    BY <1>11
  <2> QED BY <2>1, <1>12, <1>13, <1>14, <1>15, VgaKeepsTables
<1>17. OnlyVgaForUser'
  BY <1>11
<1> QED BY <1>12, <1>13, <1>14, <1>15, <1>16, <1>17 DEF Inv

\* The identity map ends exactly where the heap space begins: its bound moves by
\* whole pages (memorym.cpp:379-384).
LEMMA IdentityMapDoneKeeps == ASSUME Inv, IdentityMapDone PROVE Inv'
<1>1. /\ pc = "identity" /\ pc' = "vga" /\ i' = VgaStart
      /\ i >= placement + Slack
      /\ UNCHANGED <<placement, tables, page, frames, memMap, reserved, heapStart, heapEnd>>
  <2>1. ~(i < placement + Slack) /\ i \in Nat /\ placement \in Nat
    BY DEF IdentityMapDone, IdentityEnd, Inv, TypeOK
  <2>2. i >= placement + Slack
    BY <2>1, Layout
  <2> QED BY <2>2 DEF IdentityMapDone, alloc, firmware, heap
<1>2. i = placement + Slack
  <2>1. i \in Nat /\ placement \in Nat /\ i <= placement + Slack
    BY <1>1 DEF Inv, TypeOK, LoopVariable
  <2> QED BY <1>1, <2>1, Layout
<1>3. TypeOK'
  BY <1>1, Layout DEF Inv, TypeOK
<1>4. Untouched' /\ Consecutive' /\ HeapSpaceChosen' /\ HeapSpaceMapped'
  <2>1. Made' = Made
    BY <1>1 DEF Made
  <2> QED
    BY <1>1, <2>1 DEF Inv, Untouched, Consecutive, Laid, HeapSpaceChosen,
       HeapSpaceMapped, Started
<1>5. LoopVariable'
  BY <1>1, BootAssumption DEF LoopVariable
<1>6. MappedInOrder'
  <2>1. Top' = Top
    BY <1>1, <1>2 DEF Top
  <2> QED BY <1>1, <2>1 DEF Inv, MappedInOrder
<1>7. OnlyVgaForUser'
  BY <1>1 DEF Inv, OnlyVgaForUser
<1>8. EntriesHaveTables'
  <2>1. \A q \in Pages : page'[q].Present = 1 => tables'[q \div TablePages] # 0
    BY <1>1 DEF Inv, EntriesHaveTables
  <2> QED BY <2>1, <1>3, <1>4, <1>5, <1>6, VgaKeepsTables
<1> QED BY <1>3, <1>4, <1>5, <1>6, <1>7, <1>8 DEF Inv

--------------------------------------------------------------------------------
(* The invariant: the VGA window *)

\* The pages of the window are mapped again to the same frames
\* (memorym.cpp:384-387).
LEMMA VgaMapKeeps == ASSUME Inv, VgaMap PROVE Inv'
<1>1. /\ pc = "vga" /\ pc' = pc /\ i < VgaEnd /\ i' = i + PageSize
      /\ page' = [page EXCEPT ![FrameOf(i)] = DMAFramePage(@, 0, 1, i)]
      /\ frames' = SetFrame(frames, i)
      /\ UNCHANGED <<placement, tables, memMap, reserved, heapStart, heapEnd>>
  BY DEF VgaMap, alloc, firmware, heap
<1>2. /\ TypeOK /\ Consecutive /\ LoopVariable /\ MappedInOrder
      /\ OnlyVgaForUser /\ EntriesHaveTables
  BY DEF Inv
<1> DEFINE p == FrameOf(i)
<1>3. /\ p \in Pages /\ p # 0 /\ p \in Nat /\ p < Top /\ i \in Nat /\ i <= HeapLimit
      /\ page[p].Present = 1
  BY <1>1, <1>2, VgaMapped, PagesAreNatural
<1>4. p * PageSize = i /\ i >= VgaStart
  BY <1>1, <1>2, VgaMapped
<1>5. i' \in Nat /\ i' >= VgaStart /\ i' % PageSize = 0
  <2>1. i' \in Nat /\ i' >= i
    BY <1>1, <1>3, Layout
  <2>2. i' % PageSize = 0
    BY <1>1, <1>2, <1>3, FrameFacts DEF LoopVariable
  <2>3. i' >= VgaStart
    BY <1>3, <1>4, <2>1, Layout
  <2> QED BY <2>1, <2>2, <2>3
<1>6. frames' = IF p \in InRam THEN frames \cup {p} ELSE frames
  BY <1>1, <1>2, <1>3, <1>4, MarkOwnFrame
<1> DEFINE e == DMAFramePage(page[p], 0, 1, i)
<1>7. Entry(e, p, 1, 1) /\ page' = [page EXCEPT ![p] = e]
  BY <1>1, <1>2, <1>3, EntryValues DEF TypeOK, Entries
<1> HIDE DEF e
<1>8. /\ page' \in [Pages -> Entries] /\ page'[p] = e
      /\ \A q \in Pages \ {p} : page'[q] = page[q]
      /\ OnlyVgaForUser'
      /\ \A q \in Pages : page'[q].Present = 1 => tables'[q \div TablePages] # 0
  <2>1. tables'[p \div TablePages] # 0
    BY <1>1, <1>2, <1>3 DEF EntriesHaveTables
  <2>2. p * PageSize >= VgaStart /\ p * PageSize < VgaEnd
    BY <1>1, <1>4
  <2>3. \A t \in TableNos : tables[t] # 0 => tables'[t] # 0
    BY <1>1
  <2> QED BY <1>2, <1>3, <1>7, <2>1, <2>2, <2>3, MapPage
<1>9. TypeOK'
  BY <1>1, <1>2, <1>5, <1>6, <1>8 DEF TypeOK, Entries
<1>10. Untouched' /\ Consecutive' /\ HeapSpaceChosen' /\ HeapSpaceMapped'
  <2>1. Made' = Made
    BY <1>1 DEF Made
  <2> QED
    BY <1>1, <1>2, <2>1 DEF Untouched, Consecutive, Laid, HeapSpaceChosen,
       HeapSpaceMapped, Started
<1>11. LoopVariable'
  BY <1>1, <1>5 DEF LoopVariable
<1>12. MappedInOrder'
  <2>1. Top' = Top /\ Top \in Nat
    <3>1. Top = FrameOf(placement + Slack) /\ placement \in Nat
      BY <1>1, <1>2 DEF Top, TypeOK
    <3>2. placement + Slack \in Nat
      BY <3>1, Layout
    <3> QED BY <1>1, <3>1, <3>2, FrameFacts DEF Top
  <2>2. /\ \A q \in Pages : q = 0 \/ q >= Top => page[q] = NoPage
        /\ \A f \in Scanned : f < Top => f \in frames
        /\ \A q \in Pages : 0 < q /\ q < Top => page[q].Present = 1 /\ page[q].Frame = q
        /\ \A f \in frames : f < Top \/ f \in reserved
    BY <1>1, <1>2 DEF MappedInOrder
  <2>3. ASSUME NEW q \in Pages, q = 0 \/ q >= Top PROVE page'[q] = NoPage
    <3>1. q # p
      BY <1>3, <2>1, <2>3, PagesAreNatural
    <3> QED BY <1>8, <2>2, <2>3, <3>1
  <2>4. ASSUME NEW f \in Scanned, f < Top PROVE f \in frames'
    BY <1>6, <2>2, <2>4
  <2>5. ASSUME NEW q \in Pages, 0 < q, q < Top
        PROVE  page'[q].Present = 1 /\ page'[q].Frame = q
    <3>1. CASE q = p
      BY <1>7, <1>8, <3>1 DEF Entry
    <3>2. CASE q # p
      BY <1>8, <2>2, <2>5, <3>2
    <3> QED BY <3>1, <3>2
  <2>6. ASSUME NEW f \in frames' PROVE f < Top \/ f \in reserved'
    <3>1. f \in frames \/ f = p
      BY <1>6
    <3> QED BY <1>1, <1>3, <2>2, <3>1
  <2> QED BY <1>1, <2>1, <2>3, <2>4, <2>5, <2>6 DEF MappedInOrder
<1>13. EntriesHaveTables'
  <2>1. \A q \in Pages : page'[q].Present = 1 => tables'[q \div TablePages] # 0
    BY <1>8
  <2> QED BY <2>1, <1>9, <1>10, <1>11, <1>12, VgaKeepsTables
<1>14. OnlyVgaForUser'
  BY <1>8
<1> QED BY <1>9, <1>10, <1>11, <1>12, <1>13, <1>14 DEF Inv

\* The heap start is moved if it is past the mapped memory, and stays below the
\* end of the heap (memorym.cpp:408-424).
LEMMA VgaMapDoneKeeps == ASSUME Inv, VgaMapDone PROVE Inv'
<1>1. /\ pc = "vga" /\ pc' = "heap" /\ i' = placement + Slack
      /\ heapStart' = ChooseHeapStart(HeapInit)
      /\ UNCHANGED <<placement, tables, page, frames, memMap, reserved, heapEnd>>
  BY DEF VgaMapDone, alloc, firmware
<1>2. TypeOK /\ Consecutive /\ Started /\ MappedInOrder /\ Laid
  BY <1>1 DEF Inv, Started, Consecutive
<1>3. /\ placement \in Nat /\ LowEnd <= placement + Slack
      /\ placement + HeapGap <= HeapLimit /\ placement + Slack \in Nat
      /\ placement + HeapGap \in Nat
  BY <1>2, Bounds, Layout
<1>4. (placement + Slack) % PageSize = 0
  BY <1>2, Bounds
<1>5. /\ heapStart' \in Nat /\ heapStart' <= HeapLimit
      /\ heapStart' # HeapInit => heapStart' = placement + HeapGap
  BY <1>1, <1>3, Layout DEF ChooseHeapStart
<1>6. TypeOK'
  BY <1>1, <1>2, <1>3, <1>5 DEF TypeOK
<1>7. Made' = Made
  BY <1>1 DEF Made
<1>8. Untouched' /\ Consecutive' /\ HeapSpaceMapped'
  BY <1>1, <1>2, <1>7 DEF Untouched, Consecutive, Laid, HeapSpaceMapped, Started
<1>9. HeapSpaceChosen'
  <2>1. PageSize * Cardinality(Made) \in Nat
    BY <1>2, Reach
  <2>2. placement + HeapGap <= placement + HeapGap + PageSize * Cardinality(Made)
    BY <1>3, <2>1
  <2> QED BY <1>1, <1>5, <1>7, <2>2 DEF HeapSpaceChosen
<1>10. LoopVariable'
  BY <1>1, <1>3, <1>4 DEF LoopVariable
<1>11. MappedInOrder'
  <2>1. Top' = Top
    BY <1>1 DEF Top
  <2> QED BY <1>1, <1>2, <2>1 DEF MappedInOrder
<1>12. OnlyVgaForUser' /\ EntriesHaveTables'
  BY <1>1 DEF Inv, OnlyVgaForUser, EntriesHaveTables
<1> QED BY <1>6, <1>8, <1>9, <1>10, <1>11, <1>12 DEF Inv

--------------------------------------------------------------------------------
(* The invariant: the heap space *)

\* Two sums that move together keep their distance.
LEMMA SameDistance ==
  \A a, b, n, m, g, h \in Nat : b + n = a + m /\ a + g <= h + n => b + g <= h + m
OBVIOUS

\* AllocFrame gives the page its own frame if that is one FirstFrame can find
\* and the firmware has not taken it, because everything below is taken
\* (memorym.cpp:218-277, 426-429).
LEMMA HeapSpaceKeeps == ASSUME Inv, HeapSpace PROVE Inv'
<1>1. /\ pc = "heap" /\ pc' = pc /\ i < heapStart /\ GetPage(i) /\ i' = i + PageSize
      /\ page' = [page EXCEPT ![FrameOf(i)] = AllocFramePage(frames, @, 1, 0)]
      /\ frames' = AllocFrameBits(frames, page[FrameOf(i)])
      /\ UNCHANGED <<memMap, reserved, heapStart, heapEnd>>
  BY DEF HeapSpace, firmware, heap
<1>2. /\ TypeOK /\ Laid /\ OnlyVgaForUser /\ EntriesHaveTables /\ MappedInOrder
      /\ i \in Nat /\ i % PageSize = 0 /\ i >= LowEnd /\ Consecutive /\ Started
      /\ heapStart <= HeapLimit /\ heapStart \in Nat
  BY <1>1 DEF Inv, TypeOK, Consecutive, LoopVariable, Started, HeapSpaceChosen
<1>3. i <= HeapLimit /\ i >= PageSize /\ i' \in Nat /\ i' >= LowEnd
  <2>1. i \in Nat /\ heapStart \in Nat /\ i < heapStart /\ heapStart <= HeapLimit
        /\ i >= LowEnd /\ i' = i + PageSize
    BY <1>1, <1>2
  <2> QED BY <2>1, LowMemory, Layout
<1> DEFINE p == FrameOf(i)
<1>4. /\ p \in Pages /\ p # 0 /\ p \in Nat
      /\ FrameOf(i') = p + 1 /\ i' % PageSize = 0
      /\ p \div TablePages = TableOf(i)
  BY <1>1, <1>2, <1>3, PageBounds, PagesAreNatural
<1>5. p * PageSize = i
  BY <1>2, <1>3, PageBounds
<1>6. /\ placement' \in Nat /\ tables' \in [TableNos -> Nat] /\ Laid'
      /\ placement' % PageSize = 0 /\ placement <= placement'
      /\ tables'[TableOf(i)] # 0
      /\ \A t \in TableNos : tables[t] # 0 => tables'[t] # 0
      /\ placement' + PageSize * Cardinality(Made)
           = placement + PageSize * Cardinality(Made')
  BY <1>1, <1>2, <1>3, Bounds, GetPageLaid
<1>7. Top = p /\ Top' = p + 1
  BY <1>1, <1>4 DEF Top
<1>8. /\ \A q \in Pages : q = 0 \/ q >= p => page[q] = NoPage
      /\ \A f \in Scanned : f < p => f \in frames
      /\ RoomAboveKernel =>
           /\ \A q \in Pages : 0 < q /\ q < p => page[q].Present = 1 /\ page[q].Frame = q
           /\ \A f \in frames : f < p \/ f \in reserved
  BY <1>1, <1>2, <1>7 DEF MappedInOrder
<1>9. page[p] = NoPage /\ page[p].Frame = 0 /\ page[p].Present = 0
  <2>1. page[p] = NoPage
    BY <1>4, <1>8
  <2> QED BY <2>1 DEF NoPage
<1> DEFINE first == FirstFrame(frames)
           e == AllocFramePage(frames, page[p], 1, 0)
<1>10. first \in InRam /\ first \in Nat
  BY FirstFrameInRam, ScannedInRam
<1>11. frames' = frames \cup {first}
  BY <1>1, <1>9, AllocFrameBitsValue
<1>12. Entry(e, first, 0, 0) /\ page' = [page EXCEPT ![p] = e]
  <2>1. AllocatedFrame(frames, page[p]) = first
    BY <1>9 DEF AllocatedFrame
  <2> QED BY <1>1, <1>2, <1>4, <2>1, EntryValues DEF TypeOK, Entries
<1>13. p \in Scanned \ frames => first = p
  BY <1>8, FirstFrameInOrder
<1> HIDE DEF e, first
<1>14. /\ page' \in [Pages -> Entries] /\ page'[p] = e
       /\ \A q \in Pages \ {p} : page'[q] = page[q]
       /\ OnlyVgaForUser'
       /\ \A q \in Pages : page'[q].Present = 1 => tables'[q \div TablePages] # 0
  BY <1>2, <1>4, <1>6, <1>12, MapPage
<1>15. TypeOK'
  BY <1>1, <1>2, <1>3, <1>6, <1>10, <1>11, <1>14 DEF TypeOK, Entries
<1>16. Untouched' /\ Consecutive' /\ HeapSpaceMapped'
  BY <1>1, <1>6 DEF Untouched, Consecutive, HeapSpaceMapped, Started
<1>17. HeapSpaceChosen'
  <2>1. PageSize * Cardinality(Made) \in Nat /\ PageSize * Cardinality(Made') \in Nat
    <3>1. Laid' /\ TypeOK'
      BY <1>6, <1>15
    <3> QED BY <1>2, <3>1, Reach, ReachNext
  <2>2. /\ placement \in Nat /\ placement' \in Nat /\ heapStart \in Nat
        /\ HeapGap \in Nat
    BY <1>2, <1>6, Layout DEF TypeOK
  <2>3. heapStart # HeapInit =>
          placement + HeapGap <= heapStart + PageSize * Cardinality(Made)
    BY <1>1 DEF Inv, HeapSpaceChosen
  <2>4. heapStart # HeapInit =>
          placement' + HeapGap <= heapStart + PageSize * Cardinality(Made')
    BY <1>6, <2>1, <2>2, <2>3, SameDistance
  <2> QED BY <1>1, <1>2, <2>4 DEF HeapSpaceChosen
<1>18. LoopVariable'
  BY <1>1, <1>3, <1>4 DEF LoopVariable
<1>19. RoomAboveKernel' => RoomAboveKernel /\ p \in Scanned \ reserved
  <2>1. HeapSpacePages \cup {p} \subseteq HeapSpacePages'
    <3>1. p \in HeapSpacePages'
      BY <1>1, <1>2, <1>4, <1>5, <1>12, <1>14 DEF HeapSpacePages, Entry
    <3>2. ASSUME NEW q \in HeapSpacePages PROVE q \in HeapSpacePages'
      <4>1. q \in Pages \ {p}
        BY <1>9 DEF HeapSpacePages
      <4> QED BY <1>1, <1>14, <4>1 DEF HeapSpacePages
    <3> QED BY <3>1, <3>2
  <2> QED BY <1>1, <2>1 DEF RoomAboveKernel
<1>20. MappedInOrder'
  <2>1. Scanned \subseteq Nat /\ frames \subseteq Nat
    BY <1>2, ScannedInRam DEF TypeOK
  <2>2. ASSUME NEW q \in Pages, q = 0 \/ q >= p + 1 PROVE page'[q] = NoPage
    <3>1. q # p /\ (q = 0 \/ q >= p)
      BY <1>4, <2>2, PagesAreNatural
    <3> QED BY <1>8, <1>14, <3>1
  <2>3. ASSUME NEW f \in Scanned, f < p + 1 PROVE f \in frames'
    <3>1. f < p \/ f = p
      BY <1>4, <2>1, <2>3
    <3> QED BY <1>8, <1>11, <1>13, <3>1
  <2>4. ASSUME RoomAboveKernel' PROVE first = p
    BY <1>4, <1>8, <1>13, <1>19, <2>4
  <2>5. ASSUME RoomAboveKernel', NEW q \in Pages, 0 < q, q < p + 1
        PROVE  page'[q].Present = 1 /\ page'[q].Frame = q
    <3>1. q = p \/ (q # p /\ q < p)
      BY <1>4, <2>5, PagesAreNatural
    <3>2. CASE q = p
      BY <1>12, <1>14, <2>4, <2>5, <3>2 DEF Entry
    <3>3. CASE q # p /\ q < p
      BY <1>8, <1>14, <1>19, <2>5, <3>3
    <3> QED BY <3>1, <3>2, <3>3
  <2>6. ASSUME RoomAboveKernel', NEW f \in frames' PROVE f < p + 1 \/ f \in reserved'
    <3>1. f = p \/ (f \in frames /\ (f < p \/ f \in reserved))
      BY <1>8, <1>11, <1>19, <2>4, <2>6
    <3>2. reserved' = reserved /\ p < p + 1 /\ \A n \in Nat : n < p => n < p + 1
      BY <1>1, <1>4
    <3> QED BY <2>1, <3>1, <3>2
  <2> QED BY <1>1, <1>7, <2>2, <2>3, <2>5, <2>6 DEF MappedInOrder
<1>21. EntriesHaveTables'
  <2>1. \A q \in Pages : page'[q].Present = 1 => tables'[q \div TablePages] # 0
    BY <1>14
  <2> QED BY <2>1, <1>15, <1>16, <1>18, <1>20, VgaKeepsTables
<1>22. OnlyVgaForUser'
  BY <1>14
<1> QED BY <1>15, <1>16, <1>17, <1>18, <1>20, <1>21, <1>22 DEF Inv

\* Every page below the heap start is mapped when the loop ends
\* (memorym.cpp:426-429).
LEMMA HeapSpaceDoneKeeps == ASSUME Inv, HeapSpaceDone PROVE Inv'
<1>1. /\ pc = "heap" /\ pc' = "prealloc" /\ ~(i < heapStart) /\ i' = heapStart
      /\ UNCHANGED <<placement, tables, page, frames, memMap, reserved, heapStart, heapEnd>>
  BY DEF HeapSpaceDone, alloc, firmware, heap
<1>2. TypeOK /\ i \in Nat /\ heapStart \in Nat
  BY DEF Inv, TypeOK
<1>3. TypeOK'
  BY <1>1, <1>2 DEF TypeOK
<1>4. Made' = Made
  BY <1>1 DEF Made
<1>5. Untouched' /\ Consecutive' /\ LoopVariable' /\ MappedInOrder' /\ HeapSpaceChosen'
  BY <1>1, <1>4 DEF Inv, Untouched, Consecutive, Laid, LoopVariable, MappedInOrder,
     HeapSpaceChosen, Started
<1>6. HeapSpaceMapped'
  <2>1. Top = FrameOf(i) /\ FrameOf(i) \in Nat /\ FrameOf(heapStart) \in Nat
    BY <1>1, <1>2, FrameFacts DEF Top
  <2>2. FrameOf(heapStart) <= Top
    BY <1>1, <1>2, <2>1, FrameMonotone
  <2>3. RoomAboveKernel' = RoomAboveKernel
    BY <1>1 DEF RoomAboveKernel, HeapSpacePages
  <2>4. /\ \A f \in Scanned : f < Top => f \in frames
        /\ RoomAboveKernel =>
             \A p \in Pages : 0 < p /\ p < Top => page[p].Present = 1 /\ page[p].Frame = p
    BY <1>1 DEF Inv, MappedInOrder
  <2>5. \A n \in Nat : n < FrameOf(heapStart) => n < Top
    BY <2>1, <2>2
  <2> QED BY <1>1, <2>3, <2>4, <2>5, ScannedInRam, PagesAreNatural DEF HeapSpaceMapped
<1>7. OnlyVgaForUser' /\ EntriesHaveTables'
  BY <1>1 DEF Inv, OnlyVgaForUser, EntriesHaveTables
<1> QED BY <1>3, <1>5, <1>6, <1>7 DEF Inv

\* The tables of the rest of the heap are made, and nothing is mapped
\* (memorym.cpp:431-435).
LEMMA PreallocateKeeps == ASSUME Inv, Preallocate PROVE Inv'
<1>1. /\ pc = "prealloc" /\ pc' = pc /\ i <= HeapLimit /\ GetPage(i) /\ i' = i + PageSize
      /\ UNCHANGED <<page, frames, memMap, reserved, heapStart, heapEnd>>
  BY DEF Preallocate, firmware, heap
<1>2. /\ TypeOK /\ Laid /\ i \in Nat /\ Consecutive /\ Started /\ heapStart \in Nat
  BY <1>1 DEF Inv, TypeOK, Consecutive, Started
<1>3. i' \in Nat
  BY <1>1, <1>2, Layout
<1>4. /\ placement' \in Nat /\ tables' \in [TableNos -> Nat] /\ Laid'
      /\ placement' % PageSize = 0
      /\ \A t \in TableNos : tables[t] # 0 => tables'[t] # 0
      /\ placement' + PageSize * Cardinality(Made)
           = placement + PageSize * Cardinality(Made')
  BY <1>1, <1>2, Bounds, GetPageLaid
<1>5. TypeOK'
  BY <1>1, <1>2, <1>3, <1>4 DEF TypeOK
<1>6. Untouched' /\ Consecutive' /\ LoopVariable' /\ MappedInOrder'
  BY <1>1, <1>4 DEF Untouched, Consecutive, LoopVariable, MappedInOrder, Started
<1>7. HeapSpaceChosen'
  <2>1. PageSize * Cardinality(Made) \in Nat /\ PageSize * Cardinality(Made') \in Nat
    BY <1>2, <1>4, <1>5, Reach, ReachNext
  <2>2. /\ placement \in Nat /\ placement' \in Nat /\ heapStart \in Nat
        /\ HeapGap \in Nat
    BY <1>2, <1>4, Layout DEF TypeOK
  <2>3. /\ heapStart <= HeapLimit
        /\ heapStart # HeapInit =>
             placement + HeapGap <= heapStart + PageSize * Cardinality(Made)
    BY <1>1 DEF Inv, HeapSpaceChosen
  <2>4. heapStart # HeapInit =>
          placement' + HeapGap <= heapStart + PageSize * Cardinality(Made')
    BY <1>4, <2>1, <2>2, <2>3, SameDistance
  <2> QED BY <1>1, <2>3, <2>4 DEF HeapSpaceChosen
<1>8. HeapSpaceMapped'
  <2>1. RoomAboveKernel' = RoomAboveKernel
    BY <1>1 DEF RoomAboveKernel, HeapSpacePages
  <2> QED BY <1>1, <2>1 DEF Inv, HeapSpaceMapped
<1>9. OnlyVgaForUser'
  BY <1>1 DEF Inv, OnlyVgaForUser
<1>10. EntriesHaveTables'
  BY <1>1, <1>4, TableOfPage DEF Inv, EntriesHaveTables
<1> QED BY <1>5, <1>6, <1>7, <1>8, <1>9, <1>10 DEF Inv

\* Switching the directory and halting change neither tables nor entries
\* (memorym.cpp:451-453).
LEMMA PagedKeeps == ASSUME Inv, SwitchPageDirectory \/ Halt \/ UNCHANGED vars PROVE Inv'
<1>1. CASE Halt \/ UNCHANGED vars
  <2>1. UNCHANGED vars
    BY <1>1 DEF Halt
  <2>2. UNCHANGED <<pc, i, placement, tables, page, frames, memMap, reserved,
                    heapStart, heapEnd>>
    BY <2>1 DEF vars
  <2>3. Made' = Made /\ Top' = Top /\ RoomAboveKernel' = RoomAboveKernel
    BY <2>2 DEF Made, Top, RoomAboveKernel, HeapSpacePages
  <2>4. TypeOK' /\ Untouched' /\ OnlyVgaForUser' /\ EntriesHaveTables'
    BY <2>2 DEF Inv, TypeOK, Untouched, OnlyVgaForUser, EntriesHaveTables, Started
  <2>5. Consecutive' /\ LoopVariable' /\ MappedInOrder' /\ HeapSpaceChosen' /\ HeapSpaceMapped'
    BY <2>2, <2>3 DEF Inv, Consecutive, Laid, LoopVariable, MappedInOrder,
       HeapSpaceChosen, HeapSpaceMapped, Started
  <2> QED BY <2>4, <2>5 DEF Inv
<1>2. CASE SwitchPageDirectory
  <2>1. /\ pc = "prealloc" /\ pc' = "paged"
        /\ heapEnd' = (placement + PageSize) - ((placement + PageSize) % PageSize)
        /\ UNCHANGED <<i, placement, tables, page, frames, memMap, reserved, heapStart>>
    BY <1>2 DEF SwitchPageDirectory, alloc, firmware
  <2>2. Made' = Made /\ RoomAboveKernel' = RoomAboveKernel
    BY <2>1 DEF Made, RoomAboveKernel, HeapSpacePages
  <2>3. heapEnd' \in Nat
    <3>1. /\ (placement + PageSize) % PageSize = 0 /\ placement + PageSize \in Nat
      BY <2>1, Bounds, FrameFacts DEF Inv, Started
    <3> QED BY <2>1, <3>1
  <2>4. TypeOK'
    BY <2>1, <2>3 DEF Inv, TypeOK
  <2>5. Untouched' /\ Consecutive' /\ LoopVariable' /\ MappedInOrder' /\ HeapSpaceChosen'
        /\ HeapSpaceMapped'
    BY <2>1, <2>2 DEF Inv, Untouched, Consecutive, Laid, LoopVariable, MappedInOrder,
       HeapSpaceChosen, HeapSpaceMapped, Started
  <2>6. OnlyVgaForUser' /\ EntriesHaveTables'
    BY <2>1 DEF Inv, OnlyVgaForUser, EntriesHaveTables
  <2> QED BY <2>4, <2>5, <2>6 DEF Inv
<1> QED BY <1>1, <1>2

--------------------------------------------------------------------------------
(* Theorems *)

\* Every step of kernelMain keeps the invariant.
LEMMA InvNext == Inv /\ [Next]_vars => Inv'
BY InitializePagingKeeps, MarkPagingSystemKeeps, TakePageZeroKeeps,
   IdentityMapKeeps, IdentityMapDoneKeeps, VgaMapKeeps, VgaMapDoneKeeps,
   HeapSpaceKeeps, HeapSpaceDoneKeeps, PreallocateKeeps, PagedKeeps DEF Next

\* kernelMain keeps the invariant, whatever the machine (kernel.cpp:119-278,
\* memorym.cpp:327-453).
THEOREM Invariant == Spec => []Inv
<1>1. Init => Inv
  BY InvInit
<1>2. Inv /\ [Next]_vars => Inv'
  BY InvNext
<1> QED BY <1>1, <1>2, PTL DEF Spec

\* The program counter is where kernelMain can be, addresses are natural numbers
\* and every page entry is well formed, whatever the machine.
THEOREM TypeCorrect == Spec => []TypeOK
<1>1. Inv => TypeOK
  BY DEF Inv
<1> QED BY <1>1, Invariant, PTL

\* No page but the VGA window's is writable or a user's (memorym.cpp:363-387).
THEOREM OnlyVga == Spec => []OnlyVgaForUser
<1>1. Inv => OnlyVgaForUser
  BY DEF Inv
<1> QED BY <1>1, Invariant, PTL

\* GetPage(i, 0, ...) never returns a null page (memorym.cpp:384-387, 1014-1033).
THEOREM NoNullPage == Spec => []EntriesHaveTables
<1>1. Inv => EntriesHaveTables
  BY DEF Inv
<1> QED BY <1>1, Invariant, PTL

\* Once the heap start has been moved, every table lies below it: the gap is wider
\* than all the tables that can be made (memorym.cpp:415).
LEMMA BelowHeapStart ==
  ASSUME Inv, pc = "paged", heapStart # HeapInit
  PROVE  /\ placement \in Nat /\ heapStart \in Nat
         /\ placement <= heapStart /\ heapStart <= HeapLimit
         /\ PageSize <= heapStart
<1>1. TypeOK /\ Laid /\ Started /\ HeapSpaceChosen
  BY DEF Inv, Consecutive, Started
<1>2. /\ placement \in Nat /\ heapStart \in Nat /\ placement >= LowEnd
      /\ heapStart <= HeapLimit
      /\ placement + HeapGap <= heapStart + PageSize * Cardinality(Made)
  BY <1>1 DEF TypeOK, HeapSpaceChosen, Laid
<1> DEFINE n == PageSize * Cardinality(Made)
           m == (TableOf(HeapLimit) + 1) * PageSize
<1>3. n \in Nat /\ n <= m
  BY <1>1, Reach
<1>4. m \in Nat
  <2>1. ASSUME NEW k \in Nat, NEW d \in Nat PROVE (k + 1) * d \in Nat
    BY SMT
  <2>2. TableOf(HeapLimit) \in Nat
    BY BootAssumption, FrameFacts, DivFacts DEF TableOf
  <2> QED BY <2>1, <2>2, FrameAssumption
<1>5. m <= HeapGap
  <2>1. HeapGap >= Slack + m
    BY BootAssumption
  <2> HIDE DEF m
  <2> QED BY <1>4, <2>1, Layout
<1>6. placement + HeapGap <= heapStart + n
  BY <1>2
<1> HIDE DEF n, m
<1>7. placement <= heapStart
  BY <1>2, <1>3, <1>4, <1>5, <1>6, Layout
<1>8. PageSize <= heapStart
  <2>1. placement \in Nat /\ placement >= LowEnd /\ heapStart \in Nat
    BY <1>2
  <2> QED BY <2>1, <1>7, LowMemory, Layout
<1> QED BY <1>2, <1>7, <1>8

\* The page tables do not overlap, and none lies in a frame that AllocFrame could
\* still hand out (memorym.cpp:425-435, 1024-1028).
THEOREM TablesKeptApart == Spec => []TablesApart
<1>1. Inv => TablesApart
  <2> SUFFICES ASSUME Inv PROVE TablesApart
    OBVIOUS
  <2>1. ASSUME NEW t \in TableNos, NEW u \in TableNos, tables[t] # 0
        PROVE  tables[t] % PageSize = 0 /\ (t # u => tables[t] # tables[u])
    <3>1. t \in Made
      BY <2>1 DEF Made
    <3>2. pc \notin {"start", "panic"}
      BY <2>1 DEF Inv, Untouched, Started
    <3>3. Laid
      BY <3>2 DEF Inv, Consecutive
    <3> QED BY <3>1, <3>3 DEF Laid
  <2>2. ASSUME pc = "paged", heapStart # HeapInit, NEW t \in TableNos,
               FrameOf(tables[t]) \in Scanned
        PROVE  FrameOf(tables[t]) \in frames
    <3>1. /\ placement \in Nat /\ heapStart \in Nat /\ placement <= heapStart
          /\ PageSize <= heapStart
      BY <2>2, BelowHeapStart
    <3>2. Laid /\ tables[t] \in Nat
      BY <2>2 DEF Inv, Consecutive, TypeOK
    <3>3. tables[t] + PageSize <= heapStart
      <4>1. CASE tables[t] = 0
        BY <3>1, <4>1, Layout
      <4>2. CASE tables[t] # 0
        <5>1. tables[t] + PageSize <= placement
          BY <3>2, <4>2 DEF Laid, Made
        <5> QED BY <3>1, <3>2, <5>1, Layout
      <4> QED BY <4>1, <4>2
    <3>4. FrameOf(tables[t]) + 1 <= FrameOf(heapStart)
      BY <3>1, <3>2, <3>3, FrameBelow
    <3>5. FrameOf(tables[t]) < FrameOf(heapStart)
      BY <3>1, <3>2, <3>4, FrameFacts
    <3> QED BY <2>2, <3>5 DEF Inv, HeapSpaceMapped
  <2> QED BY <2>1, <2>2 DEF TablesApart
<1> QED BY <1>1, Invariant, PTL

\* When paging is switched on, what the placement allocator has used is mapped to
\* itself, if the heap space had the frames below it to itself
\* (memorym.cpp:389-442).
THEOREM UsedMemoryKept == Spec => []UsedMemoryMappedIfRoom
<1>1. Inv => UsedMemoryMappedIfRoom
  <2> SUFFICES ASSUME Inv, pc = "paged", RoomAboveKernel,
                      NEW p \in 1 .. FrameOf(placement - 1)
               PROVE  MappedToItself(p)
    BY DEF UsedMemoryMappedIfRoom
  <2>1. heapStart # HeapInit
    BY DEF RoomAboveKernel
  <2>2. /\ placement \in Nat /\ heapStart \in Nat /\ placement <= heapStart
        /\ heapStart <= HeapLimit
    BY <2>1, BelowHeapStart
  <2>3. placement % PageSize = 0 /\ placement > 0
    BY Bounds DEF Inv, Started
  <2>4. FrameOf(placement - 1) \in Nat /\ FrameOf(placement - 1) < FrameOf(placement)
    <3>1. placement - 1 \in Nat /\ placement - 1 < placement
      BY <2>2, <2>3
    <3>2. /\ FrameOf(placement - 1) \in Nat /\ FrameOf(placement) \in Nat
          /\ FrameOf(placement - 1) * PageSize <= placement - 1
          /\ FrameOf(placement) * PageSize = placement
      BY <2>2, <2>3, <3>1, FrameFacts
    <3>3. FrameOf(placement - 1) * PageSize < FrameOf(placement) * PageSize
      BY <2>2, <3>2, FrameAssumption
    <3> QED BY <3>2, <3>3, MulLess, FrameAssumption
  <2>5. /\ FrameOf(placement) <= FrameOf(heapStart)
        /\ FrameOf(heapStart) <= FrameOf(HeapLimit)
        /\ FrameOf(placement) \in Nat /\ FrameOf(heapStart) \in Nat
        /\ FrameOf(HeapLimit) \in Nat
    BY <2>2, FrameMonotone, FrameFacts, Layout
  <2>6. 0 < p /\ p < FrameOf(heapStart) /\ p \in Pages
    BY <2>4, <2>5 DEF Pages, MaxPage
  <2>7. page[p].Present = 1 /\ page[p].Frame = p
    BY <2>1, <2>6 DEF Inv, HeapSpaceMapped
  <2> QED BY <2>6, <2>7 DEF MappedToItself, Inv, EntriesHaveTables
<1> QED BY <1>1, Invariant, PTL

--------------------------------------------------------------------------------
(* The refinement of Frames *)

\* How far the boot has come, as Frames counts it.
LEMMA Phases ==
  TypeOK =>
    /\ pc \in {"start", "panic", "marking"} <=> FramesPhase = "marking"
    /\ pc \in {"identity", "vga"} <=> FramesPhase = "identity"
    /\ pc \in {"heap", "prealloc", "paged"} <=> FramesPhase = "running"
BY DEF TypeOK, FramesPhase

\* The same of the next state.
LEMMA PhasesNext ==
  TypeOK' =>
    (/\ pc \in {"start", "panic", "marking"} <=> FramesPhase = "marking"
     /\ pc \in {"identity", "vga"} <=> FramesPhase = "identity"
     /\ pc \in {"heap", "prealloc", "paged"} <=> FramesPhase = "running")'
BY Phases, PTL

\* The identity maps map a page to its own address, with one of two modes
\* (memorym.cpp:363-387).
LEMMA MapIsStep ==
  ASSUME NEW m \in {<<1, 0>>, <<0, 1>>},
         FramesPhase = "identity", FramesPhase' = "identity",
         FrameOf(i) \in Pages, FrameOf(i) # 0, FrameOf(i) * PageSize = i,
         page' = [page EXCEPT ![FrameOf(i)] = DMAFramePage(@, m[1], m[2], i)],
         frames' = SetFrame(frames, i), reserved' = reserved
  PROVE  Allocator!Next
<1>1. Allocator!DMAFrame(FrameOf(i), m[1], m[2])
  BY DEF Allocator!DMAFrame, DMAFramePage, Allocator!DMAFramePage, SetFrame,
     Allocator!SetFrame, AsBit, Allocator!AsBit, FrameOf, Allocator!FrameOf
<1> QED BY <1>1 DEF Allocator!Next

\* Every call to the frame allocator is one of its steps (kernel.cpp:173-194,
\* memorym.cpp:355-435).
LEMMA CallsAreSteps ==
  ASSUME Inv, Inv', [Next]_vars
  PROVE  [Allocator!Next]_(Allocator!vars)
<1>1. TypeOK /\ TypeOK' /\ Consecutive /\ LoopVariable /\ MappedInOrder
  BY DEF Inv
<1>2. CASE \/ InitializePaging \/ NoRamInformation \/ IdentityMapDone \/ HeapSpaceDone
           \/ Preallocate \/ SwitchPageDirectory \/ Halt \/ UNCHANGED vars
  <2>1. UNCHANGED <<page, frames, reserved>>
    BY <1>2 DEF InitializePaging, NoRamInformation, IdentityMapDone, HeapSpaceDone,
       Preallocate, SwitchPageDirectory, Halt, vars, firmware
  <2>2. \/ pc \in {"start", "panic", "marking"} /\ pc' \in {"start", "panic", "marking"}
        \/ pc \in {"identity", "vga"} /\ pc' \in {"identity", "vga"}
        \/ pc \in {"heap", "prealloc", "paged"} /\ pc' \in {"heap", "prealloc", "paged"}
    BY <1>1, <1>2 DEF TypeOK, InitializePaging, NoRamInformation, IdentityMapDone,
       HeapSpaceDone, Preallocate, SwitchPageDirectory, Halt, vars
  <2>3. FramesPhase' = FramesPhase
    BY <1>1, <2>2, Phases, PhasesNext
  <2> QED BY <2>1, <2>3 DEF Allocator!vars
<1>3. CASE \E addr \in Reserved : MarkPagingSystem(addr)
  <2>1. PICK addr \in Reserved : MarkPagingSystem(addr)
    BY <1>3
  <2>2. FramesPhase = "marking" /\ FramesPhase' = "marking"
    BY <1>1, <2>1, Phases, PhasesNext DEF MarkPagingSystem
  <2>3. Allocator!MarkPagingSystem(addr)
    BY <2>1, <2>2 DEF MarkPagingSystem, Allocator!MarkPagingSystem, SetFrame,
       Allocator!SetFrame, FrameOf, Allocator!FrameOf
  <2> QED BY <2>3 DEF Allocator!Next
<1>4. CASE TakePageZero
  <2>1. FramesPhase = "marking" /\ FramesPhase' = "identity"
    BY <1>1, <1>4, Phases, PhasesNext DEF TakePageZero
  <2>2. /\ page' = [page EXCEPT ![0].Present = 0] /\ frames' = SetFrame(frames, 0)
        /\ reserved' = reserved
    BY <1>4 DEF TakePageZero, firmware
  <2>3. page' = [p \in Pages |->
                   IF p = 0 THEN [page[p] EXCEPT !.Present = 0] ELSE page[p]]
    BY <1>1, <2>2 DEF TypeOK
  <2>4. Allocator!TakePageZero
    BY <2>1, <2>2, <2>3 DEF Allocator!TakePageZero, SetFrame, Allocator!SetFrame,
       FrameOf, Allocator!FrameOf
  <2> QED BY <2>4 DEF Allocator!Next
<1>5. CASE IdentityMap
  <2>1. /\ pc = "identity" /\ pc' = pc
        /\ page' = [page EXCEPT ![FrameOf(i)] = DMAFramePage(@, 1, 0, i)]
        /\ frames' = SetFrame(frames, i) /\ reserved' = reserved
    BY <1>5 DEF IdentityMap, IdentityEnd, firmware
  <2>2. FramesPhase = "identity" /\ FramesPhase' = "identity"
    BY <1>1, <2>1, Phases, PhasesNext
  <2>3. i < LowEnd \/ i < placement + Slack
    BY <1>5 DEF IdentityMap, IdentityEnd
  <2>4. FrameOf(i) \in Pages /\ FrameOf(i) # 0 /\ FrameOf(i) * PageSize = i
    BY <1>1, <2>1, <2>3, IdentityMapped
  <2>5. <<1, 0>>[1] = 1 /\ <<1, 0>>[2] = 0
    OBVIOUS
  <2> QED BY <2>1, <2>2, <2>4, <2>5, MapIsStep
<1>6. CASE VgaMap
  <2>1. /\ pc = "vga" /\ pc' = pc /\ i < VgaEnd
        /\ page' = [page EXCEPT ![FrameOf(i)] = DMAFramePage(@, 0, 1, i)]
        /\ frames' = SetFrame(frames, i) /\ reserved' = reserved
    BY <1>6 DEF VgaMap, firmware
  <2>2. FramesPhase = "identity" /\ FramesPhase' = "identity"
    BY <1>1, <2>1, Phases, PhasesNext
  <2>3. FrameOf(i) \in Pages /\ FrameOf(i) # 0 /\ FrameOf(i) * PageSize = i
    BY <1>1, <2>1, VgaMapped
  <2>4. <<0, 1>>[1] = 0 /\ <<0, 1>>[2] = 1
    OBVIOUS
  <2> QED BY <2>1, <2>2, <2>3, <2>4, MapIsStep
<1>7. CASE VgaMapDone
  <2>1. FramesPhase = "identity" /\ FramesPhase' = "running"
    BY <1>1, <1>7, Phases, PhasesNext DEF VgaMapDone
  <2>2. Allocator!StartHeap
    BY <1>7, <2>1 DEF VgaMapDone, firmware, Allocator!StartHeap
  <2> QED BY <2>2 DEF Allocator!Next
<1>8. CASE HeapSpace
  <2>1. /\ pc = "heap" /\ pc' = pc /\ i < heapStart
        /\ page' = [page EXCEPT ![FrameOf(i)] = AllocFramePage(frames, @, 1, 0)]
        /\ frames' = AllocFrameBits(frames, page[FrameOf(i)])
        /\ reserved' = reserved
    BY <1>8 DEF HeapSpace, firmware
  <2>2. FramesPhase = "running" /\ FramesPhase' = "running"
    BY <1>1, <2>1, Phases, PhasesNext
  <2>3. FrameOf(i) \in Pages
    <3>1. heapStart <= HeapLimit /\ i \in Nat /\ heapStart \in Nat
      BY <2>1 DEF Inv, HeapSpaceChosen, TypeOK
    <3>2. i <= HeapLimit
      BY <2>1, <3>1, Layout
    <3>3. i % PageSize = 0 /\ i >= LowEnd
      BY <1>1, <2>1 DEF LoopVariable
    <3>4. i >= PageSize
      BY <3>1, <3>3, LowMemory, Layout
    <3> QED BY <3>1, <3>2, <3>3, <3>4, PageBounds
  <2>4. Allocator!AllocFrame(FrameOf(i), 1, 0)
    BY <2>1, <2>2 DEF Allocator!AllocFrame, AllocFramePage, Allocator!AllocFramePage,
       AllocFrameBits, Allocator!AllocFrameBits, AllocatedFrame,
       Allocator!AllocatedFrame, FirstFrame, Allocator!FirstFrame, Scanned,
       Allocator!Scanned, FallOff, Allocator!FallOff, Least, Allocator!Least,
       IndexFromBit, Allocator!IndexFromBit, AsBit, Allocator!AsBit,
       SetFrame, Allocator!SetFrame, FrameOf, Allocator!FrameOf
  <2>5. <<1, 0>>[1] = 1 /\ <<1, 0>>[2] = 0
    OBVIOUS
  <2> QED BY <2>3, <2>4, <2>5 DEF Allocator!Next
<1> QED BY <1>2, <1>3, <1>4, <1>5, <1>6, <1>7, <1>8 DEF Next

\* kernelMain uses the frame allocator only in the ways Frames describes, in the
\* order Frames allows (kernel.cpp:173-194, memorym.cpp:355-435).
THEOREM Implements == Spec => ImplementsFrames
<1>1. Init => Allocator!Init
  BY DEF Init, Allocator!Init, FramesPhase, NoPage, Allocator!NoPage
<1>2. Inv /\ Inv' /\ [Next]_vars => [Allocator!Next]_(Allocator!vars)
  BY CallsAreSteps
<1> QED BY <1>1, <1>2, Invariant, PTL DEF Spec, ImplementsFrames, Allocator!Spec

--------------------------------------------------------------------------------
(* What the bytes of a segment descriptor give back, for every base and limit *)

\* The field of a limit fits in twenty bits, and its pages hold no more than
\* the limit and less than a page less (gdt.cpp:69-91).
LEMMA FieldRoundsDown ==
  ASSUME NEW limit, IsWord(limit)
  PROVE  /\ Field(limit) \in Nat /\ Field(limit) <= 1048575
         /\ limit <= 65536 => Field(limit) = limit
         /\ limit > 65536 => /\ Field(limit) * 4096 + 4095 <= limit
                             /\ Field(limit) * 4096 + 4095 > limit - 4096
BY SMT DEF Field, IsWord

\* Three bytes hold a number of twenty bits (gdt.cpp:94-96, 139-142).
LEMMA TwentyBits ==
  ASSUME NEW n \in Nat, n <= 1048575
  PROVE  /\ Byte0(n) \in Nat /\ Byte1(n) \in Nat
         /\ (Byte2(n) % 16) \in Nat /\ (Byte2(n) % 16) <= 15
         /\ ((Byte2(n) % 16) * 256 + Byte1(n)) * 256 + Byte0(n) = n
BY SMT DEF Byte0, Byte1, Byte2

\* Four bytes hold a word (gdt.cpp:98-102, 126-130).
LEMMA ThirtyTwoBits ==
  ASSUME NEW n, IsWord(n)
  PROVE  ((Byte3(n) * 256 + Byte2(n)) * 256 + Byte1(n)) * 256 + Byte0(n) = n
BY SMT DEF Byte0, Byte1, Byte2, Byte3, IsWord

\* A descriptor never reaches beyond the limit it is asked for and loses less
\* than a page of it, although a large limit is rounded and its highest bits
\* share a byte with the flags (gdt.cpp:69-96, 135-149).
THEOREM LimitsRoundDown ==
  ASSUME NEW base, NEW type, NEW limit, IsWord(limit)
  PROVE  LET target == SegmentDescriptor(base, limit, type) IN
         /\ Limit(target) <= limit
         /\ Limit(target) > limit - 4096
         /\ limit <= 65536 => Limit(target) = limit
<1> DEFINE target == SegmentDescriptor(base, limit, type)
           field == Field(limit)
           high == Byte2(field) % 16
<1>1. field \in Nat /\ field <= 1048575
  BY FieldRoundsDown
<1>2. /\ target.t0 = Byte0(field) /\ target.t1 = Byte1(field)
      /\ target.t6 = Flags(limit) + high
  BY DEF SegmentDescriptor
<1>3. /\ high \in Nat /\ high <= 15
      /\ Byte0(field) \in Nat /\ Byte1(field) \in Nat
      /\ (high * 256 + Byte1(field)) * 256 + Byte0(field) = field
  BY <1>1, TwentyBits
<1>4. (target.t6 % 16) = high /\ (target.t6 >= 192 <=> limit > 65536)
  <2> HIDE DEF target, field, high
  <2> QED BY SMT, <1>2, <1>3 DEF Flags, IsWord
<1>5. Limit(target) = IF limit > 65536 THEN field * 4096 + 4095 ELSE field
  <2> HIDE DEF target, field, high
  <2> QED BY SMT, <1>2, <1>3, <1>4 DEF Limit, IsWord
<1> HIDE DEF target, field, high
<1> QED
  BY SMT, <1>5, FieldRoundsDown DEF IsWord, target, field

\* A descriptor keeps its base, whose bytes lie apart (gdt.cpp:98-102, 122-133).
THEOREM BaseKept ==
  ASSUME NEW limit, NEW type, NEW base, IsWord(base)
  PROVE  Base(SegmentDescriptor(base, limit, type)) = base
<1> DEFINE target == SegmentDescriptor(base, limit, type)
<1>1. /\ target.t2 = Byte0(base) /\ target.t3 = Byte1(base)
      /\ target.t4 = Byte2(base) /\ target.t7 = Byte3(base)
  BY DEF SegmentDescriptor
<1> HIDE DEF target
<1>2. Base(target) = ((Byte3(base) * 256 + Byte2(base)) * 256 + Byte1(base)) * 256
                     + Byte0(base)
  BY <1>1 DEF Base
<1> QED
  BY <1>2, ThirtyTwoBits DEF target
================================================================================
