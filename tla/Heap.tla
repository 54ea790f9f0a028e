--------------------------------- MODULE Heap ---------------------------------
(***************************************************************************)
(* MemoryManager::alloc and free on one Heap, with ExpandHeap and          *)
(* ContractHeap.  Addresses and sizes are counted in 32-bit words, so a    *)
(* HeapHeader is three words (Magic, isHole, Size) and a HeapFooter two    *)
(* (Magic, Header); `mem` is the heap's memory word by word, and every     *)
(* header and footer is read from it and written to it where the code      *)
(* does, the stale ones included.                                          *)
(***************************************************************************)
EXTENDS FrameBitmap, OrderedArray

CONSTANTS
  Start,      \* heap->StartAddress
  InitialEnd, \* heap->EndAddress when the heap is made
  MaxAddress, \* heap->MaxAddress
  MinSize,    \* HEAP_MIN_SIZE
  AddressMod, \* one more than the largest address: 2^32 bytes
  Requests,   \* the sizes clients ask for
  Aligns,     \* the pageAlign arguments clients give
  ClientsFree, \* whether clients free blocks or only allocate
  GuardPages  \* what Present may be for the page after the heap's last one

Hdr == 3
Ftr == 2
Overhead == Hdr + Ftr
BytesPerWord == 4
Magic == -1           \* HEAP_MAGIC: no size, flag or address of the heap

ASSUME HeapAssumption ==
  /\ {Start, InitialEnd, MaxAddress, MinSize, AddressMod} \subseteq Nat
  /\ Start % PageSize = 0 /\ InitialEnd % PageSize = 0
  /\ Start >= PageSize
  /\ Start + Overhead <= InitialEnd /\ InitialEnd <= MaxAddress /\ MaxAddress < AddressMod
  /\ ClientsFree \in BOOLEAN
  /\ Requests \subseteq Nat \ {0} /\ Aligns \subseteq Bit /\ GuardPages \subseteq Bit

HeapPages == FrameOf(Start) .. FrameOf(MaxAddress)

VARIABLES
  mem,      \* the words from Start to MaxAddress
  index,    \* heap->Index: the addresses of the headers in it
  end,      \* heap->EndAddress
  page,     \* the page entries of the heap
  frames,   \* frames[]
  call,     \* the alloc call in progress, or NoCall
  live,     \* history: what clients hold, as [ptr, size]
  stopped,  \* "" or why the kernel stopped: "panic" or "pageFault"
  dangling  \* history: free has left a footer that points to a header that is gone

paging == <<page, frames>>
vars == <<mem, index, end, page, frames, call, live, stopped, dangling>>

NoCall == [size |-> 0, pageAlign |-> 0]

--------------------------------------------------------------------------------
(* Words of memory *)

Sub(a, b) == (a - b) % AddressMod
Plus(a, b) == (a + b) % AddressMod

\* Outside Start .. MaxAddress lies memory of others: what is there is not a header,
\* and what is written there does not come back to the heap.
Read(m, a) == IF a \in DOMAIN m THEN m[a] ELSE 0
Write(m, a, v) == IF a \in DOMAIN m THEN [m EXCEPT ![a] = v] ELSE m

HasMagic(m, a) == Read(m, a) = Magic

\* A page fault stops the kernel (MemoryManager::HandleInterrupt panics).
Faults(pages, a) == FrameOf(a) \in HeapPages /\ pages[FrameOf(a)].Present = 0

IsHole(m, h) == Read(m, h + 1) = 1
SizeOf(m, h) == Read(m, h + 2)
HeaderOf(m, f) == Read(m, f + 1)

WriteHeader(m, h, isHole, size) ==
  Write(Write(Write(m, h, Magic), h + 1, isHole), h + 2, size)

WriteFooter(m, f, h) == Write(Write(m, f, Magic), f + 1, h)

InsertHole(m, idx, h) ==
  Insert(idx, h, {g \in ToSet(idx) : SizeOf(m, g) < SizeOf(m, h)})

--------------------------------------------------------------------------------
(* ExpandHeap and ContractHeap *)

\* newSize & 0xFFFFF000 != 0 is newSize & 1: only an odd number of bytes is
\* rounded up to a page.
ExpandedSize(newSize) ==
  IF (newSize * BytesPerWord) % 2 # 0
    THEN newSize - (newSize % PageSize) + PageSize
    ELSE newSize

\* The addresses at which ExpandHeap maps a page, and ContractHeap unmaps one.
ExpandSteps(oldSize, newSize) ==
  [n \in 1 .. ((newSize - oldSize + PageSize - 1) \div PageSize) |->
     Start + oldSize + (n - 1) * PageSize]

ContractSteps(oldSize, newSize) ==
  IF newSize >= oldSize - PageSize THEN <<>>
  ELSE [n \in 1 .. ((oldSize - newSize - 1) \div PageSize) |->
          Start + oldSize - n * PageSize]

\* heap->SuperUser and heap->ReadOnly are 0.
MapPage(st, a) ==
  LET p == FrameOf(a) IN
  [page   |-> [st.page EXCEPT ![p] = AllocFramePage(st.frames, @, 0, 1)],
   frames |-> AllocFrameBits(st.frames, st.page[p])]

UnmapPage(st, a) ==
  LET p == FrameOf(a) IN
  [page   |-> [st.page EXCEPT ![p] = FreeFramePage(@)],
   frames |-> FreeFrameBits(st.frames, st.page[p])]

MapPages(steps) == FoldLeft(MapPage, [page |-> page, frames |-> frames], steps)
UnmapPages(steps) == FoldLeft(UnmapPage, [page |-> page, frames |-> frames], steps)

\* newSize & 0x1000 tests one bit, and newSize &= 0x1000 keeps only that bit.
ContractedSize(newSize) ==
  LET atPage == IF (newSize \div PageSize) % 2 = 1 THEN 2 * PageSize ELSE newSize
  IN  IF atPage < MinSize THEN MinSize ELSE atPage

--------------------------------------------------------------------------------
(* alloc *)

\* What FindSmallestHole takes off a hole's size for the alignment.
AlignOffset(h) ==
  IF h + Hdr >= PageSize THEN PageSize - ((h + Hdr) % PageSize) ELSE 0

Signed(n) == IF 2 * n >= AddressMod THEN n - AddressMod ELSE n

\* Searches that do not look at the size, or that miss the last entry.
FindAnyHole(size, pageAlign) == IF index = <<>> THEN 0 ELSE 1
FindHoleButLast(size, pageAlign) ==
  SelectInSeq(index, LAMBDA h : SizeOf(mem, h) >= size /\ h # index[Len(index)])

\* The first header of the index that is large enough; 0 when there is none.
FindSmallestHole(size, pageAlign) ==
  SelectInSeq(index, LAMBDA h :
    IF pageAlign > 0 THEN Signed(SizeOf(mem, h)) - AlignOffset(h) >= size
                     ELSE SizeOf(mem, h) >= size)

\* What alloc leaves once FindSmallestHole gave it entry k of the index.
Allocated(k, size, pageAlign) ==
  LET orig      == index[k]
      origSize  == SizeOf(mem, orig)
      asked     == size + Overhead
      whole     == Sub(origSize, asked) < Overhead
      newSize   == IF whole THEN origSize ELSE asked
      front     == pageAlign = 1 /\ orig >= PageSize
      offset    == orig % PageSize
      pos       == IF front THEN orig + PageSize - offset - Hdr ELSE orig
      frontSize == Sub(PageSize, offset + Hdr)
      m1 == IF front
              THEN WriteFooter(WriteHeader(mem, orig, 1, frontSize), pos - Ftr, orig)
              ELSE mem
      rest == Sub(IF front THEN Sub(origSize, SizeOf(m1, orig)) ELSE origSize,
                  newSize)
      m2 == WriteFooter(WriteHeader(m1, pos, 0, newSize), pos + newSize - Ftr, pos)
      hole       == pos + newSize
      holeFooter == Plus(hole, rest - Ftr)
      m3 == WriteHeader(m2, hole, 1, rest)
      m4 == IF holeFooter < end THEN WriteFooter(m3, holeFooter, hole) ELSE m3
      left == IF front THEN index ELSE RemoveItem(index, k)
      written == {pos, pos + newSize - 1} \cup
                 (IF rest > 0 THEN {hole, hole + Hdr - 1} ELSE {}) \cup
                 (IF rest > 0 /\ holeFooter < end THEN {holeFooter, holeFooter + 1} ELSE {})
  IN  [ptr   |-> pos + Hdr,
       faults |-> \E a \in written : Faults(page, a),
       mem   |-> IF rest > 0 THEN m4 ELSE m2,
       index |-> IF rest > 0 THEN InsertHole(m4, left, hole) ELSE left]

--------------------------------------------------------------------------------
(* Actions *)

Init ==
  /\ mem = WriteHeader([a \in Start .. MaxAddress - 1 |-> 0], Start, 1, InitialEnd - Start)
  /\ index = <<Start>>
  /\ end = InitialEnd
  /\ \E g \in GuardPages :
       page = [p \in HeapPages |->
                 IF p < FrameOf(InitialEnd)
                   THEN [Frame |-> p, Present |-> 1, RW |-> 1, User |-> 1]
                   ELSE [NoPage EXCEPT !.Present = g]]
  /\ frames = 0 .. FrameOf(InitialEnd) - 1
  /\ call = NoCall
  /\ live = {}
  /\ stopped = ""
  /\ dangling = FALSE

Stop(why) ==
  /\ stopped' = why
  /\ UNCHANGED <<mem, index, end, paging, call, live, dangling>>

\* A client calls alloc.
Alloc(size, pageAlign) ==
  /\ stopped = "" /\ call = NoCall
  /\ call' = [size |-> size, pageAlign |-> pageAlign]
  /\ UNCHANGED <<mem, index, end, paging, live, stopped, dangling>>

Entry == FindSmallestHole(call.size + Overhead, call.pageAlign)

AllocFits ==
  LET done == Allocated(Entry, call.size, call.pageAlign) IN
  /\ stopped = "" /\ call # NoCall
  /\ Entry # 0 /\ ~done.faults
  /\ mem' = done.mem
  /\ index' = done.index
  /\ live' = live \cup {[ptr |-> done.ptr, size |-> call.size]}
  /\ call' = NoCall
  /\ UNCHANGED <<end, paging, stopped, dangling>>

\* No hole fits: the heap grows, and the header with the highest address, or a
\* new one, grows with it.
ExpandedEnd == Start + ExpandedSize(end - Start + call.size + Overhead)

Expanded ==
  LET grown     == ExpandedEnd - end
      mapped    == MapPages(ExpandSteps(end - Start, ExpandedEnd - Start))
      last      == CHOOSE h \in ToSet(index) : \A g \in ToSet(index) : g <= h
      header    == IF index = <<>> THEN end ELSE last
      size      == IF index = <<>> THEN grown ELSE Plus(SizeOf(mem, last), grown)
      \* (HeapFooter*)header + header->Size - 8 counts in footers, not in bytes.
      footer    == IF index = <<>> THEN end + grown - Ftr
                   ELSE (last + BytesPerWord * Ftr * (size - Ftr)) % AddressMod
      m         == IF index = <<>> THEN WriteHeader(mem, end, 1, grown)
                                   ELSE Write(mem, last + 2, size)
  IN  [page   |-> mapped.page,
       frames |-> mapped.frames,
       mem    |-> WriteFooter(m, footer, header),
        writes |-> {header, header + Hdr - 1, footer, footer + 1}]

\* alloc then calls itself again, with the same arguments.
AllocExpands ==
  /\ stopped = "" /\ call # NoCall
  /\ Entry = 0 /\ ExpandedEnd <= MaxAddress
  /\ \A a \in Expanded.writes : ~Faults(Expanded.page, a)
  /\ end' = ExpandedEnd
  /\ page' = Expanded.page
  /\ frames' = Expanded.frames
  /\ mem' = Expanded.mem
  /\ index' = IF index = <<>> THEN InsertHole(mem', index, end) ELSE index
  /\ UNCHANGED <<call, live, stopped, dangling>>

\* What lies outside the heap's pages may be mapped or not.
AllocFaults ==
  /\ stopped = "" /\ call # NoCall
  /\ \/ Entry # 0 /\ Allocated(Entry, call.size, call.pageAlign).faults
     \/ /\ Entry = 0 /\ ExpandedEnd <= MaxAddress
        /\ \E a \in Expanded.writes :
             Faults(Expanded.page, a) \/ FrameOf(a) \notin HeapPages
  /\ Stop("pageFault")

\* ASSERT(heap->StartAddress + newSize <= heap->MaxAddress) in ExpandHeap.
AllocPanics ==
  /\ stopped = "" /\ call # NoCall
  /\ Entry = 0 /\ ExpandedEnd > MaxAddress
  /\ Stop("panic")

\* free, in the order the code goes: the block becomes a hole (0), it is unified
\* with the hole on its left (1) and on its right (2), the heap is contracted if
\* the hole is at its end (3), and a hole that is not in the index is inserted.
Freed(p) ==
  LET block  == p - Hdr
      footer == Plus(block, SizeOf(mem, block) - Ftr)
      sane   == HasMagic(mem, block) /\ HasMagic(mem, footer)
      m0     == Write(mem, block + 1, 1)

      onLeft == HeaderOf(m0, block - Ftr)
      left   == HasMagic(m0, block - Ftr) /\ IsHole(m0, onLeft)
      header == IF left THEN onLeft ELSE block
      m1     == IF left
                  THEN LET m == Write(m0, footer + 1, header) IN
                       Write(m, header + 2,
                             Plus(SizeOf(m, header), SizeOf(m0, block)))
                  ELSE m0

      test   == footer + Ftr
      right  == HasMagic(m1, test) /\ IsHole(m1, test)
      m2     == IF right
                  THEN Write(m1, header + 2,
                             Plus(SizeOf(m1, header), SizeOf(m1, test)))
                  ELSE m1
      last   == IF right THEN Plus(test, SizeOf(m2, test) - Ftr) ELSE footer
      found  == Find(index, test)
      idx2   == IF right THEN RemoveItem(index, found) ELSE index

      atEnd  == last + Ftr = end
      length == ContractedSize(header - Start)
      cut    == Sub(end - Start, length)
      kept   == Sub(SizeOf(m2, header), cut)
      m3     == IF atEnd /\ kept > 0
                  THEN WriteFooter(Write(m2, header + 2, kept),
                                   Plus(header, kept - Ftr), header)
                  ELSE m2
      gone   == Find(idx2, test)
      idx3   == IF atEnd /\ kept = 0 /\ gone # 0 THEN RemoveItem(idx2, gone) ELSE idx2
  IN  [sane    |-> sane,
       asserts |-> sane /\ (right => found # 0)
                        /\ (atEnd => header - Start < end - Start),
       probe   |-> test,
       mem     |-> m3,
       index   |-> IF left THEN idx3 ELSE InsertHole(m3, idx3, header),
       length  |-> IF atEnd THEN length ELSE end - Start]

\* Whether free unifies p's block with a hole on its right that is not the
\* heap's last: then the footer keeps pointing to the header that is gone.
UnifiesInside(p) ==
  LET test == p - Hdr + SizeOf(mem, p - Hdr) IN
  HasMagic(mem, test) /\ IsHole(mem, test) /\ test + SizeOf(mem, test) # end

MayFree == ClientsFree /\ stopped = "" /\ call = NoCall

Free(b) ==
  LET done     == Freed(b.ptr)
      unmapped == UnmapPages(ContractSteps(end - Start, done.length))
  IN  /\ MayFree
      /\ ~Faults(page, done.probe) /\ done.asserts
      /\ mem' = done.mem
      /\ index' = done.index
      /\ page' = unmapped.page
      /\ frames' = unmapped.frames
      /\ end' = Start + done.length
      /\ live' = live \ {b}
      /\ dangling' = (dangling \/ UnifiesInside(b.ptr))
      /\ UNCHANGED <<call, stopped>>

\* free reads the header after the block: when the block is the heap's last, in
\* the page after the heap, which may not be there.
FreeFaults(b) ==
  /\ MayFree
  /\ Freed(b.ptr).sane /\ Faults(page, Freed(b.ptr).probe)
  /\ Stop("pageFault")

\* The magic numbers are tested before that header is read, the rest after.
FreePanics(b) ==
  /\ MayFree
  /\ ~Freed(b.ptr).asserts
  /\ Freed(b.ptr).sane => ~Faults(page, Freed(b.ptr).probe)
  /\ Stop("panic")

Next ==
  \/ \E size \in Requests, pageAlign \in Aligns : Alloc(size, pageAlign)
  \/ AllocFits \/ AllocExpands \/ AllocFaults \/ AllocPanics
  \/ \E b \in live : Free(b)
  \/ \E b \in live : FreeFaults(b)
  \/ \E b \in live : FreePanics(b)

Spec == Init /\ [][Next]_vars

--------------------------------------------------------------------------------
(* Properties *)

TypeOK ==
  /\ mem \in [Start .. MaxAddress - 1 -> Int]
  /\ index \in Seq(Start .. MaxAddress - 1)
  /\ end \in Start .. MaxAddress
  /\ call.size \in Requests \cup {0}
  /\ live \subseteq [ptr : Start + Hdr .. MaxAddress - Ftr, size : Requests]
  /\ stopped \in {"", "panic", "pageFault"} /\ dangling \in BOOLEAN
  /\ frames \subseteq InRam

Words(b) == b.ptr .. b.ptr + b.size - 1
Extent(h) == h .. h + SizeOf(mem, h) - 1
Blocks == {b.ptr - Hdr : b \in live}
Holes == ToSet(index)

\* Live blocks and indexed holes tile the heap: no word is lost, none belongs to
\* two of them, the index holds exactly the holes, each once, and what a client
\* holds is inside its block.
Tiled ==
  /\ UNION {Extent(h) : h \in Blocks \cup Holes} = Start .. end - 1
  /\ \A g, h \in Blocks \cup Holes : g # h => Extent(g) \cap Extent(h) = {}
  /\ \A h \in Blocks \cup Holes : HasMagic(mem, h) /\ (IsHole(mem, h) <=> h \in Holes)
  /\ Len(index) = Cardinality(Holes)
  /\ \A b \in live : Words(b) \subseteq b.ptr .. b.ptr + SizeOf(mem, b.ptr - Hdr) - Overhead - 1

\* No two holes are next to each other.
NoAdjacentHoles ==
  \A h \in Holes : h + SizeOf(mem, h) \notin Holes

\* Every footer free will look at is there and points to its own header.
FootersMatch ==
  \A h \in Blocks \cup Holes :
    LET footer == h + SizeOf(mem, h) - Ftr IN
    footer + Ftr # end => HasMagic(mem, footer) /\ HeaderOf(mem, footer) = h

\* Blocks, holes, index, headers and footers agree with each other, and memory
\* freed in pieces can be handed out again as a whole
\* (memorym.cpp:578-816, orderedarray.cpp:53-111).
HeapConsistent == Tiled /\ NoAdjacentHoles /\ FootersMatch

\* alloc and free never write into a block a client keeps, as long as no footer
\* dangles (memorym.cpp:578-816).
DataIntact ==
  [][~dangling' =>
       \A b \in live \cap live' : \A a \in Words(b) : mem'[a] = mem[a]]_vars

\* As long as no footer dangles, alloc gives up only when the memory between the
\* live blocks has no gap that is large enough (memorym.cpp:689-741, 885).
GivesUpOnlyWhenFull ==
  [][~dangling /\ stopped' = "panic" /\ call # NoCall /\ call.pageAlign = 0 =>
       \A a \in Start .. end - call.size - Overhead :
         \E h \in Blocks : (a .. a + call.size + Overhead - 1) \cap Extent(h) # {}]_vars

\* Whatever clients free, in whatever order: until the first unification with a
\* hole on the right that is not the last, nothing is lost, footers are right
\* and free's assertions hold.  The footer it does not write is the one cause of
\* what goes wrong in a heap that keeps its size (memorym.cpp:620).
SoundUntilDangling ==
  ~dangling =>
    /\ HeapConsistent
    /\ stopped = "panic" => call # NoCall

--------------------------------------------------------------------------------
(* Refinement *)

Promise == INSTANCE Pool WITH Memory <- Start .. MaxAddress - 1, broken <- dangling

\* Clients see a memory pool, disjoint blocks that stay put, until a footer
\* dangles (memorym.cpp:578-816).
ImplementsPool == Promise!Spec

--------------------------------------------------------------------------------
(* What the comments of the code say, and the code does not do *)

\* "Get the nearest following page boundary" (memorym.cpp:908): a heap is
\* contracted to a page boundary after the last block, and no further.
ContractsToNextPage ==
  [][\A b \in live' : end' < end => b.ptr + b.size + Ftr <= end']_vars

================================================================================
