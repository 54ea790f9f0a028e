----------------------------- MODULE FramesProofs -----------------------------
(***************************************************************************)
(* Proofs about Frames, for every amount of RAM, word and page size, set   *)
(* of pages and set of reserved addresses.                                 *)
(***************************************************************************)
EXTENDS Frames, FrameBitmapProofs

\* What FreeFrame clears is a clobbered bit.
LEMMA FreeFrameClobbers ==
  ASSUME NEW bits, NEW pg \in PageEntry
  PROVE  /\ FreeFrameBits(bits, pg) \subseteq bits
         /\ bits \ Clobbered \subseteq FreeFrameBits(bits, pg)
BY DEF FreeFrameBits, ClearFrame, FrameOf, Clobbered, PageEntry

\* Frame 0 is always among the clobbered ones: FreeFrame reaches its bit.
LEMMA ZeroClobbered == 0 \in Clobbered
<1>1. 0 \in FrameNumbers /\ 0 \div PageSize = 0
  BY FrameAssumption DEF FrameNumbers
<1> QED BY <1>1 DEF Clobbered

--------------------------------------------------------------------------------
(* The invariant *)

\* Until the heap starts, a page either has no frame or is identity mapped.
EarlyIdentity ==
  phase # "running" => \A p \in Pages : page[p].Frame \in {0, p}

\* What was marked for the firmware is still marked.
ReservedMarked == reserved \ Clobbered \subseteq frames

Inv ==
  /\ TypeOK
  /\ EarlyIdentity
  /\ ReservedMarked
  /\ HeldIsMarked
  /\ ExclusiveFrames
  /\ ReservedKept

\* Type correctness, for every amount of RAM, page size and set of pages.
LEMMA TypeInit == Init => TypeOK
<1> SUFFICES ASSUME Init PROVE TypeOK
  OBVIOUS
<1>1. NoPage \in PageEntry
  BY FrameAssumption DEF NoPage, PageEntry, FrameNumbers, Bit
<1> QED BY <1>1 DEF Init, TypeOK

\* Every step of Frames keeps the type invariant.
LEMMA TypeNext == TypeOK /\ [Next]_vars => TypeOK'
<1> SUFFICES ASSUME TypeOK, [Next]_vars PROVE TypeOK'
  OBVIOUS
<1>a. InRam \subseteq FrameNumbers
  BY FrameAssumption DEF InRam, FrameNumbers
<1>1. CASE \E addr \in Reserved : MarkPagingSystem(addr)
  <2>1. PICK addr \in Reserved : MarkPagingSystem(addr)
    BY <1>1
  <2>2. SetFrame(frames, addr) \subseteq InRam
    BY SetFrameInRam, FramesAssumption DEF TypeOK
  <2> QED BY <2>1, <2>2 DEF MarkPagingSystem, TypeOK
<1>2. CASE TakePageZero
  <2>1. SetFrame(frames, 0) \subseteq InRam
    BY SetFrameInRam DEF TypeOK
  <2>2. \A p \in Pages : [page[p] EXCEPT !.Present = 0] \in PageEntry
    BY DEF TypeOK, PageEntry, Bit
  <2> QED BY <1>2, <2>1, <2>2 DEF TakePageZero, TypeOK
<1>3. CASE \E p \in Pages, m \in Modes : DMAFrame(p, m[1], m[2])
  <2>1. PICK p \in Pages, m \in Modes : DMAFrame(p, m[1], m[2])
    BY <1>3
  <2>2. p \in Nat /\ p \in FrameNumbers
    BY FramesAssumption DEF FrameNumbers
  <2>3. SetFrame(frames, p * PageSize) \subseteq InRam
    <3>1. SetFrame(frames, p * PageSize) =
            IF p \in InRam THEN frames \cup {p} ELSE frames
      BY <2>2, SetFrameByAddress
    <3> QED BY <3>1 DEF TypeOK
  <2>4. (p * PageSize) \div PageSize = p
    BY <2>2, MulDiv, FrameAssumption
  <2>5. DMAFramePage(page[p], m[1], m[2], p * PageSize) \in PageEntry
    BY <2>2, <2>4 DEF DMAFramePage, FrameOf, TypeOK, PageEntry, Bit, AsBit
  <2> QED BY <2>1, <2>3, <2>5 DEF DMAFrame, TypeOK
<1>4. CASE StartHeap
  BY <1>4 DEF StartHeap, TypeOK
<1>5. CASE \E p \in Pages, m \in Modes : AllocFrame(p, m[1], m[2])
  <2>1. PICK p \in Pages, m \in Modes : AllocFrame(p, m[1], m[2])
    BY <1>5
  <2>2. frames' \subseteq InRam
    BY <2>1, AllocFrameBitsValue, FirstFrameInRam DEF AllocFrame, TypeOK
  <2>3. AllocatedFrame(frames, page[p]) \in FrameNumbers
    BY <1>a, FirstFrameInRam DEF AllocatedFrame, TypeOK, PageEntry
  <2>4. AllocFramePage(frames, page[p], m[1], m[2]) \in PageEntry
    BY <2>3 DEF AllocFramePage, TypeOK, PageEntry, Bit, AsBit
  <2> QED BY <2>1, <2>2, <2>4 DEF AllocFrame, TypeOK
<1>6. CASE \E p \in Pages : FreeFrame(p)
  <2>1. PICK p \in Pages : FreeFrame(p)
    BY <1>6
  <2>2. FreeFrameBits(frames, page[p]) \subseteq InRam
    BY FreeFrameClobbers DEF TypeOK
  <2>3. FreeFramePage(page[p]) \in PageEntry
    BY FrameAssumption DEF FreeFramePage, TypeOK, PageEntry, FrameNumbers
  <2> QED BY <2>1, <2>2, <2>3 DEF FreeFrame, TypeOK
<1>7. CASE UNCHANGED vars
  BY <1>7 DEF vars, TypeOK
<1> QED BY <1>1, <1>2, <1>3, <1>4, <1>5, <1>6, <1>7 DEF Next

\* Every reachable bitmap describes frames of RAM only, and every reachable
\* page entry is well formed.
THEOREM TypeCorrect == Spec => []TypeOK
<1>1. Init => TypeOK
  BY TypeInit
<1>2. TypeOK /\ [Next]_vars => TypeOK'
  BY TypeNext
<1> QED BY <1>1, <1>2, PTL DEF Spec

--------------------------------------------------------------------------------
(* What each action does to the frames the pages hold *)

\* What AllocFrame does to the page and the bitmap, as the invariant sees it.
LEMMA AllocStep ==
  ASSUME TypeOK, NEW p \in Pages, NEW k, NEW w, AllocFrame(p, k, w)
  PROVE  /\ phase = "running" /\ phase' = "running" /\ reserved' = reserved
         /\ frames' = IF page[p].Frame # 0
                        THEN frames ELSE frames \cup {FirstFrame(frames)}
         /\ \A q \in Pages : page'[q].Frame =
              IF q = p /\ page[p].Frame = 0
                THEN FirstFrame(frames) ELSE page[q].Frame
<1>1. frames' = IF page[p].Frame # 0
                  THEN frames ELSE frames \cup {FirstFrame(frames)}
  BY AllocFrameBitsValue DEF AllocFrame
<1>2. AllocFramePage(frames, page[p], k, w).Frame =
        IF page[p].Frame = 0 THEN FirstFrame(frames) ELSE page[p].Frame
  BY DEF AllocFramePage, AllocatedFrame, TypeOK, PageEntry
<1> QED BY <1>1, <1>2 DEF AllocFrame, TypeOK

\* What FreeFrame does: the page has no frame, and only clobbered bits clear.
LEMMA FreeStep ==
  ASSUME TypeOK, NEW p \in Pages, FreeFrame(p)
  PROVE  /\ phase = "running" /\ phase' = "running" /\ reserved' = reserved
         /\ frames' \subseteq frames
         /\ frames \ Clobbered \subseteq frames'
         /\ \A q \in Pages :
              page'[q].Frame = IF q = p THEN 0 ELSE page[q].Frame
<1>1. /\ frames' \subseteq frames
      /\ frames \ Clobbered \subseteq frames'
  BY FreeFrameClobbers DEF FreeFrame, TypeOK
<1>2. FreeFramePage(page[p]).Frame = 0
  BY DEF FreeFramePage, TypeOK, PageEntry
<1> QED BY <1>1, <1>2 DEF FreeFrame, TypeOK

\* What DMAFrame does: the page has the frame of its own number, marked.
LEMMA DMAStep ==
  ASSUME TypeOK, NEW p \in Pages, NEW k, NEW w, DMAFrame(p, k, w)
  PROVE  /\ phase = "identity" /\ phase' = "identity" /\ reserved' = reserved
         /\ frames' = IF p \in InRam THEN frames \cup {p} ELSE frames
         /\ \A q \in Pages :
              page'[q].Frame = IF q = p THEN p ELSE page[q].Frame
<1>1. p \in Nat
  BY FramesAssumption
<1>2. frames' = IF p \in InRam THEN frames \cup {p} ELSE frames
  BY <1>1, SetFrameByAddress DEF DMAFrame
<1>3. (p * PageSize) \div PageSize = p
  BY <1>1, MulDiv, FrameAssumption
<1>4. DMAFramePage(page[p], k, w, p * PageSize).Frame = p
  BY <1>3 DEF DMAFramePage, FrameOf, TypeOK, PageEntry
<1> QED BY <1>2, <1>4 DEF DMAFrame, TypeOK

\* Marking a frame gives and takes no page's frame.
LEMMA MarkStep ==
  ASSUME TypeOK, NEW addr \in Reserved, MarkPagingSystem(addr)
  PROVE  /\ phase = "marking" /\ phase' = "marking"
         /\ frames \subseteq frames' /\ page' = page
         /\ reserved' \subseteq reserved \cup frames'
BY SetFrameInRam, FramesAssumption DEF MarkPagingSystem, TypeOK

\* The start of CompletePaging gives and takes no page's frame.
LEMMA PageZeroStep ==
  ASSUME TypeOK, TakePageZero
  PROVE  /\ phase = "marking" /\ phase' = "identity" /\ reserved' = reserved
         /\ frames \subseteq frames'
         /\ \A q \in Pages : page'[q].Frame = page[q].Frame
<1>1. frames \subseteq frames'
  BY SetFrameInRam DEF TakePageZero, TypeOK
<1>2. \A q \in Pages : [page[q] EXCEPT !.Present = 0].Frame = page[q].Frame
  BY DEF TypeOK, PageEntry
<1> QED BY <1>1, <1>2 DEF TakePageZero, TypeOK

--------------------------------------------------------------------------------
(* The invariant is inductive *)

\* The inductive invariant holds at the start.
LEMMA InvInit == Init => Inv
<1> SUFFICES ASSUME Init PROVE Inv
  OBVIOUS
<1>1. \A p \in Pages : page[p].Frame = 0
  BY DEF Init, NoPage
<1>2. TypeOK
  BY TypeInit
<1>3. EarlyIdentity /\ ReservedMarked
  BY <1>1 DEF Init, EarlyIdentity, ReservedMarked
<1>4. HeldIsMarked /\ ExclusiveFrames /\ ReservedKept
  BY <1>1, ZeroClobbered DEF HeldIsMarked, ExclusiveFrames, ReservedKept
<1> QED BY <1>2, <1>3, <1>4 DEF Inv

\* While the boot is still mapping memory, identity mapping alone keeps the
\* frames apart.
LEMMA EarlyIsExclusive ==
  ASSUME EarlyIdentity', phase' # "running"
  PROVE  ExclusiveFrames' /\ ReservedKept'
BY ZeroClobbered DEF EarlyIdentity, ExclusiveFrames, ReservedKept

\* Every step keeps the inductive invariant.
LEMMA InvNext == Inv /\ [Next]_vars => Inv'
<1> SUFFICES ASSUME Inv, [Next]_vars PROVE Inv'
  OBVIOUS
<1>a. TypeOK /\ TypeOK'
  BY TypeNext DEF Inv
<1> USE ZeroClobbered
<1>1. CASE \E addr \in Reserved : MarkPagingSystem(addr)
  <2>1. PICK addr \in Reserved : MarkPagingSystem(addr)
    BY <1>1
  <2>2. /\ phase = "marking" /\ phase' = "marking"
        /\ frames \subseteq frames' /\ page' = page
        /\ reserved' \subseteq reserved \cup frames'
    BY <2>1, <1>a, MarkStep
  <2>3. EarlyIdentity'
    BY <2>2 DEF Inv, EarlyIdentity
  <2>4. ReservedMarked'
    BY <2>2 DEF Inv, ReservedMarked
  <2>5. HeldIsMarked'
    BY <2>2 DEF Inv, HeldIsMarked
  <2> QED BY <1>a, <2>2, <2>3, <2>4, <2>5, EarlyIsExclusive DEF Inv
<1>2. CASE TakePageZero
  <2>1. /\ phase = "marking" /\ phase' = "identity" /\ reserved' = reserved
        /\ frames \subseteq frames'
        /\ \A q \in Pages : page'[q].Frame = page[q].Frame
    BY <1>2, <1>a, PageZeroStep
  <2>2. EarlyIdentity'
    BY <2>1 DEF Inv, EarlyIdentity
  <2>3. ReservedMarked'
    BY <2>1 DEF Inv, ReservedMarked
  <2>4. HeldIsMarked'
    BY <2>1 DEF Inv, HeldIsMarked
  <2> QED BY <1>a, <2>1, <2>2, <2>3, <2>4, EarlyIsExclusive DEF Inv
<1>3. CASE \E p \in Pages, m \in Modes : DMAFrame(p, m[1], m[2])
  <2>1. PICK p \in Pages, m \in Modes : DMAFrame(p, m[1], m[2])
    BY <1>3
  <2>2. /\ phase = "identity" /\ phase' = "identity" /\ reserved' = reserved
        /\ frames' = IF p \in InRam THEN frames \cup {p} ELSE frames
        /\ \A q \in Pages :
             page'[q].Frame = IF q = p THEN p ELSE page[q].Frame
    BY <2>1, <1>a, DMAStep
  <2>3. EarlyIdentity'
    BY <2>2 DEF Inv, EarlyIdentity
  <2>4. ReservedMarked'
    BY <2>2 DEF Inv, ReservedMarked
  <2>5. HeldIsMarked'
    BY <2>2 DEF Inv, HeldIsMarked
  <2> QED BY <1>a, <2>2, <2>3, <2>4, <2>5, EarlyIsExclusive DEF Inv
<1>4. CASE StartHeap
  BY <1>4, <1>a DEF StartHeap, Inv, EarlyIdentity, ReservedMarked,
                    HeldIsMarked, ExclusiveFrames, ReservedKept, Exhausted
<1>5. CASE \E p \in Pages, m \in Modes : AllocFrame(p, m[1], m[2])
  <2>1. PICK p \in Pages, m \in Modes : AllocFrame(p, m[1], m[2])
    BY <1>5
  <2> DEFINE f == FirstFrame(frames)
  <2>2. /\ phase = "running" /\ phase' = "running" /\ reserved' = reserved
        /\ frames' = IF page[p].Frame # 0
                       THEN frames ELSE frames \cup {f}
        /\ \A q \in Pages : page'[q].Frame =
             IF q = p /\ page[p].Frame = 0 THEN f ELSE page[q].Frame
    BY <2>1, <1>a, AllocStep
  <2>3. /\ f \in InRam
        /\ f \notin frames \/ (f = FallOff /\ Scanned \subseteq frames)
    BY FirstFrameInRam, FirstFrameIsFree
  <2> HIDE DEF f
  <2>4. EarlyIdentity'
    BY <2>2 DEF EarlyIdentity
  <2>5. ReservedMarked'
    BY <2>2 DEF Inv, ReservedMarked
  <2>6. HeldIsMarked'
    BY <2>2 DEF Inv, HeldIsMarked
  <2>7. Exhausted => Exhausted'
    BY <2>2 DEF Exhausted
  <2>8. ExclusiveFrames'
    <3> SUFFICES ASSUME NEW q \in Pages, NEW r \in Pages, q # r,
                        page'[q].Frame = page'[r].Frame,
                        page'[q].Frame \notin Clobbered
                 PROVE  page'[q].Frame = FallOff /\ Exhausted'
      BY DEF ExclusiveFrames, Clobbered, FrameNumbers
    <3>1. CASE page'[q].Frame = page[q].Frame /\ page'[r].Frame = page[r].Frame
      BY <3>1, <2>7 DEF Inv, ExclusiveFrames
    <3>2. CASE page[p].Frame = 0 /\ page'[q].Frame = f
      <4>1. \E s \in {q, r} : page[s].Frame = f \/ f = 0
        BY <2>2, <3>2
      <4>2. f \in frames
        BY <4>1, <3>2, <2>3 DEF Inv, HeldIsMarked
      <4> QED BY <4>2, <2>3, <2>2, <3>2 DEF Exhausted
    <3> QED BY <3>1, <3>2, <2>2
  <2>9. ReservedKept'
    <3> SUFFICES ASSUME NEW q \in Pages,
                        page'[q].Frame \in reserved \ Clobbered
                 PROVE  \/ page'[q].Frame = q
                        \/ page'[q].Frame = FallOff /\ Exhausted'
      BY <2>2 DEF ReservedKept, Clobbered, FrameNumbers
    <3>1. CASE page'[q].Frame = page[q].Frame
      BY <3>1, <2>7 DEF Inv, ReservedKept
    <3>2. CASE page'[q].Frame = f
      BY <3>2, <2>2, <2>3 DEF Inv, ReservedMarked, Exhausted
    <3> QED BY <3>1, <3>2, <2>2
  <2> QED BY <1>a, <2>4, <2>5, <2>6, <2>8, <2>9 DEF Inv
<1>6. CASE \E p \in Pages : FreeFrame(p)
  <2>1. PICK p \in Pages : FreeFrame(p)
    BY <1>6
  <2>2. /\ phase = "running" /\ phase' = "running" /\ reserved' = reserved
        /\ frames \ Clobbered \subseteq frames'
        /\ \A q \in Pages :
             page'[q].Frame = IF q = p THEN 0 ELSE page[q].Frame
    BY <2>1, <1>a, FreeStep
  <2>3. EarlyIdentity' /\ ReservedMarked' /\ HeldIsMarked'
    BY <2>2 DEF Inv, EarlyIdentity, ReservedMarked, HeldIsMarked
  <2>4. Exhausted => Exhausted'
    BY <2>2 DEF Exhausted
  <2>5. ExclusiveFrames'
    BY <2>2, <2>4 DEF Inv, ExclusiveFrames
  <2>6. ReservedKept'
    BY <2>2, <2>4 DEF Inv, ReservedKept
  <2> QED BY <1>a, <2>3, <2>5, <2>6 DEF Inv
<1>7. CASE UNCHANGED vars
  BY <1>7, <1>a DEF vars, Inv, EarlyIdentity, ReservedMarked,
                    HeldIsMarked, ExclusiveFrames, ReservedKept, Exhausted
<1> QED BY <1>1, <1>2, <1>3, <1>4, <1>5, <1>6, <1>7 DEF Next

\* The inductive invariant holds in every reachable state.
LEMMA InvCorrect == Spec => []Inv
<1> QED BY InvInit, InvNext, PTL DEF Spec

\* A frame a page holds is never offered again, unless FreeFrame may have
\* cleared its bit.
THEOREM MarkedCorrect == Spec => []HeldIsMarked
<1>1. Inv => HeldIsMarked
  BY DEF Inv
<1> QED BY <1>1, InvCorrect, PTL

\* No two pages share a frame, but for the bits FreeFrame clears by mistake
\* and the one frame FirstFrame returns when it finds none.
THEOREM ExclusiveCorrect == Spec => []ExclusiveFrames
<1>1. Inv => ExclusiveFrames
  BY DEF Inv
<1> QED BY <1>1, InvCorrect, PTL

\* The firmware's frames stay out of AllocFrame's hands, with the same two
\* exceptions.
THEOREM ReservedCorrect == Spec => []ReservedKept
<1>1. Inv => ReservedKept
  BY DEF Inv
<1> QED BY <1>1, InvCorrect, PTL

\* A page's frame changes only to none.
LEMMA FrameKeptOrNone ==
  Inv /\ [Next]_vars =>
    \A p \in Pages :
      page[p].Frame # 0 => page'[p].Frame \in {0, page[p].Frame}
<1> SUFFICES ASSUME Inv, [Next]_vars
             PROVE  \A p \in Pages : page[p].Frame # 0 =>
                      page'[p].Frame \in {0, page[p].Frame}
  OBVIOUS
<1>a. TypeOK
  BY DEF Inv
<1>1. CASE \E addr \in Reserved : MarkPagingSystem(addr)
  BY <1>1, <1>a, MarkStep
<1>2. CASE TakePageZero
  BY <1>2, <1>a, PageZeroStep
<1>3. CASE \E p \in Pages, m \in Modes : DMAFrame(p, m[1], m[2])
  BY <1>3, <1>a, DMAStep DEF Inv, EarlyIdentity
<1>4. CASE StartHeap
  BY <1>4 DEF StartHeap
<1>5. CASE \E p \in Pages, m \in Modes : AllocFrame(p, m[1], m[2])
  BY <1>5, <1>a, AllocStep
<1>6. CASE \E p \in Pages : FreeFrame(p)
  BY <1>6, <1>a, FreeStep
<1>7. CASE UNCHANGED vars
  BY <1>7 DEF vars
<1> QED BY <1>1, <1>2, <1>3, <1>4, <1>5, <1>6, <1>7 DEF Next

\* No call moves a page from one frame to another.
THEOREM StableCorrect == Spec => FrameIsStable
<1>1. Inv /\ [Next]_vars =>
        [\A p \in Pages : page[p].Frame # 0 =>
           page'[p].Frame \in {0, page[p].Frame}]_vars
  BY FrameKeptOrNone
<1> QED BY <1>1, InvCorrect, PTL DEF Spec, FrameIsStable
================================================================================
