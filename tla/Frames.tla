-------------------------------- MODULE Frames --------------------------------
(***************************************************************************)
(* Who holds which physical frame.  The module is the frame allocator of   *)
(* memorym.cpp as its callers see it: the page entries they own and the    *)
(* bitmap.  The callers come in the order kernelMain gives them: the       *)
(* firmware's reserved ranges are marked, CompletePaging identity maps low *)
(* memory, and from then on frames are allocated and freed for heap pages. *)
(***************************************************************************)
EXTENDS FrameBitmap

CONSTANTS
  Pages,     \* the virtual pages (page numbers) that have an entry
  Modes,     \* the <<isKernel, isWritable>> arguments in use
  Reserved   \* page-aligned addresses the firmware reports as reserved

ASSUME FramesAssumption ==
  /\ Pages \subseteq Nat
  /\ Modes \subseteq (Bit \X Bit)
  /\ Reserved \subseteq Nat

VARIABLES
  phase,     \* "marking", "identity" or "running": how far the boot has come
  frames,    \* frames[]: the frames whose bit is set
  page,      \* the page entries
  reserved   \* history: the frames marked for the firmware

vars == <<phase, frames, page, reserved>>

\* Every frame number a page entry can hold.
FrameNumbers == Pages \cup (0 .. NFrames)

PageEntry ==
  [Frame : FrameNumbers, Present : Bit, RW : Bit, User : Bit]

Init ==
  /\ phase = "marking"
  /\ frames = {}
  /\ page = [p \in Pages |-> NoPage]
  /\ reserved = {}

\* kernelMain's loop over the memory map: one reserved page at a time.
MarkPagingSystem(addr) ==
  /\ phase = "marking"
  /\ frames' = SetFrame(frames, addr)
  /\ reserved' = reserved \cup (SetFrame(frames, addr) \ frames)
  /\ UNCHANGED <<phase, page>>

\* The start of CompletePaging: page 0 is made not present, frame 0 is taken.
TakePageZero ==
  /\ phase = "marking"
  /\ phase' = "identity"
  /\ frames' = SetFrame(frames, 0)
  /\ page' = [p \in Pages |->
                IF p = 0 THEN [page[p] EXCEPT !.Present = 0] ELSE page[p]]
  /\ UNCHANGED reserved

\* An identity map that maps every page to the page above it.
DMAFrameShifted(p, isKernel, isWriteable) ==
  /\ phase = "identity"
  /\ p # 0 /\ p + 1 \in Pages
  /\ frames' = SetFrame(frames, (p + 1) * PageSize)
  /\ page' = [page EXCEPT
       ![p] = DMAFramePage(@, isKernel, isWriteable, (p + 1) * PageSize)]
  /\ UNCHANGED <<phase, reserved>>

\* DMAFrame is only called by CompletePaging, and only with p's own address.
DMAFrame(p, isKernel, isWriteable) ==
  /\ phase = "identity"
  /\ p # 0
  /\ frames' = SetFrame(frames, p * PageSize)
  /\ page' = [page EXCEPT
       ![p] = DMAFramePage(@, isKernel, isWriteable, p * PageSize)]
  /\ UNCHANGED <<phase, reserved>>

\* CompletePaging is done with the identity maps.
StartHeap ==
  /\ phase = "identity"
  /\ phase' = "running"
  /\ UNCHANGED <<frames, page, reserved>>

AllocFrame(p, isKernel, isWritable) ==
  /\ phase = "running"
  /\ frames' = AllocFrameBits(frames, page[p])
  /\ page' = [page EXCEPT
       ![p] = AllocFramePage(frames, @, isKernel, isWritable)]
  /\ UNCHANGED <<phase, reserved>>

FreeFrame(p) ==
  /\ phase = "running"
  /\ frames' = FreeFrameBits(frames, page[p])
  /\ page' = [page EXCEPT ![p] = FreeFramePage(@)]
  /\ UNCHANGED <<phase, reserved>>

Next ==
  \/ \E addr \in Reserved : MarkPagingSystem(addr)
  \/ TakePageZero
  \/ \E p \in Pages, m \in Modes : DMAFrame(p, m[1], m[2])
  \/ StartHeap
  \/ \E p \in Pages, m \in Modes : AllocFrame(p, m[1], m[2])
  \/ \E p \in Pages : FreeFrame(p)

Spec == Init /\ [][Next]_vars

--------------------------------------------------------------------------------
(* Properties *)

TypeOK ==
  /\ phase \in {"marking", "identity", "running"}
  /\ frames \subseteq InRam
  /\ page \in [Pages -> PageEntry]
  /\ reserved \subseteq InRam

\* The bits FreeFrame can clear whatever frame it was given: it divides the
\* frame number by PageSize once more.  With 16 MB of RAM or less this is {0}.
Clobbered == {f \div PageSize : f \in FrameNumbers}

\* No frame is left for FirstFrame to find, except clobbered ones.
Exhausted == Scanned \subseteq frames \cup Clobbered

\* A frame that some page entry holds has its bit set, so that FirstFrame
\* cannot hand it out again - unless FreeFrame may have cleared its bit for
\* another frame (memorym.cpp:311).
HeldIsMarked ==
  \A p \in Pages :
    page[p].Frame \in InRam \ Clobbered => page[p].Frame \in frames

\* Two pages have the same frame only if FreeFrame may clear its bit, or if
\* the frames ran out and FirstFrame fell off its end (memorym.cpp:222-244).
ExclusiveFrames ==
  \A p, q \in Pages :
    /\ p # q
    /\ page[p].Frame = page[q].Frame
    /\ page[p].Frame \notin Clobbered
    => page[p].Frame = FallOff /\ Exhausted

\* A frame the firmware reserved is never given to a page by AllocFrame; it is
\* held only by its own identity-mapped page (kernel.cpp:173-194), with the
\* two exceptions of ExclusiveFrames.
ReservedKept ==
  \A p \in Pages :
    page[p].Frame \in reserved \ Clobbered =>
      page[p].Frame = p \/ (page[p].Frame = FallOff /\ Exhausted)

\* A page entry never goes from one frame to another: a frame is taken away
\* only by FreeFrame, which leaves none (memorym.cpp:258, 312).
FrameIsStable ==
  [][\A p \in Pages : page[p].Frame # 0 => page'[p].Frame \in {0, page[p].Frame}]_vars

--------------------------------------------------------------------------------
(* What the comments say and the code does not do *)

\* FreeFrame gives a frame back: "Deallocate a frame" (memorym.cpp:299) and
\* "Clear the frame" (memorym.cpp:311).  When a page has lost its frame,
\* FirstFrame can find that frame again.  It cannot: the bit that is cleared
\* is that of the frame number divided by PageSize once more.
FreedIsAvailable ==
  [][\A p \in Pages :
       page[p].Frame # 0 /\ page'[p].Frame = 0 => page[p].Frame \notin frames']_vars

================================================================================
