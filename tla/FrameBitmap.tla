------------------------------ MODULE FrameBitmap ------------------------------
(***************************************************************************)
(* The physical-frame bitmap and the page entries of memorym.cpp, as pure  *)
(* operators.  The bitmap `frames` is the set of the frame numbers whose   *)
(* bit is 1; a Page (paging.h) is a record of the fields the code uses.    *)
(* Every operator returns the value its C++ function leaves in memory.     *)
(***************************************************************************)
EXTENDS Integers, FiniteSets

CONSTANTS
  NFrames,   \* nframes: number of 4 KB frames of RAM (InitializePaging)
  WordBits,  \* bits in one word of frames[]: 0x20 in the code
  PageSize   \* bytes in a page: 0x1000 in the code

\* RAM is below 4 GB, so nframes * 0x1000 and index * 0x1000 do not wrap.
ASSUME FrameAssumption ==
  /\ NFrames \in Nat \ {0}
  /\ WordBits \in Nat \ {0, 1}
  /\ PageSize \in Nat \ {0}

FrameOf(addr) == addr \div PageSize
IndexFromBit(a) == a \div WordBits

InRam == 0 .. (NFrames - 1)

--------------------------------------------------------------------------------
(* The bitmap *)

\* A SetFrame that does not check that the address is in RAM.
SetFrameUnbounded(bits, addr) == bits \cup {FrameOf(addr)}

\* An address outside RAM has no bit, and sets none.
SetFrame(bits, addr) ==
  IF addr < NFrames * PageSize THEN bits \cup {FrameOf(addr)} ELSE bits

ClearFrame(bits, addr) == bits \ {FrameOf(addr)}

\* FirstFrame looks at whole words only: the last NFrames % WordBits frames
\* are never looked at.
Scanned == 0 .. (WordBits * IndexFromBit(NFrames) - 1)

\* What a call returns that runs off the end of FirstFrame, which has no
\* return statement there: the loop bound, left in eax by the last comparison.
FallOff == IndexFromBit(NFrames)

Least(S) == CHOOSE x \in S : \A y \in S : x <= y

\* A FirstFrame that skips marked frames in the first word only.
FirstFrameUnchecked(bits) ==
  LET free == Scanned \ (bits \cap (0 .. WordBits - 1))
  IN  IF free # {} THEN Least(free) ELSE FallOff

\* The first frame of the scanned ones whose bit is clear.
FirstFrame(bits) ==
  IF Scanned \ bits # {} THEN Least(Scanned \ bits) ELSE FallOff

--------------------------------------------------------------------------------
(* Page entries *)

Bit == {0, 1}
NoPage == [Frame |-> 0, Present |-> 0, RW |-> 0, User |-> 0]

AsBit(test) == IF test THEN 1 ELSE 0

\* An AllocFrame that gives a page a new frame although it has one.
AllocatedAnew(bits, pg) == FirstFrame(bits)

\* AllocFrame: a page that has a frame keeps it, and only its flags change.
\* Frame number 0 stands for "no frame".
AllocatedFrame(bits, pg) ==
  IF pg.Frame # 0 THEN pg.Frame ELSE FirstFrame(bits)

AllocFramePage(bits, pg, isKernel, isWritable) ==
  [pg EXCEPT !.Frame = AllocatedFrame(bits, pg), !.Present = 1,
             !.RW = AsBit(isWritable = 1), !.User = AsBit(isKernel # 1)]

\* An AllocFrame that forgets to claim the frame.
AllocFrameUnclaimed(bits, pg) == bits

\* A frame is claimed only for a page that has none.
AllocFrameBits(bits, pg) ==
  IF pg.Frame # 0 THEN bits ELSE SetFrame(bits, FirstFrame(bits) * PageSize)

\* FreeFrame: Present, RW and User keep their values.
FreeFramePage(pg) == [pg EXCEPT !.Frame = 0]

\* ClearFrame is given the frame NUMBER where it expects an address.
FreeFrameBits(bits, pg) ==
  IF pg.Frame = 0 THEN bits ELSE ClearFrame(bits, pg.Frame)

DMAFramePage(pg, isKernel, isWriteable, addr) ==
  [pg EXCEPT !.Frame = FrameOf(addr), !.Present = 1,
             !.RW = AsBit(isWriteable # 0), !.User = AsBit(isKernel = 0)]
================================================================================
