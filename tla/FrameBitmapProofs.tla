--------------------------- MODULE FrameBitmapProofs ---------------------------
(***************************************************************************)
(* Lemmas about the operators of FrameBitmap, for every amount of RAM,     *)
(* word and page size: what the proofs about Frames and Boot share.        *)
(***************************************************************************)
EXTENDS FrameBitmap, TLAPS, FiniteSetTheorems, WellFoundedInduction

\* A nonempty set of naturals has a least element: the initial segments below
\* its members are finite, and strict inclusion is well founded on them.
LEMMA LeastExists ==
  ASSUME NEW S \in SUBSET Nat, S # {}
  PROVE  /\ Least(S) \in S
         /\ \A y \in S : Least(S) <= y
<1> DEFINE Upto(n) == 0 .. n
           T == {Upto(n) : n \in S}
           R == StrictSubsetOrdering(Nat)
           F == FiniteSubsetsOf(Nat)
<1>1. \A n \in Nat : Upto(n) \in F
  BY FS_Interval DEF FiniteSubsetsOf
<1>2. T \subseteq F /\ T # {}
  BY <1>1
<1>3. IsWellFoundedOn(R, F)
  BY FS_StrictSubsetOrderingWellFounded
<1>4. PICK m \in T : \A u \in T : ~(<<u, m>> \in R)
  <2> HIDE DEF R, F, T
  <2> QED BY <1>2, <1>3, WFMin
<1>5. PICK x \in S : m = Upto(x)
  OBVIOUS
<1>6. ASSUME NEW y \in S, ~(x <= y)
      PROVE  FALSE
  <2>1. Upto(y) \subseteq Upto(x) /\ Upto(y) # Upto(x)
    BY <1>6
  <2>2. <<Upto(y), m>> \in R
    BY <2>1, <1>5 DEF StrictSubsetOrdering
  <2> QED BY <2>2, <1>4
<1> QED BY <1>5, <1>6 DEF Least

--------------------------------------------------------------------------------
(* Addresses and pages *)

\* Quotients of natural numbers stay below the bound of the dividend.
LEMMA DivFacts ==
  ASSUME NEW a \in Nat, NEW d \in Nat \ {0}
  PROVE  /\ a \div d \in Nat
         /\ d * (a \div d) <= a
         /\ a < d * (a \div d) + d
BY SMT

\* FrameOf undoes the multiplication by the page size.
LEMMA MulDiv ==
  ASSUME NEW a \in Nat, NEW d \in Nat \ {0}
  PROVE  (a * d) \div d = a
BY SMT

\* A frame of RAM has an address below nframes * 0x1000.
LEMMA MulLess ==
  ASSUME NEW a \in Nat, NEW b \in Nat, NEW d \in Nat \ {0}
  PROVE  a * d < b * d <=> a < b
BY SMT

\* Remainders and quotients of natural numbers.
LEMMA ModFacts ==
  ASSUME NEW a \in Nat, NEW d \in Nat \ {0}
  PROVE  /\ a \div d \in Nat
         /\ a % d \in Nat
         /\ a % d < d
         /\ d * (a \div d) \in Nat
         /\ a = d * (a \div d) + (a % d)
BY SMT

\* Quotient and remainder are the only ones.
LEMMA ModUnique ==
  ASSUME NEW a \in Nat, NEW q \in Nat, NEW r \in Nat, NEW d \in Nat \ {0},
         r < d, a = d * q + r
  PROVE  a \div d = q /\ a % d = r
BY SMT

\* Quotients grow with the dividend.
LEMMA DivMonotone ==
  ASSUME NEW a \in Nat, NEW b \in Nat, NEW d \in Nat \ {0}, a <= b
  PROVE  a \div d <= b \div d
<1>1. a < d * (a \div d) + d /\ d * (a \div d) <= a
      /\ b < d * (b \div d) + d /\ a \div d \in Nat /\ b \div d \in Nat
  BY DivFacts
<1>2. d * (a \div d) < d * (b \div d) + d
  BY <1>1
<1>3. ASSUME NEW x \in Nat, NEW y \in Nat, d * x < d * y + d PROVE x <= y
  BY <1>3, SMT
<1> QED BY <1>1, <1>2, <1>3

\* The page an address is in.
LEMMA FrameFacts ==
  ASSUME NEW x \in Nat
  PROVE  /\ FrameOf(x) \in Nat
         /\ FrameOf(x + PageSize) = FrameOf(x) + 1
         /\ FrameOf(x) * PageSize <= x
         /\ x % PageSize = 0 => FrameOf(x) * PageSize = x
         /\ (x + PageSize) % PageSize = x % PageSize
         /\ x + PageSize \in Nat
<1>1. ASSUME NEW q \in Nat, NEW r \in Nat, NEW d \in Nat \ {0},
             r < d, x = d * q + r
      PROVE  (x + d) \div d = q + 1 /\ (x + d) % d = r /\ q * d = d * q
  <2>1. x + d = d * (q + 1) + r
    BY <1>1, SMT
  <2>2. x + d \in Nat /\ q + 1 \in Nat /\ q * d = d * q
    BY <1>1, SMT
  <2> QED BY <1>1, <2>1, <2>2, ModUnique
<1> DEFINE r == x % PageSize
           m == PageSize * FrameOf(x)
<1>2. /\ FrameOf(x) \in Nat /\ r \in Nat /\ r < PageSize
      /\ m \in Nat /\ x = m + r
  BY FrameAssumption, ModFacts DEF FrameOf
<1> HIDE DEF r
<1>3. /\ (x + PageSize) \div PageSize = FrameOf(x) + 1
      /\ (x + PageSize) % PageSize = r
      /\ FrameOf(x) * PageSize = m
  BY <1>1, <1>2, FrameAssumption
<1> HIDE DEF m
<1>4. FrameOf(x) * PageSize <= x /\ (r = 0 => FrameOf(x) * PageSize = x)
  BY <1>2, <1>3
<1>5. r = x % PageSize
  BY DEF r
<1>6. FrameOf(x + PageSize) = FrameOf(x) + 1
  BY <1>3 DEF FrameOf
<1>7. x + PageSize \in Nat
  BY FrameAssumption
<1> QED BY <1>2, <1>3, <1>4, <1>5, <1>6, <1>7

\* Lower addresses are in lower pages.
LEMMA FrameMonotone ==
  ASSUME NEW x \in Nat, NEW y \in Nat, x <= y
  PROVE  FrameOf(x) <= FrameOf(y)
BY FrameAssumption, DivMonotone DEF FrameOf

\* An address a page below another is in a lower page.
LEMMA FrameBelow ==
  ASSUME NEW x \in Nat, NEW y \in Nat, x + PageSize <= y
  PROVE  FrameOf(x) + 1 <= FrameOf(y)
BY FrameFacts, FrameMonotone

\* Sums of whole pages are whole pages.
LEMMA WholePages ==
  ASSUME NEW x \in Nat, NEW y \in Nat, x % PageSize = 0, y % PageSize = 0
  PROVE  /\ (x + y) % PageSize = 0
         /\ x < y => x + PageSize <= y /\ FrameOf(x) < FrameOf(y)
<1>1. ASSUME NEW a \in Nat, NEW b \in Nat, NEW d \in Nat \ {0}, x = a * d, y = b * d
      PROVE  /\ (x + y) % d = 0
             /\ x < y => a < b /\ x + d <= y
  <2>1. x + y = d * (a + b) + 0 /\ a + b \in Nat /\ x + y \in Nat /\ 0 < d
    BY <1>1, SMT
  <2>2. (x + y) % d = 0
    <3>1. \A n \in Nat : n = d * (a + b) + 0 => n % d = 0
      BY <2>1, ModUnique
    <3> QED BY <2>1, <3>1, Zenon
  <2>3. x < y => a < b
    BY <1>1, SMT
  <2>4. a < b => x + d <= y
    BY <1>1, SMT
  <2> QED BY <2>2, <2>3, <2>4
<1>2. FrameOf(x) \in Nat /\ FrameOf(y) \in Nat
      /\ x = FrameOf(x) * PageSize /\ y = FrameOf(y) * PageSize
  BY FrameFacts
<1> QED BY <1>1, <1>2, FrameAssumption

\* FirstFrame that falls off its end still names a frame of RAM, because a
\* word has more than one bit.
LEMMA FallOffInRam == FallOff \in InRam
<1>1. NFrames \in Nat \ {0} /\ WordBits \in Nat \ {0, 1}
  BY FrameAssumption
<1>2. /\ FallOff \in Nat
      /\ WordBits * FallOff <= NFrames
  BY <1>1, DivFacts DEF FallOff, IndexFromBit
<1> QED BY <1>1, <1>2, SMT DEF InRam

--------------------------------------------------------------------------------
(* The bitmap operators *)

\* FirstFrame looks at frames of RAM only.
LEMMA ScannedInRam == Scanned \subseteq InRam /\ InRam \subseteq Nat
BY FrameAssumption, DivFacts DEF Scanned, InRam, IndexFromBit

\* FirstFrame always names a frame of RAM (memorym.cpp:222-244).
LEMMA FirstFrameInRam ==
  ASSUME NEW bits
  PROVE  FirstFrame(bits) \in InRam
<1>1. CASE Scanned \ bits # {}
  BY <1>1, ScannedInRam, LeastExists DEF FirstFrame
<1>2. CASE Scanned \ bits = {}
  BY <1>2, FallOffInRam DEF FirstFrame
<1> QED BY <1>1, <1>2

\* FirstFrame returns a frame whose bit is clear, or it fell off its end and
\* no scanned frame is clear.
LEMMA FirstFrameIsFree ==
  ASSUME NEW bits
  PROVE  \/ FirstFrame(bits) \notin bits
         \/ FirstFrame(bits) = FallOff /\ Scanned \subseteq bits
<1>1. CASE Scanned \ bits # {}
  BY <1>1, ScannedInRam, LeastExists DEF FirstFrame
<1>2. CASE Scanned \ bits = {}
  BY <1>2 DEF FirstFrame
<1> QED BY <1>1, <1>2

\* When every scanned frame below n is taken and n is not, n is the first.
LEMMA FirstFrameInOrder ==
  ASSUME NEW bits, NEW n \in Scanned \ bits,
         \A f \in Scanned : f < n => f \in bits
  PROVE  FirstFrame(bits) = n
<1>1. Scanned \ bits \in SUBSET Nat /\ Scanned \ bits # {}
  BY ScannedInRam
<1>2. FirstFrame(bits) = Least(Scanned \ bits)
  BY <1>1 DEF FirstFrame
<1> DEFINE m == FirstFrame(bits)
<1>3. m \in Scanned \ bits /\ m <= n
  BY <1>1, <1>2, LeastExists
<1>4. ~(m < n)
  BY <1>3
<1> QED BY <1>1, <1>3, <1>4

\* Setting the bit of a frame by its address.
LEMMA SetFrameByAddress ==
  ASSUME NEW bits, NEW f \in Nat
  PROVE  SetFrame(bits, f * PageSize) =
           IF f \in InRam THEN bits \cup {f} ELSE bits
<1>1. (f * PageSize) \div PageSize = f
  BY FrameAssumption, MulDiv
<1>2. f * PageSize < NFrames * PageSize <=> f \in InRam
  BY FrameAssumption, MulLess DEF InRam
<1> QED BY <1>1, <1>2 DEF SetFrame, FrameOf

\* AllocFrame sets the bit of the frame it gives, and of no other.
LEMMA AllocFrameBitsValue ==
  ASSUME NEW bits, NEW pg
  PROVE  AllocFrameBits(bits, pg) =
           IF pg.Frame # 0 THEN bits ELSE bits \cup {FirstFrame(bits)}
<1>1. FirstFrame(bits) \in Nat
  BY FirstFrameInRam DEF InRam
<1> QED
  BY <1>1, FirstFrameInRam, SetFrameByAddress DEF AllocFrameBits

\* SetFrame only sets bits of frames of RAM.
LEMMA SetFrameInRam ==
  ASSUME NEW bits \in SUBSET InRam, NEW addr \in Nat
  PROVE  /\ SetFrame(bits, addr) \subseteq InRam
         /\ bits \subseteq SetFrame(bits, addr)
<1>1. CASE addr < NFrames * PageSize
  <2>1. addr \div PageSize \in Nat /\ PageSize * (addr \div PageSize) <= addr
    BY FrameAssumption, DivFacts
  <2>2. addr \div PageSize < NFrames
    BY <1>1, <2>1, FrameAssumption, SMT
  <2>3. addr \div PageSize \in InRam
    BY <2>1, <2>2, FrameAssumption DEF InRam
  <2> QED BY <2>3, <1>1 DEF SetFrame, FrameOf
<1>2. CASE ~(addr < NFrames * PageSize)
  BY <1>2 DEF SetFrame
<1> QED BY <1>1, <1>2
================================================================================
