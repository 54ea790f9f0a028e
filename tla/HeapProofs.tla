------------------------------ MODULE HeapProofs ------------------------------
(***************************************************************************)
(* Proofs about Heap, for every start, size and page size of the heap,     *)
(* every set of request sizes and every order in which clients free.       *)
(***************************************************************************)
EXTENDS Heap, FrameBitmapProofs, SequenceTheorems

--------------------------------------------------------------------------------
(* The ordered array *)

\* No item is in the array twice.
Distinct(s) == \A i, j \in 1 .. Len(s) : s[i] = s[j] => i = j

\* The items of a sequence are the values at its positions
\* (orderedarray.cpp:53-111).
LEMMA ItemsOf ==
  ASSUME NEW S, NEW s \in Seq(S)
  PROVE  /\ Len(s) \in Nat /\ DOMAIN s = 1 .. Len(s)
         /\ ToSet(s) = {s[i] : i \in 1 .. Len(s)}
         /\ ToSet(s) \subseteq S
         /\ \A i \in 1 .. Len(s) : s[i] \in S
BY LenProperties, ElementOfSeq DEF ToSet

\* The first position with a property, of those that have it.
LEMMA MinOfPositions ==
  ASSUME NEW n \in Nat, NEW I \in SUBSET (1 .. n), I # {}
  PROVE  /\ Min(I) \in I
         /\ \A i \in I : Min(I) <= i
<1>1. I \in SUBSET Nat
  OBVIOUS
<1> QED BY <1>1, LeastExists DEF Min, Least

\* Insert puts the item between the others and loses none of them
\* (orderedarray.cpp:53-94).
LEMMA InsertKeeps ==
  ASSUME NEW S, NEW s \in Seq(S), NEW item \in S, item \notin ToSet(s), Distinct(s),
         NEW less
  PROVE  /\ Insert(s, item, less) \in Seq(S)
         /\ Distinct(Insert(s, item, less))
         /\ ToSet(Insert(s, item, less)) = ToSet(s) \cup {item}
<1> DEFINE n == Len(s)
           p == InsertPosition(s, less)
           front == SubSeq(s, 1, p - 1)
           back == SubSeq(s, p, n)
           t == (front \o <<item>>) \o back
<1>1. n \in Nat /\ (\A i \in 1 .. n : s[i] \in S)
  BY ItemsOf
<1>2. p \in 1 .. n + 1
  <2> DEFINE I == {i \in 1 .. n : s[i] \notin less}
  <2>1. I # {} => Min(I) \in 1 .. n
    BY <1>1, MinOfPositions
  <2>2. p = IF I # {} /\ Min(I) # 0 THEN Min(I) ELSE n + 1
    BY <2>1, <1>1 DEF InsertPosition, SelectInSeq
  <2> HIDE DEF I, p, n
  <2> QED BY <1>1, <2>1, <2>2
<1>3. /\ front \in Seq(S) /\ Len(front) = p - 1
      /\ \A i \in 1 .. p - 1 : front[i] = s[i]
  <2>1. \A i \in 1 .. p - 1 : s[i] \in S
    BY <1>1, <1>2
  <2> HIDE DEF p, n
  <2> QED BY <1>1, <1>2, <2>1, SubSeqProperties
<1>4. /\ back \in Seq(S) /\ Len(back) = n - p + 1
      /\ \A i \in 1 .. n - p + 1 : back[i] = s[p + i - 1]
  <2>1. \A i \in p .. n : s[i] \in S
    BY <1>1, <1>2
  <2> HIDE DEF p, n
  <2> QED BY <1>1, <1>2, <2>1, SubSeqProperties
<1>5. <<item>> \in Seq(S) /\ Len(<<item>>) = 1 /\ <<item>>[1] = item
  OBVIOUS
<1>6. /\ front \o <<item>> \in Seq(S)
      /\ Len(front \o <<item>>) = p
      /\ \A i \in 1 .. p : (front \o <<item>>)[i] = IF i < p THEN s[i] ELSE item
  <2> HIDE DEF p, n, front
  <2>1. /\ front \o <<item>> \in Seq(S)
        /\ Len(front \o <<item>>) = Len(front) + Len(<<item>>)
        /\ \A i \in 1 .. Len(front) + Len(<<item>>) :
             (front \o <<item>>)[i] = IF i <= Len(front) THEN front[i]
                                      ELSE <<item>>[i - Len(front)]
    BY <1>3, <1>5, ConcatProperties
  <2> QED BY <1>1, <1>2, <1>3, <1>5, <2>1
<1>7. /\ t \in Seq(S)
      /\ Len(t) = n + 1
      /\ \A i \in 1 .. n + 1 : t[i] = IF i < p THEN s[i] ELSE IF i = p THEN item ELSE s[i - 1]
  <2> DEFINE u == front \o <<item>>
  <2> HIDE DEF p, n, back, u
  <2>1. /\ u \o back \in Seq(S)
        /\ Len(u \o back) = Len(u) + Len(back)
        /\ \A i \in 1 .. Len(u) + Len(back) :
             (u \o back)[i] = IF i <= Len(u) THEN u[i] ELSE back[i - Len(u)]
    BY <1>4, <1>6, ConcatProperties DEF u
  <2>2. t = u \o back
    BY DEF u
  <2>3. Len(u) = p /\ \A i \in 1 .. p : u[i] = IF i < p THEN s[i] ELSE item
    BY <1>6 DEF u
  <2> HIDE DEF t
  <2>4. Len(t) = n + 1
    BY <1>1, <1>2, <1>4, <2>1, <2>2, <2>3
  <2>5. ASSUME NEW i \in 1 .. n + 1
        PROVE  t[i] = IF i < p THEN s[i] ELSE IF i = p THEN item ELSE s[i - 1]
    <3>1. CASE i <= p
      BY <1>1, <1>2, <1>4, <2>1, <2>2, <2>3, <3>1
    <3>2. CASE i > p
      <4>1. i - p \in 1 .. n - p + 1 /\ p + (i - p) - 1 = i - 1
        BY <1>1, <1>2, <3>2
      <4>2. i \in 1 .. Len(u) + Len(back) /\ ~(i <= Len(u)) /\ Len(u) = p
        BY <1>1, <1>2, <1>4, <2>3, <3>2
      <4>3. (u \o back)[i] = back[i - p]
        BY <2>1, <4>2
      <4>4. t[i] = back[i - p]
        BY <2>2, <4>3
      <4> QED BY <1>2, <1>4, <3>2, <4>1, <4>4
    <3> QED BY <1>1, <1>2, <3>1, <3>2
  <2> QED BY <2>1, <2>2, <2>4, <2>5
<1>8. Insert(s, item, less) = t
  BY DEF Insert, InsertAt
<1> HIDE DEF t, p, n
<1>9. \A i \in 1 .. n : s[i] # item
  BY ItemsOf DEF n
<1>10. Distinct(t)
  <2> SUFFICES ASSUME NEW i \in 1 .. n + 1, NEW j \in 1 .. n + 1, i # j, t[i] = t[j]
               PROVE  FALSE
    BY <1>7 DEF Distinct
  <2> DEFINE F(k) == IF k < p THEN k ELSE k - 1
  <2>1. \A k \in 1 .. n + 1 : k # p => F(k) \in 1 .. n /\ t[k] = s[F(k)]
    BY <1>1, <1>2, <1>7
  <2>2. t[p] = item
    BY <1>1, <1>2, <1>7
  <2>3. i # p /\ j # p
    BY <1>9, <2>1, <2>2
  <2>4. F(i) # F(j)
    BY <1>1, <1>2, <2>3
  <2> HIDE DEF F
  <2> QED BY <2>1, <2>3, <2>4 DEF Distinct, n
<1>11. ToSet(t) = ToSet(s) \cup {item}
  <2>1. ToSet(t) = {t[i] : i \in 1 .. n + 1}
    BY <1>7, ItemsOf
  <2>2. ToSet(s) = {s[i] : i \in 1 .. n}
    BY ItemsOf DEF n
  <2>3. ASSUME NEW i \in 1 .. n + 1
        PROVE  t[i] \in ToSet(s) \cup {item}
    <3>1. i - 1 \in 1 .. n \/ i <= p
      BY <1>1, <1>2
    <3>2. i \in 1 .. n \/ i >= p
      BY <1>1, <1>2
    <3> QED BY <1>1, <1>2, <1>7, <2>2, <3>1, <3>2
  <2>4. ASSUME NEW i \in 1 .. n
        PROVE  s[i] \in ToSet(t)
    <3>1. CASE i < p
      BY <1>1, <1>2, <1>7, <2>1, <3>1
    <3>2. CASE i >= p
      <4>1. i + 1 \in 1 .. n + 1 /\ t[i + 1] = s[i]
        BY <1>1, <1>2, <1>7, <3>2
      <4> QED BY <4>1, <2>1
    <3> QED BY <1>1, <1>2, <3>1, <3>2
  <2>5. item \in ToSet(t)
    <3>1. t[p] = item
      BY <1>1, <1>2, <1>7
    <3> QED BY <1>2, <2>1, <3>1
  <2> QED BY <2>1, <2>2, <2>3, <2>4, <2>5
<1> QED BY <1>7, <1>8, <1>10, <1>11

\* RemoveAt takes one item out and keeps the others (orderedarray.cpp:102-111).
LEMMA RemoveKeeps ==
  ASSUME NEW S, NEW s \in Seq(S), NEW k \in 1 .. Len(s), Distinct(s)
  PROVE  /\ RemoveItem(s, k) \in Seq(S)
         /\ Distinct(RemoveItem(s, k))
         /\ ToSet(RemoveItem(s, k)) = ToSet(s) \ {s[k]}
<1> DEFINE n == Len(s)
           front == SubSeq(s, 1, k - 1)
           back == SubSeq(s, k + 1, n)
           t == front \o back
<1>1. n \in Nat /\ k \in 1 .. n /\ (\A i \in 1 .. n : s[i] \in S)
  BY ItemsOf
<1>2. t = RemoveItem(s, k)
  BY DEF RemoveItem, RemoveAt
<1>3. /\ front \in Seq(S) /\ Len(front) = k - 1
      /\ \A i \in 1 .. k - 1 : front[i] = s[i]
  <2>1. \A i \in 1 .. k - 1 : s[i] \in S
    BY <1>1
  <2> HIDE DEF n
  <2> QED BY <1>1, <2>1, SubSeqProperties
<1>4. /\ back \in Seq(S) /\ Len(back) = n - k
      /\ \A i \in 1 .. n - k : back[i] = s[k + i]
  <2>1. \A i \in k + 1 .. n : s[i] \in S
    BY <1>1
  <2> HIDE DEF n
  <2>2. /\ back \in Seq(S) /\ Len(back) = IF k + 1 <= n THEN n - (k + 1) + 1 ELSE 0
        /\ \A i \in 1 .. n - (k + 1) + 1 : back[i] = s[(k + 1) + i - 1]
    BY <1>1, <2>1, SubSeqProperties
  <2> HIDE DEF back
  <2> QED BY <1>1, <2>2
<1> HIDE DEF n, front, back
<1>5. /\ t \in Seq(S)
      /\ Len(t) = n - 1
      /\ \A i \in 1 .. n - 1 : t[i] = IF i < k THEN s[i] ELSE s[i + 1]
  <2>1. /\ t \in Seq(S)
        /\ Len(t) = Len(front) + Len(back)
        /\ \A i \in 1 .. Len(front) + Len(back) :
             t[i] = IF i <= Len(front) THEN front[i] ELSE back[i - Len(front)]
    BY <1>3, <1>4, ConcatProperties
  <2> HIDE DEF t
  <2>2. Len(t) = n - 1
    BY <1>1, <1>3, <1>4, <2>1
  <2>3. ASSUME NEW i \in 1 .. n - 1
        PROVE  t[i] = IF i < k THEN s[i] ELSE s[i + 1]
    <3>1. CASE i < k
      BY <1>1, <1>3, <1>4, <2>1, <3>1
    <3>2. CASE i >= k
      <4>1. i - (k - 1) \in 1 .. n - k /\ k + (i - (k - 1)) = i + 1
        BY <1>1, <3>2
      <4>2. t[i] = back[i - (k - 1)]
        BY <1>1, <1>3, <1>4, <2>1, <3>2
      <4> QED BY <1>1, <1>4, <3>2, <4>1, <4>2
    <3> QED BY <1>1, <3>1, <3>2
  <2> QED BY <2>1, <2>2, <2>3
<1> HIDE DEF t
<1>6. Distinct(t)
  <2> SUFFICES ASSUME NEW i \in 1 .. n - 1, NEW j \in 1 .. n - 1, i # j, t[i] = t[j]
               PROVE  FALSE
    BY <1>5 DEF Distinct
  <2> DEFINE F(l) == IF l < k THEN l ELSE l + 1
  <2>1. \A l \in 1 .. n - 1 : F(l) \in 1 .. n /\ t[l] = s[F(l)]
    BY <1>1, <1>5
  <2>2. F(i) # F(j)
    BY <1>1
  <2> HIDE DEF F
  <2> QED BY <2>1, <2>2 DEF Distinct, n
<1>7. ToSet(t) = ToSet(s) \ {s[k]}
  <2>1. ToSet(t) = {t[i] : i \in 1 .. n - 1}
    BY <1>5, ItemsOf
  <2>2. ToSet(s) = {s[i] : i \in 1 .. n}
    BY ItemsOf DEF n
  <2>3. ASSUME NEW i \in 1 .. n - 1
        PROVE  t[i] \in ToSet(s) \ {s[k]}
    <3> DEFINE j == IF i < k THEN i ELSE i + 1
    <3>1. j \in 1 .. n /\ j # k /\ t[i] = s[j]
      BY <1>1, <1>5
    <3> QED BY <1>1, <2>2, <3>1 DEF Distinct, n
  <2>4. ASSUME NEW i \in 1 .. n, i # k
        PROVE  s[i] \in ToSet(t)
    <3>1. CASE i < k
      BY <1>1, <1>5, <2>1, <3>1
    <3>2. CASE i > k
      <4>1. i - 1 \in 1 .. n - 1 /\ t[i - 1] = s[i]
        BY <1>1, <1>5, <3>2
      <4> QED BY <4>1, <2>1
    <3> QED BY <1>1, <2>4, <3>1, <3>2
  <2> QED BY <2>1, <2>2, <2>3, <2>4
<1> QED BY <1>2, <1>5, <1>6, <1>7

\* The loops that look for an item find it, or say 0 when it is not there
\* (memorym.cpp:631-642, 664-676).
LEMMA FindFinds ==
  ASSUME NEW S, NEW s \in Seq(S), NEW item
  PROVE  /\ item \in ToSet(s) => Find(s, item) \in 1 .. Len(s) /\ s[Find(s, item)] = item
         /\ item \notin ToSet(s) => Find(s, item) = 0
<1> DEFINE I == {i \in 1 .. Len(s) : s[i] = item}
<1>1. Len(s) \in Nat /\ ToSet(s) = {s[i] : i \in 1 .. Len(s)}
  BY ItemsOf
<1>2. Find(s, item) = IF I # {} THEN Min(I) ELSE 0
  BY DEF Find, SelectInSeq
<1>3. I # {} => Min(I) \in I
  BY <1>1, MinOfPositions
<1> QED BY <1>1, <1>2, <1>3

\* In an array without duplicates there are as many items as positions.
LEMMA LengthIsCount ==
  ASSUME NEW S, NEW s \in Seq(S), Distinct(s)
  PROVE  Len(s) = Cardinality(ToSet(s))
<1>1. Len(s) \in Nat /\ DOMAIN s = 1 .. Len(s) /\ ToSet(s) = {s[i] : i \in 1 .. Len(s)}
  BY ItemsOf
<1>2. IsFiniteSet(1 .. Len(s)) /\ Cardinality(1 .. Len(s)) = Len(s)
  BY <1>1, FS_Interval
<1> DEFINE f == [i \in 1 .. Len(s) |-> s[i]]
<1>3. f \in Bijection(1 .. Len(s), ToSet(s))
  <2>1. f \in Injection(1 .. Len(s), ToSet(s))
    BY <1>1 DEF Distinct, Injection, IsInjective
  <2>2. f \in Surjection(1 .. Len(s), ToSet(s))
    BY <1>1 DEF Surjection
  <2> QED BY <2>1, <2>2 DEF Bijection
<1>4. ExistsBijection(1 .. Len(s), ToSet(s))
  BY <1>3 DEF ExistsBijection
<1> QED BY <1>2, <1>4, FS_Bijection

--------------------------------------------------------------------------------
(* Words of memory *)

Addr == Start .. MaxAddress - 1
Mem == [Addr -> Int]
Ends == Start + Overhead .. MaxAddress

\* What the constants are.
LEMMA Constants ==
  /\ Start \in Nat /\ MaxAddress \in Nat /\ AddressMod \in Nat /\ InitialEnd \in Ends
  /\ MaxAddress < AddressMod /\ Start > 0
  /\ Overhead = 5 /\ Hdr = 3 /\ Ftr = 2
BY HeapAssumption, FrameAssumption DEF Ends, Overhead, Hdr, Ftr

\* Differences and sums of addresses of the heap do not wrap around.
LEMMA NoWrap ==
  ASSUME NEW a \in Nat, NEW b \in Nat
  PROVE  /\ b <= a /\ a < AddressMod => Sub(a, b) = a - b
         /\ a + b < AddressMod => Plus(a, b) = a + b
<1>1. \A c \in Nat : c < AddressMod => c % AddressMod = c
  BY Constants, SMT
<1>2. b <= a => a - b \in Nat /\ a - b <= a
  OBVIOUS
<1> QED BY <1>1, <1>2, Constants DEF Sub, Plus

\* Writing one word changes that word, and reading gives what is there
\* (memorym.cpp:578-816).
LEMMA WordWritten ==
  ASSUME NEW m \in Mem, NEW a \in Addr, NEW v \in Int
  PROVE  /\ Write(m, a, v) \in Mem
         /\ \A b \in Addr :
              Write(m, a, v)[b] = IF b = a THEN v ELSE m[b]
BY DEF Write, Mem

\* A word inside the heap is read from its memory (memorym.cpp:582-595).
LEMMA WordRead ==
  ASSUME NEW m \in Mem, NEW a \in Addr
  PROVE  Read(m, a) = m[a] /\ m[a] \in Int
BY DEF Read, Mem

\* A header takes three words (memorym.cpp:771-774, 801-804).
LEMMA HeaderWritten ==
  ASSUME NEW m \in Mem, NEW h \in Int, NEW f \in Int, NEW n \in Int,
         Start <= h, h + 3 <= MaxAddress
  PROVE  /\ WriteHeader(m, h, f, n) \in Mem
         /\ \A b \in Addr :
              WriteHeader(m, h, f, n)[b] =
                IF b = h THEN Magic ELSE IF b = h + 1 THEN f
                ELSE IF b = h + 2 THEN n ELSE m[b]
<1> DEFINE h1 == h + 1
           h2 == h + 2
           m1 == Write(m, h, Magic)
           m2 == Write(m1, h1, f)
           m3 == Write(m2, h2, n)
<1>0. /\ h \in Addr /\ h1 \in Addr /\ h2 \in Addr /\ Magic \in Int
      /\ h # h1 /\ h # h2 /\ h1 # h2
  BY Constants DEF Magic, Addr
<1>4. m3 = WriteHeader(m, h, f, n)
  BY DEF WriteHeader
<1> HIDE DEF m1, m2, m3, h1, h2
<1>1. m1 \in Mem /\ \A b \in Addr : m1[b] = IF b = h THEN Magic ELSE m[b]
  <2>1. m \in Mem /\ h \in Addr /\ Magic \in Int
    BY <1>0
  <2>2. Write(m, h, Magic) \in Mem
    BY <2>1, WordWritten
  <2>3. \A b \in Addr : Write(m, h, Magic)[b] = IF b = h THEN Magic ELSE m[b]
    BY <2>1, WordWritten
  <2> QED BY <2>2, <2>3 DEF m1
<1>2. m2 \in Mem /\ \A b \in Addr : m2[b] = IF b = h1 THEN f ELSE m1[b]
  <2>1. m1 \in Mem /\ h1 \in Addr /\ f \in Int
    BY <1>0, <1>1
  <2>2. Write(m1, h1, f) \in Mem
    BY <2>1, WordWritten
  <2>3. \A b \in Addr : Write(m1, h1, f)[b] = IF b = h1 THEN f ELSE m1[b]
    BY <2>1, WordWritten
  <2> QED BY <2>2, <2>3 DEF m2
<1>3. m3 \in Mem /\ \A b \in Addr : m3[b] = IF b = h2 THEN n ELSE m2[b]
  <2>1. m2 \in Mem /\ h2 \in Addr /\ n \in Int
    BY <1>0, <1>2
  <2>2. Write(m2, h2, n) \in Mem
    BY <2>1, WordWritten
  <2>3. \A b \in Addr : Write(m2, h2, n)[b] = IF b = h2 THEN n ELSE m2[b]
    BY <2>1, WordWritten
  <2> QED BY <2>2, <2>3 DEF m3
<1>5. \A b \in Addr : m3[b] = IF b = h THEN Magic ELSE IF b = h1 THEN f
                              ELSE IF b = h2 THEN n ELSE m[b]
  BY <1>0, <1>1, <1>2, <1>3
<1> QED BY <1>3, <1>4, <1>5 DEF h1, h2

\* A footer takes two words (memorym.cpp:776-780, 806-812).
LEMMA FooterWritten ==
  ASSUME NEW m \in Mem, NEW f \in Int, NEW h \in Int,
         Start <= f, f + 2 <= MaxAddress
  PROVE  /\ WriteFooter(m, f, h) \in Mem
         /\ \A b \in Addr :
              WriteFooter(m, f, h)[b] =
                IF b = f THEN Magic ELSE IF b = f + 1 THEN h ELSE m[b]
<1> DEFINE m1 == Write(m, f, Magic)
           m2 == Write(m1, f + 1, h)
<1>0. /\ f \in Addr /\ f + 1 \in Addr
      /\ Magic \in Int /\ f \in Int
  BY Constants DEF Magic, Addr
<1>1. m1 \in Mem /\ \A b \in Addr : m1[b] = IF b = f THEN Magic ELSE m[b]
  BY <1>0, WordWritten
<1> HIDE DEF m1
<1>2. m2 \in Mem /\ \A b \in Addr : m2[b] = IF b = f + 1 THEN h ELSE m1[b]
  <2> DEFINE a == f + 1
  <2>1. a \in Addr /\ h \in Int /\ m1 \in Mem
    BY <1>0, <1>1
  <2> HIDE DEF a
  <2>2. /\ Write(m1, a, h) \in Mem
        /\ \A b \in Addr : Write(m1, a, h)[b] = IF b = a THEN h ELSE m1[b]
    BY <2>1, WordWritten
  <2> QED BY <2>2 DEF a
<1>3. m2 = WriteFooter(m, f, h)
  BY DEF WriteFooter, m1
<1> HIDE DEF m2
<1>4. f # f + 1
  BY <1>0
<1> QED BY <1>1, <1>2, <1>3, <1>4

--------------------------------------------------------------------------------
(* Chunks: blocks and holes *)

\* A header and, in a block and in a hole that is not the heap's last, a footer
\* that points to it.
Chunk(m, h, flag, e) ==
  /\ h \in Start .. e - Overhead
  /\ SizeOf(m, h) \in Overhead .. e - h
  /\ Read(m, h) = Magic /\ Read(m, h + 1) = flag
  /\ h + SizeOf(m, h) # e \/ flag = 0 =>
       /\ Read(m, h + SizeOf(m, h) - Ftr) = Magic
       /\ HeaderOf(m, h + SizeOf(m, h) - Ftr) = h

\* The words of lo .. hi - 1 belong to one chunk each.
Tiling(m, C, lo, hi) ==
  /\ \A h \in C : lo <= h /\ h + SizeOf(m, h) <= hi
  /\ \A g, h \in C : g < h => g + SizeOf(m, g) <= h
  /\ \A a \in lo .. hi - 1 : \E h \in C : h <= a /\ a < h + SizeOf(m, h)

Apart(m, H) == \A h \in H : h + SizeOf(m, h) \notin H

\* No hole ends at b, the chunks of C lie outside lo .. hi - 1, and nothing
\* outside is written.
NoneEndsAt(m, H, b) == \A c \in H : c + SizeOf(m, c) # b
Beside(m, C, lo, hi) == \A h \in C : h + SizeOf(m, h) <= lo \/ hi <= h
SameOutside(m, m2, lo, hi) == \A a \in Addr : a < lo \/ hi <= a => m2[a] = m[a]

\* Blocks B and holes H fill a heap that ends at e.
Layout(m, B, H, e) ==
  /\ \A h \in B : Chunk(m, h, 0, e)
  /\ \A h \in H : Chunk(m, h, 1, e)
  /\ Tiling(m, B \cup H, Start, e)
  /\ Apart(m, H)

\* A chunk is what its own words make it.
LEMMA ChunkKept ==
  ASSUME NEW m \in Mem, NEW m2 \in Mem, NEW e \in Ends, NEW h, NEW flag, Chunk(m, h, flag, e),
         \A a \in h .. h + SizeOf(m, h) - 1 : m2[a] = m[a]
  PROVE  Chunk(m2, h, flag, e) /\ SizeOf(m2, h) = SizeOf(m, h)
<1> DEFINE n == SizeOf(m, h)
<1>1. /\ e \in Start + 5 .. MaxAddress /\ Start \in Nat /\ MaxAddress \in Nat
      /\ Overhead = 5 /\ Ftr = 2
  BY Constants DEF Ends
<1>2. h \in Int /\ Start <= h /\ h + 5 <= e
  BY <1>1 DEF Chunk
<1>3. n \in Int /\ 5 <= n /\ h + n <= e
  BY <1>1, <1>2 DEF Chunk
<1> HIDE DEF n
<1>4. \A a \in h .. h + n - 1 : Read(m2, a) = Read(m, a)
  BY <1>1, <1>2, <1>3, WordRead DEF n, Addr
<1>5. /\ Read(m2, h) = Read(m, h) /\ Read(m2, h + 1) = Read(m, h + 1)
      /\ Read(m2, h + 2) = Read(m, h + 2)
      /\ Read(m2, h + n - Ftr) = Read(m, h + n - Ftr)
      /\ Read(m2, (h + n - Ftr) + 1) = Read(m, (h + n - Ftr) + 1)
  BY <1>1, <1>2, <1>3, <1>4
<1>6. SizeOf(m2, h) = n
  BY <1>5 DEF SizeOf, n
<1>7. HeaderOf(m2, h + n - Ftr) = HeaderOf(m, h + n - Ftr)
  BY <1>5 DEF HeaderOf
<1> QED BY <1>5, <1>6, <1>7 DEF Chunk, n

\* Chunks that fill the same words take the place of others.
LEMMA TilingReplaced ==
  ASSUME NEW m, NEW m2, NEW C \in SUBSET Int, NEW X \in SUBSET C, NEW Y \in SUBSET Int,
         NEW lo \in Int, NEW hi \in Int, NEW s \in Int, NEW e \in Int,
         \A h \in C : SizeOf(m, h) \in Int /\ SizeOf(m, h) > 0,
         \A h \in Y : SizeOf(m2, h) \in Int /\ SizeOf(m2, h) > 0,
         s <= lo, hi <= e, Tiling(m, C, s, e), Tiling(m2, Y, lo, hi),
         \A h \in C \ X : h + SizeOf(m, h) <= lo \/ hi <= h,
         \A h \in X : lo <= h /\ h + SizeOf(m, h) <= hi,
         \A h \in C \ X : SizeOf(m2, h) = SizeOf(m, h)
  PROVE  Tiling(m2, (C \ X) \cup Y, s, e)
<1> DEFINE D == (C \ X) \cup Y
<1>1. ASSUME NEW h \in D PROVE s <= h /\ h + SizeOf(m2, h) <= e
  BY DEF Tiling
<1>2. ASSUME NEW g \in D, NEW h \in D, g < h PROVE g + SizeOf(m2, g) <= h
  <2>1. CASE g \in C \ X /\ h \in C \ X
    BY <1>2, <2>1 DEF Tiling
  <2>2. CASE g \in Y /\ h \in Y
    BY <1>2, <2>2 DEF Tiling
  <2>3. CASE g \in C \ X /\ h \in Y
    <3>1. lo <= h /\ h + SizeOf(m2, h) <= hi
      BY <2>3 DEF Tiling
    <3> QED BY <1>2, <2>3, <3>1
  <2>4. CASE g \in Y /\ h \in C \ X
    <3>1. lo <= g /\ g + SizeOf(m2, g) <= hi
      BY <2>4 DEF Tiling
    <3> QED BY <1>2, <2>4, <3>1
  <2> QED BY <2>1, <2>2, <2>3, <2>4
<1>3. ASSUME NEW a \in s .. e - 1
      PROVE  \E h \in D : h <= a /\ a < h + SizeOf(m2, h)
  <2>1. CASE lo <= a /\ a < hi
    <3>1. a \in lo .. hi - 1
      BY <2>1
    <3> QED BY <3>1 DEF Tiling
  <2>2. CASE a < lo \/ hi <= a
    <3>1. PICK h \in C : h <= a /\ a < h + SizeOf(m, h)
      BY DEF Tiling
    <3>2. h \notin X
      BY <2>2, <3>1
    <3> QED BY <3>1, <3>2
  <2> QED BY <2>1, <2>2
<1> QED BY <1>1, <1>2, <1>3 DEF Tiling

\* What the parts of a layout are.
LEMMA LayoutParts ==
  ASSUME NEW m \in Mem, NEW e \in Ends, NEW B, NEW H, Layout(m, B, H, e)
  PROVE  /\ \A h \in B \cup H : /\ h \in Nat /\ SizeOf(m, h) \in Nat
                                /\ Start <= h /\ 5 <= SizeOf(m, h)
                                /\ h + SizeOf(m, h) <= e
         /\ B \cap H = {}
         /\ e \in Nat /\ Start < e /\ e <= MaxAddress
<1>1. e \in Nat /\ Start < e /\ e <= MaxAddress /\ Start \in Nat /\ Overhead = 5
  BY Constants DEF Ends
<1>2. ASSUME NEW h \in B \cup H
      PROVE  h \in Nat /\ SizeOf(m, h) \in Nat /\ Start <= h /\ 5 <= SizeOf(m, h)
             /\ h + SizeOf(m, h) <= e
  BY <1>1 DEF Layout, Chunk
<1>3. B \cap H = {}
  BY DEF Layout, Chunk
<1> QED BY <1>1, <1>2, <1>3

\* What lies right after a chunk is a chunk (memorym.cpp:615-616).
LEMMA Following ==
  ASSUME NEW m \in Mem, NEW e \in Ends, NEW B, NEW H, Layout(m, B, H, e),
         NEW h \in B \cup H, h + SizeOf(m, h) < e
  PROVE  h + SizeOf(m, h) \in B \cup H
<1> DEFINE t == h + SizeOf(m, h)
<1>1. \A g \in B \cup H : g \in Nat /\ SizeOf(m, g) \in Nat /\ Start <= g /\ 5 <= SizeOf(m, g)
  BY LayoutParts
<1>2. e \in Nat /\ Start \in Nat
  BY LayoutParts, Constants
<1>3. t \in Start .. e - 1
  BY <1>1, <1>2
<1>4. PICK g \in B \cup H : g <= t /\ t < g + SizeOf(m, g)
  BY <1>3 DEF Layout, Tiling
<1>5. ~(g < h) /\ g # h
  BY <1>1, <1>4 DEF Layout, Tiling
<1>6. h + SizeOf(m, h) <= g
  BY <1>1, <1>5 DEF Layout, Tiling
<1> QED BY <1>1, <1>4, <1>6

\* What lies right before a chunk is a chunk (memorym.cpp:604).
LEMMA Preceding ==
  ASSUME NEW m \in Mem, NEW e \in Ends, NEW B, NEW H, Layout(m, B, H, e),
         NEW h \in B \cup H, h # Start
  PROVE  \E g \in B \cup H : g + SizeOf(m, g) = h /\ g < h
<1>1. \A g \in B \cup H : /\ g \in Nat /\ SizeOf(m, g) \in Nat /\ Start <= g
                          /\ 5 <= SizeOf(m, g) /\ g + SizeOf(m, g) <= e
  BY LayoutParts
<1>2. e \in Nat /\ Start \in Nat
  BY LayoutParts, Constants
<1>3. h - 1 \in Start .. e - 1
  BY <1>1, <1>2
<1>4. PICK g \in B \cup H : g <= h - 1 /\ h - 1 < g + SizeOf(m, g)
  BY <1>3 DEF Layout, Tiling
<1>5. g < h
  BY <1>1, <1>4
<1>6. g + SizeOf(m, g) <= h
  BY <1>5 DEF Layout, Tiling
<1> QED BY <1>1, <1>4, <1>5, <1>6

\* Chunks outside the words that are written stay what they are.
LEMMA OthersKept ==
  ASSUME NEW m \in Mem, NEW m2 \in Mem, NEW e \in Ends, NEW B, NEW H, Layout(m, B, H, e),
         NEW X \in SUBSET (B \cup H), NEW lo \in Int, NEW hi \in Int,
         Beside(m, (B \cup H) \ X, lo, hi), SameOutside(m, m2, lo, hi)
  PROVE  /\ \A h \in (B \cup H) \ X : SizeOf(m2, h) = SizeOf(m, h)
         /\ \A h \in B \ X : Chunk(m2, h, 0, e)
         /\ \A h \in H \ X : Chunk(m2, h, 1, e)
<1>1. \A h \in B \cup H : /\ h \in Nat /\ SizeOf(m, h) \in Nat /\ Start <= h
                          /\ 5 <= SizeOf(m, h) /\ h + SizeOf(m, h) <= e
  BY LayoutParts
<1>2. e \in Nat /\ Start \in Nat /\ MaxAddress \in Nat /\ e <= MaxAddress
  BY LayoutParts, Constants
<1>3. ASSUME NEW h \in (B \cup H) \ X, NEW a \in h .. h + SizeOf(m, h) - 1
      PROVE  m2[a] = m[a]
  <2>1. a \in Addr /\ a \in Int
    BY <1>1, <1>2 DEF Addr
  <2>2. a < lo \/ hi <= a
    BY <1>1 DEF Beside
  <2> QED BY <2>1, <2>2 DEF SameOutside
<1>4. ASSUME NEW h \in (B \cup H) \ X, NEW flag, Chunk(m, h, flag, e)
      PROVE  Chunk(m2, h, flag, e) /\ SizeOf(m2, h) = SizeOf(m, h)
  BY <1>3, <1>4, ChunkKept
<1> QED BY <1>4 DEF Layout

\* Chunks that fill the same words take the place of others in a layout.
LEMMA LayoutReplaced ==
  ASSUME NEW m \in Mem, NEW m2 \in Mem, NEW e \in Ends, NEW B, NEW H, Layout(m, B, H, e),
         NEW X \in SUBSET (B \cup H), NEW lo \in Int, NEW hi \in Int,
         Beside(m, (B \cup H) \ X, lo, hi), SameOutside(m, m2, lo, hi),
         Start <= lo, hi <= e,
         \A h \in X : lo <= h /\ h + SizeOf(m, h) <= hi,
         NEW YB, NEW YH, Tiling(m2, YB \cup YH, lo, hi),
         \A h \in YB : Chunk(m2, h, 0, e),
         \A h \in YH : Chunk(m2, h, 1, e),
         Apart(m2, (H \ X) \cup YH)
  PROVE  Layout(m2, (B \ X) \cup YB, (H \ X) \cup YH, e)
<1> DEFINE C == B \cup H
           Y == YB \cup YH
<1>1. \A h \in C : h \in Int /\ SizeOf(m, h) \in Int /\ SizeOf(m, h) > 0
  BY LayoutParts
<1>2. e \in Int /\ Start \in Int /\ Overhead = 5
  BY LayoutParts, Constants
<1>3. \A h \in Y : h \in Int /\ SizeOf(m2, h) \in Int /\ SizeOf(m2, h) > 0
  BY <1>2 DEF Chunk
<1>4. /\ \A h \in C \ X : SizeOf(m2, h) = SizeOf(m, h)
      /\ \A h \in B \ X : Chunk(m2, h, 0, e)
      /\ \A h \in H \ X : Chunk(m2, h, 1, e)
  BY OthersKept
<1>5. Tiling(m, C, Start, e)
  BY DEF Layout
<1>6. Tiling(m2, (C \ X) \cup Y, Start, e)
  <2>1. C \in SUBSET Int /\ X \in SUBSET C /\ Y \in SUBSET Int
    BY <1>1, <1>3
  <2>2. \A h \in C \ X : h + SizeOf(m, h) <= lo \/ hi <= h
    BY DEF Beside
  <2>3. Tiling(m2, Y, lo, hi)
    OBVIOUS
  <2> HIDE DEF C, Y
  <2> QED BY <1>1, <1>2, <1>3, <1>4, <1>5, <2>1, <2>2, <2>3, TilingReplaced
<1>7. (C \ X) \cup Y = ((B \ X) \cup YB) \cup ((H \ X) \cup YH)
  OBVIOUS
<1>8. Tiling(m2, ((B \ X) \cup YB) \cup ((H \ X) \cup YH), Start, e)
  BY <1>6, <1>7
<1> QED BY <1>4, <1>8 DEF Layout

\* One chunk fills the words it spans (memorym.cpp:597-622).
LEMMA TilingOfOne ==
  ASSUME NEW m, NEW h \in Int, NEW n \in Int, n > 0, SizeOf(m, h) = n
  PROVE  Tiling(m, {h}, h, h + n)
BY DEF Tiling

\* Two chunks that follow each other fill the words they span
\* (memorym.cpp:807-816).
LEMMA TilingOfTwo ==
  ASSUME NEW m, NEW h \in Int, NEW n \in Int, n > 0, SizeOf(m, h) = n,
         NEW r \in Int, r > 0, SizeOf(m, h + n) = r
  PROVE  Tiling(m, {h, h + n}, h, h + n + r)
BY DEF Tiling

\* Reading sees the last word written, and outside the heap always the same.
LEMMA ReadWritten ==
  ASSUME NEW m \in Mem, NEW a \in Addr, NEW v \in Int
  PROVE  /\ Write(m, a, v) \in Mem
         /\ \A x : Read(Write(m, a, v), x) = IF x = a THEN v ELSE Read(m, x)
<1>1. Write(m, a, v) \in Mem
  BY WordWritten
<1>2. DOMAIN m = Addr /\ DOMAIN Write(m, a, v) = Addr
  BY <1>1 DEF Mem
<1>3. ASSUME NEW x
      PROVE  Read(Write(m, a, v), x) = IF x = a THEN v ELSE Read(m, x)
  <2>1. CASE x \in Addr
    <3>1. Write(m, a, v)[x] = IF x = a THEN v ELSE m[x]
      BY <2>1, WordWritten
    <3> QED BY <1>2, <2>1, <3>1 DEF Read
  <2>2. CASE x \notin Addr
    BY <1>2, <2>2 DEF Read
  <2> QED BY <2>1, <2>2
<1> QED BY <1>1, <1>3

\* A header and its footer make a chunk, and touch no other
\* (memorym.cpp:771-780, 801-812).
LEMMA ChunkWritten ==
  ASSUME NEW m \in Mem, NEW h \in Int, NEW n \in Int, NEW flag \in Int, NEW e \in Ends,
         Start <= h, 5 <= n, h + n <= e
  PROVE  LET m2 == WriteFooter(WriteHeader(m, h, flag, n), h + n - Ftr, h) IN
         /\ m2 \in Mem
         /\ SameOutside(m, m2, h, h + n)
         /\ Chunk(m2, h, flag, e) /\ SizeOf(m2, h) = n
<1> DEFINE m1 == WriteHeader(m, h, flag, n)
           f == h + n - Ftr
           m2 == WriteFooter(m1, f, h)
<1>1. /\ e \in Nat /\ Start \in Nat /\ MaxAddress \in Nat /\ e <= MaxAddress
      /\ Ftr = 2 /\ Overhead = 5
  BY Constants DEF Ends
<1>2. /\ m1 \in Mem
      /\ \A a \in Addr : m1[a] = IF a = h THEN Magic ELSE IF a = h + 1 THEN flag
                                 ELSE IF a = h + 2 THEN n ELSE m[a]
  <2>1. h + 3 <= MaxAddress
    BY <1>1
  <2> QED BY <2>1, HeaderWritten
<1> HIDE DEF m1
<1>3. /\ m2 \in Mem
      /\ \A a \in Addr : m2[a] = IF a = f THEN Magic ELSE IF a = f + 1 THEN h ELSE m1[a]
  <2>1. f \in Int /\ Start <= f /\ f + 2 <= MaxAddress
    BY <1>1
  <2> HIDE DEF f
  <2> QED BY <1>2, <2>1, FooterWritten
<1> HIDE DEF m2
<1>4. h \in Addr /\ h + 1 \in Addr /\ h + 2 \in Addr /\ f \in Addr /\ f + 1 \in Addr
  BY <1>1 DEF Addr
<1>5. f \in Int /\ f >= h + 3
  BY <1>1
<1>6. m2[h] = Magic /\ m2[h + 1] = flag /\ m2[h + 2] = n /\ m2[f] = Magic /\ m2[f + 1] = h
  <2>1. /\ h # f /\ h # f + 1 /\ h + 1 # f /\ h + 1 # f + 1 /\ h + 2 # f /\ h + 2 # f + 1
        /\ f # f + 1 /\ h # h + 1 /\ h # h + 2 /\ h + 1 # h + 2
    BY <1>5
  <2> HIDE DEF f
  <2> QED BY <1>2, <1>3, <1>4, <2>1
<1>7. /\ Read(m2, h) = Magic /\ Read(m2, h + 1) = flag /\ Read(m2, h + 2) = n
      /\ Read(m2, f) = Magic /\ Read(m2, f + 1) = h
  <2> HIDE DEF f
  <2> QED BY <1>3, <1>4, <1>6, WordRead
<1>8. SizeOf(m2, h) = n /\ HeaderOf(m2, f) = h
  <2> HIDE DEF f
  <2> QED BY <1>7 DEF SizeOf, HeaderOf
<1>9. Chunk(m2, h, flag, e)
  BY <1>1, <1>7, <1>8 DEF Chunk
<1>10. ASSUME NEW a \in Addr, a < h \/ h + n <= a PROVE m2[a] = m[a]
  <2>1. a # h /\ a # h + 1 /\ a # h + 2 /\ a # f /\ a # f + 1
    BY <1>1, <1>10 DEF Addr
  <2> HIDE DEF f
  <2> QED BY <1>2, <1>3, <2>1
<1>12. SameOutside(m, m2, h, h + n)
  BY <1>10 DEF SameOutside
<1>11. m2 = WriteFooter(WriteHeader(m, h, flag, n), h + n - Ftr, h)
  BY DEF m2, m1
<1> HIDE DEF f
<1> QED BY <1>3, <1>8, <1>9, <1>11, <1>12

\* The other chunks lie before or after a chunk.
LEMMA BesideOne ==
  ASSUME NEW m \in Mem, NEW e \in Ends, NEW B, NEW H, Layout(m, B, H, e),
         NEW k \in B \cup H
  PROVE  /\ k \in Int /\ SizeOf(m, k) \in Int /\ Start <= k /\ 5 <= SizeOf(m, k)
         /\ k + SizeOf(m, k) <= e
         /\ Beside(m, (B \cup H) \ {k}, k, k + SizeOf(m, k))
<1>1. \A h \in B \cup H : h \in Int /\ SizeOf(m, h) \in Int /\ Start <= h
                          /\ 5 <= SizeOf(m, h) /\ h + SizeOf(m, h) <= e
  BY LayoutParts
<1>2. \A g, h \in B \cup H : g < h => g + SizeOf(m, g) <= h
  BY DEF Layout, Tiling
<1> QED BY <1>1, <1>2 DEF Beside

\* alloc writes a block over the hole at k, or over its first n words and a hole
\* over the r words that are left.
TakesWhole(m, m2, e, B, H, k, n) ==
  /\ m \in Mem /\ e \in Ends /\ Layout(m, B, H, e) /\ k \in H /\ n \in Int
  /\ n = SizeOf(m, k)
  /\ m2 = WriteFooter(WriteHeader(m, k, 0, n), k + n - Ftr, k)

TookWhole(m, m2, e, B, H, k, n) ==
  /\ m2 \in Mem /\ SameOutside(m, m2, k, k + n)
  /\ \A h \in (B \cup H) \ {k} : SizeOf(m2, h) = SizeOf(m, h)
  /\ SizeOf(m2, k) = n
  /\ Layout(m2, B \cup {k}, H \ {k}, e)

TakesPart(m, m2, m4, e, B, H, k, n, r) ==
  /\ m \in Mem /\ e \in Ends /\ Layout(m, B, H, e) /\ k \in H
  /\ n \in Int /\ r \in Int /\ 5 <= n /\ 5 <= r /\ n + r = SizeOf(m, k)
  /\ m2 = WriteFooter(WriteHeader(m, k, 0, n), k + n - Ftr, k)
  /\ m4 = WriteFooter(WriteHeader(m2, k + n, 1, r), k + n + r - Ftr, k + n)

TookPart(m, m4, e, B, H, k, n, r) ==
  /\ m4 \in Mem /\ SameOutside(m, m4, k, k + n + r)
  /\ \A h \in (B \cup H) \ {k} : SizeOf(m4, h) = SizeOf(m, h)
  /\ SizeOf(m4, k) = n
  /\ k + n \notin B \cup H
  /\ Layout(m4, B \cup {k}, (H \ {k}) \cup {k + n}, e)

\* alloc takes a hole as it is (memorym.cpp:747-780).
LEMMA WholeTaken ==
  ASSUME NEW m, NEW m2, NEW e, NEW B, NEW H, NEW k, NEW n,
         TakesWhole(m, m2, e, B, H, k, n)
  PROVE  TookWhole(m, m2, e, B, H, k, n)
<1> USE DEF TakesWhole, TookWhole
<1>1. /\ k \in Int /\ n \in Int /\ Start <= k /\ 5 <= n /\ k + n <= e /\ e \in Int
      /\ Beside(m, (B \cup H) \ {k}, k, k + n)
  BY BesideOne, LayoutParts
<1>2. /\ m2 \in Mem
      /\ SameOutside(m, m2, k, k + n)
      /\ Chunk(m2, k, 0, e) /\ SizeOf(m2, k) = n
  BY <1>1, ChunkWritten
<1> DEFINE X == {k}
<1>3. /\ \A h \in (B \cup H) \ X : SizeOf(m2, h) = SizeOf(m, h)
      /\ \A h \in B \ X : Chunk(m2, h, 0, e)
      /\ \A h \in H \ X : Chunk(m2, h, 1, e)
  <2>1. Beside(m, (B \cup H) \ X, k, k + n)
    BY <1>1
  <2>2. X \in SUBSET (B \cup H) /\ k + n \in Int
    BY <1>1
  <2> HIDE DEF X
  <2> QED BY <1>1, <1>2, <2>1, <2>2, OthersKept
<1>4. Apart(m2, (H \ X) \cup {})
  BY <1>3 DEF Apart, Layout
<1>5. Tiling(m2, {k} \cup {}, k, k + n)
  <2>1. n > 0 /\ {k} \cup {} = {k}
    BY <1>1
  <2> QED BY <1>1, <1>2, <2>1, TilingOfOne
<1>6. Layout(m2, (B \ X) \cup {k}, (H \ X) \cup {}, e)
  <2>1. Beside(m, (B \cup H) \ X, k, k + n)
    BY <1>1
  <2>2. /\ X \in SUBSET (B \cup H) /\ k + n \in Int
        /\ \A h \in X : k <= h /\ h + SizeOf(m, h) <= k + n
    BY <1>1
  <2>3. (\A h \in {k} : Chunk(m2, h, 0, e)) /\ (\A h \in {} : Chunk(m2, h, 1, e))
    BY <1>2
  <2> HIDE DEF X
  <2> QED BY <1>1, <1>2, <1>4, <1>5, <2>1, <2>2, <2>3, LayoutReplaced
<1>7. (B \ X) \cup {k} = B \cup {k} /\ (H \ X) \cup {} = H \ {k}
  OBVIOUS
<1> QED BY <1>2, <1>3, <1>6, <1>7

\* alloc takes the front of a hole, and the rest stays a hole
\* (memorym.cpp:747-816).
LEMMA PartTaken ==
  ASSUME NEW m, NEW m2, NEW m4, NEW e, NEW B, NEW H, NEW k, NEW n, NEW r,
         TakesPart(m, m2, m4, e, B, H, k, n, r)
  PROVE  TookPart(m, m4, e, B, H, k, n, r)
<1> USE DEF TakesPart, TookPart
<1> DEFINE t == k + n
<1>1. /\ k \in Int /\ t \in Int /\ Start <= k /\ t + r <= e /\ e \in Int /\ e <= MaxAddress
      /\ Beside(m, (B \cup H) \ {k}, k, t + r)
  BY BesideOne, LayoutParts
<1>2. /\ m2 \in Mem
      /\ SameOutside(m, m2, k, t)
      /\ Chunk(m2, k, 0, e) /\ SizeOf(m2, k) = n
  <2>1. k + n <= e
    BY <1>1
  <2> QED BY <1>1, <2>1, ChunkWritten
<1>3. /\ m4 \in Mem
      /\ SameOutside(m2, m4, t, t + r)
      /\ Chunk(m4, t, 1, e) /\ SizeOf(m4, t) = r
  <2>1. Start <= t
    BY <1>1, Constants
  <2>2. m4 = WriteFooter(WriteHeader(m2, t, 1, r), t + r - Ftr, t)
    OBVIOUS
  <2> HIDE DEF t
  <2> QED BY <1>1, <1>2, <2>1, <2>2, ChunkWritten
<1>4. Chunk(m4, k, 0, e) /\ SizeOf(m4, k) = n
  <2>1. \A a \in k .. k + n - 1 : m4[a] = m2[a]
    BY <1>1, <1>3, Constants DEF Addr, SameOutside
  <2> QED BY <1>2, <1>3, <2>1, ChunkKept
<1>5. SameOutside(m, m4, k, t + r)
  BY <1>1, <1>2, <1>3 DEF Addr, SameOutside
<1> DEFINE X == {k}
<1>6. /\ \A h \in (B \cup H) \ X : SizeOf(m4, h) = SizeOf(m, h)
      /\ \A h \in B \ X : Chunk(m4, h, 0, e)
      /\ \A h \in H \ X : Chunk(m4, h, 1, e)
  <2>1. Beside(m, (B \cup H) \ X, k, t + r)
    BY <1>1
  <2>2. X \in SUBSET (B \cup H) /\ t + r \in Int
    BY <1>1
  <2> HIDE DEF X, t
  <2> QED BY <1>1, <1>3, <1>5, <2>1, <2>2, OthersKept
<1>7. \A h \in B \cup H : h \in Int /\ SizeOf(m, h) \in Int /\ 5 <= SizeOf(m, h)
  BY LayoutParts
<1>8. t \notin B \cup H
  BY <1>1, <1>7 DEF Beside
<1>9. Apart(m4, (H \ X) \cup {t})
  <2>1. ASSUME NEW h \in H \ X, NEW g \in H \ X
        PROVE  h + SizeOf(m4, h) # g
    BY <1>6 DEF Apart, Layout
  <2>2. ASSUME NEW h \in H \ X
        PROVE  h + SizeOf(m4, h) # t
    BY <1>1, <1>6, <1>7 DEF Beside
  <2>3. ASSUME NEW h \in H \ X
        PROVE  t + r # h
    <3>1. t + r = k + SizeOf(m, k)
      BY <1>1
    <3> HIDE DEF t
    <3> QED BY <3>1 DEF Apart, Layout
  <2>4. t + r # t
    BY <1>1
  <2> HIDE DEF t, X
  <2> QED BY <1>3, <2>1, <2>2, <2>3, <2>4 DEF Apart
<1>10. Tiling(m4, {k} \cup {t}, k, t + r)
  <2>1. Tiling(m4, {k, k + n}, k, k + n + r)
    BY <1>1, <1>3, <1>4, TilingOfTwo
  <2>2. {k} \cup {t} = {k, k + n}
    OBVIOUS
  <2> QED BY <2>1, <2>2
<1>11. Layout(m4, (B \ X) \cup {k}, (H \ X) \cup {t}, e)
  <2>1. Beside(m, (B \cup H) \ X, k, t + r)
    BY <1>1
  <2>2. /\ X \in SUBSET (B \cup H) /\ t + r \in Int
        /\ \A h \in X : k <= h /\ h + SizeOf(m, h) <= t + r
    BY <1>1
  <2>3. (\A h \in {k} : Chunk(m4, h, 0, e)) /\ (\A h \in {t} : Chunk(m4, h, 1, e))
    BY <1>3, <1>4
  <2> HIDE DEF X, t
  <2> QED BY <1>1, <1>3, <1>5, <1>9, <1>10, <2>1, <2>2, <2>3, LayoutReplaced
<1>12. (B \ X) \cup {k} = B \cup {k} /\ (H \ X) \cup {t} = (H \ {k}) \cup {k + n}
  OBVIOUS
<1>13. Layout(m4, B \cup {k}, (H \ {k}) \cup {k + n}, e)
  BY <1>11, <1>12
<1> QED BY <1>3, <1>4, <1>5, <1>6, <1>8, <1>13

--------------------------------------------------------------------------------
(* The inductive invariant *)

\* Blocks and holes fill the heap, the index lists the holes, and what a client
\* holds fits into a block of its own.
Sound ==
  /\ mem \in Mem
  /\ index \in Seq(Int) /\ Distinct(index)
  /\ Layout(mem, Blocks, Holes, end)
  /\ \A b \in live : b.size + Overhead <= SizeOf(mem, b.ptr - Hdr)
  /\ \A b, c \in live : b.ptr = c.ptr => b = c

\* Nothing was ever written behind the heap.
Good == Sound /\ \A a \in Addr : a >= end => mem[a] = 0

Calls == {NoCall} \cup [size : Requests, pageAlign : {0}]
Held == [ptr : Int, size : Requests]

\* What holds of a heap that has kept its size, until free leaves a footer
\* behind.
Inv ==
  /\ call \in Calls
  /\ dangling \in BOOLEAN
  /\ stopped \in {"", "panic", "pageFault"}
  /\ ~dangling => /\ end = InitialEnd /\ live \subseteq Held
                  /\ Good
                  /\ stopped = "panic" => call # NoCall

\* Clients of kmalloc's heap that ask for no page boundary.
Unaligned == Aligns = {0}

--------------------------------------------------------------------------------
(* free *)

\* What free makes of the block at b once it has looked to its left: a hole
\* that starts at h and ends where the block ended (memorym.cpp:597-622).
JoinedLeft(m, b, m1, h) ==
  LET n == SizeOf(m, b)
      f == b + n - Ftr
  IN  /\ m1 \in Mem
      /\ Read(m1, h) = Magic /\ Read(m1, h + 1) = 1 /\ SizeOf(m1, h) = b + n - h
      /\ Read(m1, f) = Magic /\ HeaderOf(m1, f) = h
      /\ \A x \in Int : x < h \/ b + n <= x => Read(m1, x) = Read(m, x)

\* Reading a word that is not an address gives no magic.
LEMMA ReadOutside ==
  ASSUME NEW m \in Mem, NEW x, x \notin Addr
  PROVE  Read(m, x) = 0
BY DEF Read, Mem

\* The hole on the left is found by the footer before the block, and only a
\* hole is found there (memorym.cpp:604-613).
LEMMA LeftIsHole ==
  ASSUME NEW m \in Mem, NEW e \in Ends, NEW B, NEW H, Layout(m, B, H, e), NEW b \in B,
         NEW m0, m0 = Write(m, b + 1, 1),
         NEW g, g = HeaderOf(m0, b - Ftr)
  PROVE  IF HasMagic(m0, b - Ftr) /\ IsHole(m0, g)
           THEN g \in H /\ g + SizeOf(m, g) = b
           ELSE \A h \in H : h + SizeOf(m, h) # b
<1>1. \A h \in B \cup H : h \in Int /\ SizeOf(m, h) \in Int /\ Start <= h
                          /\ 5 <= SizeOf(m, h) /\ h + SizeOf(m, h) <= e
  BY LayoutParts
<1>2. e \in Nat /\ Start \in Nat /\ MaxAddress \in Nat /\ e <= MaxAddress /\ Ftr = 2
  BY LayoutParts, Constants
<1>3. b + 1 \in Addr
  BY <1>1, <1>2 DEF Addr
<1>4. \A x : Read(m0, x) = IF x = b + 1 THEN 1 ELSE Read(m, x)
  BY <1>3, ReadWritten
<1>5. Read(m0, b - 2) = Read(m, b - 2) /\ g = Read(m, (b - 2) + 1)
  <2>1. b - 2 # b + 1 /\ (b - 2) + 1 # b + 1
    BY <1>1
  <2> QED BY <1>2, <1>4, <2>1 DEF HeaderOf
<1>6. CASE b = Start
  <2>1. b - 2 \notin Addr
    BY <1>2, <1>6 DEF Addr
  <2>2. Read(m, b - 2) = 0
    BY <2>1, ReadOutside
  <2>3. ~HasMagic(m0, b - Ftr)
    BY <1>2, <1>5, <2>2 DEF HasMagic, Magic
  <2>4. ASSUME NEW h \in H PROVE h + SizeOf(m, h) # b
    <3>1. h \in Int /\ SizeOf(m, h) \in Int /\ Start <= h /\ 5 <= SizeOf(m, h)
      BY <1>1
    <3> QED BY <1>2, <1>6, <3>1
  <2> QED BY <2>3, <2>4
<1>7. CASE b # Start
  <2>1. PICK c \in B \cup H : c + SizeOf(m, c) = b /\ c < b
    BY <1>7, Preceding
  <2>2. b # e
    BY <1>1, <1>2
  <2>3. /\ Read(m, c + SizeOf(m, c) - Ftr) = Magic
        /\ HeaderOf(m, c + SizeOf(m, c) - Ftr) = c
    BY <2>1, <2>2 DEF Layout, Chunk
  <2>4. Read(m, b - 2) = Magic /\ g = c
    <3>1. c + SizeOf(m, c) - Ftr = b - 2
      <4>1. c \in Int /\ SizeOf(m, c) \in Int /\ b \in Int
        BY <1>1
      <4> QED BY <1>2, <2>1, <4>1
    <3>2. Read(m, b - 2) = Magic /\ HeaderOf(m, b - 2) = c
      BY <2>3, <3>1
    <3> QED BY <1>5, <3>2 DEF HeaderOf
  <2>5. HasMagic(m0, b - Ftr)
    BY <1>2, <1>5, <2>4 DEF HasMagic
  <2>6. Read(m0, c + 1) = Read(m, c + 1)
    BY <1>1, <1>4, <2>1
  <2>7. (c \in H => Read(m, c + 1) = 1) /\ (c \in B => Read(m, c + 1) = 0)
    BY DEF Layout, Chunk
  <2>8. IsHole(m0, g) <=> c \in H
    BY <2>1, <2>4, <2>6, <2>7 DEF IsHole
  <2>9. CASE c \in H
    BY <2>1, <2>4, <2>5, <2>8, <2>9
  <2>10. CASE c \notin H
    <3>1. ASSUME NEW h \in H, h + SizeOf(m, h) = b PROVE FALSE
      <4>1. h # c /\ h < b /\ c \in B \cup H /\ h \in B \cup H
        BY <1>1, <2>1, <2>10, <3>1
      <4>2. \A p, q \in B \cup H : p < q => p + SizeOf(m, p) <= q
        BY DEF Layout, Tiling
      <4>3. CASE h < c
        BY <1>1, <2>1, <3>1, <4>1, <4>2, <4>3
      <4>4. CASE c < h
        BY <1>1, <2>1, <3>1, <4>1, <4>2, <4>4
      <4> QED BY <1>1, <4>1, <4>3, <4>4
    <3> QED BY <2>8, <2>10, <3>1
  <2> QED BY <2>9, <2>10
<1> QED BY <1>6, <1>7

\* The block becomes a hole, and one with the hole on its left if there is one
\* (memorym.cpp:597-613).
LEMMA LeftJoined ==
  ASSUME NEW m \in Mem, NEW e \in Ends, NEW B, NEW H, Layout(m, B, H, e), NEW b \in B,
         NEW f, f = b + SizeOf(m, b) - Ftr,
         NEW m0, m0 = Write(m, b + 1, 1),
         NEW g, g = HeaderOf(m0, b - Ftr),
         NEW left \in BOOLEAN, left <=> HasMagic(m0, b - Ftr) /\ IsHole(m0, g),
         NEW h, h = IF left THEN g ELSE b,
         NEW w, w = Write(m0, f + 1, h),
         NEW m1, m1 = IF left THEN Write(w, h + 2, Plus(SizeOf(w, h), SizeOf(m0, b))) ELSE m0
  PROVE  /\ JoinedLeft(m, b, m1, h)
         /\ left => h \in H /\ h + SizeOf(m, h) = b
         /\ ~left => h = b /\ NoneEndsAt(m, H, b)
<1> DEFINE n == SizeOf(m, b)
<1>1. \A c \in B \cup H : c \in Int /\ SizeOf(m, c) \in Int /\ Start <= c
                          /\ 5 <= SizeOf(m, c) /\ c + SizeOf(m, c) <= e
  BY LayoutParts
<1>2. /\ e \in Nat /\ Start \in Nat /\ MaxAddress \in Nat /\ e <= MaxAddress /\ Ftr = 2
      /\ AddressMod \in Nat /\ MaxAddress < AddressMod
  BY LayoutParts, Constants
<1>3. /\ b \in Int /\ n \in Int /\ Start <= b /\ 5 <= n /\ b + n <= e /\ f = b + n - 2
      /\ f \in Int
  BY <1>1, <1>2
<1>4. b + 1 \in Addr /\ f + 1 \in Addr
  BY <1>2, <1>3 DEF Addr
<1>5. m0 \in Mem /\ \A x : Read(m0, x) = IF x = b + 1 THEN 1 ELSE Read(m, x)
  BY <1>4, ReadWritten
<1>6. /\ Read(m, b) = Magic /\ Read(m, f) = Magic /\ Read(m, f + 1) = b
  BY DEF Layout, Chunk, HeaderOf
<1>7. IF left THEN g \in H /\ g + SizeOf(m, g) = b
              ELSE NoneEndsAt(m, H, b)
  BY LeftIsHole DEF NoneEndsAt
<1> HIDE DEF n
<1>8. CASE ~left
  <2>1. h = b /\ m1 = m0
    BY <1>8
  <2>2. /\ Read(m0, b) = Magic /\ Read(m0, b + 1) = 1 /\ Read(m0, b + 2) = n
        /\ Read(m0, f) = Magic /\ Read(m0, f + 1) = b
    <3>1. b # b + 1 /\ b + 2 # b + 1 /\ f # b + 1 /\ f + 1 # b + 1
      BY <1>3
    <3> QED BY <1>5, <1>6, <3>1 DEF SizeOf, n
  <2>3. \A x \in Int : x < b \/ b + n <= x => Read(m0, x) = Read(m, x)
    BY <1>3, <1>5
  <2>4. b + n - b = n
    BY <1>3
  <2>5. JoinedLeft(m, b, m0, b)
    BY <1>3, <1>5, <2>2, <2>3, <2>4 DEF JoinedLeft, SizeOf, HeaderOf, n
  <2> QED BY <1>7, <1>8, <2>1, <2>5
<1>9. CASE left
  <2>1. h = g /\ h \in H /\ h + SizeOf(m, h) = b
    BY <1>7, <1>9
  <2> DEFINE s == SizeOf(m, h)
  <2>2. h \in Int /\ s \in Int /\ Start <= h /\ 5 <= s /\ h + s = b
    BY <1>1, <2>1
  <2>3. Read(m, h) = Magic /\ Read(m, h + 1) = 1
    BY <2>1 DEF Layout, Chunk
  <2>4. Read(m, h + 2) = s
    BY DEF SizeOf
  <2> HIDE DEF s
  <2>5. w \in Mem /\ \A x : Read(w, x) = IF x = f + 1 THEN h ELSE Read(m0, x)
    <3> DEFINE a == f + 1
    <3>1. a \in Addr /\ h \in Int /\ m0 \in Mem
      BY <1>4, <1>5, <2>2
    <3>2. w = Write(m0, a, h)
      OBVIOUS
    <3> HIDE DEF a
    <3>3. w \in Mem /\ \A x : Read(w, x) = IF x = a THEN h ELSE Read(m0, x)
      BY <3>1, <3>2, ReadWritten
    <3> QED BY <3>3 DEF a
  <2>6. h + 2 \in Addr
    BY <1>2, <1>3, <2>2 DEF Addr
  <2>7. SizeOf(w, h) = s
    <3>1. h + 2 # f + 1 /\ h + 2 # b + 1
      BY <1>3, <2>2
    <3> QED BY <1>5, <2>4, <2>5, <3>1 DEF SizeOf
  <2>8. SizeOf(m0, b) = n
    <3>1. b + 2 # b + 1
      BY <1>3
    <3> QED BY <1>5, <3>1 DEF SizeOf, n
  <2>9. Plus(s, n) = s + n /\ s + n \in Int
    <3>1. s \in Nat /\ n \in Nat /\ s + n < AddressMod
      BY <1>2, <1>3, <2>2
    <3> QED BY <3>1, NoWrap
  <2>10. m1 = Write(w, h + 2, s + n)
    BY <1>9, <2>7, <2>8, <2>9
  <2>11. m1 \in Mem /\ \A x : Read(m1, x) = IF x = h + 2 THEN s + n ELSE Read(w, x)
    BY <2>5, <2>6, <2>9, <2>10, ReadWritten
  <2>12. /\ Read(m1, h) = Magic /\ Read(m1, h + 1) = 1 /\ Read(m1, h + 2) = s + n
         /\ Read(m1, f) = Magic /\ Read(m1, f + 1) = h
    <3>1. /\ h # h + 2 /\ h # f + 1 /\ h # b + 1
          /\ h + 1 # h + 2 /\ h + 1 # f + 1 /\ h + 1 # b + 1
          /\ f # h + 2 /\ f # f + 1 /\ f # b + 1
          /\ f + 1 # h + 2
      BY <1>3, <2>2
    <3> QED BY <1>5, <1>6, <2>3, <2>5, <2>11, <3>1
  <2>13. \A x \in Int : x < h \/ b + n <= x => Read(m1, x) = Read(m, x)
    <3>1. ASSUME NEW x \in Int, x < h \/ b + n <= x
          PROVE  x # h + 2 /\ x # f + 1 /\ x # b + 1
      BY <1>3, <2>2, <3>1
    <3> QED BY <1>5, <2>5, <2>11, <3>1
  <2>14. b + n - h = s + n
    BY <1>3, <2>2
  <2>15. JoinedLeft(m, b, m1, h)
    BY <1>3, <2>11, <2>12, <2>13, <2>14 DEF JoinedLeft, SizeOf, HeaderOf, n
  <2> QED BY <1>9, <2>1, <2>15
<1> QED BY <1>8, <1>9

\* A header with the mark of a hole after the block is that of a hole
\* (memorym.cpp:615-618).
LEMMA RightIsHole ==
  ASSUME NEW m \in Mem, NEW e \in Ends, NEW B, NEW H, Layout(m, B, H, e), NEW b \in B,
         \A a \in Addr : a >= e => m[a] = 0,
         NEW m1, NEW h, JoinedLeft(m, b, m1, h),
         NEW t, t = b + SizeOf(m, b)
  PROVE  /\ HasMagic(m1, t) /\ IsHole(m1, t) <=> t \in H
         /\ t \in H => SizeOf(m1, t) = SizeOf(m, t)
         /\ HasMagic(m, t) /\ IsHole(m, t) <=> t \in H
<1>1. \A c \in B \cup H : c \in Int /\ SizeOf(m, c) \in Int /\ Start <= c
                          /\ 5 <= SizeOf(m, c) /\ c + SizeOf(m, c) <= e
  BY LayoutParts
<1>2. e \in Int /\ t \in Int /\ t <= e
  BY <1>1, LayoutParts
<1>3. Read(m1, t) = Read(m, t) /\ Read(m1, t + 1) = Read(m, t + 1)
      /\ Read(m1, t + 2) = Read(m, t + 2)
  BY <1>1, <1>2 DEF JoinedLeft
<1>4. /\ HasMagic(m1, t) <=> HasMagic(m, t)
      /\ IsHole(m1, t) <=> IsHole(m, t)
      /\ SizeOf(m1, t) = SizeOf(m, t)
  BY <1>3 DEF HasMagic, IsHole, SizeOf
<1>5. HasMagic(m, t) /\ IsHole(m, t) <=> t \in H
  <2>1. ASSUME t \in H PROVE HasMagic(m, t) /\ IsHole(m, t)
    BY <2>1 DEF Layout, Chunk, HasMagic, IsHole
  <2>2. ASSUME HasMagic(m, t), IsHole(m, t) PROVE t \in H
    <3>1. t # e
      <4>1. CASE t \in Addr
        BY <1>2, <2>2, <4>1, WordRead DEF HasMagic, Magic
      <4>2. CASE t \notin Addr
        BY <2>2, <4>2, ReadOutside DEF HasMagic, Magic
      <4> QED BY <4>1, <4>2
    <3>2. b \in B \cup H /\ b + SizeOf(m, b) < e
      BY <1>2, <3>1
    <3>3. t \in B \cup H
      BY <3>2, Following
    <3>4. t \in B => Read(m, t + 1) = 0
      BY DEF Layout, Chunk
    <3> QED BY <2>2, <3>3, <3>4 DEF IsHole
  <2> QED BY <2>1, <2>2
<1> QED BY <1>4, <1>5

\* The words of a freed block and of the holes beside it are one hole then,
\* unless its last footer was left out (memorym.cpp:597-659).
LEMMA HoleWritten ==
  ASSUME NEW m \in Mem, NEW e \in Ends, NEW B, NEW H, Layout(m, B, H, e), NEW b \in B,
         NEW m1, NEW h \in Int, Start <= h, h <= b, JoinedLeft(m, b, m1, h),
         NEW t, t = b + SizeOf(m, b),
         t \in H => SizeOf(m1, t) = SizeOf(m, t),
         NEW hi, hi = IF t \in H THEN t + SizeOf(m, t) ELSE t,
         t \in H => hi = e,
         NEW m2, m2 = IF t \in H THEN Write(m1, h + 2, Plus(SizeOf(m1, h), SizeOf(m1, t)))
                                 ELSE m1,
         NEW m3, m3 = IF hi = e THEN WriteFooter(Write(m2, h + 2, hi - h), hi - Ftr, h)
                                ELSE m2
  PROVE  /\ m3 \in Mem /\ SameOutside(m, m3, h, hi)
         /\ Chunk(m3, h, 1, e) /\ SizeOf(m3, h) = hi - h
         /\ SizeOf(m2, h) = hi - h
<1> DEFINE n == SizeOf(m, b)
           s == SizeOf(m, t)
<1>1. \A c \in B \cup H : c \in Int /\ SizeOf(m, c) \in Int /\ Start <= c
                          /\ 5 <= SizeOf(m, c) /\ c + SizeOf(m, c) <= e
  BY LayoutParts
<1>2. /\ e \in Nat /\ Start \in Nat /\ MaxAddress \in Nat /\ e <= MaxAddress
      /\ Ftr = 2 /\ Overhead = 5
      /\ AddressMod \in Nat /\ MaxAddress < AddressMod
  BY LayoutParts, Constants
<1>3. b \in Int /\ n \in Int /\ 5 <= n /\ t = b + n /\ t \in Int /\ t <= e
  BY <1>1, <1>2
<1>4. t \in H => s \in Int /\ 5 <= s
  BY <1>1
<1> HIDE DEF n, s
<1>5. hi \in Int /\ t <= hi /\ hi <= e /\ (t \notin H => hi = t) /\ (t \in H => hi = t + s)
  BY <1>1, <1>2, <1>3, <1>4 DEF s
<1>6. /\ m1 \in Mem
      /\ Read(m1, h) = Magic /\ Read(m1, h + 1) = 1 /\ Read(m1, h + 2) = t - h
      /\ Read(m1, t - 2) = Magic /\ Read(m1, (t - 2) + 1) = h
      /\ \A x \in Int : x < h \/ t <= x => Read(m1, x) = Read(m, x)
  <2>1. b + n - h = t - h /\ b + n - Ftr = t - 2 /\ b + n = t
    BY <1>2, <1>3
  <2> QED BY <2>1 DEF JoinedLeft, SizeOf, HeaderOf, n
<1>7. h + 2 \in Addr /\ h \in Addr /\ h + 1 \in Addr
  BY <1>2, <1>3 DEF Addr
<1>8. /\ m2 \in Mem
      /\ \A x : Read(m2, x) = IF x = h + 2 THEN hi - h ELSE Read(m1, x)
  <2>1. CASE t \in H
    <3>1. Plus(SizeOf(m1, h), SizeOf(m1, t)) = hi - h
      <4>1. SizeOf(m1, h) = t - h /\ SizeOf(m1, t) = s
        BY <1>6, <2>1 DEF SizeOf, s
      <4>2. t - h \in Nat /\ s \in Nat /\ (t - h) + s < AddressMod /\ (t - h) + s = hi - h
        BY <1>2, <1>3, <1>4, <1>5, <2>1
      <4> QED BY <4>1, <4>2, NoWrap
    <3>2. hi - h \in Int
      BY <1>5
    <3>3. m2 = Write(m1, h + 2, hi - h)
      BY <2>1, <3>1
    <3> DEFINE a == h + 2
               v == hi - h
    <3>4. m1 \in Mem /\ a \in Addr /\ v \in Int /\ m2 = Write(m1, a, v)
      BY <1>6, <1>7, <3>2, <3>3
    <3> HIDE DEF a, v
    <3>5. m2 \in Mem /\ \A x : Read(m2, x) = IF x = a THEN v ELSE Read(m1, x)
      BY <3>4, ReadWritten
    <3> QED BY <3>5 DEF a, v
  <2>2. CASE t \notin H
    BY <1>5, <1>6, <2>2
  <2> QED BY <2>1, <2>2
<1>9. CASE hi # e
  <2>1. m3 = m2 /\ hi = t
    BY <1>5, <1>9
  <2>2. /\ Read(m2, h) = Magic /\ Read(m2, h + 1) = 1 /\ Read(m2, h + 2) = hi - h
        /\ Read(m2, hi - 2) = Magic /\ Read(m2, (hi - 2) + 1) = h
    <3>1. h # h + 2 /\ h + 1 # h + 2 /\ t - 2 # h + 2 /\ (t - 2) + 1 # h + 2
      BY <1>3
    <3> QED BY <1>6, <1>8, <2>1, <3>1
  <2>3. SizeOf(m2, h) = hi - h /\ HeaderOf(m2, hi - 2) = h
    BY <2>2 DEF SizeOf, HeaderOf
  <2>4. h + SizeOf(m2, h) - Ftr = hi - 2 /\ h + SizeOf(m2, h) = hi
    BY <1>2, <1>5, <2>3
  <2>5. Chunk(m2, h, 1, e)
    <3>1. h \in Start .. e - Overhead /\ hi - h \in Overhead .. e - h
      BY <1>2, <1>3, <1>5
    <3> QED BY <2>2, <2>3, <2>4, <3>1 DEF Chunk
  <2>6. SameOutside(m, m2, h, hi)
    <3>1. ASSUME NEW a \in Addr, a < h \/ hi <= a PROVE m2[a] = m[a]
      <4>1. a \in Int /\ a # h + 2 /\ (a < h \/ t <= a)
        BY <1>3, <2>1, <3>1, <1>2 DEF Addr
      <4>2. Read(m2, a) = Read(m, a)
        BY <1>6, <1>8, <4>1
      <4> QED BY <1>8, <4>2, WordRead
    <3> QED BY <3>1 DEF SameOutside
  <2> QED BY <1>8, <2>1, <2>3, <2>5, <2>6
<1>10. CASE hi = e
  <2> DEFINE m25 == Write(m2, h + 2, hi - h)
  <2>1. m25 \in Mem /\ \A x : Read(m25, x) = IF x = h + 2 THEN hi - h ELSE Read(m2, x)
    <3> DEFINE a == h + 2
               v == hi - h
    <3>1. v \in Int /\ a \in Addr /\ m2 \in Mem
      BY <1>5, <1>7, <1>8
    <3>2. m25 = Write(m2, a, v)
      OBVIOUS
    <3> HIDE DEF a, v, m25
    <3>3. m25 \in Mem /\ \A x : Read(m25, x) = IF x = a THEN v ELSE Read(m2, x)
      BY <3>1, <3>2, ReadWritten
    <3> QED BY <3>3 DEF a, v
  <2> HIDE DEF m25
  <2>2. /\ m3 \in Mem
        /\ \A a \in Addr : m3[a] = IF a = hi - 2 THEN Magic ELSE IF a = (hi - 2) + 1 THEN h
                                   ELSE m25[a]
    <3>1. hi - 2 \in Int /\ Start <= hi - 2 /\ (hi - 2) + 2 <= MaxAddress
      BY <1>2, <1>3, <1>5
    <3>2. m3 = WriteFooter(m25, hi - 2, h)
      BY <1>2, <1>10 DEF m25
    <3> QED BY <2>1, <3>1, <3>2, FooterWritten
  <2>3. hi - 2 \in Addr /\ (hi - 2) + 1 \in Addr
    BY <1>2, <1>3, <1>5 DEF Addr
  <2>4. /\ Read(m3, h) = Magic /\ Read(m3, h + 1) = 1 /\ Read(m3, h + 2) = hi - h
        /\ Read(m3, hi - 2) = Magic /\ Read(m3, (hi - 2) + 1) = h
    <3>1. /\ h # h + 2 /\ h + 1 # h + 2
          /\ h # hi - 2 /\ h + 1 # hi - 2 /\ h + 2 # hi - 2
          /\ h # (hi - 2) + 1 /\ h + 1 # (hi - 2) + 1 /\ h + 2 # (hi - 2) + 1
          /\ (hi - 2) + 1 # hi - 2
      BY <1>3, <1>5
    <3>2. Read(m25, h) = Magic /\ Read(m25, h + 1) = 1 /\ Read(m25, h + 2) = hi - h
      BY <1>6, <1>8, <2>1, <3>1
    <3>3. m25[h] = Magic /\ m25[h + 1] = 1 /\ m25[h + 2] = hi - h
      BY <1>7, <2>1, <3>2, WordRead
    <3>4. /\ m3[h] = Magic /\ m3[h + 1] = 1 /\ m3[h + 2] = hi - h
          /\ m3[hi - 2] = Magic /\ m3[(hi - 2) + 1] = h
      BY <1>7, <2>2, <2>3, <3>1, <3>3
    <3> QED BY <1>7, <2>2, <2>3, <3>4, WordRead
  <2>5. SizeOf(m3, h) = hi - h /\ HeaderOf(m3, hi - 2) = h
    BY <2>4 DEF SizeOf, HeaderOf
  <2>6. h + SizeOf(m3, h) - Ftr = hi - 2
    BY <1>2, <1>5, <2>5
  <2>7. Chunk(m3, h, 1, e)
    <3>1. h \in Start .. e - Overhead /\ hi - h \in Overhead .. e - h
      BY <1>2, <1>3, <1>5
    <3> QED BY <2>4, <2>5, <2>6, <3>1 DEF Chunk
  <2>8. SameOutside(m, m3, h, hi)
    <3>1. ASSUME NEW a \in Addr, a < h \/ hi <= a PROVE m3[a] = m[a]
      <4>1. /\ a \in Int /\ a # h + 2 /\ a # hi - 2 /\ a # (hi - 2) + 1
            /\ (a < h \/ t <= a)
        BY <1>2, <1>3, <1>5, <3>1 DEF Addr
      <4>2. Read(m25, a) = Read(m, a)
        BY <1>6, <1>8, <2>1, <4>1
      <4>3. m3[a] = m25[a]
        BY <2>2, <4>1
      <4> QED BY <2>1, <4>2, <4>3, WordRead
    <3> QED BY <3>1 DEF SameOutside
  <2>9. SizeOf(m2, h) = hi - h
    BY <1>8 DEF SizeOf
  <2> QED BY <2>2, <2>5, <2>7, <2>8, <2>9
<1> QED BY <1>9, <1>10

\* A hole from h to hi has been written over the freed block at b, the hole on
\* its left, if it has one, and the hole on its right at t, if that is one.
FreedHole(m, m3, e, B, H, b, h, t, hi) ==
  /\ m \in Mem /\ m3 \in Mem /\ e \in Ends /\ Layout(m, B, H, e) /\ b \in B
  /\ \/ h \in H /\ h + SizeOf(m, h) = b
     \/ h = b /\ NoneEndsAt(m, H, b)
  /\ t = b + SizeOf(m, b)
  /\ hi = IF t \in H THEN t + SizeOf(m, t) ELSE t
  /\ SameOutside(m, m3, h, hi)
  /\ Chunk(m3, h, 1, e) /\ SizeOf(m3, h) = hi - h

\* A hole takes the place of a freed block and of the holes beside it
\* (memorym.cpp:597-659).
LEMMA HoleLaidOut ==
  ASSUME NEW m, NEW m3, NEW e, NEW B, NEW H, NEW b, NEW h, NEW t, NEW hi,
         FreedHole(m, m3, e, B, H, b, h, t, hi)
  PROVE  /\ \A c \in B \ {b} : SizeOf(m3, c) = SizeOf(m, c)
         /\ Layout(m3, B \ {b}, (H \ {t}) \cup {h}, e)
         /\ Beside(m, B \ {b}, h, hi)
<1> USE DEF FreedHole
<1> DEFINE left == h \in H
<1>0. /\ left => h \in H /\ h + SizeOf(m, h) = b
      /\ ~left => h = b /\ NoneEndsAt(m, H, b)
  BY LayoutParts
<1> HIDE DEF left
<1> DEFINE X == {c \in B \cup H : c = b \/ c = h \/ (c = t /\ t \in H)}
<1>1. \A c \in B \cup H : c \in Int /\ SizeOf(m, c) \in Int /\ Start <= c
                          /\ 5 <= SizeOf(m, c) /\ c + SizeOf(m, c) <= e
  BY LayoutParts
<1>2. e \in Int /\ Start \in Int
  BY LayoutParts, Constants
<1>3. \A c, d \in B \cup H : c < d => c + SizeOf(m, c) <= d
  BY DEF Layout, Tiling
<1>4. B \cap H = {} /\ h \in B \cup H /\ b \in B \cup H /\ (h \in B => h = b)
  BY <1>0, LayoutParts
<1>5. /\ b \in Int /\ h \in Int /\ t \in Int /\ hi \in Int
      /\ h <= b /\ b < t /\ t <= hi /\ hi <= e /\ Start <= h
      /\ (left => h < b)
      /\ (t \in H => hi = t + SizeOf(m, t)) /\ (t \notin H => hi = t)
  <2>1. b \in Int /\ SizeOf(m, b) \in Int /\ 5 <= SizeOf(m, b) /\ b + SizeOf(m, b) <= e
    BY <1>1, <1>4
  <2>2. h \in Int /\ SizeOf(m, h) \in Int /\ Start <= h /\ 5 <= SizeOf(m, h)
    BY <1>1, <1>4
  <2>3. t \in H => SizeOf(m, t) \in Int /\ 5 <= SizeOf(m, t) /\ t + SizeOf(m, t) <= e
    BY <1>1
  <2>4. t \in Int /\ b < t /\ t <= e
    BY <2>1, <1>2
  <2>5. hi \in Int /\ t <= hi /\ hi <= e
    BY <2>3, <2>4, <1>2
  <2>6. left => h < b
    BY <1>0, <2>2
  <2>7. h <= b
    <3>1. CASE left
      BY <1>0, <2>1, <2>2, <2>6, <3>1
    <3>2. CASE ~left
      BY <1>0, <2>1, <3>2
    <3> QED BY <3>1, <3>2
  <2> QED BY <1>0, <2>1, <2>2, <2>4, <2>5, <2>6, <2>7
<1>6. Beside(m, (B \cup H) \ X, h, hi)
  <2>1. ASSUME NEW c \in B \cup H, c # b, c # h, c # t \/ t \notin H, ~(c + SizeOf(m, c) <= h)
        PROVE  hi <= c
    <3>1. c \in Int /\ SizeOf(m, c) \in Int
      BY <1>1
    <3>2. h < c
      BY <1>3, <1>4, <1>5, <2>1, <3>1
    <3>3. b < c
      <4>1. CASE left
        <5>1. h + SizeOf(m, h) <= c
          BY <1>3, <1>4, <3>2
        <5> QED BY <1>0, <1>5, <2>1, <3>1, <4>1, <5>1
      <4>2. CASE ~left
        BY <1>0, <3>2, <4>2
      <4> QED BY <4>1, <4>2
    <3>4. t <= c
      BY <1>3, <1>4, <3>3
    <3>5. t \in H => t < c
      BY <1>5, <2>1, <3>1, <3>4
    <3>6. t \in H => t + SizeOf(m, t) <= c
      BY <1>3, <3>5
    <3> QED BY <1>5, <3>4, <3>6
  <2>2. \A c \in (B \cup H) \ X : c \in B \cup H /\ c # b /\ c # h /\ (c # t \/ t \notin H)
    OBVIOUS
  <2> HIDE DEF X
  <2> QED BY <2>1, <2>2 DEF Beside
<1>7. \A c \in X : h <= c /\ c + SizeOf(m, c) <= hi
  <2>1. h + SizeOf(m, h) <= hi
    <3>1. CASE left
      BY <1>0, <1>5, <3>1
    <3>2. CASE ~left
      BY <1>0, <1>5, <3>2
    <3> QED BY <3>1, <3>2
  <2>2. b + SizeOf(m, b) <= hi
    BY <1>5
  <2>3. t \in H => h <= t /\ t + SizeOf(m, t) <= hi
    BY <1>5
  <2>4. \A c \in X : c = b \/ c = h \/ (c = t /\ t \in H)
    OBVIOUS
  <2> HIDE DEF X
  <2> QED BY <1>5, <2>1, <2>2, <2>3, <2>4
<1>8. X \in SUBSET (B \cup H)
  OBVIOUS
<1>9. B \ X = B \ {b} /\ (H \ X) \cup {h} = (H \ {t}) \cup {h}
      /\ \A c \in H \ X : c \in H /\ c # h /\ c # t
  BY <1>4
<1>10. Beside(m, B \ {b}, h, hi)
  BY <1>6, <1>9 DEF Beside
<1> HIDE DEF X
<1>11. /\ \A c \in (B \cup H) \ X : SizeOf(m3, c) = SizeOf(m, c)
       /\ \A c \in B \ X : Chunk(m3, c, 0, e)
       /\ \A c \in H \ X : Chunk(m3, c, 1, e)
  BY <1>5, <1>6, <1>8, OthersKept
<1>12. Apart(m3, (H \ X) \cup {h})
  <2>1. ASSUME NEW c \in H \ X
        PROVE  c \in H /\ SizeOf(m3, c) = SizeOf(m, c) /\ c # h /\ c # t
    BY <1>9, <1>11
  <2>2. ASSUME NEW c \in H \ X, NEW d \in H \ X
        PROVE  c + SizeOf(m3, c) # d
    BY <2>1 DEF Layout, Apart
  <2>3. ASSUME NEW c \in H \ X
        PROVE  c + SizeOf(m3, c) # h
    <3>1. CASE left
      BY <1>0, <2>1, <3>1 DEF Layout, Apart
    <3>2. CASE ~left
      BY <1>0, <2>1, <3>2 DEF NoneEndsAt
    <3> QED BY <3>1, <3>2
  <2>4. ASSUME NEW d \in H \ X
        PROVE  hi # d
    <3>1. CASE t \in H
      BY <1>5, <2>1, <3>1 DEF Layout, Apart
    <3>2. CASE t \notin H
      BY <1>5, <2>1, <3>2
    <3> QED BY <3>1, <3>2
  <2>5. h + SizeOf(m3, h) = hi /\ hi # h
    BY <1>5
  <2> QED BY <2>2, <2>3, <2>4, <2>5 DEF Apart
<1>13. Tiling(m3, {} \cup {h}, h, hi)
  <2>1. hi - h \in Int /\ hi - h > 0 /\ h + (hi - h) = hi /\ {} \cup {h} = {h}
    BY <1>5
  <2> QED BY <1>5, <2>1, TilingOfOne
<1>14. Layout(m3, (B \ X) \cup {}, (H \ X) \cup {h}, e)
  <2>1. (\A c \in {} : Chunk(m3, c, 0, e)) /\ (\A c \in {h} : Chunk(m3, c, 1, e))
    OBVIOUS
  <2> QED BY <1>5, <1>6, <1>7, <1>8, <1>12, <1>13, <2>1, LayoutReplaced
<1>15. (B \ X) \cup {} = B \ {b}
  BY <1>9
<1>16. Layout(m3, B \ {b}, (H \ {t}) \cup {h}, e)
  BY <1>9, <1>14, <1>15
<1>17. \A c \in B \ {b} : SizeOf(m3, c) = SizeOf(m, c)
  BY <1>9, <1>11
<1> QED BY <1>10, <1>16, <1>17

\* free on a block of a sound heap: its assertions hold, and unless it leaves a
\* footer behind or cuts the heap, the heap stays sound (memorym.cpp:578-687).
LEMMA FreedSound ==
  ASSUME Good, end \in Ends, live \subseteq Held, NEW b \in live
  PROVE  LET p == b.ptr
             d == Freed(p)
         IN
         /\ d.asserts
         /\ \/ d.length = end - Start
            \/ \E x \in Nat : x < end - Start /\ d.length = ContractedSize(x)
         /\ d.length = end - Start /\ ~UnifiesInside(p) =>
              /\ d.mem \in Mem /\ d.index \in Seq(Int) /\ Distinct(d.index)
              /\ Layout(d.mem, Blocks \ {p - Hdr}, ToSet(d.index), end)
              /\ \A c \in Blocks \ {p - Hdr} : SizeOf(d.mem, c) = SizeOf(mem, c)
              /\ \E lo, hi \in Int : /\ SameOutside(mem, d.mem, lo, hi) /\ hi <= end
                                     /\ Beside(mem, Blocks \ {p - Hdr}, lo, hi)
<1> DEFINE p == b.ptr
           block  == p - Hdr
           n      == SizeOf(mem, block)
           footer == Plus(block, n - Ftr)
           sane   == HasMagic(mem, block) /\ HasMagic(mem, footer)
           m0     == Write(mem, block + 1, 1)
           onLeft == HeaderOf(m0, block - Ftr)
           left   == HasMagic(m0, block - Ftr) /\ IsHole(m0, onLeft)
           header == IF left THEN onLeft ELSE block
           w      == Write(m0, footer + 1, header)
           m1     == IF left
                       THEN Write(w, header + 2, Plus(SizeOf(w, header), SizeOf(m0, block)))
                       ELSE m0
           test   == footer + Ftr
           right  == HasMagic(m1, test) /\ IsHole(m1, test)
           m2     == IF right
                       THEN Write(m1, header + 2,
                                  Plus(SizeOf(m1, header), SizeOf(m1, test)))
                       ELSE m1
           last   == IF right THEN Plus(test, SizeOf(m2, test) - Ftr) ELSE footer
           found  == Find(index, test)
           idx2   == IF right THEN RemoveItem(index, found) ELSE index
           atEnd  == last + Ftr = end
           length == ContractedSize(header - Start)
           cut    == Sub(end - Start, length)
           kept   == Sub(SizeOf(m2, header), cut)
           m3     == IF atEnd /\ kept > 0
                       THEN WriteFooter(Write(m2, header + 2, kept),
                                        Plus(header, kept - Ftr), header)
                       ELSE m2
           gone   == Find(idx2, test)
           idx3   == IF atEnd /\ kept = 0 /\ gone # 0 THEN RemoveItem(idx2, gone) ELSE idx2
           idx4   == IF left THEN idx3 ELSE InsertHole(m3, idx3, header)
           long   == IF atEnd THEN length ELSE end - Start
           d      == Freed(p)
<1>1. /\ d.asserts = (sane /\ (right => found # 0) /\ (atEnd => header - Start < end - Start))
      /\ d.mem = m3 /\ d.index = idx4 /\ d.length = long
  <2>1. d.asserts = (sane /\ (right => found # 0) /\ (atEnd => header - Start < end - Start))
    BY ZenonT(30) DEF Freed
  <2>2. d.mem = m3
    BY ZenonT(30) DEF Freed
  <2>3. d.index = idx4
    BY ZenonT(30) DEF Freed
  <2>4. d.length = long
    BY ZenonT(30) DEF Freed
  <2> HIDE DEF d, sane, right, found, atEnd, header, m3, idx4, long
  <2> QED BY <2>1, <2>2, <2>3, <2>4
<1>2. /\ mem \in Mem /\ index \in Seq(Int) /\ Distinct(index)
      /\ Layout(mem, Blocks, Holes, end)
      /\ \A a \in Addr : a >= end => mem[a] = 0
  BY DEF Good, Sound
<1>3. block \in Blocks /\ p \in Int
  <2> HIDE DEF d
  <2>1. block \in Blocks
    BY DEF Blocks
  <2>2. p \in Int
    BY DEF Held
  <2> QED BY <2>1, <2>2
<1>4. Holes = ToSet(index)
  BY DEF Holes
<1> HIDE DEF d, p
<1> DEFINE H == Holes
           B == Blocks
           hi == IF test \in H THEN test + SizeOf(mem, test) ELSE test
<1>5. \A c \in B \cup H : c \in Int /\ SizeOf(mem, c) \in Int /\ Start <= c
                          /\ 5 <= SizeOf(mem, c) /\ c + SizeOf(mem, c) <= end
  BY <1>2, LayoutParts
<1>6. /\ end \in Int /\ Start \in Int /\ MaxAddress \in Int /\ end <= MaxAddress
      /\ Ftr = 2 /\ B \cap H = {}
      /\ AddressMod \in Int /\ MaxAddress < AddressMod /\ Start > 0
  BY <1>2, LayoutParts, Constants
<1>7. block \in Int /\ n \in Int /\ Start <= block /\ 5 <= n /\ block + n <= end
  BY <1>3, <1>5
<1> HIDE DEF block, B, H
<1>30. footer = block + n - Ftr
  <2> DEFINE k == n - Ftr
  <2>1. block \in Nat /\ k \in Nat /\ block + k < AddressMod /\ block + k = block + n - Ftr
    <3> HIDE DEF n
    <3> QED BY <1>6, <1>7
  <2> HIDE DEF k, n
  <2>2. Plus(block, k) = block + k
    BY <2>1, NoWrap
  <2> QED BY <2>1, <2>2 DEF k
<1>8. test = block + n /\ footer + Ftr = block + n
  BY <1>6, <1>7, <1>30
<1>9. left \in BOOLEAN
  BY DEF HasMagic, IsHole
<1> HIDE DEF footer, m0, onLeft, left, header, w, m1
<1>10. /\ JoinedLeft(mem, block, m1, header)
       /\ left => header \in H /\ header + SizeOf(mem, header) = block
       /\ ~left => header = block /\ NoneEndsAt(mem, H, block)
  <2>1. block \in B /\ Layout(mem, B, H, end)
    BY <1>2, <1>3 DEF B, H
  <2>2. /\ footer = block + SizeOf(mem, block) - Ftr
        /\ m0 = Write(mem, block + 1, 1)
        /\ onLeft = HeaderOf(m0, block - Ftr)
        /\ left <=> HasMagic(m0, block - Ftr) /\ IsHole(m0, onLeft)
        /\ header = IF left THEN onLeft ELSE block
        /\ w = Write(m0, footer + 1, header)
        /\ m1 = IF left THEN Write(w, header + 2, Plus(SizeOf(w, header), SizeOf(m0, block)))
                ELSE m0
    BY <1>30 DEF m0, onLeft, left, header, w, m1
  <2> QED BY <1>2, <1>9, <2>1, <2>2, LeftJoined
<1> HIDE DEF test
<1>11. /\ right <=> test \in H
       /\ test \in H => SizeOf(m1, test) = SizeOf(mem, test)
       /\ HasMagic(mem, test) /\ IsHole(mem, test) <=> test \in H
  <2>1. block \in B /\ Layout(mem, B, H, end)
    BY <1>2, <1>3 DEF B, H
  <2>2. test = block + SizeOf(mem, block)
    BY <1>8
  <2> QED BY <1>2, <1>10, <2>1, <2>2, RightIsHole
<1>12. sane
  <2>1. Chunk(mem, block, 0, end)
    BY <1>2, <1>3 DEF Layout
  <2> QED BY <1>30, <2>1 DEF Chunk, HasMagic
<1>13. right => found \in 1 .. Len(index) /\ index[found] = test
  BY <1>2, <1>4, <1>11, FindFinds DEF H
<1>14. header \in Int /\ Start <= header /\ header <= block
  BY <1>5, <1>7, <1>10
<1>15. d.asserts
  <2>1. right => found # 0
    BY <1>2, <1>13, ItemsOf
  <2>2. header - Start < end - Start
    BY <1>6, <1>7, <1>14
  <2> HIDE DEF sane, right, found, atEnd
  <2> QED BY <1>1, <1>12, <2>1, <2>2
<1>29. \/ d.length = end - Start
       \/ \E x \in Nat : x < end - Start /\ d.length = ContractedSize(x)
  <2>1. CASE atEnd
    <3>1. header - Start \in Nat /\ header - Start < end - Start
      BY <1>6, <1>7, <1>14
    <3>2. d.length = ContractedSize(header - Start)
      BY <1>1, <2>1
    <3> QED BY <3>1, <3>2
  <2>2. CASE ~atEnd
    BY <1>1, <2>2
  <2> HIDE DEF atEnd
  <2> QED BY <2>1, <2>2
<1> SUFFICES ASSUME d.length = end - Start, ~UnifiesInside(p)
             PROVE  /\ d.mem \in Mem /\ d.index \in Seq(Int) /\ Distinct(d.index)
                    /\ Layout(d.mem, B \ {block}, ToSet(d.index), end)
                    /\ \A c \in B \ {block} : SizeOf(d.mem, c) = SizeOf(mem, c)
                    /\ \E lo, top \in Int : /\ SameOutside(mem, d.mem, lo, top) /\ top <= end
                                            /\ Beside(mem, B \ {block}, lo, top)
  BY <1>15, <1>29 DEF d, p, block, B
<1>16. test \in H => hi = end
  <2>1. test = p - Hdr + SizeOf(mem, p - Hdr)
    BY <1>8 DEF block
  <2> QED BY <1>11, <2>1 DEF UnifiesInside
<1>17. hi \in Int /\ test <= hi /\ hi <= end /\ test \in Int /\ block < test
  BY <1>5, <1>7, <1>8
<1>18. /\ SizeOf(m1, header) = test - header
       /\ m1 \in Mem
  <2>1. SizeOf(m1, header) = block + SizeOf(mem, block) - header /\ m1 \in Mem
    BY <1>10 DEF JoinedLeft
  <2> QED BY <1>7, <1>8, <1>14, <1>17, <2>1
<1> DEFINE M3 == IF hi = end THEN WriteFooter(Write(m2, header + 2, hi - header), hi - Ftr, header)
                             ELSE m2
<1> HIDE DEF M3, hi, right, sane, found, d
<1>19. /\ m2 = IF test \in H THEN Write(m1, header + 2, Plus(SizeOf(m1, header), SizeOf(m1, test)))
                             ELSE m1
  BY <1>11
<1> HIDE DEF m2
<1>20. /\ M3 \in Mem /\ SameOutside(mem, M3, header, hi)
       /\ Chunk(M3, header, 1, end) /\ SizeOf(M3, header) = hi - header
       /\ SizeOf(m2, header) = hi - header
  <2>1. block \in B /\ Layout(mem, B, H, end)
    BY <1>2, <1>3 DEF B, H
  <2>2. /\ test = block + SizeOf(mem, block)
        /\ hi = IF test \in H THEN test + SizeOf(mem, test) ELSE test
        /\ M3 = IF hi = end THEN WriteFooter(Write(m2, header + 2, hi - header), hi - Ftr, header)
                            ELSE m2
    BY <1>8 DEF hi, M3
  <2> QED BY <1>2, <1>10, <1>11, <1>14, <1>16, <1>19, <2>1, <2>2, HoleWritten
<1>21. last + Ftr = hi
  <2>1. CASE test \in H
    <3>1. SizeOf(mem, test) \in Int /\ hi = test + SizeOf(mem, test)
      BY <1>5, <2>1 DEF hi
    <3>2. header + 2 \in Addr
      BY <1>6, <1>7, <1>14 DEF Addr
    <3> DEFINE v == Plus(SizeOf(m1, header), SizeOf(m1, test))
    <3>3. v \in Int /\ m2 = Write(m1, header + 2, v)
      <4>1. SizeOf(m1, header) \in Nat /\ SizeOf(m1, test) \in Nat
            /\ SizeOf(m1, header) + SizeOf(m1, test) < AddressMod
        <5>1. SizeOf(m1, header) = test - header /\ SizeOf(m1, test) = SizeOf(mem, test)
          BY <1>11, <1>18, <2>1
        <5>2. SizeOf(mem, test) \in Int /\ 5 <= SizeOf(mem, test)
          BY <1>5, <2>1
        <5>3. test - header \in Nat /\ SizeOf(mem, test) \in Nat
              /\ (test - header) + SizeOf(mem, test) < AddressMod
          BY <1>6, <1>7, <1>14, <1>17, <3>1, <5>2
        <5> QED BY <5>1, <5>3
      <4>2. v = SizeOf(m1, header) + SizeOf(m1, test)
        BY <4>1, NoWrap
      <4> QED BY <1>19, <2>1, <4>1, <4>2
    <3> HIDE DEF v
    <3>4. Read(m2, test + 2) = Read(m1, test + 2)
      <4>1. test + 2 # header + 2
        BY <1>14, <1>17, <1>7
      <4> QED BY <1>18, <3>2, <3>3, <4>1, ReadWritten
    <3>5. SizeOf(m2, test) = SizeOf(mem, test)
      BY <1>11, <2>1, <3>4 DEF SizeOf
    <3>6. last = Plus(test, SizeOf(mem, test) - Ftr)
      BY <1>11, <2>1, <3>5
    <3>7. Plus(test, SizeOf(mem, test) - Ftr) = test + (SizeOf(mem, test) - Ftr)
      <4> DEFINE k == SizeOf(mem, test) - Ftr
      <4>1. test \in Nat /\ k \in Nat /\ test + k < AddressMod
        BY <1>5, <1>6, <1>7, <1>17, <2>1, <3>1
      <4> HIDE DEF k
      <4>2. Plus(test, k) = test + k
        BY <4>1, NoWrap
      <4> QED BY <4>2 DEF k
    <3> HIDE DEF last
    <3> QED BY <1>6, <1>17, <3>1, <3>6, <3>7
  <2>2. CASE test \notin H
    BY <1>8, <1>11, <2>2 DEF hi, test
  <2> QED BY <2>1, <2>2
<1>22. atEnd <=> hi = end
  BY <1>21
<1> HIDE DEF last
<1>23. atEnd => kept = hi - header /\ kept > 0 /\ Plus(header, kept - Ftr) = hi - Ftr
  <2> SUFFICES ASSUME atEnd PROVE kept = hi - header /\ kept > 0 /\ Plus(header, kept - Ftr) = hi - Ftr
    OBVIOUS
  <2>1. length = end - Start
    BY <1>1
  <2>2. end - Start \in Nat /\ end - Start < AddressMod
    BY <1>6, <1>7
  <2> HIDE DEF length
  <2>3. cut = 0
    BY <2>1, <2>2, NoWrap
  <2>4. hi - header \in Nat /\ hi - header > 0 /\ hi - header < AddressMod /\ 0 \in Nat
        /\ 0 <= hi - header
    BY <1>6, <1>7, <1>14, <1>17
  <2> HIDE DEF cut
  <2>5. kept = hi - header
    BY <1>20, <2>3, <2>4, NoWrap
  <2> HIDE DEF kept
  <2>6. Plus(header, kept - Ftr) = hi - Ftr
    <3> DEFINE k == kept - Ftr
    <3>1. header \in Nat /\ k \in Nat /\ header + k < AddressMod /\ header + k = hi - Ftr
      <4>1. 5 <= n /\ n \in Int
        BY <1>7
      <4> HIDE DEF n
      <4> QED BY <1>6, <1>8, <1>7, <1>14, <1>17, <2>5, <4>1
    <3> HIDE DEF k
    <3>2. Plus(header, k) = header + k
      BY <3>1, NoWrap
    <3> QED BY <3>1, <3>2 DEF k
  <2> QED BY <2>4, <2>5, <2>6
<1> HIDE DEF cut, length, atEnd
<1>24. m3 = M3 /\ idx3 = idx2
  <2>1. CASE atEnd
    <3>1. kept = hi - header /\ kept > 0 /\ Plus(header, kept - Ftr) = hi - Ftr /\ kept # 0
      BY <1>14, <1>17, <1>23, <2>1
    <3> HIDE DEF kept
    <3>2. m3 = WriteFooter(Write(m2, header + 2, kept), Plus(header, kept - Ftr), header)
      BY <2>1, <3>1
    <3> QED BY <1>22, <2>1, <3>1, <3>2 DEF M3
  <2>2. CASE ~atEnd
    BY <1>22, <2>2 DEF M3
  <2> QED BY <2>1, <2>2
<1> HIDE DEF m3, idx3
<1>25. /\ \A c \in B \ {block} : SizeOf(M3, c) = SizeOf(mem, c)
       /\ Layout(M3, B \ {block}, (H \ {test}) \cup {header}, end)
       /\ Beside(mem, B \ {block}, header, hi)
  <2>1. block \in B /\ Layout(mem, B, H, end)
    BY <1>2, <1>3 DEF B, H
  <2>2. /\ test = block + SizeOf(mem, block)
        /\ hi = IF test \in H THEN test + SizeOf(mem, test) ELSE test
    BY <1>8 DEF hi
  <2>3. \/ header \in H /\ header + SizeOf(mem, header) = block
        \/ header = block /\ NoneEndsAt(mem, H, block)
    BY <1>10
  <2>4. FreedHole(mem, M3, end, B, H, block, header, test, hi)
    BY <1>2, <1>20, <2>1, <2>2, <2>3 DEF FreedHole
  <2>5. /\ \A c \in B \ {block} : SizeOf(M3, c) = SizeOf(mem, c)
        /\ Layout(M3, B \ {block}, (H \ {test}) \cup {header}, end)
        /\ Beside(mem, B \ {block}, header, hi)
    BY <2>4, HoleLaidOut
  <2> QED BY <2>5
<1>26. idx2 \in Seq(Int) /\ Distinct(idx2) /\ ToSet(idx2) = H \ {test}
  <2>1. CASE right
    <3>1. idx2 = RemoveItem(index, found)
      BY <2>1
    <3>2. /\ RemoveItem(index, found) \in Seq(Int)
          /\ Distinct(RemoveItem(index, found))
          /\ ToSet(RemoveItem(index, found)) = ToSet(index) \ {index[found]}
      BY <1>2, <1>13, <2>1, RemoveKeeps
    <3> QED BY <1>4, <1>13, <2>1, <3>1, <3>2 DEF H
  <2>2. CASE ~right
    BY <1>2, <1>4, <1>11, <2>2 DEF H
  <2> QED BY <2>1, <2>2
<1> HIDE DEF idx2
<1>27. idx4 \in Seq(Int) /\ Distinct(idx4) /\ ToSet(idx4) = (H \ {test}) \cup {header}
  <2>1. CASE left
    <3>1. header \in H /\ header # test
      BY <1>7, <1>10, <1>14, <1>17, <2>1
    <3> QED BY <1>24, <1>26, <2>1, <3>1
  <2>2. CASE ~left
    <3>1. header = block /\ block \in B /\ block \notin H
      BY <1>3, <1>6, <1>10, <2>2 DEF B
    <3>2. idx4 = InsertHole(m3, idx2, header)
      BY <1>24, <2>2
    <3>3. header \notin ToSet(idx2)
      BY <1>26, <3>1
    <3> DEFINE less == {g \in ToSet(idx2) : SizeOf(m3, g) < SizeOf(m3, header)}
    <3>4. InsertHole(m3, idx2, header) = Insert(idx2, header, less)
      BY DEF InsertHole
    <3> HIDE DEF less
    <3>5. /\ Insert(idx2, header, less) \in Seq(Int)
          /\ Distinct(Insert(idx2, header, less))
          /\ ToSet(Insert(idx2, header, less)) = ToSet(idx2) \cup {header}
      BY <1>14, <1>26, <3>3, InsertKeeps
    <3> QED BY <1>26, <3>2, <3>4, <3>5
  <2> QED BY <2>1, <2>2
<1> HIDE DEF idx4
<1>28. d.mem = M3 /\ d.index = idx4
  BY <1>1, <1>24
<1> QED BY <1>14, <1>17, <1>20, <1>25, <1>27, <1>28

--------------------------------------------------------------------------------
(* alloc *)

\* FindSmallestHole gives an entry that is large enough, and 0 only when there
\* is none (memorym.cpp:864-886).
LEMMA EntryFits ==
  ASSUME index \in Seq(Int), NEW s,
         NEW k, k = FindSmallestHole(s, 0)
  PROVE  /\ k # 0 => k \in 1 .. Len(index) /\ SizeOf(mem, index[k]) >= s
         /\ k = 0 => \A h \in Holes : ~(SizeOf(mem, h) >= s)
<1> DEFINE I == {i \in 1 .. Len(index) : SizeOf(mem, index[i]) >= s}
<1>1. Len(index) \in Nat /\ Holes = {index[i] : i \in 1 .. Len(index)}
  BY ItemsOf DEF Holes
<1>2. k = IF I # {} THEN Min(I) ELSE 0
  BY DEF FindSmallestHole, SelectInSeq
<1>3. I # {} => Min(I) \in I
  BY <1>1, MinOfPositions
<1>4. I # {} => k # 0
  BY <1>1, <1>2, <1>3
<1> QED BY <1>1, <1>2, <1>3, <1>4

\* The hole of entry k is large enough.
Fits(k, size) == SizeOf(mem, index[k]) >= size + Overhead

\* alloc in a hole that is large enough keeps a sound heap sound, gives out a
\* block of the size asked for, and writes to the hole's words only
\* (memorym.cpp:743-816).
LEMMA AllocatedSound ==
  ASSUME Sound, end \in Ends, NEW k \in 1 .. Len(index), NEW size \in Nat,
         Fits(k, size)
  PROVE  LET d == Allocated(k, size, 0)
             p == index[k]
         IN
         /\ p \in Holes /\ p \in Int /\ p \notin Blocks /\ d.ptr = p + Hdr
         /\ d.mem \in Mem /\ d.index \in Seq(Int) /\ Distinct(d.index)
         /\ \E q : ToSet(d.index) \subseteq (Holes \ {p}) \cup {q}
         /\ Layout(d.mem, Blocks \cup {p}, ToSet(d.index), end)
         /\ \A c \in Blocks : SizeOf(d.mem, c) = SizeOf(mem, c)
         /\ size + Overhead <= SizeOf(d.mem, p)
         /\ SameOutside(mem, d.mem, p, p + SizeOf(mem, p))
<1> DEFINE p == index[k]
           n == SizeOf(mem, p)
           asked == size + Overhead
           whole == Sub(n, asked) < Overhead
           new == IF whole THEN n ELSE asked
           rest == Sub(n, new)
           m2 == WriteFooter(WriteHeader(mem, p, 0, new), p + new - Ftr, p)
           hole == p + new
           footer == Plus(hole, rest - Ftr)
           m3 == WriteHeader(m2, hole, 1, rest)
           m4 == IF footer < end THEN WriteFooter(m3, footer, hole) ELSE m3
           left == RemoveItem(index, k)
           mm == IF rest > 0 THEN m4 ELSE m2
           idx == IF rest > 0 THEN InsertHole(m4, left, hole) ELSE left
           d == Allocated(k, size, 0)
<1>1. d.ptr = p + Hdr /\ d.mem = mm /\ d.index = idx
  <2>0. ~(0 = 1)
    OBVIOUS
  <2>1. d.ptr = p + Hdr
    BY <2>0, ZenonT(30) DEF Allocated
  <2>2. d.mem = mm
    BY <2>0, ZenonT(30) DEF Allocated
  <2>3. d.index = idx
    BY <2>0, ZenonT(30) DEF Allocated
  <2> QED BY <2>1, <2>2, <2>3
<1> HIDE DEF d
<1>2. /\ mem \in Mem /\ index \in Seq(Int) /\ Distinct(index)
      /\ Layout(mem, Blocks, Holes, end)
  BY DEF Sound
<1>3. Holes = ToSet(index) /\ p \in Holes
  BY <1>2, ItemsOf DEF Holes
<1>4. /\ \A c \in Blocks \cup Holes : c \in Int /\ SizeOf(mem, c) \in Int /\ Start <= c
                          /\ 5 <= SizeOf(mem, c) /\ c + SizeOf(mem, c) <= end
      /\ Blocks \cap Holes = {}
  BY <1>2, LayoutParts
<1>5. /\ end \in Int /\ Start \in Nat /\ MaxAddress \in Int /\ end <= MaxAddress
      /\ Ftr = 2 /\ Overhead = 5 /\ AddressMod \in Int /\ MaxAddress < AddressMod
  BY <1>2, LayoutParts, Constants
<1>6. /\ p \in Int /\ n \in Int /\ Start <= p /\ 5 <= n /\ p + n <= end /\ asked \in Int
      /\ asked <= n /\ 5 <= asked /\ p \notin Blocks
  BY <1>3, <1>4, <1>5 DEF Fits
<1>7. left \in Seq(Int) /\ Distinct(left) /\ ToSet(left) = Holes \ {p}
  BY <1>2, <1>3, RemoveKeeps
<1> HIDE DEF p, n, asked, left
<1>8. Sub(n, asked) = n - asked
  BY <1>5, <1>6, NoWrap
<1>9. whole <=> n - asked < 5
  BY <1>5, <1>8
<1> HIDE DEF whole
<1>10. /\ new \in Int /\ asked <= new /\ new <= n
       /\ rest = n - new /\ rest \in Int
       /\ whole => new = n /\ rest = 0
       /\ ~whole => 5 <= rest
  <2>1. new \in Int /\ asked <= new /\ new <= n
    BY <1>6
  <2>2. (whole => new = n) /\ (~whole => new = asked)
    OBVIOUS
  <2> HIDE DEF new
  <2>3. Sub(n, new) = n - new
    BY <1>5, <1>6, <2>1, NoWrap
  <2> QED BY <1>6, <1>9, <2>1, <2>2, <2>3
<1> HIDE DEF new
<1>11. CASE whole
  <2>1. new = n /\ ~(rest > 0)
    BY <1>10, <1>11
  <2> HIDE DEF rest
  <2>2. mm = m2 /\ idx = left
    BY <2>1
  <2> HIDE DEF mm, idx
  <2>3. m2 = WriteFooter(WriteHeader(mem, p, 0, n), p + n - Ftr, p)
    BY <2>1
  <2> HIDE DEF m2
  <2>4. n = SizeOf(mem, p)
    BY DEF n
  <2>5. /\ m2 \in Mem /\ SameOutside(mem, m2, p, p + n)
        /\ \A h \in (Blocks \cup Holes) \ {p} : SizeOf(m2, h) = SizeOf(mem, h)
        /\ SizeOf(m2, p) = n
        /\ Layout(m2, Blocks \cup {p}, Holes \ {p}, end)
    <3>1. /\ mem \in Mem /\ end \in Ends /\ Layout(mem, Blocks, Holes, end) /\ p \in Holes
          /\ n \in Int
      BY <1>2, <1>3, <1>6
    <3>2. TakesWhole(mem, m2, end, Blocks, Holes, p, n)
      BY <3>1, <2>3, <2>4 DEF TakesWhole
    <3>3. TookWhole(mem, m2, end, Blocks, Holes, p, n)
      BY <3>2, WholeTaken
    <3> QED BY <3>3 DEF TookWhole
  <2>6. \A c \in Blocks : SizeOf(m2, c) = SizeOf(mem, c)
    BY <1>6, <2>5
  <2>7. d.mem = m2 /\ ToSet(d.index) = Holes \ {p} /\ asked <= SizeOf(m2, p)
        /\ d.index \in Seq(Int) /\ Distinct(d.index)
    BY <1>1, <1>6, <1>7, <2>2, <2>5
  <2>8. SameOutside(mem, m2, p, p + SizeOf(mem, p))
    BY <2>4, <2>5
  <2> QED BY <1>1, <1>3, <1>6, <2>5, <2>6, <2>7, <2>8 DEF p, asked, d
<1>12. CASE ~whole
  <2>1. /\ rest > 0 /\ 5 <= rest /\ 5 <= new /\ new + rest = n
        /\ hole = p + new /\ hole \in Int
    BY <1>6, <1>10, <1>12
  <2>2. footer = p + new + rest - Ftr /\ footer < end
    <3>1. hole \in Nat /\ rest - Ftr \in Nat /\ hole + (rest - Ftr) < AddressMod
          /\ hole + (rest - Ftr) = p + new + rest - Ftr
          /\ hole + (rest - Ftr) < end
      BY <1>5, <1>6, <1>10, <2>1
    <3>2. footer = hole + (rest - Ftr)
      BY <3>1, NoWrap
    <3> QED BY <3>1, <3>2
  <2> HIDE DEF footer, rest
  <2>3. m4 = WriteFooter(WriteHeader(m2, p + new, 1, rest), p + new + rest - Ftr, p + new)
    BY <2>2
  <2>4. m2 = WriteFooter(WriteHeader(mem, p, 0, new), p + new - Ftr, p)
    OBVIOUS
  <2>5. mm = m4 /\ idx = InsertHole(m4, left, hole)
    BY <2>1
  <2> HIDE DEF mm, idx, m4, m2
  <2>6. n = SizeOf(mem, p) /\ new + rest = SizeOf(mem, p)
    BY <2>1 DEF n
  <2>7. /\ m4 \in Mem /\ SameOutside(mem, m4, p, p + new + rest)
        /\ \A h \in (Blocks \cup Holes) \ {p} : SizeOf(m4, h) = SizeOf(mem, h)
        /\ SizeOf(m4, p) = new
        /\ p + new \notin Blocks \cup Holes
        /\ Layout(m4, Blocks \cup {p}, (Holes \ {p}) \cup {p + new}, end)
    <3>1. /\ mem \in Mem /\ end \in Ends /\ Layout(mem, Blocks, Holes, end) /\ p \in Holes
          /\ new \in Int /\ rest \in Int /\ 5 <= new /\ 5 <= rest
      BY <1>2, <1>3, <1>10, <2>1
    <3>2. TakesPart(mem, m2, m4, end, Blocks, Holes, p, new, rest)
      BY <3>1, <2>3, <2>4, <2>6 DEF TakesPart
    <3>3. TookPart(mem, m4, end, Blocks, Holes, p, new, rest)
      BY <3>2, PartTaken
    <3> QED BY <3>3 DEF TookPart
  <2>8. \A c \in Blocks : SizeOf(m4, c) = SizeOf(mem, c)
    BY <1>6, <2>7
  <2>9. SameOutside(mem, m4, p, p + n)
    <3>1. p + new + rest = p + n
      BY <1>6, <1>10, <2>1
    <3> QED BY <2>7, <3>1
  <2>10. idx \in Seq(Int) /\ Distinct(idx) /\ ToSet(idx) = (Holes \ {p}) \cup {hole}
    <3> DEFINE less == {g \in ToSet(left) : SizeOf(m4, g) < SizeOf(m4, hole)}
    <3>1. InsertHole(m4, left, hole) = Insert(left, hole, less)
      BY DEF InsertHole
    <3>2. hole \notin ToSet(left)
      BY <1>7, <2>7
    <3> HIDE DEF less, hole
    <3>3. /\ Insert(left, hole, less) \in Seq(Int)
          /\ Distinct(Insert(left, hole, less))
          /\ ToSet(Insert(left, hole, less)) = ToSet(left) \cup {hole}
      BY <1>7, <2>1, <3>2, InsertKeeps
    <3> QED BY <1>7, <2>5, <3>1, <3>3
  <2>11. asked <= SizeOf(m4, p)
    BY <1>10, <2>7
  <2>12. d.mem = m4 /\ ToSet(d.index) = (Holes \ {p}) \cup {p + new}
         /\ d.index \in Seq(Int) /\ Distinct(d.index)
    BY <1>1, <2>1, <2>5, <2>10
  <2>13. SameOutside(mem, m4, p, p + SizeOf(mem, p))
    BY <2>6, <2>9
  <2> QED BY <1>1, <1>3, <1>6, <2>7, <2>8, <2>11, <2>12, <2>13 DEF p, asked, d
<1> QED BY <1>11, <1>12

--------------------------------------------------------------------------------
(* Steps *)

\* The heap begins as one hole (memorym.cpp:914-942).
LEMMA InitInv == Init => Inv
<1> SUFFICES ASSUME Init PROVE Inv
  OBVIOUS
<1> DEFINE m == [a \in Start .. MaxAddress - 1 |-> 0]
           n == InitialEnd - Start
<1>1. /\ Start \in Int /\ MaxAddress \in Int /\ InitialEnd \in Int /\ n \in Int
      /\ Start + 5 <= InitialEnd /\ InitialEnd <= MaxAddress /\ InitialEnd \in Ends
      /\ Overhead = 5
  BY Constants DEF Ends
<1>2. m \in Mem /\ \A a \in Addr : m[a] = 0
  BY DEF Mem, Addr
<1>3. mem = WriteHeader(m, Start, 1, n) /\ index = <<Start>> /\ end = InitialEnd
      /\ live = {} /\ call = NoCall /\ stopped = "" /\ dangling = FALSE
  BY DEF Init
<1>30. end = InitialEnd /\ end \in Int /\ Start + 5 <= end
  BY <1>1, <1>3
<1>7. Start + n = end /\ n >= 5 /\ n > 0 /\ Start \in Start .. end - Overhead
      /\ n \in Overhead .. end - Start
  BY <1>1, <1>30
<1> HIDE DEF m, n
<1>4. /\ mem \in Mem
      /\ \A a \in Addr : mem[a] = IF a = Start THEN Magic ELSE IF a = Start + 1 THEN 1
                                  ELSE IF a = Start + 2 THEN n ELSE m[a]
  <2>1. Start + 3 <= MaxAddress
    BY <1>1
  <2>2. 1 \in Int
    OBVIOUS
  <2> DEFINE w == WriteHeader(m, Start, 1, n)
  <2>3. /\ w \in Mem
        /\ \A b \in Addr : w[b] = IF b = Start THEN Magic ELSE IF b = Start + 1 THEN 1
                                   ELSE IF b = Start + 2 THEN n ELSE m[b]
    BY <1>1, <1>2, <2>1, <2>2, HeaderWritten
  <2>4. mem = w
    BY <1>3
  <2> HIDE DEF w
  <2> QED BY <2>3, <2>4
<1>5. Start \in Addr /\ Start + 1 \in Addr /\ Start + 2 \in Addr
      /\ Start # Start + 1 /\ Start # Start + 2 /\ Start + 1 # Start + 2
  BY <1>1 DEF Addr
<1>6. Read(mem, Start) = Magic /\ Read(mem, Start + 1) = 1 /\ SizeOf(mem, Start) = n
  BY <1>4, <1>5, WordRead DEF SizeOf
<1>8. Chunk(mem, Start, 1, end)
  BY <1>6, <1>7 DEF Chunk
<1>11. index \in Seq(Int) /\ Distinct(index) /\ Len(index) = 1 /\ index[1] = Start
  <2> DEFINE t == <<Start>>
  <2>1. t \in Seq(Int) /\ Len(t) = 1 /\ t[1] = Start
    BY <1>1
  <2>2. index = t
    BY <1>3
  <2> HIDE DEF t
  <2>3. \A i, j \in 1 .. 1 : i = j
    OBVIOUS
  <2>4. Distinct(t)
    BY <2>1, <2>3 DEF Distinct
  <2> QED BY <2>1, <2>2, <2>4
<1>9. Blocks = {} /\ Holes = {Start}
  <2>1. live = {}
    BY <1>3
  <2>2. Blocks = {}
    BY <2>1 DEF Blocks
  <2>3. Holes = {index[i] : i \in 1 .. 1}
    BY <1>11, ItemsOf DEF Holes
  <2>4. \A i \in 1 .. 1 : index[i] = Start
    <3>1. \A i \in 1 .. 1 : i = 1
      OBVIOUS
    <3> QED BY <1>11, <3>1
  <2>5. 1 \in 1 .. 1
    OBVIOUS
  <2> QED BY <2>2, <2>3, <2>4, <2>5
<1>10. Layout(mem, Blocks, Holes, end)
  <2>1. Tiling(mem, {Start}, Start, end)
    BY <1>1, <1>6, <1>7, TilingOfOne
  <2>2. Apart(mem, {Start})
    BY <1>1, <1>6, <1>7 DEF Apart
  <2>3. {} \cup {Start} = {Start}
    OBVIOUS
  <2> QED BY <1>8, <1>9, <2>1, <2>2, <2>3 DEF Layout
<1>12. \A a \in Addr : a >= end => mem[a] = 0
  <2>1. \A a \in Addr : a >= end => a # Start /\ a # Start + 1 /\ a # Start + 2
    BY <1>1, <1>30 DEF Addr
  <2> QED BY <1>2, <1>4, <2>1
<1>13. Good
  BY <1>3, <1>4, <1>10, <1>11, <1>12 DEF Good, Sound
<1> QED BY <1>3, <1>13 DEF Inv, Calls

\* What lies in a block that is not written over stays as it is.
LEMMA WordsKept ==
  ASSUME Sound, live \subseteq Held, end \in Ends, NEW m2, NEW lo \in Int, NEW hi \in Int,
         SameOutside(mem, m2, lo, hi), NEW C, Beside(mem, C, lo, hi),
         NEW b \in live, b.ptr - Hdr \in C
  PROVE  \A a \in Words(b) : m2[a] = mem[a]
<1> DEFINE h == b.ptr - Hdr
           n == SizeOf(mem, h)
<1>1. b.ptr \in Int /\ b.size \in Nat /\ h \in Blocks
  BY HeapAssumption DEF Held, Blocks
<1>2. h \in Int /\ n \in Int /\ Start <= h /\ 5 <= n /\ h + n <= end
      /\ end \in Int /\ end <= MaxAddress
  BY <1>1, LayoutParts DEF Sound
<1>3. b.size + 5 <= n
  BY Constants DEF Sound
<1>4. h + n <= lo \/ hi <= h
  BY DEF Beside
<1>5. b.ptr = h + 3
  BY <1>1, Constants
<1> HIDE DEF h, n
<1> SUFFICES ASSUME NEW a \in b.ptr .. b.ptr + b.size - 1
             PROVE  m2[a] = mem[a]
  BY DEF Words
<1>6. a \in Int /\ h <= a /\ a < h + n
  BY <1>1, <1>2, <1>3, <1>5
<1>7. a \in Addr /\ (a < lo \/ hi <= a)
  BY <1>2, <1>4, <1>6, Constants DEF Addr
<1> QED BY <1>7 DEF SameOutside

\* A call in progress asks for a size and for no page boundary
\* (memorym.cpp:689).
LEMMA CallInProgress ==
  ASSUME call \in Calls, call # NoCall
  PROVE  /\ call.size \in Requests /\ call.size \in Nat /\ call.size \in Int
         /\ call.size > 0 /\ call.pageAlign = 0
<1> DEFINE Plain == {0}
<1>1. call \in [size : Requests, pageAlign : Plain]
  BY DEF Calls
<1>2. \A q \in Plain : q = 0
  OBVIOUS
<1> HIDE DEF Plain
<1>3. call.size \in Requests /\ call.pageAlign \in Plain
  BY <1>1
<1>4. \A s \in Requests : s \in Nat /\ s > 0
  BY HeapAssumption
<1>5. call.size \in Nat /\ call.size > 0
  BY <1>3, <1>4
<1>6. call.size \in Int
  BY <1>5
<1> QED BY <1>2, <1>3, <1>5, <1>6

\* No word of a block a client keeps changes.
Intact == \A b \in live \cap live' : \A a \in Words(b) : mem'[a] = mem[a]

\* A block is taken from one hole, of which at most one is left.
TookHole(p) ==
  /\ call.size + Overhead <= SizeOf(mem, p)
  /\ live' = live \cup {[ptr |-> p + Hdr, size |-> call.size]}
  /\ Blocks' = Blocks \cup {p}
  /\ \A h \in Blocks : SizeOf(mem', h) = SizeOf(mem, h)
  /\ \E q : Holes' \subseteq (Holes \ {p}) \cup {q}

\* alloc in a hole that fits (memorym.cpp:743-826).
LEMMA FitsStep ==
  ASSUME Sound, end \in Ends, live \subseteq Held, call \in Calls, AllocFits
  PROVE  /\ Sound' /\ live' \subseteq Held
         /\ Good => Good'
         /\ Intact
         /\ \E p \in Holes : TookHole(p)
<1> DEFINE k == Entry
           p == index[k]
           s == call.size
           d == Allocated(k, s, 0)
<1>1. call.pageAlign = 0 /\ s \in Requests /\ s \in Nat /\ s \in Int /\ call # NoCall
  <2>1. call # NoCall
    BY DEF AllocFits
  <2> QED BY <2>1, CallInProgress
<1>2. /\ k # 0 /\ mem' = d.mem /\ index' = d.index
      /\ live' = live \cup {[ptr |-> d.ptr, size |-> s]}
      /\ end' = end
  BY <1>1 DEF AllocFits
<1>3. index \in Seq(Int) /\ mem \in Mem /\ Layout(mem, Blocks, Holes, end)
  BY DEF Sound
<1>4. k \in 1 .. Len(index) /\ Fits(k, s)
  <2>1. k = FindSmallestHole(s + Overhead, 0)
    BY <1>1 DEF Entry
  <2> HIDE DEF k
  <2> QED BY <1>2, <1>3, <2>1, EntryFits DEF Fits
<1> HIDE DEF k, s
<1>5. /\ p \in Holes /\ p \in Int /\ p \notin Blocks /\ d.ptr = p + Hdr
      /\ d.mem \in Mem /\ d.index \in Seq(Int) /\ Distinct(d.index)
      /\ \E q : ToSet(d.index) \subseteq (Holes \ {p}) \cup {q}
      /\ Layout(d.mem, Blocks \cup {p}, ToSet(d.index), end)
      /\ \A c \in Blocks : SizeOf(d.mem, c) = SizeOf(mem, c)
      /\ s + Overhead <= SizeOf(d.mem, p)
      /\ SameOutside(mem, d.mem, p, p + SizeOf(mem, p))
  BY <1>1, <1>4, AllocatedSound
<1> HIDE DEF d, p
<1>6. live' = live \cup {[ptr |-> p + Hdr, size |-> s]}
  BY <1>2, <1>5
<1> DEFINE block == [ptr |-> p + Hdr, size |-> s]
<1>20. block.ptr = p + Hdr /\ block.size = s /\ block.ptr - Hdr = p /\ block.ptr \in Int
  BY <1>5, Constants
<1>21. \A b \in live' : b \in live \/ b = block
  BY <1>6
<1>22. live \subseteq live' /\ block \in live'
  BY <1>6
<1> HIDE DEF block
<1>7. Blocks' = Blocks \cup {p}
  <2>1. Blocks' = {b.ptr - Hdr : b \in live'}
    BY DEF Blocks
  <2> QED BY <1>20, <1>21, <1>22, <2>1 DEF Blocks
<1>8. Holes' = ToSet(d.index)
  BY <1>2 DEF Holes
<1>9. live' \subseteq Held
  <2>1. p + Hdr \in Int
    BY <1>5, Constants
  <2> QED BY <1>1, <1>6, <2>1 DEF Held
<1>10. /\ p \in Int /\ SizeOf(mem, p) \in Int /\ p + SizeOf(mem, p) <= end
       /\ Beside(mem, (Blocks \cup Holes) \ {p}, p, p + SizeOf(mem, p))
       /\ end \in Int
  BY <1>3, <1>5, BesideOne, LayoutParts
<1>11. \A b \in live' : b.size + Overhead <= SizeOf(mem', b.ptr - Hdr)
  <2>1. ASSUME NEW b \in live PROVE b.size + Overhead <= SizeOf(mem', b.ptr - Hdr)
    <3>1. b.ptr - Hdr \in Blocks
      BY DEF Blocks
    <3>2. b.size + Overhead <= SizeOf(mem, b.ptr - Hdr)
      BY DEF Sound
    <3> QED BY <1>2, <1>5, <3>1, <3>2
  <2>2. block.size + Overhead <= SizeOf(mem', block.ptr - Hdr)
    BY <1>2, <1>5, <1>20
  <2> QED BY <1>21, <2>1, <2>2
<1>12. \A b, c \in live' : b.ptr = c.ptr => b = c
  <2>1. ASSUME NEW b \in live PROVE b.ptr # block.ptr
    <3>1. b.ptr - Hdr \in Blocks
      BY DEF Blocks
    <3> QED BY <1>5, <1>20, <3>1
  <2>2. \A b, c \in live : b.ptr = c.ptr => b = c
    BY DEF Sound
  <2> QED BY <1>21, <2>1, <2>2
<1>13. Good => \A a \in Addr : a >= end' => mem'[a] = 0
  <2> SUFFICES ASSUME \A a \in Addr : a >= end => mem[a] = 0,
                      NEW a \in Addr, a >= end
               PROVE  d.mem[a] = 0
    BY <1>2 DEF Good
  <2>1. a \in Int /\ p + SizeOf(mem, p) <= a
    BY <1>10, Constants DEF Addr
  <2>2. d.mem[a] = mem[a]
    BY <1>5, <2>1 DEF SameOutside
  <2> QED BY <2>2
<1>14. Sound'
  <2>1. Layout(mem', Blocks', Holes', end')
    BY <1>2, <1>5, <1>7, <1>8
  <2> QED BY <1>2, <1>5, <1>11, <1>12, <2>1 DEF Sound
<1>18. Good => Good'
  BY <1>13, <1>14 DEF Good
<1>15. Intact
  <2> SUFFICES ASSUME NEW b \in live PROVE \A a \in Words(b) : mem'[a] = mem[a]
    BY DEF Intact
  <2>1. b.ptr - Hdr \in (Blocks \cup Holes) \ {p}
    BY <1>5 DEF Blocks
  <2>2. p + SizeOf(mem, p) \in Int
    BY <1>10
  <2>3. \A a \in Words(b) : d.mem[a] = mem[a]
    BY <1>5, <1>10, <2>1, <2>2, WordsKept
  <2> QED BY <1>2, <2>3
<1>16. s + Overhead <= SizeOf(mem, p)
  <2>1. SizeOf(mem, p) >= s + Overhead
    BY <1>4 DEF Fits, p
  <2> QED BY <1>1, <1>10, <2>1, Constants
<1>17. TookHole(p)
  <2>1. \E q : Holes' \subseteq (Holes \ {p}) \cup {q}
    BY <1>5, <1>8
  <2>2. \A h \in Blocks : SizeOf(mem', h) = SizeOf(mem, h)
    BY <1>2, <1>5
  <2> QED BY <1>6, <1>7, <1>16, <2>1, <2>2 DEF TookHole, s
<1> QED BY <1>5, <1>9, <1>14, <1>15, <1>17, <1>18

\* free of a block, when it neither cuts the heap nor leaves a footer behind
\* (memorym.cpp:578-687).
LEMMA FreeStep ==
  ASSUME Good, end \in Ends, live \subseteq Held, NEW b \in live, Free(b), end' = end,
         ~UnifiesInside(b.ptr)
  PROVE  /\ Good' /\ live' \subseteq Held
         /\ Intact
<1> DEFINE p == b.ptr - Hdr
           d == Freed(b.ptr)
<1>1. /\ mem' = d.mem /\ index' = d.index /\ live' = live \ {b}
      /\ end' = Start + d.length
  BY DEF Free
<1>2. end \in Int /\ Start \in Int /\ end - Start \in Int /\ MinSize \in Int
  BY Constants, HeapAssumption DEF Ends
<1>3. d.length = end - Start
  <2>1. d.length \in Int
    <3>1. \A x \in Nat : ContractedSize(x) \in Int
      BY <1>2, FrameAssumption DEF ContractedSize
    <3>2. d.length = end - Start \/ \E x \in Nat : d.length = ContractedSize(x)
      BY FreedSound
    <3> QED BY <1>2, <3>1, <3>2
  <2> HIDE DEF d
  <2> QED BY <1>1, <1>2, <2>1
<1>4. /\ d.mem \in Mem /\ d.index \in Seq(Int) /\ Distinct(d.index)
      /\ Layout(d.mem, Blocks \ {p}, ToSet(d.index), end)
      /\ \A c \in Blocks \ {p} : SizeOf(d.mem, c) = SizeOf(mem, c)
      /\ \E lo, hi \in Int : /\ SameOutside(mem, d.mem, lo, hi) /\ hi <= end
                             /\ Beside(mem, Blocks \ {p}, lo, hi)
  BY <1>3, FreedSound
<1> HIDE DEF d
<1>5. PICK lo \in Int, hi \in Int : /\ SameOutside(mem, d.mem, lo, hi) /\ hi <= end
                                    /\ Beside(mem, Blocks \ {p}, lo, hi)
  BY <1>4
<1>6. \A c \in live : c.ptr \in Int /\ c.ptr - Hdr \in Blocks /\ c.ptr - Hdr + Hdr = c.ptr
  BY Constants DEF Held, Blocks
<1>7. \A c \in live' : c \in live /\ c.ptr - Hdr # p /\ c.ptr - Hdr \in Blocks \ {p}
  <2> SUFFICES ASSUME NEW c \in live, c # b PROVE c.ptr - Hdr # p
    BY <1>1, <1>6
  <2>1. c.ptr # b.ptr
    BY DEF Good, Sound
  <2> QED BY <1>6, <2>1
<1>8. Blocks' = Blocks \ {p}
  <2>1. Blocks' = {c.ptr - Hdr : c \in live'}
    BY DEF Blocks
  <2>2. \A h \in Blocks' : h \in Blocks \ {p}
    BY <1>7, <2>1
  <2>3. ASSUME NEW h \in Blocks \ {p} PROVE h \in Blocks'
    <3>1. PICK c \in live : h = c.ptr - Hdr
      BY DEF Blocks
    <3>2. c \in live'
      BY <1>1, <3>1, <2>3
    <3> QED BY <2>1, <3>1, <3>2
  <2> QED BY <2>2, <2>3
<1>9. Holes' = ToSet(d.index)
  BY <1>1 DEF Holes
<1> HIDE DEF p
<1>10. \A c \in live' : c.size + Overhead <= SizeOf(mem', c.ptr - Hdr)
  <2> SUFFICES ASSUME NEW c \in live' PROVE c.size + Overhead <= SizeOf(d.mem, c.ptr - Hdr)
    BY <1>1
  <2>1. c.size + Overhead <= SizeOf(mem, c.ptr - Hdr)
    BY <1>7 DEF Good, Sound
  <2> QED BY <1>4, <1>7, <2>1
<1>11. \A c, e \in live' : c.ptr = e.ptr => c = e
  BY <1>7 DEF Good, Sound
<1>12. \A a \in Addr : a >= end' => mem'[a] = 0
  <2> SUFFICES ASSUME NEW a \in Addr, a >= end PROVE d.mem[a] = 0
    BY <1>1
  <2>1. a \in Int /\ hi <= a
    BY <1>2, <1>5, Constants DEF Addr
  <2>2. d.mem[a] = mem[a]
    BY <1>5, <2>1 DEF SameOutside
  <2> QED BY <2>2 DEF Good, Sound
<1>13. Good'
  <2>1. Layout(mem', Blocks', Holes', end')
    BY <1>1, <1>4, <1>8, <1>9
  <2> QED BY <1>1, <1>4, <1>10, <1>11, <1>12, <2>1 DEF Good, Sound
<1>14. live' \subseteq Held
  BY <1>1
<1>15. Intact
  <2> SUFFICES ASSUME NEW c \in live' PROVE \A a \in Words(c) : d.mem[a] = mem[a]
    BY <1>1 DEF Intact
  <2> QED BY <1>5, <1>7, WordsKept DEF Good
<1> QED BY <1>13, <1>14, <1>15

\* A step that leaves the heap's memory and the clients' blocks alone keeps a
\* heap sound: the calls and the ways to stop (memorym.cpp:690-741).
LEMMA SoundUntouched ==
  ASSUME Sound, UNCHANGED <<mem, index, end, live>>
  PROVE  Sound'
<1>1. mem' = mem /\ index' = index /\ end' = end /\ live' = live
  OBVIOUS
<1>2. Blocks' = Blocks
  BY <1>1 DEF Blocks
<1>3. Holes' = Holes
  BY <1>1 DEF Holes
<1> QED BY <1>1, <1>2, <1>3 DEF Sound

\* Nor do these steps write behind the heap (memorym.cpp:690-741).
LEMMA GoodUntouched ==
  ASSUME Good, UNCHANGED <<mem, index, end, live>>
  PROVE  Good'
<1>1. Sound'
  BY SoundUntouched DEF Good
<1> QED BY <1>1 DEF Good

\* ExpandHeap makes the heap longer by the block that found no hole: the number
\* of bytes it rounds up only when it is odd is even
\* (memorym.cpp:696-699, 988-1009).
LEMMA Grows ==
  ASSUME end \in Ends, call.size \in Nat
  PROVE  ExpandedEnd = end + call.size + Overhead /\ ExpandedEnd > end
<1> DEFINE n == end - Start + call.size + Overhead
<1>1. end \in Int /\ Start \in Int /\ n \in Nat /\ Overhead = 5
  BY Constants DEF Ends
<1>2. (n * BytesPerWord) % 2 = 0
  <2> HIDE DEF n
  <2>1. n * 4 = 2 * (2 * n) /\ 2 * n \in Nat
    BY <1>1
  <2>2. \A k \in Nat : (2 * k) % 2 = 0
    OBVIOUS
  <2> QED BY <2>1, <2>2 DEF BytesPerWord
<1>3. ExpandedEnd = Start + n
  <2>1. ExpandedEnd = Start + ExpandedSize(n)
    BY DEF ExpandedEnd, n
  <2> HIDE DEF n
  <2> QED BY <1>2, <2>1 DEF ExpandedSize
<1> QED BY <1>1, <1>3

\* The kernel stops with the heap as it is, and panics in alloc only
\* (memorym.cpp:690-741).
LEMMA StopKeeps ==
  ASSUME Inv, NEW why \in {"panic", "pageFault"}, Stop(why),
         ~dangling /\ why = "panic" => call # NoCall
  PROVE  Inv'
<1>1. /\ UNCHANGED <<mem, index, end, live>> /\ call' = call /\ dangling' = dangling
      /\ stopped' = why
  BY DEF Stop
<1>2. ~dangling => Good'
  BY <1>1, GoodUntouched DEF Inv
<1> QED BY <1>1, <1>2 DEF Inv

\* Blocks and holes fill the heap after every step that keeps its size
\* (memorym.cpp:578-826).
LEMMA InvStep ==
  ASSUME Unaligned, Inv, Next \/ UNCHANGED vars, end' = end \/ UNCHANGED vars
  PROVE  Inv'
<1>1. InitialEnd \in Ends
  BY Constants
<1>2. ASSUME UNCHANGED vars
      PROVE  Inv'
  <2>1. ~dangling => Good'
    BY <1>2, GoodUntouched DEF Inv, vars
  <2> QED BY <1>2, <2>1 DEF Inv, vars
<1> SUFFICES ASSUME Next, end' = end
             PROVE  Inv'
  BY <1>2
<1>3. ASSUME NEW size \in Requests, NEW pageAlign \in Aligns, Alloc(size, pageAlign)
      PROVE  Inv'
  <2>1. /\ UNCHANGED <<mem, index, end, live>> /\ dangling' = dangling
        /\ stopped' = stopped /\ stopped = ""
        /\ call' = [size |-> size, pageAlign |-> pageAlign]
    BY <1>3 DEF Alloc
  <2>2. ~dangling => Good'
    BY <2>1, GoodUntouched DEF Inv
  <2>3. call' \in Calls
    BY <2>1 DEF Calls, Unaligned
  <2> QED BY <2>1, <2>2, <2>3 DEF Inv
<1>4. ASSUME AllocFits
      PROVE  Inv'
  <2>1. call' = NoCall /\ dangling' = dangling /\ stopped' = stopped /\ stopped = ""
    BY <1>4 DEF AllocFits
  <2>2. ~dangling => Good' /\ live' \subseteq Held
    BY <1>1, <1>4, FitsStep DEF Inv, Good
  <2> QED BY <2>1, <2>2 DEF Inv, Calls
<1>5. ASSUME AllocExpands
      PROVE  Inv'
  <2>1. call' = call /\ dangling' = dangling /\ stopped' = stopped /\ end' = ExpandedEnd
        /\ call # NoCall
    BY <1>5 DEF AllocExpands
  <2>2. call.size \in Nat
    BY <2>1, CallInProgress DEF Inv
  <2>3. ~dangling => FALSE
    <3> SUFFICES ASSUME ~dangling PROVE FALSE
      OBVIOUS
    <3>1. end \in Ends
      BY <1>1 DEF Inv
    <3>2. ExpandedEnd > end /\ end \in Int
      BY <2>2, <3>1, Grows DEF Ends
    <3> QED BY <2>1, <3>2
  <2> QED BY <2>1, <2>3 DEF Inv
<1>6. ASSUME AllocFaults
      PROVE  Inv'
  BY <1>6, StopKeeps DEF AllocFaults
<1>7. ASSUME AllocPanics
      PROVE  Inv'
  BY <1>7, StopKeeps DEF AllocPanics
<1>8. ASSUME NEW b \in live, Free(b)
      PROVE  Inv'
  <2>1. /\ call' = call /\ stopped' = stopped /\ stopped = ""
        /\ dangling' = (dangling \/ UnifiesInside(b.ptr))
    BY <1>8 DEF Free, MayFree
  <2>2. ~dangling /\ ~UnifiesInside(b.ptr) => Good' /\ live' \subseteq Held
    BY <1>1, <1>8, FreeStep DEF Inv
  <2> HIDE DEF UnifiesInside
  <2> QED BY <2>1, <2>2 DEF Inv
<1>9. ASSUME NEW b \in live, FreeFaults(b)
      PROVE  Inv'
  BY <1>9, StopKeeps DEF FreeFaults
<1>10. ASSUME NEW b \in live, FreePanics(b)
       PROVE  Inv'
  <2>1. ~dangling => Freed(b.ptr).asserts
    BY <1>1, FreedSound DEF Inv
  <2>2. ~Freed(b.ptr).asserts /\ Stop("panic")
    BY <1>10 DEF FreePanics
  <2> QED BY <2>1, <2>2, StopKeeps
<1> QED BY <1>3, <1>4, <1>5, <1>6, <1>7, <1>8, <1>9, <1>10 DEF Next

--------------------------------------------------------------------------------
(* What the invariant says *)

\* What a client holds lies inside its block (memorym.cpp:796-805, 826).
LEMMA WordsInside ==
  ASSUME Sound, end \in Ends, live \subseteq Held, NEW b \in live
  PROVE  LET h == b.ptr - Hdr IN
         /\ b.ptr \in Int /\ b.size \in Nat /\ h \in Int /\ SizeOf(mem, h) \in Int
         /\ b.ptr = h + 3 /\ Start <= h /\ h + SizeOf(mem, h) <= end
         /\ b.size + 5 <= SizeOf(mem, h)
<1>1. b.ptr - Hdr \in Blocks
  BY DEF Blocks
<1>2. b.ptr \in Int /\ b.size \in Nat
  BY HeapAssumption DEF Held
<1>3. b.size + Overhead <= SizeOf(mem, b.ptr - Hdr)
  BY DEF Sound
<1>4. mem \in Mem /\ Layout(mem, Blocks, Holes, end)
  BY DEF Sound
<1>5. /\ b.ptr - Hdr \in Int /\ SizeOf(mem, b.ptr - Hdr) \in Int
      /\ Start <= b.ptr - Hdr /\ b.ptr - Hdr + SizeOf(mem, b.ptr - Hdr) <= end
  BY <1>1, <1>4, LayoutParts
<1> QED BY <1>2, <1>3, <1>5, Constants

\* Blocks and holes that fill the heap agree with the index, with the headers
\* and with the footers (memorym.cpp:578-816).
LEMMA SoundIsConsistent ==
  ASSUME Sound, end \in Ends, live \subseteq Held
  PROVE  HeapConsistent
<1> DEFINE C == Blocks \cup Holes
           n(h) == SizeOf(mem, h)
<1>1. mem \in Mem /\ Layout(mem, Blocks, Holes, end)
  BY DEF Sound
<1>2. /\ \A h \in C : h \in Int /\ n(h) \in Int /\ Start <= h /\ 5 <= n(h) /\ h + n(h) <= end
      /\ Blocks \cap Holes = {}
  BY <1>1, LayoutParts
<1>3. end \in Int /\ Start \in Int
  BY <1>1, LayoutParts, Constants
<1>4. Tiling(mem, C, Start, end)
  BY <1>1 DEF Layout
<1>5. \A h \in Blocks : Chunk(mem, h, 0, end)
  BY <1>1 DEF Layout
<1>6. \A h \in Holes : Chunk(mem, h, 1, end)
  BY <1>1 DEF Layout
<1>7. UNION {Extent(h) : h \in C} = Start .. end - 1
  <2>1. ASSUME NEW h \in C, NEW a \in Extent(h) PROVE a \in Start .. end - 1
    <3>1. a \in h .. h + n(h) - 1
      BY DEF Extent
    <3>2. h \in Int /\ n(h) \in Int /\ Start <= h /\ h + n(h) <= end
      BY <1>2
    <3> HIDE DEF n
    <3> QED BY <1>3, <3>1, <3>2
  <2>2. ASSUME NEW a \in Start .. end - 1 PROVE \E h \in C : a \in Extent(h)
    <3>1. PICK h \in C : h <= a /\ a < h + n(h)
      BY <1>4 DEF Tiling
    <3>2. h \in Int /\ n(h) \in Int /\ a \in Int
      BY <1>2, <1>3
    <3>3. a \in h .. h + n(h) - 1
      <4> HIDE DEF n
      <4> QED BY <3>1, <3>2
    <3> QED BY <3>3 DEF Extent
  <2> HIDE DEF C
  <2> QED BY <2>1, <2>2
<1>8. \A g, h \in C : g # h => Extent(g) \cap Extent(h) = {}
  <2>1. ASSUME NEW g \in C, NEW h \in C, g < h PROVE Extent(g) \cap Extent(h) = {}
    <3>1. g + n(g) <= h
      BY <1>4, <2>1 DEF Tiling
    <3>2. g \in Int /\ n(g) \in Int /\ h \in Int /\ n(h) \in Int
      BY <1>2
    <3>3. Extent(g) = g .. g + n(g) - 1 /\ Extent(h) = h .. h + n(h) - 1
      BY DEF Extent
    <3> HIDE DEF n
    <3> QED BY <3>1, <3>2, <3>3
  <2>2. \A g, h \in C : g # h => g < h \/ h < g
    BY <1>2
  <2> QED BY <2>1, <2>2
<1>9. \A h \in C : HasMagic(mem, h) /\ (IsHole(mem, h) <=> h \in Holes)
  <2>1. \A h \in Blocks : Read(mem, h) = Magic /\ Read(mem, h + 1) = 0
    BY <1>5 DEF Chunk
  <2>2. \A h \in Holes : Read(mem, h) = Magic /\ Read(mem, h + 1) = 1
    BY <1>6 DEF Chunk
  <2> QED BY <1>2, <2>1, <2>2 DEF HasMagic, IsHole
<1>10. Len(index) = Cardinality(Holes)
  BY LengthIsCount DEF Sound, Holes
<1>11. \A b \in live : Words(b) \subseteq b.ptr .. b.ptr + SizeOf(mem, b.ptr - Hdr) - Overhead - 1
  <2> SUFFICES ASSUME NEW b \in live, NEW a \in b.ptr .. b.ptr + b.size - 1
               PROVE  a \in b.ptr .. b.ptr + SizeOf(mem, b.ptr - Hdr) - Overhead - 1
    BY DEF Words
  <2> DEFINE w == SizeOf(mem, b.ptr - Hdr)
  <2>1. b.ptr \in Int /\ b.size \in Int /\ w \in Int /\ b.size + 5 <= w
    BY WordsInside
  <2> HIDE DEF w
  <2>2. a \in b.ptr .. b.ptr + w - 5 - 1
    BY <2>1
  <2> QED BY <2>2, Constants DEF w
<1>12. NoAdjacentHoles
  BY <1>1 DEF Layout, Apart, NoAdjacentHoles
<1>13. FootersMatch
  <2> SUFFICES ASSUME NEW h \in C, h + n(h) - Ftr + Ftr # end
               PROVE  HasMagic(mem, h + n(h) - Ftr) /\ HeaderOf(mem, h + n(h) - Ftr) = h
    BY DEF FootersMatch
  <2>1. h + n(h) # end
    BY <1>2, Constants
  <2>2. \E flag \in {0, 1} : Chunk(mem, h, flag, end)
    BY <1>5, <1>6
  <2> QED BY <2>1, <2>2 DEF Chunk, HasMagic
<1>14. Tiled
  <2> HIDE DEF C
  <2>1. C = Blocks \cup Holes
    BY DEF C
  <2> QED BY <1>7, <1>8, <1>9, <1>10, <1>11, <2>1 DEF Tiled
<1> QED BY <1>12, <1>13, <1>14 DEF HeapConsistent

\* A heap that has kept its size is sound until free leaves a footer behind
\* (memorym.cpp:620).
LEMMA InvIsSound == Inv => SoundUntilDangling
<1>1. InitialEnd \in Ends
  BY Constants
<1> QED BY <1>1, SoundIsConsistent DEF Inv, Good, SoundUntilDangling

--------------------------------------------------------------------------------
(* A heap that keeps its size *)

\* The heap is neither grown nor cut before a footer dangles.
KeepsSize == [][~dangling => end' = end]_vars

\* A footer left behind stays behind, and nothing is said of the heap after it.
LEMMA DanglingStep ==
  ASSUME Unaligned, Inv, dangling, Next \/ UNCHANGED vars
  PROVE  Inv' /\ dangling'
<1>1. call \in Calls /\ NoCall \in Calls /\ stopped \in {"", "panic", "pageFault"}
  BY DEF Inv, Calls
<1>2. ASSUME NEW why \in {"panic", "pageFault"}, Stop(why)
      PROVE  call' \in Calls /\ dangling' = dangling /\ stopped' \in {"", "panic", "pageFault"}
  BY <1>1, <1>2 DEF Stop
<1>3. ASSUME NEW size \in Requests, NEW pageAlign \in Aligns, Alloc(size, pageAlign)
      PROVE  call' \in Calls /\ dangling' = dangling /\ stopped' = stopped
  <2>1. call' = [size |-> size, pageAlign |-> pageAlign]
    BY <1>3 DEF Alloc
  <2>2. call' \in Calls
    BY <2>1 DEF Calls, Unaligned
  <2>3. dangling' = dangling /\ stopped' = stopped
    BY <1>3 DEF Alloc
  <2> QED BY <2>2, <2>3
<1>4. AllocFits => call' = NoCall /\ dangling' = dangling /\ stopped' = stopped
  BY DEF AllocFits
<1>5. AllocExpands => call' = call /\ dangling' = dangling /\ stopped' = stopped
  BY DEF AllocExpands
<1>6. ASSUME NEW b \in live, Free(b)
      PROVE  call' = call /\ dangling' = TRUE /\ stopped' = stopped
  BY <1>6 DEF Free
<1>7. UNCHANGED vars => call' = call /\ dangling' = dangling /\ stopped' = stopped
  BY DEF vars
<1>8. AllocFaults \/ AllocPanics => \E why \in {"panic", "pageFault"} : Stop(why)
  BY DEF AllocFaults, AllocPanics
<1>9. \A b \in live : FreeFaults(b) \/ FreePanics(b) => \E why \in {"panic", "pageFault"} : Stop(why)
  BY DEF FreeFaults, FreePanics
<1>10. call' \in Calls /\ dangling' = TRUE /\ stopped' \in {"", "panic", "pageFault"}
  <2>1. CASE UNCHANGED vars
    BY <1>1, <1>7, <2>1
  <2>2. CASE \E why \in {"panic", "pageFault"} : Stop(why)
    BY <1>2, <2>2
  <2>3. CASE \E size \in Requests, pageAlign \in Aligns : Alloc(size, pageAlign)
    BY <1>1, <1>3, <2>3
  <2>4. CASE AllocFits \/ AllocExpands
    BY <1>1, <1>4, <1>5, <2>4
  <2>5. CASE \E b \in live : Free(b)
    BY <1>1, <1>6, <2>5
  <2> QED BY <1>8, <1>9, <2>1, <2>2, <2>3, <2>4, <2>5 DEF Next
<1> QED BY <1>10 DEF Inv

\* The invariant holds in every heap that keeps its size (memorym.cpp:578-826).
LEMMA InvAlways ==
  ASSUME Unaligned
  PROVE  Spec /\ KeepsSize => []Inv
<1>1. Init => Inv
  BY InitInv
<1>2. Inv /\ [Next]_vars /\ [~dangling => end' = end]_vars => Inv'
  <2> SUFFICES ASSUME Inv, Next \/ UNCHANGED vars, (~dangling => end' = end) \/ UNCHANGED vars
               PROVE  Inv'
    OBVIOUS
  <2>1. CASE ~dangling
    BY <2>1, InvStep
  <2>2. CASE dangling
    BY <2>2, DanglingStep
  <2> QED BY <2>1, <2>2
<1> QED BY <1>1, <1>2, PTL DEF Spec, KeepsSize

\* For every way in which clients free: as long as the heap is neither grown
\* nor cut, it stays sound until free leaves a footer behind that points to a
\* header that is gone.  That footer is the one cause of what goes wrong
\* (memorym.cpp:578-826).
THEOREM SoundWhileSizeKept ==
  ASSUME Unaligned
  PROVE  Spec /\ KeepsSize => []SoundUntilDangling
<1>1. Inv => SoundUntilDangling
  BY InvIsSound
<1> QED BY <1>1, InvAlways, PTL

--------------------------------------------------------------------------------
(* What clients see until a footer dangles *)

\* The invariant before a footer dangles.
SInv == Inv /\ ~dangling

\* A step of a sound heap leaves what clients keep as it is
\* (memorym.cpp:578-826).
LEMMA IntactStep ==
  ASSUME Unaligned, SInv, ~dangling', Next, end' = end
  PROVE  Intact
<1>1. end \in Ends /\ Good /\ live \subseteq Held /\ call \in Calls
  BY Constants DEF Inv, SInv
<1>2. mem' = mem => Intact
  BY DEF Intact
<1>3. AllocFits => Intact
  BY <1>1, FitsStep DEF Good
<1>4. ASSUME NEW b \in live, Free(b)
      PROVE  Intact
  <2>1. ~UnifiesInside(b.ptr)
    BY <1>4 DEF Free
  <2> QED BY <1>1, <1>4, <2>1, FreeStep
<1>5. ASSUME AllocExpands
      PROVE  FALSE
  <2>1. call.size \in Nat
    BY <1>1, <1>5, CallInProgress DEF AllocExpands
  <2>2. ExpandedEnd > end /\ end \in Int
    BY <1>1, <2>1, Grows DEF Ends
  <2>3. end' = ExpandedEnd
    BY <1>5 DEF AllocExpands
  <2> QED BY <2>2, <2>3
<1>6. \A why : Stop(why) => mem' = mem
  BY DEF Stop
<1> QED BY <1>2, <1>3, <1>4, <1>5, <1>6
        DEF Next, Alloc, AllocFaults, AllocPanics, FreeFaults, FreePanics

\* In a heap that keeps its size, alloc and free never write into a block a
\* client keeps before a footer dangles (memorym.cpp:578-826).
THEOREM IntactWhileSizeKept ==
  ASSUME Unaligned
  PROVE  Spec /\ KeepsSize => DataIntact
<1>1. Inv /\ [Next]_vars /\ [~dangling => end' = end]_vars
        => [~dangling' => \A b \in live \cap live' : \A a \in Words(b) : mem'[a] = mem[a]]_vars
  <2> SUFFICES ASSUME Inv, Next, ~dangling', ~dangling => end' = end PROVE Intact
    BY DEF Intact, vars
  <2>1. ~dangling
    BY DanglingStep
  <2> QED BY <2>1, IntactStep DEF SInv
<1> QED BY <1>1, InvAlways, PTL DEF Spec, KeepsSize, DataIntact

\* Where no hole is large enough, every stretch of memory of that length meets a
\* block: it cannot lie in one hole, and holes are not next to each other
\* (memorym.cpp:597-646, 885).
LEMMA NoGap ==
  ASSUME Sound, end \in Ends, NEW n \in Nat, n > 0,
         \A h \in Holes : ~(SizeOf(mem, h) >= n),
         NEW a \in Int, Start <= a, a + n <= end
  PROVE  \E h \in Blocks : (a .. a + n - 1) \cap Extent(h) # {}
<1> DEFINE C == Blocks \cup Holes
           w(h) == SizeOf(mem, h)
<1>1. mem \in Mem /\ Layout(mem, Blocks, Holes, end)
  BY DEF Sound
<1>2. \A h \in C : h \in Int /\ w(h) \in Int /\ Start <= h /\ 5 <= w(h) /\ h + w(h) <= end
  BY <1>1, LayoutParts
<1>3. end \in Int /\ Start \in Int
  BY <1>1, LayoutParts, Constants
<1>4. ASSUME NEW h \in Blocks, NEW x \in Int, h <= x, x < h + w(h), a <= x, x < a + n
      PROVE  (a .. a + n - 1) \cap Extent(h) # {}
  <2>1. h \in Int /\ w(h) \in Int
    BY <1>2
  <2>2. x \in h .. h + w(h) - 1
    <3> HIDE DEF w
    <3> QED BY <1>4, <2>1
  <2>3. x \in a .. a + n - 1
    BY <1>4
  <2> QED BY <2>2, <2>3 DEF Extent
<1>5. PICK g \in C : g <= a /\ a < g + w(g)
  <2>1. a \in Start .. end - 1
    BY <1>3
  <2> QED BY <1>1, <2>1 DEF Layout, Tiling
<1>6. CASE g \in Blocks
  BY <1>4, <1>5, <1>6
<1>7. CASE g \in Holes
  <2> DEFINE t == g + w(g)
  <2>1. g \in Int /\ w(g) \in Int
    BY <1>2
  <2>2. ~(w(g) >= n)
    BY <1>7
  <2>3. t \in Int /\ a < t /\ t < a + n
    <3> HIDE DEF w
    <3> QED BY <1>5, <2>1, <2>2
  <2>4. t < end
    BY <1>3, <2>3
  <2>5. t \in C
    BY <1>1, <2>4, Following
  <2>6. t \notin Holes
    BY <1>1, <1>7 DEF Layout, Apart
  <2>7. t \in Blocks /\ 5 <= w(t) /\ w(t) \in Int
    BY <1>2, <2>5, <2>6
  <2> HIDE DEF t, w
  <2>8. t <= t /\ t < t + w(t) /\ a <= t
    BY <2>3, <2>7
  <2> QED BY <1>4, <2>3, <2>7, <2>8
<1> QED BY <1>5, <1>6, <1>7

\* Every stretch of memory of the size asked for meets a block.
Full == \A a \in Start .. end - call.size - Overhead :
          \E h \in Blocks : (a .. a + call.size + Overhead - 1) \cap Extent(h) # {}

\* alloc finds no hole only in memory that is full (memorym.cpp:689-741, 885).
LEMMA PanicsWhenFull ==
  ASSUME Sound, end \in Ends, call \in Calls, AllocPanics
  PROVE  Full
<1>1. call # NoCall /\ Entry = 0
  BY DEF AllocPanics
<1>2. call.size \in Nat /\ call.pageAlign = 0
  BY <1>1, CallInProgress
<1> DEFINE n == call.size + Overhead
<1>3. n \in Nat /\ n > 0 /\ call.size \in Nat
  BY <1>2, Constants
<1>4. Entry = FindSmallestHole(n, 0) /\ index \in Seq(Int)
  BY <1>1, <1>2 DEF Entry, Sound
<1>5. \A h \in Holes : ~(SizeOf(mem, h) >= n)
  BY <1>1, <1>4, EntryFits
<1> SUFFICES ASSUME NEW a \in Start .. end - call.size - Overhead
             PROVE  \E h \in Blocks : (a .. a + call.size + Overhead - 1) \cap Extent(h) # {}
  BY DEF Full
<1>6. end \in Int /\ Start \in Int
  BY Constants DEF Ends
<1>7. a \in Int /\ Start <= a /\ a + n <= end /\ a + n - 1 = a + call.size + Overhead - 1
  BY <1>3, <1>6, Constants
<1> HIDE DEF n
<1>8. \E h \in Blocks : (a .. a + n - 1) \cap Extent(h) # {}
  BY <1>3, <1>5, <1>7, NoGap
<1> QED BY <1>7, <1>8

\* A call ends in a panic only in alloc (memorym.cpp:696-699, 885).
LEMMA CallPanics ==
  ASSUME Next, stopped' = "panic", call # NoCall
  PROVE  AllocPanics
<1>1. \A b \in live : ~FreePanics(b)
  BY DEF FreePanics, MayFree
<1>2. \A size \in Requests, pageAlign \in Aligns : ~Alloc(size, pageAlign)
  BY DEF Alloc
<1>3. ~AllocFits /\ ~AllocExpands
  BY DEF AllocFits, AllocExpands
<1>4. ~AllocFaults
  BY DEF AllocFaults, Stop
<1>5. \A b \in live : ~Free(b)
  BY DEF Free, MayFree
<1>6. \A b \in live : ~FreeFaults(b)
  BY DEF FreeFaults, MayFree
<1> QED BY <1>1, <1>2, <1>3, <1>4, <1>5, <1>6 DEF Next

\* In a heap that keeps its size, alloc gives up only when the memory between
\* the live blocks has no gap that is large enough, before a footer dangles
\* (memorym.cpp:689-741, 885).
THEOREM GivesUpWhileSizeKept ==
  ASSUME Unaligned
  PROVE  Spec /\ KeepsSize => GivesUpOnlyWhenFull
<1> DEFINE GivesUp == ~dangling /\ stopped' = "panic" /\ call # NoCall /\ call.pageAlign = 0
                        => Full
<1>1. Inv /\ [Next]_vars => [GivesUp]_vars
  <2> SUFFICES ASSUME Inv, Next, ~dangling, stopped' = "panic", call # NoCall
               PROVE  Full
    BY DEF GivesUp
  <2>1. AllocPanics
    BY CallPanics
  <2>2. Sound /\ end \in Ends /\ call \in Calls
    BY Constants DEF Inv, Good
  <2> QED BY <2>1, <2>2, PanicsWhenFull
<1>2. Spec /\ KeepsSize => [][GivesUp]_vars
  BY <1>1, InvAlways, PTL DEF Spec
<1> QED BY <1>2 DEF GivesUpOnlyWhenFull, Full

--------------------------------------------------------------------------------
(* The memory pool clients see *)

\* A block alloc gives out shares no word with a block a client holds
\* (memorym.cpp:743-826).
LEMMA FitsIsAlloc ==
  ASSUME Sound, end \in Ends, live \subseteq Held, call \in Calls, ~dangling, AllocFits
  PROVE  \E size \in Requests : Promise!Alloc(size)
<1>1. end \in Ends /\ Sound /\ live \subseteq Held /\ call \in Calls
  OBVIOUS
<1>2. PICK p \in Holes : /\ live' = live \cup {[ptr |-> p + Hdr, size |-> call.size]}
                         /\ call.size + Overhead <= SizeOf(mem, p)
  BY FitsStep DEF TookHole
<1>3. /\ p \in Int /\ SizeOf(mem, p) \in Int /\ Start <= p /\ p + SizeOf(mem, p) <= end
      /\ p \notin Blocks
  BY <1>1, LayoutParts DEF Sound
<1>4. call # NoCall /\ stopped = "" /\ stopped' = stopped /\ dangling' = dangling
  BY DEF AllocFits
<1>5. call.size \in Requests /\ call.size \in Nat /\ call.size > 0
  BY <1>1, <1>4, CallInProgress
<1> DEFINE ptr == p + Hdr
           block == [ptr |-> ptr, size |-> call.size]
<1>6. Promise!Words(block) = ptr .. ptr + call.size - 1
  BY DEF Promise!Words
<1>7. /\ end \in Int /\ Start \in Int /\ MaxAddress \in Int /\ end <= MaxAddress
      /\ ptr = p + 3 /\ ptr \in Int /\ call.size + 5 <= SizeOf(mem, p)
  BY <1>1, <1>2, <1>3, Constants DEF Ends
<1>8. live' = live \cup {block}
  BY <1>2
<1> DEFINE w == SizeOf(mem, p)
           s == call.size
<1>9. /\ p \in Int /\ w \in Int /\ Start <= p /\ p + w <= end /\ s \in Nat /\ s > 0
      /\ s + 5 <= w
  BY <1>3, <1>5, <1>7
<1>10. Promise!Words(block) = ptr .. ptr + s - 1
  BY <1>6
<1>11. \A b \in live : Promise!Words(b) \cap (ptr .. ptr + s - 1) = {}
  <2> SUFFICES ASSUME NEW b \in live, NEW x \in Promise!Words(b), x \in ptr .. ptr + s - 1
               PROVE  FALSE
    OBVIOUS
  <2> DEFINE h == b.ptr - Hdr
             u == SizeOf(mem, h)
             z == b.size
  <2>1. /\ b.ptr \in Int /\ z \in Nat /\ h \in Int /\ u \in Int /\ b.ptr = h + 3
        /\ z + 5 <= u
    BY <1>1, WordsInside
  <2>2. h \in Blocks /\ h # p
    BY <1>3 DEF Blocks
  <2>3. h < p \/ p < h
    BY <1>9, <2>1, <2>2
  <2>4. h < p => h + u <= p
    BY <1>1, <2>2 DEF Sound, Layout, Tiling
  <2>5. p < h => p + w <= h
    BY <1>1, <2>2 DEF Sound, Layout, Tiling
  <2>6. x \in b.ptr .. b.ptr + z - 1
    BY DEF Promise!Words
  <2> HIDE DEF h, u, w, z, s, ptr
  <2> QED BY <1>7, <1>9, <2>1, <2>3, <2>4, <2>5, <2>6
<1> HIDE DEF w, s
<1>12. ptr \in Start .. MaxAddress - 1 /\ ptr .. ptr + s - 1 \subseteq Start .. MaxAddress - 1
  <2> HIDE DEF ptr
  <2> QED BY <1>7, <1>9
<1> HIDE DEF ptr
<1>13. Promise!Alloc(s)
  <2>1. /\ Promise!Words(block) \subseteq Start .. MaxAddress - 1
        /\ \A b \in live : Promise!Words(b) \cap Promise!Words(block) = {}
    BY <1>10, <1>11, <1>12
  <2>2. block = [ptr |-> ptr, size |-> s]
    BY DEF s
  <2> HIDE DEF block
  <2> QED BY <1>4, <1>8, <1>12, <2>1, <2>2 DEF Promise!Alloc
<1> QED BY <1>5, <1>13 DEF s

\* A step of the heap is a step of a pool, or one that clients do not see
\* (memorym.cpp:578-826).
LEMMA PoolStep ==
  ASSUME Sound, end \in Ends, live \subseteq Held, call \in Calls,
         dangling = FALSE, dangling' = FALSE, Next
  PROVE  Promise!Next \/ UNCHANGED Promise!vars
<1>1. ASSUME NEW why \in {"panic", "pageFault"}, stopped = "", Stop(why)
      PROVE  Promise!Next
  BY <1>1 DEF Stop, Promise!Next, Promise!Stop
<1>2. AllocFits => Promise!Next
  BY FitsIsAlloc DEF Promise!Next
<1>3. ASSUME NEW b \in live, Free(b)
      PROVE  Promise!Next
  <2>1. stopped = "" /\ live' = live \ {b} /\ stopped' = stopped
    BY <1>3 DEF Free, MayFree
  <2>2. Promise!Free(b)
    BY <2>1 DEF Promise!Free
  <2> QED BY <2>2 DEF Promise!Next
<1>4. AllocExpands => UNCHANGED Promise!vars
  BY DEF AllocExpands, Promise!vars
<1>5. \A size \in Requests, pageAlign \in Aligns :
        Alloc(size, pageAlign) => UNCHANGED Promise!vars
  BY DEF Alloc, Promise!vars
<1>6. AllocFaults \/ AllocPanics => Promise!Next
  BY <1>1 DEF AllocFaults, AllocPanics
<1>7. \A b \in live : FreeFaults(b) \/ FreePanics(b) => Promise!Next
  BY <1>1 DEF FreeFaults, FreePanics, MayFree
<1> QED BY <1>2, <1>3, <1>4, <1>5, <1>6, <1>7 DEF Next

\* What clients see of a heap that keeps its size is a memory pool: it gives out
\* disjoint blocks of the heap's memory, which stay put until they are freed or
\* a footer dangles (memorym.cpp:578-826).
THEOREM PoolWhileSizeKept ==
  ASSUME Unaligned
  PROVE  Spec /\ KeepsSize => ImplementsPool
<1>1. Init => Promise!Init
  BY DEF Init, Promise!Init
<1>2. Inv /\ Inv' /\ [Next]_vars => [Promise!Next]_(Promise!vars)
  <2> SUFFICES ASSUME Inv, Inv', Next PROVE Promise!Next \/ UNCHANGED Promise!vars
    BY DEF vars, Promise!vars
  <2>1. CASE dangling'
    BY <2>1 DEF Promise!Next
  <2>2. CASE ~dangling'
    <3>1. ~dangling
      BY <2>2, DanglingStep
    <3>2. Sound /\ end \in Ends /\ live \subseteq Held /\ call \in Calls
      BY <3>1, Constants DEF Inv, Good
    <3>3. dangling = FALSE /\ dangling' = FALSE
      BY <2>2, <3>1 DEF Inv
    <3> QED BY <3>2, <3>3, PoolStep
  <2> QED BY <2>1, <2>2
<1> QED BY <1>1, <1>2, InvAlways, PTL DEF Spec, ImplementsPool, Promise!Spec

\* A pool's clients share no word while it keeps its promise.
LEMMA PoolIsDisjoint == Promise!Spec => []Promise!Disjoint
<1>1. Promise!Init => Promise!Disjoint
  BY DEF Promise!Init, Promise!Disjoint
<1>2. Promise!Disjoint /\ [Promise!Next]_(Promise!vars) => Promise!Disjoint'
  <2> SUFFICES ASSUME Promise!Disjoint, Promise!Next \/ UNCHANGED Promise!vars
               PROVE  Promise!Disjoint'
    OBVIOUS
  <2>1. ~dangling /\ live' \subseteq live => Promise!Disjoint'
    BY DEF Promise!Disjoint, Promise!Words
  <2>2. ASSUME NEW size \in Requests, Promise!Alloc(size)
        PROVE  Promise!Disjoint'
    BY <2>2 DEF Promise!Alloc, Promise!Disjoint, Promise!Words
  <2>3. UNCHANGED Promise!vars => Promise!Disjoint'
    BY DEF Promise!vars, Promise!Disjoint, Promise!Words
  <2>4. dangling' => Promise!Disjoint'
    BY DEF Promise!Disjoint
  <2> QED BY <2>1, <2>2, <2>3, <2>4
          DEF Promise!Next, Promise!Free, Promise!Stop
<1> QED BY <1>1, <1>2, PTL DEF Promise!Spec

\* Two blocks that clients of a heap that keeps its size hold share no word
\* before a footer dangles (memorym.cpp:689-826).
THEOREM DisjointWhileSizeKept ==
  ASSUME Unaligned
  PROVE  Spec /\ KeepsSize => []Promise!Disjoint
BY PoolWhileSizeKept, PoolIsDisjoint, PTL DEF ImplementsPool

--------------------------------------------------------------------------------
(* Types *)

\* ContractHeap that unmaps no page leaves the page entries and the frames as
\* they are (memorym.cpp:963-966).
LEMMA NothingUnmapped ==
  UnmapPages(<<>>) = [page |-> page, frames |-> frames]
<1> DEFINE b == [page |-> page, frames |-> frames]
           F(g) == [s \in SUBSET DOMAIN <<>> |->
                      IF s = {} THEN b ELSE UnmapPage(g[s \ {Max(s)}], <<>>[Max(s)])]
           it == CHOOSE g : g = F(g)
<1>1. UnmapPages(<<>>) = it[DOMAIN <<>>]
  BY DEF UnmapPages, FoldLeft, MapThenFoldSet
<1>2. DOMAIN <<>> = {} /\ SUBSET {} = {{}}
  OBVIOUS
<1> HIDE DEF b
<1>3. \A g : F(g) = [s \in {{}} |-> b]
  BY <1>2
<1> HIDE DEF F
<1>4. it = F(it)
  BY <1>3
<1>5. it[{}] = b
  BY <1>3, <1>4
<1> QED BY <1>1, <1>2, <1>5 DEF b

\* A step that keeps the size of a sound heap maps and unmaps no page
\* (memorym.cpp:649-660, 694-739).
LEMMA FramesKept ==
  ASSUME SInv, Next \/ UNCHANGED vars, end' = end \/ UNCHANGED vars
  PROVE  frames' = frames
<1>1. end \in Ends /\ Good /\ live \subseteq Held /\ call \in Calls
  BY Constants DEF Inv, SInv
<1>2. end \in Int /\ Start \in Int /\ end - Start \in Int /\ PageSize \in Nat /\ MinSize \in Int
  BY <1>1, Constants, FrameAssumption, HeapAssumption DEF Ends
<1>3. ASSUME UNCHANGED vars
      PROVE  frames' = frames
  BY <1>3 DEF vars, paging
<1>4. ASSUME UNCHANGED paging
      PROVE  frames' = frames
  BY <1>4 DEF paging
<1>5. ASSUME AllocExpands, end' = end
      PROVE  FALSE
  <2>1. call.size \in Nat
    BY <1>1, <1>5, CallInProgress DEF AllocExpands
  <2>2. ExpandedEnd > end
    BY <1>1, <2>1, Grows
  <2>3. end' = ExpandedEnd
    BY <1>5 DEF AllocExpands
  <2> QED BY <1>2, <1>5, <2>2, <2>3
<1>6. ASSUME NEW b \in live, Free(b), end' = end
      PROVE  frames' = frames
  <2> DEFINE length == Freed(b.ptr).length
  <2>1. end' = Start + length /\ frames' = UnmapPages(ContractSteps(end - Start, length)).frames
    BY <1>6 DEF Free
  <2>2. length = end - Start \/ \E x \in Nat : length = ContractedSize(x)
    BY <1>1, FreedSound
  <2> HIDE DEF length
  <2>3. \A x \in Nat : ContractedSize(x) \in Int
    BY <1>2 DEF ContractedSize
  <2>4. length = end - Start
    BY <1>2, <1>6, <2>1, <2>2, <2>3
  <2>5. ContractSteps(end - Start, end - Start) = <<>>
    BY <1>2 DEF ContractSteps
  <2> QED BY <2>1, <2>4, <2>5, NothingUnmapped
<1>7. ASSUME Next, end' = end
      PROVE  frames' = frames
  <2>1. AllocFits => UNCHANGED paging
    BY DEF AllocFits
  <2>2. \A size \in Requests, pageAlign \in Aligns : Alloc(size, pageAlign) => UNCHANGED paging
    BY DEF Alloc
  <2>3. \A why : Stop(why) => UNCHANGED paging
    BY DEF Stop
  <2> QED BY <1>4, <1>5, <1>6, <1>7, <2>1, <2>2, <2>3
          DEF Next, AllocFaults, AllocPanics, FreeFaults, FreePanics
<1> QED BY <1>3, <1>7

\* RAM holds the frames of the heap as it is made.
HeapInRam == FrameOf(InitialEnd) <= NFrames

\* Headers, blocks and the index stay inside the heap, and frames inside RAM
\* (memorym.cpp:578-826).
LEMMA SInvTypes ==
  ASSUME SInv, frames \subseteq InRam
  PROVE  TypeOK
<1>1. /\ end \in Ends /\ Good /\ live \subseteq Held /\ call \in Calls
      /\ dangling \in BOOLEAN /\ stopped \in {"", "panic", "pageFault"}
  BY Constants DEF Inv, SInv
<1>2. mem \in Mem /\ index \in Seq(Int) /\ Layout(mem, Blocks, Holes, end) /\ end \in Ends
  BY <1>1 DEF Good, Sound
<1>3. /\ end \in Int /\ Start \in Int /\ MaxAddress \in Int /\ Start <= end /\ end <= MaxAddress
  <2>1. /\ end \in Nat /\ Start < end /\ end <= MaxAddress
        /\ Start \in Nat /\ MaxAddress \in Nat
    BY <1>1, <1>2, LayoutParts, Constants
  <2> QED BY <2>1
<1>4. index \in Seq(Start .. MaxAddress - 1)
  <2>1. /\ Len(index) \in Nat /\ Holes = {index[i] : i \in 1 .. Len(index)}
    BY <1>2, ItemsOf DEF Holes
  <2>2. \A h \in Blocks \cup Holes : /\ h \in Nat /\ SizeOf(mem, h) \in Nat /\ Start <= h
                                    /\ 5 <= SizeOf(mem, h) /\ h + SizeOf(mem, h) <= end
    BY <1>2, LayoutParts
  <2>3. \A h \in Holes : h \in Start .. MaxAddress - 1
    <3> SUFFICES ASSUME NEW h \in Holes PROVE h \in Start .. MaxAddress - 1
      OBVIOUS
    <3> DEFINE w == SizeOf(mem, h)
    <3>1. h \in Nat /\ w \in Nat /\ Start <= h /\ 5 <= w /\ h + w <= end
      BY <2>2
    <3> HIDE DEF w
    <3> QED BY <1>3, <3>1
  <2>4. \A i \in 1 .. Len(index) : index[i] \in Start .. MaxAddress - 1
    BY <2>1, <2>3
  <2>5. index \in [1 .. Len(index) -> Start .. MaxAddress - 1]
    <3>1. index \in [1 .. Len(index) -> Int]
      BY <1>2, LenProperties
    <3> QED BY <2>4, <3>1
  <2> DEFINE T == Start .. MaxAddress - 1
             n == Len(index)
  <2>6. index \in [1 .. n -> T] /\ n \in Nat
    BY <2>1, <2>5
  <2> HIDE DEF T, n
  <2>7. index \in UNION {[1 .. i -> T] : i \in Nat}
    BY <2>6
  <2>8. index \in Seq(T)
    BY <2>7, SeqDef
  <2> QED BY <2>8 DEF T
<1>5. end \in Start .. MaxAddress
  BY <1>3
<1>6. call.size \in Requests \cup {0}
  <2>1. NoCall.size = 0
    BY DEF NoCall
  <2> QED BY <1>1, <2>1, CallInProgress
<1>7. live \subseteq [ptr : Start + Hdr .. MaxAddress - Ftr, size : Requests]
  <2> SUFFICES ASSUME NEW b \in live
               PROVE  b \in [ptr : Start + Hdr .. MaxAddress - Ftr, size : Requests]
    OBVIOUS
  <2> DEFINE h == b.ptr - Hdr
             w == SizeOf(mem, h)
  <2>1. /\ b.ptr \in Int /\ b.size \in Nat /\ h \in Int /\ w \in Int
        /\ b.ptr = h + 3 /\ Start <= h /\ h + w <= end /\ b.size + 5 <= w
    BY <1>1, WordsInside DEF Good
  <2> HIDE DEF h, w
  <2>2. b.ptr \in Start + Hdr .. MaxAddress - Ftr
    BY <1>3, <2>1, Constants
  <2> QED BY <1>1, <2>2 DEF Held
<1> QED BY <1>1, <1>2, <1>4, <1>5, <1>6, <1>7 DEF TypeOK, Mem, Addr

\* In a heap that keeps its size every header, block and index entry stays
\* inside the heap, and every frame inside RAM, until a footer dangles
\* (memorym.cpp:578-826).
THEOREM TypesWhileSizeKept ==
  ASSUME Unaligned, HeapInRam
  PROVE  Spec /\ KeepsSize => [](~dangling => TypeOK)
<1> DEFINE InRamYet == ~dangling => frames \subseteq InRam
<1>1. Init => InRamYet
  <2>1. NFrames \in Int /\ FrameOf(InitialEnd) \in Int
    BY HeapAssumption, FrameAssumption DEF FrameOf
  <2>2. 0 .. FrameOf(InitialEnd) - 1 \subseteq 0 .. NFrames - 1
    BY <2>1 DEF HeapInRam
  <2> QED BY <2>2 DEF Init, InRam
<1>2. Inv /\ InRamYet /\ [Next]_vars /\ [~dangling => end' = end]_vars => InRamYet'
  <2> SUFFICES ASSUME Inv, InRamYet, Next \/ UNCHANGED vars,
                      (~dangling => end' = end) \/ UNCHANGED vars, ~dangling'
               PROVE  (frames \subseteq InRam)'
    OBVIOUS
  <2>1. ~dangling
    BY DanglingStep
  <2>2. frames' = frames
    BY <2>1, FramesKept DEF SInv
  <2> QED BY <2>1, <2>2
<1>3. Inv /\ InRamYet => (~dangling => TypeOK)
  BY SInvTypes DEF SInv
<1> QED BY <1>1, <1>2, <1>3, InvAlways, PTL DEF Spec, KeepsSize

--------------------------------------------------------------------------------
(* A heap of fixed size *)

\* A heap that may not grow, and that is made as long as ContractHeap's least
\* length.
FixedSize ==
  /\ MaxAddress = InitialEnd
  /\ MinSize = InitialEnd - Start
  /\ 2 * PageSize <= MinSize

\* Such a heap keeps its size while it is sound (memorym.cpp:949-1009).
LEMMA SizeKept ==
  ASSUME FixedSize, Inv, ~dangling, Next
  PROVE  end' = end
<1>1. end \in Ends /\ end = InitialEnd /\ Good /\ live \subseteq Held
  BY Constants DEF Inv
<1>2. end \in Int /\ Start \in Int /\ MinSize \in Int /\ PageSize \in Nat
      /\ MaxAddress \in Int /\ MaxAddress = end /\ MinSize = end - Start
      /\ 2 * PageSize <= MinSize
  BY <1>1, Constants, HeapAssumption, FrameAssumption DEF FixedSize
<1>3. ASSUME AllocExpands
      PROVE  FALSE
  <2>1. call.size \in Nat
    BY <1>3, CallInProgress DEF Inv, AllocExpands
  <2>2. ExpandedEnd <= MaxAddress
    BY <1>3 DEF AllocExpands
  <2>3. ExpandedEnd > end
    BY <1>1, <2>1, Grows
  <2>4. ExpandedEnd \in Int
    <3>1. ExpandedSize(end - Start + call.size + Overhead) \in Int
      BY <1>2, <2>1, FrameAssumption, Constants DEF ExpandedSize
    <3> HIDE DEF ExpandedSize
    <3> QED BY <1>2, <3>1 DEF ExpandedEnd
  <2> QED BY <1>2, <2>2, <2>3, <2>4
<1>4. ASSUME NEW b \in live, Free(b)
      PROVE  end' = end
  <2> DEFINE length == Freed(b.ptr).length
  <2>1. end' = Start + length
    BY <1>4 DEF Free
  <2>2. length = end - Start \/ \E x \in Nat : x < end - Start /\ length = ContractedSize(x)
    BY <1>1, FreedSound
  <2> HIDE DEF length
  <2>3. \A x \in Nat : x < end - Start => ContractedSize(x) = end - Start
    BY <1>2 DEF ContractedSize
  <2>4. length = end - Start
    BY <2>2, <2>3
  <2> QED BY <1>2, <2>1, <2>4
<1>5. ASSUME NEW why, Stop(why)
      PROVE  end' = end
  BY <1>5 DEF Stop
<1> QED BY <1>3, <1>4, <1>5
        DEF Next, Alloc, AllocFits, AllocFaults, AllocPanics, FreeFaults, FreePanics

\* With a heap that may not grow and that is as long as ContractHeap's least
\* length, nothing has to be supposed of the run: until free leaves a footer
\* behind, blocks and holes fill it, no client's words are written over, alloc
\* gives up only when it is full, and clients see a pool of disjoint blocks
\* (memorym.cpp:578-1009).
THEOREM FixedHeap ==
  ASSUME Unaligned, FixedSize
  PROVE  Spec => /\ []SoundUntilDangling /\ DataIntact /\ GivesUpOnlyWhenFull
                 /\ ImplementsPool /\ []Promise!Disjoint
<1>1. Init => Inv
  BY InitInv
<1>2. Inv /\ [Next]_vars => Inv' /\ [~dangling => end' = end]_vars
  <2> SUFFICES ASSUME Inv, Next \/ UNCHANGED vars
               PROVE  Inv' /\ ((~dangling => end' = end) \/ UNCHANGED vars)
    OBVIOUS
  <2>1. CASE ~dangling
    BY <2>1, SizeKept, InvStep
  <2>2. CASE dangling
    BY <2>2, DanglingStep
  <2> QED BY <2>1, <2>2
<1>3. Spec => KeepsSize
  BY <1>1, <1>2, PTL DEF Spec, KeepsSize
<1> QED BY <1>3, SoundWhileSizeKept, IntactWhileSizeKept, GivesUpWhileSizeKept,
           PoolWhileSizeKept, DisjointWhileSizeKept, PTL

--------------------------------------------------------------------------------
(* A heap that grows *)

\* Clients never free, and the footer that ExpandHeap writes eight words on for
\* each word of a hole still has an address above the hole's header: the hole it
\* has made longer is shorter than two blocks of the size asked for.
OnlyAllocates ==
  /\ Unaligned /\ ~ClientsFree
  /\ \A size \in Requests : MaxAddress + 14 * (size + Overhead) <= AddressMod

\* While clients only allocate, all that is free is one hole at the heap's end.
Growing ==
  /\ call \in Calls /\ live \subseteq Held /\ end \in Ends
  /\ Sound
  /\ \A h \in Holes : h + SizeOf(mem, h) = end

\* The hole at the heap's end is the only one, and follows every block.
LEMMA OnlyHole ==
  ASSUME Growing, NEW p \in Holes
  PROVE  Holes = {p} /\ \A b \in Blocks : b + SizeOf(mem, b) <= p
<1>1. mem \in Mem /\ end \in Ends /\ Layout(mem, Blocks, Holes, end)
  BY DEF Growing, Sound
<1>2. /\ \A c \in Blocks \cup Holes : /\ c \in Nat /\ SizeOf(mem, c) \in Nat
                                    /\ 5 <= SizeOf(mem, c) /\ c + SizeOf(mem, c) <= end
      /\ Blocks \cap Holes = {} /\ end \in Nat
  BY <1>1, LayoutParts
<1>3. p + SizeOf(mem, p) = end
  BY DEF Growing
<1>4. ASSUME NEW c \in Blocks \cup Holes PROVE c = p \/ c + SizeOf(mem, c) <= p
  <2>1. c < p => c + SizeOf(mem, c) <= p
    BY <1>1 DEF Layout, Tiling
  <2>2. p < c => p + SizeOf(mem, p) <= c
    BY <1>1 DEF Layout, Tiling
  <2> QED BY <1>2, <1>3, <2>1, <2>2
<1>5. ASSUME NEW g \in Holes PROVE g = p
  <2>1. g + SizeOf(mem, g) = end
    BY DEF Growing
  <2> QED BY <1>2, <1>3, <1>4, <2>1
<1>6. \A b \in Blocks : b # p
  BY <1>2
<1> QED BY <1>4, <1>5, <1>6

\* A word that is written, in the heap or behind it, is the only one that
\* changes.
LEMMA OneWordWritten ==
  ASSUME NEW m \in Mem, NEW a \in Int, NEW v \in Int
  PROVE  /\ Write(m, a, v) \in Mem
         /\ \A b \in Addr : b # a => Write(m, a, v)[b] = m[b]
<1>1. CASE a \in Addr
  BY <1>1, WordWritten
<1>2. CASE a \notin Addr
  <2>1. Write(m, a, v) = m
    BY <1>2 DEF Write, Mem
  <2> QED BY <2>1
<1> QED BY <1>1, <1>2

\* A heap made longer by a hole at p, which its last hole becomes or which
\* follows its last block.
Lengthens(m, m2, e, e2, B, H, p) ==
  /\ m \in Mem /\ m2 \in Mem /\ e \in Ends /\ e2 \in Ends /\ e <= e2
  /\ Layout(m, B, H, e) /\ p \in Int /\ H \subseteq {p}
  /\ p = e \/ (p \in H /\ p + SizeOf(m, p) = e)
  /\ Chunk(m2, p, 1, e2) /\ SizeOf(m2, p) = e2 - p
  /\ SameOutside(m, m2, p, MaxAddress)

\* Blocks and holes fill the longer heap, and the blocks are what they were
\* (memorym.cpp:689-741).
LEMMA Lengthened ==
  ASSUME NEW m, NEW m2, NEW e, NEW e2, NEW B, NEW H, NEW p,
         Lengthens(m, m2, e, e2, B, H, p)
  PROVE  /\ Layout(m2, B, {p}, e2)
         /\ \A b \in B : SizeOf(m2, b) = SizeOf(m, b)
         /\ Beside(m, B, p, MaxAddress)
<1>1. /\ m \in Mem /\ m2 \in Mem /\ e \in Ends /\ e2 \in Ends /\ e <= e2
      /\ Layout(m, B, H, e) /\ p \in Int /\ H \subseteq {p}
      /\ p = e \/ (p \in H /\ p + SizeOf(m, p) = e)
      /\ Chunk(m2, p, 1, e2) /\ SizeOf(m2, p) = e2 - p
      /\ SameOutside(m, m2, p, MaxAddress)
  BY DEF Lengthens
<1>2. /\ \A c \in B \cup H : /\ c \in Nat /\ SizeOf(m, c) \in Nat /\ Start <= c
                           /\ 5 <= SizeOf(m, c) /\ c + SizeOf(m, c) <= e
      /\ B \cap H = {}
  BY <1>1, LayoutParts
<1>3. /\ e \in Nat /\ e2 \in Nat /\ Start \in Nat /\ MaxAddress \in Nat
      /\ e <= e2 /\ e2 <= MaxAddress /\ Overhead = 5
  BY <1>1, Constants DEF Ends
<1>4. Start <= p /\ p <= e2 - 5
  BY <1>1, <1>3 DEF Chunk
<1>5. ASSUME NEW b \in B PROVE b + SizeOf(m, b) <= p
  <2>1. CASE p = e
    BY <1>2, <2>1
  <2>2. CASE p \in H /\ p + SizeOf(m, p) = e
    <3>1. b # p
      BY <1>2, <2>2
    <3>2. ~(p < b)
      <4>1. p < b => p + SizeOf(m, p) <= b
        BY <1>1, <2>2 DEF Layout, Tiling
      <4> QED BY <1>2, <1>3, <2>2, <4>1
    <3>3. b < p => b + SizeOf(m, b) <= p
      BY <1>1, <2>2 DEF Layout, Tiling
    <3> QED BY <1>1, <1>2, <3>1, <3>2, <3>3
  <2> QED BY <1>1, <2>1, <2>2
<1>6. ASSUME NEW b \in B PROVE Chunk(m2, b, 0, e2) /\ SizeOf(m2, b) = SizeOf(m, b)
  <2>1. \A a \in b .. b + SizeOf(m, b) - 1 : a \in Addr /\ a < p
    BY <1>1, <1>2, <1>3, <1>4, <1>5 DEF Addr
  <2>2. \A a \in b .. b + SizeOf(m, b) - 1 : m2[a] = m[a]
    BY <1>1, <2>1 DEF SameOutside
  <2>3. Chunk(m, b, 0, e)
    BY <1>1 DEF Layout
  <2>4. Chunk(m2, b, 0, e) /\ SizeOf(m2, b) = SizeOf(m, b)
    BY <1>1, <2>2, <2>3, ChunkKept
  <2> QED BY <1>1, <1>2, <1>3, <2>4 DEF Chunk
<1>7. Tiling(m2, B \cup {p}, Start, e2)
  <2> DEFINE C == B \cup {p}
  <2>1. ASSUME NEW h \in C PROVE Start <= h /\ h + SizeOf(m2, h) <= e2
    BY <1>1, <1>2, <1>3, <1>4, <1>6
  <2>2. ASSUME NEW g \in C, NEW h \in C, g < h PROVE g + SizeOf(m2, g) <= h
    <3>1. CASE g \in B /\ h \in B
      BY <1>1, <1>6, <2>2, <3>1 DEF Layout, Tiling
    <3>2. CASE g \in B /\ h = p
      BY <1>5, <1>6, <3>2
    <3>3. CASE g = p /\ h \in B
      BY <1>1, <1>2, <1>5, <2>2, <3>3
    <3> QED BY <1>1, <2>2, <3>1, <3>2, <3>3
  <2>3. ASSUME NEW a \in Start .. e2 - 1 PROVE \E h \in C : h <= a /\ a < h + SizeOf(m2, h)
    <3>1. CASE a < p
      <4>1. p <= e
        BY <1>1, <1>2, <1>3
      <4>2. a \in Start .. e - 1
        BY <1>1, <1>3, <3>1, <4>1
      <4>3. PICK h \in B \cup H : h <= a /\ a < h + SizeOf(m, h)
        BY <1>1, <4>2 DEF Layout, Tiling
      <4>6. h # p
        BY <1>1, <1>2, <1>3, <3>1, <4>3
      <4>4. h \in B
        BY <1>1, <4>6
      <4>5. h \in C /\ h <= a /\ a < h + SizeOf(m2, h)
        BY <1>6, <4>3, <4>4
      <4> QED BY <4>5
    <3>2. CASE p <= a
      <4>1. p \in C /\ a < p + SizeOf(m2, p)
        BY <1>1, <1>3
      <4> QED BY <3>2, <4>1
    <3> QED BY <1>1, <1>3, <3>1, <3>2
  <2> QED BY <2>1, <2>2, <2>3 DEF Tiling
<1>8. Apart(m2, {p})
  BY <1>1, <1>3, <1>4 DEF Apart
<1>9. \A h \in {p} : Chunk(m2, h, 1, e2)
  BY <1>1
<1>10. Layout(m2, B, {p}, e2)
  BY <1>6, <1>7, <1>8, <1>9 DEF Layout
<1> QED BY <1>5, <1>6, <1>10 DEF Beside

\* ExpandHeap makes the hole at p, which is then the only one.
GrowsAt(p) ==
  /\ Lengthens(mem, mem', end, end', Blocks, Holes, p)
  /\ index' \in Seq(Int) /\ Distinct(index') /\ Holes' = {p}

\* The heap has no hole, and gets one behind its last block
\* (memorym.cpp:719-729).
LEMMA GrowsByHole ==
  ASSUME Growing, AllocExpands, index = <<>>
  PROVE  GrowsAt(end)
<1> DEFINE n == ExpandedEnd - end
           w == WriteHeader(mem, end, 1, n)
           m2 == WriteFooter(w, end + n - Ftr, end)
<1>1. call.size \in Nat /\ call.size > 0 /\ end \in Ends /\ mem \in Mem
      /\ Layout(mem, Blocks, Holes, end)
  BY CallInProgress DEF AllocExpands, Growing, Sound
<1>2. /\ end \in Nat /\ MaxAddress \in Nat /\ Start \in Nat /\ Start <= end
      /\ Overhead = 5 /\ Ftr = 2
  BY <1>1, Constants DEF Ends
<1>3. /\ end' = ExpandedEnd /\ ExpandedEnd <= MaxAddress /\ mem' = Expanded.mem
      /\ index' = InsertHole(mem', index, end)
  BY DEF AllocExpands
<1>4. ExpandedEnd = end + call.size + Overhead
  BY <1>1, Grows
<1>5. n \in Nat /\ 5 <= n /\ end + n = end' /\ end' \in Ends /\ end' \in Nat
  BY <1>1, <1>2, <1>3, <1>4 DEF Ends
<1>6. mem' = m2
  BY <1>3, ZenonT(30) DEF Expanded
<1> HIDE DEF n
<1>7. /\ m2 \in Mem /\ SameOutside(mem, m2, end, end + n)
      /\ Chunk(m2, end, 1, end') /\ SizeOf(m2, end) = n
  <2>1. end + n <= end' /\ end \in Int /\ n \in Int /\ 1 \in Int
    BY <1>2, <1>5
  <2> QED BY <1>1, <1>2, <1>5, <2>1, ChunkWritten
<1> HIDE DEF m2, w
<1>8. SameOutside(mem, mem', end, MaxAddress)
  <2>1. \A a \in Addr : a < end \/ MaxAddress <= a => a < end
    BY Constants DEF Addr
  <2> QED BY <1>6, <1>7, <2>1 DEF SameOutside
<1>9. PICK e : e = end'
  OBVIOUS
<1>14. e \in Nat /\ e \in Ends /\ end + n = e /\ end <= e /\ n = e - end
  <2>1. e \in Nat /\ e \in Ends /\ end + n = e
    BY <1>5, <1>9
  <2> QED BY <1>2, <1>5, <2>1
<1>15. Chunk(mem', end, 1, e) /\ SizeOf(mem', end) = e - end /\ mem' \in Mem
  BY <1>6, <1>7, <1>9, <1>14
<1>10. Holes = {}
  BY DEF Holes, ToSet
<1>11. Lengthens(mem, mem', end, end', Blocks, Holes, end)
  <2>1. Holes \subseteq {end}
    BY <1>10
  <2>2. end \in Int
    BY <1>2
  <2>3. Lengthens(mem, mem', end, e, Blocks, Holes, end)
    BY <1>1, <1>8, <1>14, <1>15, <2>1, <2>2 DEF Lengthens
  <2> QED BY <1>9, <2>3
<1>12. index' \in Seq(Int) /\ Distinct(index') /\ ToSet(index') = {end}
  <2> DEFINE less == {g \in ToSet(index) : SizeOf(mem', g) < SizeOf(mem', end)}
  <2>1. index' = Insert(index, end, less)
    BY <1>3 DEF InsertHole
  <2>2. index \in Seq(Int) /\ Distinct(index) /\ ToSet(index) = {}
    BY <1>10 DEF Growing, Sound, Holes
  <2> HIDE DEF less
  <2>3. end \in Int /\ end \notin ToSet(index)
    BY <1>2, <2>2
  <2>5. index \in Seq(Int) /\ Distinct(index)
    BY <2>2
  <2>6. PICK t : t = index
    OBVIOUS
  <2>7. t \in Seq(Int) /\ Distinct(t) /\ end \notin ToSet(t)
    BY <2>3, <2>5, <2>6
  <2>4. /\ Insert(t, end, less) \in Seq(Int)
        /\ Distinct(Insert(t, end, less))
        /\ ToSet(Insert(t, end, less)) = ToSet(t) \cup {end}
    BY <2>3, <2>7, InsertKeeps
  <2> QED BY <2>1, <2>2, <2>4, <2>6
<1>13. Holes' = {end}
  BY <1>12 DEF Holes
<1> QED BY <1>11, <1>12, <1>13 DEF GrowsAt

\* The last hole becomes longer.  Its footer goes where a footer for each of its
\* bytes would end, above the hole's header (memorym.cpp:730-740).
LEMMA GrowsLastHole ==
  ASSUME Growing, OnlyAllocates, AllocExpands, index # <<>>
  PROVE  \E p \in Holes : GrowsAt(p)
<1>1. /\ call.size \in Requests /\ call.size \in Nat /\ call.size > 0 /\ end \in Ends
      /\ mem \in Mem /\ Layout(mem, Blocks, Holes, end) /\ call.pageAlign = 0
      /\ index \in Seq(Int) /\ Distinct(index)
  BY CallInProgress DEF AllocExpands, Growing, Sound
<1>2. /\ end \in Nat /\ MaxAddress \in Nat /\ Start \in Nat /\ Start <= end
      /\ AddressMod \in Nat /\ MaxAddress < AddressMod /\ Overhead = 5 /\ Ftr = 2
      /\ BytesPerWord = 4
  BY <1>1, Constants DEF Ends, BytesPerWord
<1>3. \E p : p \in Holes
  <2>1. Len(index) \in Nat /\ Holes = {index[i] : i \in 1 .. Len(index)}
    BY <1>1, ItemsOf DEF Holes
  <2>2. Len(index) # 0
    BY <1>1, EmptySeq
  <2>3. 1 \in 1 .. Len(index)
    BY <2>1, <2>2
  <2> QED BY <2>1, <2>3
<1>4. PICK p : p \in Holes
  BY <1>3
<1>5. \A h \in Blocks \cup Holes : /\ h \in Nat /\ SizeOf(mem, h) \in Nat /\ Start <= h
                                    /\ 5 <= SizeOf(mem, h)
  BY <1>1, LayoutParts
<1>6. p + SizeOf(mem, p) = end
  BY <1>4 DEF Growing
<1>7. Holes = {p}
  BY <1>4, OnlyHole
<1> DEFINE last == CHOOSE h \in ToSet(index) : \A g \in ToSet(index) : g <= h
           size == Plus(SizeOf(mem, last), ExpandedEnd - end)
           footer == (last + BytesPerWord * Ftr * (size - Ftr)) % AddressMod
<1>8. /\ end' = ExpandedEnd /\ ExpandedEnd <= MaxAddress /\ mem' = Expanded.mem
      /\ index' = index /\ Entry = 0
  BY DEF AllocExpands
<1>9. ExpandedEnd = end + call.size + Overhead
  BY <1>1, Grows
<1>10. PICK e : e = end'
  OBVIOUS
<1>27. e \in Ends /\ e \in Nat /\ end <= e /\ e - end = call.size + 5
       /\ e <= MaxAddress /\ ExpandedEnd = e
  BY <1>1, <1>2, <1>8, <1>9, <1>10 DEF Ends
<1>11. mem' = WriteFooter(Write(mem, last + 2, size), footer, last)
  BY <1>8, ZenonT(30) DEF Expanded
<1>12. last = p
  <2>1. ToSet(index) = {p}
    BY <1>7 DEF Holes
  <2>2. p <= p
    BY <1>4, <1>5
  <2>3. last \in {p}
    BY <2>1, <2>2
  <2> QED BY <2>3
<1> HIDE DEF last
<1>13. size = e - p
  <2>1. /\ SizeOf(mem, p) \in Nat /\ e - end \in Nat
        /\ SizeOf(mem, p) + (e - end) = e - p
        /\ SizeOf(mem, p) + (e - end) < AddressMod
    BY <1>2, <1>4, <1>5, <1>6, <1>27
  <2>2. Plus(SizeOf(mem, p), e - end) = SizeOf(mem, p) + (e - end)
    BY <2>1, NoWrap
  <2> QED BY <1>12, <1>27, <2>1, <2>2
<1> HIDE DEF size
<1>14. SizeOf(mem, p) < call.size + 5
  <2> DEFINE n == call.size + Overhead
  <2>1. Entry = FindSmallestHole(n, 0)
    BY <1>1 DEF Entry
  <2> HIDE DEF n
  <2>2. ~(SizeOf(mem, p) >= n)
    BY <1>1, <1>4, <1>8, <2>1, EntryFits
  <2> QED BY <1>1, <1>2, <1>4, <1>5, <2>2 DEF n
<1>15. p \in Nat /\ SizeOf(mem, p) \in Nat /\ 5 <= SizeOf(mem, p) /\ Start <= p
  BY <1>4, <1>5
<1>16. footer \in Int /\ footer > p + 2
  <2>1. MaxAddress + 14 * (call.size + 5) <= AddressMod
    BY <1>1, <1>2 DEF OnlyAllocates
  <2> DEFINE a == p + 8 * (size - 2)
  <2>2. a \in Nat /\ a < AddressMod /\ a > p + 2
    <3> DEFINE w == SizeOf(mem, p)
               r == call.size
    <3>1. /\ w \in Nat /\ r \in Nat /\ w < r + 5 /\ 5 <= w /\ e = p + w + r + 5
          /\ size = w + r + 5
      <4>1. p + w = end /\ e - end = r + 5 /\ size = e - p /\ w < r + 5
        BY <1>6, <1>27, <1>13, <1>14
      <4>2. w \in Nat /\ r \in Nat /\ p \in Nat /\ end \in Nat /\ e \in Nat /\ 5 <= w
        BY <1>1, <1>2, <1>15, <1>27
      <4> HIDE DEF w, r
      <4> QED BY <4>1, <4>2
    <3>2. /\ MaxAddress + 14 * (r + 5) <= AddressMod /\ e <= MaxAddress /\ p \in Nat
          /\ MaxAddress \in Nat /\ AddressMod \in Nat
      BY <1>2, <1>15, <1>27, <2>1
    <3> HIDE DEF w, r
    <3>3. a = p + 8 * w + 8 * r + 24
      BY <3>1, <3>2
    <3>4. a = e + 7 * w + 7 * r + 19
      BY <3>1, <3>2, <3>3
    <3> QED BY <3>1, <3>2, <3>3, <3>4
  <2>3. footer = a % AddressMod
    BY <1>2, <1>12
  <2> HIDE DEF a, footer
  <2>4. a % AddressMod = a
    BY <1>2, <2>2
  <2> QED BY <2>2, <2>3, <2>4
<1> HIDE DEF footer
<1> DEFINE m1 == Write(mem, p + 2, size)
           m2 == Write(m1, footer, Magic)
           m3 == Write(m2, footer + 1, p)
<1>17. mem' = m3
  BY <1>11, <1>12 DEF WriteFooter
<1>18. m1 \in Mem /\ \A b \in Addr : m1[b] = IF b = p + 2 THEN size ELSE mem[b]
  <2> DEFINE a == p + 2
  <2>1. a \in Addr /\ size \in Int
    BY <1>2, <1>6, <1>27, <1>13, <1>15, Constants DEF Addr, Ends
  <2> HIDE DEF a
  <2>2. /\ Write(mem, a, size) \in Mem
        /\ \A b \in Addr : Write(mem, a, size)[b] = IF b = a THEN size ELSE mem[b]
    BY <1>1, <2>1, WordWritten
  <2> QED BY <2>2 DEF a
<1> HIDE DEF m1
<1>19. m2 \in Mem /\ \A b \in Addr : b # footer => m2[b] = m1[b]
  <2>1. Magic \in Int
    BY DEF Magic
  <2> QED BY <1>16, <1>18, <2>1, OneWordWritten
<1> HIDE DEF m2
<1>20. m3 \in Mem /\ \A b \in Addr : b # footer + 1 => m3[b] = m2[b]
  <2> DEFINE a == footer + 1
  <2>1. a \in Int /\ p \in Int
    BY <1>15, <1>16
  <2> HIDE DEF a
  <2>2. /\ Write(m2, a, p) \in Mem
        /\ \A b \in Addr : b # a => Write(m2, a, p)[b] = m2[b]
    BY <1>19, <2>1, OneWordWritten
  <2> QED BY <2>2 DEF a
<1> HIDE DEF m3
<1>21. /\ p \in Addr /\ p + 1 \in Addr /\ p + 2 \in Addr
       /\ \A b \in Addr : b <= p + 2 => m3[b] = IF b = p + 2 THEN size ELSE mem[b]
  <2>1. p \in Addr /\ p + 1 \in Addr /\ p + 2 \in Addr
    BY <1>2, <1>6, <1>27, <1>15 DEF Addr
  <2>2. \A b \in Addr : b <= p + 2 => b # footer /\ b # footer + 1
    BY <1>2, <1>15, <1>16 DEF Addr
  <2> QED BY <1>18, <1>19, <1>20, <2>1, <2>2
<1>22. Read(mem', p) = Magic /\ Read(mem', p + 1) = 1 /\ SizeOf(mem', p) = e - p
  <2>1. Read(mem, p) = Magic /\ Read(mem, p + 1) = 1
    BY <1>1, <1>4 DEF Layout, Chunk
  <2>2. /\ m3[p] = mem[p] /\ m3[p + 1] = mem[p + 1] /\ m3[p + 2] = size
    BY <1>15, <1>21
  <2>3. /\ Read(m3, p) = m3[p] /\ Read(m3, p + 1) = m3[p + 1] /\ Read(m3, p + 2) = m3[p + 2]
        /\ Read(mem, p) = mem[p] /\ Read(mem, p + 1) = mem[p + 1]
    BY <1>1, <1>20, <1>21, WordRead
  <2> QED BY <1>13, <1>17, <2>1, <2>2, <2>3 DEF SizeOf
<1>23. Chunk(mem', p, 1, e)
  <2>1. p \in Start .. e - Overhead /\ e - p \in Overhead .. e - p
        /\ p + (e - p) = e
    BY <1>2, <1>6, <1>27, <1>15
  <2> QED BY <1>22, <2>1 DEF Chunk
<1>24. SameOutside(mem, mem', p, MaxAddress)
  <2>1. \A a \in Addr : a < p \/ MaxAddress <= a => a <= p + 2 /\ a # p + 2
    BY <1>2, <1>15 DEF Addr
  <2> QED BY <1>17, <1>21, <2>1 DEF SameOutside
<1>25. Lengthens(mem, mem', end, end', Blocks, Holes, p)
  <2>1. p \in Int /\ mem' \in Mem
    BY <1>15, <1>17, <1>20
  <2> QED BY <1>1, <1>4, <1>6, <1>7, <1>10, <1>27, <1>22, <1>23, <1>24, <2>1 DEF Lengthens
<1>26. Holes' = {p}
  BY <1>7, <1>8 DEF Holes
<1> QED BY <1>1, <1>4, <1>8, <1>25, <1>26 DEF GrowsAt

\* A heap that grows keeps one hole, at its end, and its blocks
\* (memorym.cpp:689-741).
LEMMA ExpandGrows ==
  ASSUME Growing, OnlyAllocates, AllocExpands
  PROVE  Growing' /\ Intact
<1>1. \E p : GrowsAt(p)
  BY GrowsByHole, GrowsLastHole
<1>2. PICK p : GrowsAt(p)
  BY <1>1
<1>3. /\ Lengthens(mem, mem', end, end', Blocks, Holes, p)
      /\ index' \in Seq(Int) /\ Distinct(index') /\ Holes' = {p}
  BY <1>2 DEF GrowsAt
<1>4. /\ Layout(mem', Blocks, {p}, end')
      /\ \A b \in Blocks : SizeOf(mem', b) = SizeOf(mem, b)
      /\ Beside(mem, Blocks, p, MaxAddress)
  BY <1>3, Lengthened
<1>5. /\ mem' \in Mem /\ end' \in Ends /\ p \in Int /\ SizeOf(mem', p) = end' - p
      /\ SameOutside(mem, mem', p, MaxAddress)
  BY <1>3 DEF Lengthens
<1>6. live' = live /\ call' = call
  BY DEF AllocExpands
<1>7. Blocks' = Blocks
  BY <1>6 DEF Blocks
<1>8. /\ call \in Calls /\ live \subseteq Held /\ end \in Ends /\ Sound
      /\ \A b \in live : b.ptr - Hdr \in Blocks
  BY DEF Growing, Blocks
<1>9. Sound'
  <2>1. \A b \in live : b.size + Overhead <= SizeOf(mem', b.ptr - Hdr)
    BY <1>4, <1>8 DEF Sound
  <2>2. \A b, c \in live : b.ptr = c.ptr => b = c
    BY <1>8 DEF Sound
  <2> QED BY <1>3, <1>4, <1>5, <1>6, <1>7, <2>1, <2>2 DEF Sound
<1>10. \A h \in Holes' : h + SizeOf(mem', h) = end'
  <2>1. PICK e : e = end'
    OBVIOUS
  <2>2. e \in Int
    BY <1>5, <2>1, Constants DEF Ends
  <2>3. p + SizeOf(mem', p) = e
    <3>1. SizeOf(mem', p) = e - p
      BY <1>5, <2>1
    <3>2. p + (e - p) = e
      BY <1>5, <2>2
    <3> QED BY <3>1, <3>2
  <2> QED BY <1>3, <2>1, <2>3
<1>11. Intact
  <2>1. MaxAddress \in Int
    BY Constants
  <2>2. PICK m : m = mem'
    OBVIOUS
  <2>3. \A b \in live : \A a \in Words(b) : m[a] = mem[a]
    BY <1>4, <1>5, <1>8, <2>1, <2>2, WordsKept
  <2> QED BY <2>2, <2>3 DEF Intact
<1> QED BY <1>5, <1>6, <1>8, <1>9, <1>10, <1>11 DEF Growing

\* What alloc leaves of the one hole is again the heap's end
\* (memorym.cpp:782-816).
LEMMA FitsGrows ==
  ASSUME Growing, AllocFits
  PROVE  Growing' /\ Intact
<1>1. call \in Calls /\ live \subseteq Held /\ end \in Ends /\ Sound
  BY DEF Growing
<1>2. Sound' /\ live' \subseteq Held /\ Intact /\ \E p \in Holes : TookHole(p)
  BY <1>1, FitsStep
<1>3. PICK p \in Holes : TookHole(p)
  BY <1>2
<1>4. end' = end /\ call' = NoCall
  BY DEF AllocFits
<1>5. Holes = {p} /\ \A b \in Blocks : b + SizeOf(mem, b) <= p
  BY OnlyHole
<1>6. PICK m, H : m = mem' /\ H = Holes'
  OBVIOUS
<1>7. /\ m \in Mem /\ Layout(m, Blocks \cup {p}, H, end)
      /\ \A b \in Blocks : SizeOf(m, b) = SizeOf(mem, b)
      /\ \A g, h \in H : g = h
  <2>1. /\ Blocks' = Blocks \cup {p} /\ \A b \in Blocks : SizeOf(mem', b) = SizeOf(mem, b)
    BY <1>3 DEF TookHole
  <2>2. \E q : H \subseteq {q}
    BY <1>3, <1>5, <1>6 DEF TookHole
  <2>3. \A g, h \in H : g = h
    BY <2>2
  <2> QED BY <1>2, <1>4, <1>6, <2>1, <2>3 DEF Sound
<1>8. mem \in Mem /\ Layout(mem, Blocks, Holes, end)
  BY <1>1 DEF Sound
<1>9. /\ \A c \in Blocks \cup Holes : c \in Nat /\ SizeOf(mem, c) \in Nat /\ 5 <= SizeOf(mem, c)
      /\ end \in Nat /\ Start \in Nat
  BY <1>1, <1>8, LayoutParts, Constants
<1>10. /\ \A c \in (Blocks \cup {p}) \cup H :
            c \in Nat /\ SizeOf(m, c) \in Nat /\ 5 <= SizeOf(m, c) /\ Start <= c
            /\ c + SizeOf(m, c) <= end
       /\ (Blocks \cup {p}) \cap H = {}
  BY <1>1, <1>7, LayoutParts
<1>11. ASSUME NEW g \in H PROVE g + SizeOf(m, g) = end
  <2>1. g # p
    BY <1>10
  <2>2. ~(g < p)
    <3> SUFFICES ASSUME g < p PROVE FALSE
      OBVIOUS
    <3>1. g \in Start .. end - 1
      BY <1>9, <1>10
    <3>2. PICK c \in Blocks \cup Holes : c <= g /\ g < c + SizeOf(mem, c)
      BY <1>8, <3>1 DEF Layout, Tiling
    <3>3. c # p
      BY <1>9, <1>10, <3>2
    <3>4. c \in Blocks /\ SizeOf(m, c) = SizeOf(mem, c) /\ c # g
      BY <1>5, <1>7, <1>10, <3>3
    <3>5. c < g
      BY <1>9, <1>10, <3>2, <3>4
    <3>6. c + SizeOf(m, c) <= g
      BY <1>7, <3>4, <3>5 DEF Layout, Tiling
    <3> QED BY <1>9, <1>10, <3>2, <3>4, <3>6
  <2>3. p < g
    BY <1>10, <2>1, <2>2
  <2> SUFFICES ASSUME g + SizeOf(m, g) < end PROVE FALSE
    BY <1>9, <1>10
  <2> DEFINE t == g + SizeOf(m, g)
  <2>4. t \in (Blocks \cup {p}) \cup H
    BY <1>1, <1>7, Following
  <2>5. t > g /\ t > p /\ t # g
    BY <1>10, <2>3
  <2>6. t \in Blocks
    <3> HIDE DEF t
    <3>1. t \notin H
      BY <1>7, <2>5
    <3>2. t # p
      BY <1>10, <2>5
    <3> QED BY <2>4, <3>1, <3>2
  <2> HIDE DEF t
  <2>7. t + SizeOf(mem, t) <= p
    BY <1>5, <2>6
  <2> QED BY <1>9, <1>10, <2>5, <2>6, <2>7
<1>12. \A h \in Holes' : h + SizeOf(mem', h) = end'
  BY <1>4, <1>6, <1>11
<1> QED BY <1>1, <1>2, <1>4, <1>12 DEF Growing, Calls

\* The heap as it is made is one hole (memorym.cpp:935-971).
LEMMA InitGrows == Init => Growing
<1> SUFFICES ASSUME Init PROVE Growing
  OBVIOUS
<1>1. /\ live = {} /\ call = NoCall /\ end = InitialEnd /\ index = <<Start>> /\ ~dangling
  BY DEF Init
<1>2. Good
  BY <1>1, InitInv DEF Inv
<1>3. Sound /\ end \in Ends
  BY <1>1, <1>2, Constants DEF Good
<1>4. mem \in Mem /\ Layout(mem, Blocks, Holes, end) /\ index \in Seq(Int)
  BY <1>3 DEF Sound
<1>5. Blocks = {}
  BY <1>1 DEF Blocks
<1>6. \A g, h \in Holes : g = h
  <2>1. Len(index) = 1
    BY <1>1
  <2>2. Holes = {index[i] : i \in 1 .. Len(index)}
    BY <1>4, ItemsOf DEF Holes
  <2>3. \A i, j \in 1 .. Len(index) : i = j
    BY <2>1
  <2> QED BY <2>2, <2>3
<1>7. ASSUME NEW h \in Holes PROVE h + SizeOf(mem, h) = end
  <2>1. h \in Nat /\ SizeOf(mem, h) \in Nat /\ 5 <= SizeOf(mem, h) /\ h + SizeOf(mem, h) <= end
        /\ end \in Nat
    BY <1>3, <1>4, LayoutParts
  <2>2. h + SizeOf(mem, h) < end => h + SizeOf(mem, h) \in Blocks \cup Holes
    BY <1>3, <1>4, Following
  <2>3. h + SizeOf(mem, h) # h
    BY <2>1
  <2> QED BY <1>5, <1>6, <2>1, <2>2, <2>3
<1> QED BY <1>1, <1>3, <1>7 DEF Growing, Calls

\* Every step of clients that only allocate keeps the one hole and their words
\* (memorym.cpp:689-826).
LEMMA GrowingStep ==
  ASSUME Growing, OnlyAllocates, Next \/ UNCHANGED vars
  PROVE  Growing' /\ Intact
<1>1. call \in Calls /\ live \subseteq Held /\ end \in Ends /\ Sound
      /\ \A h \in Holes : h + SizeOf(mem, h) = end
  BY DEF Growing
<1>2. ASSUME UNCHANGED <<mem, index, end, live>>, call' \in Calls
      PROVE  Growing' /\ Intact
  <2>1. mem' = mem /\ index' = index /\ end' = end /\ live' = live
    BY <1>2
  <2>2. Sound'
    BY <1>1, <1>2, SoundUntouched
  <2>3. Holes' = Holes
    BY <2>1 DEF Holes
  <2>4. \A h \in Holes' : h + SizeOf(mem', h) = end'
    BY <1>1, <2>1, <2>3
  <2>5. Intact
    BY <2>1 DEF Intact
  <2> QED BY <1>1, <1>2, <2>1, <2>2, <2>4, <2>5 DEF Growing
<1>3. ASSUME NEW size \in Requests, NEW pageAlign \in Aligns, Alloc(size, pageAlign)
      PROVE  Growing' /\ Intact
  <2>1. UNCHANGED <<mem, index, end, live>> /\ call' = [size |-> size, pageAlign |-> pageAlign]
    BY <1>3 DEF Alloc
  <2>2. call' \in Calls
    BY <2>1 DEF Calls, OnlyAllocates, Unaligned
  <2> QED BY <1>2, <2>1, <2>2
<1>4. ASSUME NEW why, Stop(why)
      PROVE  Growing' /\ Intact
  <2>1. UNCHANGED <<mem, index, end, live>> /\ call' = call
    BY <1>4 DEF Stop
  <2> QED BY <1>1, <1>2, <2>1
<1>5. \A b \in live : ~Free(b) /\ ~FreeFaults(b) /\ ~FreePanics(b)
  BY DEF Free, FreeFaults, FreePanics, MayFree, OnlyAllocates
<1>6. UNCHANGED vars => Growing' /\ Intact
  <2>1. UNCHANGED vars => UNCHANGED <<mem, index, end, live>> /\ call' = call
    BY DEF vars
  <2> QED BY <1>1, <1>2, <2>1
<1> QED BY <1>3, <1>4, <1>5, <1>6, FitsGrows, ExpandGrows
        DEF Next, AllocFaults, AllocPanics

\* Clients that only allocate never leave a footer behind.
LEMMA NeverDangles ==
  ASSUME OnlyAllocates, dangling = FALSE, Next \/ UNCHANGED vars
  PROVE  dangling' = FALSE
<1>1. \A b \in live : ~Free(b)
  BY DEF Free, MayFree, OnlyAllocates
<1> QED BY <1>1 DEF Next, vars, Alloc, AllocFits, AllocExpands, AllocFaults, AllocPanics,
                    FreeFaults, FreePanics, Stop

\* Of clients that only allocate, the heap is sound however often it grows: its
\* blocks and the hole fill it, no client's words are written over, alloc gives
\* up only when it is full, and clients see a pool of disjoint blocks
\* (memorym.cpp:689-826, 979-1009).
THEOREM GrowingHeap ==
  ASSUME OnlyAllocates
  PROVE  Spec => /\ []HeapConsistent /\ DataIntact /\ GivesUpOnlyWhenFull
                 /\ ImplementsPool /\ []Promise!Disjoint
<1> DEFINE GivesUp == ~dangling /\ stopped' = "panic" /\ call # NoCall /\ call.pageAlign = 0
                        => Full
           Keeps == Growing /\ dangling = FALSE
<1>1. Keeps /\ [Next]_vars => Keeps'
  <2> SUFFICES ASSUME Keeps, Next \/ UNCHANGED vars PROVE Keeps'
    OBVIOUS
  <2> QED BY GrowingStep, NeverDangles
<1>2. Spec => []Keeps
  <2>1. Init => Keeps
    BY InitGrows DEF Init
  <2> HIDE DEF Keeps
  <2> QED BY <1>1, <2>1, PTL DEF Spec
<1>3. Keeps => HeapConsistent
  BY SoundIsConsistent DEF Growing
<1>4. Keeps /\ [Next]_vars
        => [~dangling' => \A b \in live \cap live' : \A a \in Words(b) : mem'[a] = mem[a]]_vars
  <2> SUFFICES ASSUME Growing, Next PROVE Intact
    BY DEF Intact, vars
  <2> QED BY GrowingStep
<1>5. Keeps /\ [Next]_vars => [GivesUp]_vars
  <2> SUFFICES ASSUME Growing, Next, stopped' = "panic", call # NoCall
               PROVE  Full
    BY DEF GivesUp
  <2>1. AllocPanics
    BY CallPanics
  <2> QED BY <2>1, PanicsWhenFull DEF Growing
<1>6. Keeps /\ Keeps' /\ [Next]_vars => [Promise!Next]_(Promise!vars)
  <2> SUFFICES ASSUME Keeps, Keeps', Next PROVE Promise!Next \/ UNCHANGED Promise!vars
    BY DEF vars, Promise!vars
  <2> QED BY PoolStep DEF Growing
<1>7. Init => Promise!Init
  BY DEF Init, Promise!Init
<1> HIDE DEF Keeps
<1>8. Spec => []HeapConsistent
  BY <1>2, <1>3, PTL
<1>9. Spec => DataIntact
  BY <1>2, <1>4, PTL DEF Spec, DataIntact
<1>10. Spec => GivesUpOnlyWhenFull
  <2>1. Spec => [][GivesUp]_vars
    BY <1>2, <1>5, PTL DEF Spec
  <2> QED BY <2>1 DEF GivesUpOnlyWhenFull, Full
<1>11. Spec => ImplementsPool
  BY <1>2, <1>6, <1>7, PTL DEF Spec, ImplementsPool, Promise!Spec
<1>12. Spec => []Promise!Disjoint
  BY <1>11, PoolIsDisjoint, PTL DEF ImplementsPool
<1> QED BY <1>8, <1>9, <1>10, <1>11, <1>12

================================================================================
