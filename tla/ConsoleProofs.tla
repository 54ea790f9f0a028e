----------------------------- MODULE ConsoleProofs -----------------------------
(***************************************************************************)
(* Proofs about Console, for every size of the window, all the numbers     *)
(* that may be printed and every number of keys.                           *)
(***************************************************************************)
EXTENDS Console, TLAPS, SequenceTheorems, FiniteSetTheorems, WellFoundedInduction

--------------------------------------------------------------------------------
(* The digits of a number *)

\* A nonempty set of naturals has a least element: strict inclusion is well
\* founded on the finite initial segments below its members.
LEMMA LeastMember ==
  ASSUME NEW S \in SUBSET Nat, S # {}
  PROVE  \E n \in S : \A m \in S : n <= m
<1> DEFINE Upto(n) == 0 .. n
           T == {Upto(n) : n \in S}
           R == StrictSubsetOrdering(Nat)
           F == FiniteSubsetsOf(Nat)
<1>1. \A n \in Nat : Upto(n) \in F
  BY FS_Interval DEF FiniteSubsetsOf
<1>2. T \subseteq F /\ T # {}
  BY <1>1
<1>3. IsWellFoundedOn(R, F)
  BY FS_StrictSubsetOrderingWellFounded
<1>4. PICK t \in T : \A u \in T : ~(<<u, t>> \in R)
  <2> HIDE DEF R, F, T
  <2> QED BY <1>2, <1>3, WFMin
<1>5. PICK n \in S : t = Upto(n)
  OBVIOUS
<1>6. ASSUME NEW m \in S, ~(n <= m)
      PROVE  FALSE
  <2>1. Upto(m) \subseteq Upto(n) /\ Upto(m) # Upto(n)
    BY <1>6
  <2>2. <<Upto(m), t>> \in R
    BY <2>1, <1>5 DEF StrictSubsetOrdering
  <2> QED BY <2>2, <1>4
<1> QED BY <1>5, <1>6

\* Division by ten, towards zero, leaves fewer numbers on either side of 0.
LEMMA Tenth ==
  ASSUME NEW v \in Int
  PROVE  /\ CDiv(v, 10) \in Int /\ DigitOf(CMod(v, 10)) \in 0 .. 9
         /\ \A n \in Nat : v \in -n .. n => CDiv(v, 10) \in -n .. n
         /\ \A n \in Nat : v \in -(n + 1) .. n + 1 => CDiv(v, 10) \in -n .. n
         /\ v = 0 => CDiv(v, 10) = 0
         /\ v = 10 * CDiv(v, 10) + CMod(v, 10)
<1>1. CDiv(v, 10) \in Int /\ DigitOf(CMod(v, 10)) \in 0 .. 9
  BY SMT DEF CDiv, CMod, DigitOf
<1>2. ASSUME NEW n \in Nat
      PROVE  /\ v \in -n .. n => CDiv(v, 10) \in -n .. n
             /\ v \in -(n + 1) .. n + 1 => CDiv(v, 10) \in -n .. n
  BY SMT DEF CDiv
<1>3. v = 0 => CDiv(v, 10) = 0
  BY SMT DEF CDiv
<1>4. v = 10 * CDiv(v, 10) + CMod(v, 10)
  BY <1>1 DEF CMod
<1> QED BY <1>1, <1>2, <1>3, <1>4

\* One round of itoa's loop, given what the others write.
Round(f, v) ==
  IF CDiv(v, 10) = 0 THEN <<DigitOf(CMod(v, 10))>>
  ELSE <<DigitOf(CMod(v, 10))>> \o f[CDiv(v, 10)]

\* f is what the rounds write of the numbers that are no further than n from 0.
Rounds(f, n) == f = [v \in -n .. n |-> Round(f, v)]

LEMMA RoundsExist == \A n \in Nat : \E f : Rounds(f, n)
<1> DEFINE S == {n \in Nat : ~ \E f : Rounds(f, n)}
<1>1. SUFFICES ASSUME S # {} PROVE FALSE
  OBVIOUS
<1>2. PICK n \in S : \A m \in S : n <= m
  BY <1>1, LeastMember
<1>3. CASE n = 0
  <2> DEFINE f == [v \in -0 .. 0 |-> <<DigitOf(CMod(v, 10))>>]
  <2>1. ASSUME NEW v \in -0 .. 0
        PROVE  Round(f, v) = <<DigitOf(CMod(v, 10))>>
    <3>1. v = 0
      OBVIOUS
    <3>2. CDiv(v, 10) = 0
      BY <3>1, Tenth
    <3> QED BY <3>2 DEF Round
  <2>2. f = [v \in -0 .. 0 |-> Round(f, v)]
    BY <2>1
  <2>3. Rounds(f, 0)
    BY <2>2 DEF Rounds
  <2> QED BY <1>2, <1>3, <2>3
<1>4. CASE n # 0
  <2>1. n \in Nat /\ n - 1 \in Nat /\ n - 1 \notin S /\ (n - 1) + 1 = n
    BY <1>2, <1>4
  <2>2. PICK g : Rounds(g, n - 1)
    BY <2>1
  <2> DEFINE f == [v \in -n .. n |-> Round(g, v)]
  <2>3. ASSUME NEW v \in -(n - 1) .. n - 1
        PROVE  f[v] = g[v]
    <3>1. v \in -n .. n
      BY <2>1
    <3> QED BY <2>2, <3>1 DEF Rounds
  <2>4. ASSUME NEW v \in -n .. n
        PROVE  Round(f, v) = Round(g, v)
    <3>1. CDiv(v, 10) \in -(n - 1) .. n - 1
      BY <2>1, Tenth
    <3>2. f[CDiv(v, 10)] = g[CDiv(v, 10)]
      BY <2>3, <3>1
    <3> HIDE DEF f
    <3> QED BY <3>2 DEF Round
  <2>5. f = [v \in -n .. n |-> Round(f, v)]
    BY <2>4
  <2>6. Rounds(f, n)
    BY <2>5 DEF Rounds
  <2> QED BY <1>2, <2>6
<1> QED BY <1>3, <1>4

LEMMA RoundsAgree ==
  ASSUME NEW n \in Nat, NEW m \in Nat, n <= m,
         NEW f, Rounds(f, n), NEW g, Rounds(g, m), NEW v \in -n .. n
  PROVE  f[v] = g[v]
<1> DEFINE S == {k \in 0 .. n : \E w \in -k .. k : f[w] # g[w]}
<1>1. SUFFICES ASSUME S # {} PROVE FALSE
  <2>1. n \in 0 .. n
    OBVIOUS
  <2> QED BY <2>1
<1>2. PICK k \in S : \A j \in S : k <= j
  <2>1. S \in SUBSET Nat
    OBVIOUS
  <2> QED BY <1>1, <2>1, LeastMember
<1>3. PICK w \in -k .. k : f[w] # g[w]
  BY <1>2
<1>4. w \in -n .. n /\ w \in -m .. m /\ w \in Int
  BY <1>2, <1>3
<1>5. f[w] = Round(f, w) /\ g[w] = Round(g, w)
  BY <1>4 DEF Rounds
<1>6. CDiv(w, 10) # 0
  BY <1>3, <1>5 DEF Round
<1>7. k # 0
  <2>1. k = 0 => w = 0
    BY <1>3
  <2> QED BY <1>4, <1>6, <2>1, Tenth
<1>8. k - 1 \in Nat /\ k - 1 \in 0 .. n /\ k - 1 \notin S /\ (k - 1) + 1 = k
  BY <1>2, <1>7
<1>9. CDiv(w, 10) \in -(k - 1) .. k - 1
  BY <1>3, <1>4, <1>8, Tenth
<1>10. f[CDiv(w, 10)] = g[CDiv(w, 10)]
  BY <1>8, <1>9
<1> QED BY <1>3, <1>5, <1>10 DEF Round

\* itoa's loop writes the digits that its definition by rounds describes.
LEMMA DigitsAre == Digits = [v \in Int |-> Round(Digits, v)]
<1> DEFINE Away(v) == IF v < 0 THEN -v ELSE v
           Of(n) == CHOOSE f : Rounds(f, n)
           h == [v \in Int |-> Of(Away(v))[v]]
<1>1. \A n \in Nat : Rounds(Of(n), n)
  BY RoundsExist
<1>2. \A v \in Int : Away(v) \in Nat /\ v \in -Away(v) .. Away(v)
  OBVIOUS
<1> HIDE DEF Of
<1>3. ASSUME NEW v \in Int
      PROVE  h[v] = Round(h, v)
  <2> DEFINE f == Of(Away(v))
             w == CDiv(v, 10)
  <2>1. w \in Int /\ w \in -Away(v) .. Away(v)
    BY <1>2, Tenth
  <2>2. Away(w) <= Away(v)
    BY <2>1
  <2>3. Of(Away(w))[w] = f[w]
    <3>1. Rounds(Of(Away(w)), Away(w)) /\ Rounds(f, Away(v))
      BY <1>1, <1>2, <2>1
    <3>2. Away(w) \in Nat /\ Away(v) \in Nat /\ w \in -Away(w) .. Away(w)
      BY <1>2, <2>1
    <3> HIDE DEF f, w, Away
    <3> QED BY <2>2, <3>1, <3>2, RoundsAgree
  <2>4. h[w] = f[w]
    BY <2>1, <2>3
  <2>5. h[v] = f[v]
    OBVIOUS
  <2>6. f[v] = Round(f, v)
    <3>1. Rounds(f, Away(v)) /\ v \in -Away(v) .. Away(v)
      BY <1>1, <1>2
    <3> HIDE DEF f, Away
    <3> QED BY <3>1 DEF Rounds
  <2> HIDE DEF f, h
  <2> QED BY <2>4, <2>5, <2>6 DEF Round
<1>4. h = [v \in Int |-> Round(h, v)]
  <2> DEFINE q == [v \in Int |-> Round(h, v)]
  <2>1. \A v \in Int : h[v] = q[v]
    BY <1>3
  <2> QED BY <2>1
<1> HIDE DEF h
<1> QED BY <1>4 DEF Digits, Round

LEMMA DigitsIsSeq == \A v \in Int : Digits[v] \in Seq(0 .. 9)
<1> DEFINE S == {n \in Nat : \E v \in -n .. n : Digits[v] \notin Seq(0 .. 9)}
<1>1. SUFFICES ASSUME S # {} PROVE FALSE
  <2>1. ASSUME NEW v \in Int
        PROVE  \E n \in Nat : v \in -n .. n
    <3>1. CASE v < 0
      <4>1. -v \in Nat /\ v \in -(-v) .. -v
        BY <3>1
      <4> QED BY <4>1
    <3>2. CASE v >= 0
      <4>1. v \in Nat /\ v \in -v .. v
        BY <3>2
      <4> QED BY <4>1
    <3> QED BY <3>1, <3>2
  <2> QED BY <2>1
<1>2. PICK n \in S : \A m \in S : n <= m
  BY <1>1, LeastMember
<1>3. PICK v \in -n .. n : Digits[v] \notin Seq(0 .. 9)
  BY <1>2
<1>4. v \in Int /\ DigitOf(CMod(v, 10)) \in 0 .. 9
  BY <1>2, Tenth
<1>5. Digits[v] = Round(Digits, v)
  BY <1>4, DigitsAre
<1>6. <<DigitOf(CMod(v, 10))>> \in Seq(0 .. 9)
  BY <1>4
<1>7. CDiv(v, 10) # 0
  BY <1>3, <1>5, <1>6 DEF Round
<1>8. n # 0
  <2>1. n = 0 => v = 0
    BY <1>3
  <2> QED BY <1>4, <1>7, <2>1, Tenth
<1>9. n - 1 \in Nat /\ n - 1 \notin S /\ (n - 1) + 1 = n
  <2>1. n \in Nat
    BY <1>2
  <2>2. n - 1 \in Nat /\ ~(n <= n - 1) /\ (n - 1) + 1 = n
    BY <1>8, <2>1
  <2> HIDE DEF S
  <2> QED BY <1>2, <2>2
<1>10. CDiv(v, 10) \in -(n - 1) .. n - 1
  BY <1>3, <1>4, <1>9, Tenth
<1>11. Digits[CDiv(v, 10)] \in Seq(0 .. 9)
  BY <1>9, <1>10
<1>12. <<DigitOf(CMod(v, 10))>> \o Digits[CDiv(v, 10)] \in Seq(0 .. 9)
  BY <1>6, <1>11, ConcatProperties
<1> QED BY <1>3, <1>5, <1>7, <1>12 DEF Round

\* What itoa leaves in the string is a string.
LEMMA ItoaIsSeq == \A n \in Int : Itoa(n) \in Seq(Int)
<1> SUFFICES ASSUME NEW n \in Int PROVE Itoa(n) \in Seq(Int)
  OBVIOUS
<1> DEFINE s == Digits[n]
<1>1. s \in Seq(0 .. 9)
  BY DigitsIsSeq
<1> HIDE DEF s
<1>2. Len(s) \in Nat /\ \A i \in 1 .. Len(s) : s[i] \in Int
  BY <1>1, LenProperties, ElementOfSeq
<1>3. \A i \in 1 .. Len(s) : s[(Len(s) - i) + 1] \in Int
  BY <1>2
<1>4. Reverse(s) \in Seq(Int)
  BY <1>2, <1>3 DEF Reverse
<1>5. <<Sign>> \in Seq(Int) /\ <<>> \in Seq(Int)
  BY DEF Sign
<1> QED BY <1>4, <1>5, ConcatProperties DEF Itoa, s

--------------------------------------------------------------------------------
(* The number that a string of digits stands for *)

LEMMA MaxFacts ==
  ASSUME NEW k \in Nat, NEW s \in SUBSET (1 .. k), s # {}
  PROVE  /\ Max(s) \in s /\ \A n \in s : n <= Max(s)
         /\ s \ {Max(s)} \subseteq 1 .. k - 1
<1> DEFINE S == {m \in Nat : s \subseteq 1 .. m}
<1>1. k \in S
  OBVIOUS
<1>2. PICK m \in S : \A n \in S : m <= n
  <2>1. S \in SUBSET Nat /\ S # {}
    BY <1>1
  <2> QED BY <2>1, LeastMember
<1>3. m \in s
  <2>1. SUFFICES ASSUME m \notin s PROVE FALSE
    OBVIOUS
  <2>2. m # 0
    <3>1. m = 0 => s \subseteq {}
      BY <1>2
    <3> QED BY <3>1
  <2>3. m - 1 \in S /\ ~(m <= m - 1)
    BY <1>2, <2>1, <2>2
  <2> QED BY <1>2, <2>3
<1>4. \A n \in s : m >= n
  BY <1>2
<1>5. Max(s) \in s /\ \A n \in s : Max(s) >= n
  BY <1>3, <1>4 DEF Max
<1>6. ASSUME NEW n \in s \ {Max(s)}
      PROVE  n \in 1 .. k - 1
  <2>1. n \in 1 .. k /\ Max(s) \in 1 .. k /\ Max(s) >= n /\ n # Max(s)
    BY <1>5
  <2> QED BY <2>1
<1> QED BY <1>5, <1>6

\* What a character adds to the number read so far.
Read(v, c) == IF c = Sign THEN v ELSE 10 * v + c

ReadRound(f, s, text) ==
  IF s = {} THEN 0 ELSE Read(f[s \ {Max(s)}], text[Max(s)])
Reads(f, text, k) == f = [s \in SUBSET (1 .. k) |-> ReadRound(f, s, text)]

LEMMA ReadsExist == \A text : \A k \in Nat : \E f : Reads(f, text, k)
<1> SUFFICES ASSUME NEW text PROVE \A k \in Nat : \E f : Reads(f, text, k)
  OBVIOUS
<1> DEFINE S == {k \in Nat : ~ \E f : Reads(f, text, k)}
<1>1. SUFFICES ASSUME S # {} PROVE FALSE
  OBVIOUS
<1>2. PICK k \in S : \A m \in S : k <= m
  BY <1>1, LeastMember
<1>3. CASE k = 0
  <2> DEFINE f == [s \in SUBSET (1 .. 0) |-> 0]
  <2>1. \A s \in SUBSET (1 .. 0) : ReadRound(f, s, text) = 0
    BY DEF ReadRound
  <2>2. f = [s \in SUBSET (1 .. 0) |-> ReadRound(f, s, text)]
    BY <2>1
  <2>3. Reads(f, text, 0)
    BY <2>2 DEF Reads
  <2> QED BY <1>2, <1>3, <2>3
<1>4. CASE k # 0
  <2>1. k \in Nat /\ k - 1 \in Nat
    BY <1>2, <1>4
  <2>2. k - 1 \notin S
    <3>1. ~(k <= k - 1)
      BY <2>1
    <3> HIDE DEF S
    <3> QED BY <1>2, <3>1
  <2>3. PICK g : Reads(g, text, k - 1)
    BY <2>1, <2>2
  <2> DEFINE f == [s \in SUBSET (1 .. k) |-> ReadRound(g, s, text)]
  <2>4. ASSUME NEW s \in SUBSET (1 .. k - 1)
        PROVE  f[s] = g[s]
    <3>1. s \in SUBSET (1 .. k)
      BY <2>1
    <3> QED BY <2>3, <3>1 DEF Reads
  <2>5. ASSUME NEW s \in SUBSET (1 .. k)
        PROVE  ReadRound(f, s, text) = ReadRound(g, s, text)
    <3>1. CASE s = {}
      BY <3>1 DEF ReadRound
    <3>2. CASE s # {}
      <4>1. s \ {Max(s)} \in SUBSET (1 .. k - 1)
        BY <2>1, <3>2, MaxFacts
      <4>2. f[s \ {Max(s)}] = g[s \ {Max(s)}]
        BY <2>4, <4>1
      <4> HIDE DEF f
      <4> QED BY <3>2, <4>2 DEF ReadRound
    <3> QED BY <3>1, <3>2
  <2>6. f = [s \in SUBSET (1 .. k) |-> ReadRound(f, s, text)]
    BY <2>5
  <2>7. Reads(f, text, k)
    BY <2>6 DEF Reads
  <2> QED BY <1>2, <2>7
<1> QED BY <1>3, <1>4

\* ValueOf reads a string from the left, character by character.
ReadUp(V, text) ==
  /\ V[0] = 0
  /\ \A k \in 1 .. Len(text) : V[k] = Read(V[k - 1], text[k])

LEMMA ValueIsRead ==
  ASSUME NEW text \in Seq(Int)
  PROVE  \E V : /\ ReadUp(V, text)
                /\ ValueOf(text) = V[Len(text)] * (IF text[1] = Sign THEN -1 ELSE 1)
<1> DEFINE n == Len(text)
           F(f) == [s \in SUBSET DOMAIN text |->
                      IF s = {} THEN 0
                      ELSE IF text[Max(s)] = Sign THEN f[s \ {Max(s)}]
                           ELSE 10 * f[s \ {Max(s)}] + text[Max(s)]]
           it == CHOOSE f : f = F(f)
           V == [k \in 0 .. n |-> it[1 .. k]]
<1>1. ValueOf(text) = it[DOMAIN text] * (IF text[1] = Sign THEN -1 ELSE 1)
  BY DEF ValueOf, FoldLeft, MapThenFoldSet
<1>2. n \in Nat /\ DOMAIN text = 1 .. n
  BY LenProperties
<1>3. \A f : Reads(f, text, n) <=> f = F(f)
  BY <1>2 DEF Reads, ReadRound, Read
<1>4. it = F(it)
  BY <1>2, <1>3, ReadsExist
<1>5. Reads(it, text, n)
  BY <1>3, <1>4
<1> HIDE DEF it, F, n
<1>6. it[{}] = 0
  BY <1>5 DEF Reads, ReadRound
<1>7. V[0] = 0
  <2>1. 1 .. 0 = {}
    OBVIOUS
  <2> QED BY <1>2, <1>6, <2>1
<1>8. ASSUME NEW k \in 1 .. n
      PROVE  V[k] = Read(V[k - 1], text[k])
  <2>1. k \in Nat /\ 1 .. k \in SUBSET (1 .. n) /\ k \in 1 .. k
    BY <1>2
  <2>2. Max(1 .. k) = k
    <3> DEFINE s == 1 .. k
    <3>1. s \in SUBSET (1 .. k) /\ s # {} /\ k \in s
      BY <2>1
    <3> HIDE DEF s
    <3>2. Max(s) \in s /\ k <= Max(s)
      BY <2>1, <3>1, MaxFacts
    <3> QED BY <2>1, <3>2 DEF s
  <2>3. (1 .. k) \ {k} = 1 .. k - 1
    BY <2>1
  <2>4. it[1 .. k] = Read(it[1 .. k - 1], text[k])
    BY <1>5, <2>1, <2>2, <2>3 DEF Reads, ReadRound
  <2> QED BY <1>2, <2>4
<1>9. V[n] = it[DOMAIN text]
  BY <1>2
<1> HIDE DEF V
<1> QED BY <1>1, <1>7, <1>8, <1>9 DEF ReadUp, n

\* The digits of v, read from the last one written to the first, give v back
\* without its sign, whatever stands before them.
Away(v) == IF v < 0 THEN -v ELSE v
ReadAfter(V, text, o, u) ==
  /\ o \in Nat /\ V[o] = 0
  /\ \A i \in 1 .. Len(u) : text[o + i] = u[(Len(u) - i) + 1]
  /\ \A k \in o + 1 .. o + Len(u) : V[k] = Read(V[k - 1], text[k])
ReadsBack(v) ==
  \A V, text, o :
    ReadAfter(V, text, o, Digits[v]) => V[o + Len(Digits[v])] = Away(v)

LEMMA AllReadBack == \A v \in Int : ReadsBack(v) /\ Len(Digits[v]) >= 1
<1> DEFINE Good(v) == ReadsBack(v) /\ Len(Digits[v]) >= 1
           S == {n \in Nat : \E v \in -n .. n : ~Good(v)}
<1>1. SUFFICES ASSUME S # {} PROVE FALSE
  <2>1. ASSUME NEW v \in Int
        PROVE  \E n \in Nat : v \in -n .. n
    <3>1. CASE v < 0
      <4>1. -v \in Nat /\ v \in -(-v) .. -v
        BY <3>1
      <4> QED BY <4>1
    <3>2. CASE v >= 0
      <4>1. v \in Nat /\ v \in -v .. v
        BY <3>2
      <4> QED BY <4>1
    <3> QED BY <3>1, <3>2
  <2> HIDE DEF Good
  <2>2. \A v \in Int : Good(v)
    BY <2>1
  <2> QED BY <2>2 DEF Good
<1>2. PICK n \in S : \A m \in S : n <= m
  <2> HIDE DEF Good
  <2> QED BY <1>1, LeastMember
<1>3. PICK v \in -n .. n : ~Good(v)
  BY <1>2
<1> DEFINE d == DigitOf(CMod(v, 10))
           w == CDiv(v, 10)
           s == Digits[w]
<1>4. /\ n \in Nat /\ v \in Int /\ w \in Int /\ d \in 0 .. 9
      /\ v = 10 * w + CMod(v, 10)
  <2>1. n \in Nat /\ v \in Int
    BY <1>2
  <2> QED BY <2>1, Tenth
<1>5. Away(v) = 10 * Away(w) + d
  BY <1>4, SMT DEF Away, CDiv, CMod, DigitOf
<1>6. Digits[v] = IF w = 0 THEN <<d>> ELSE <<d>> \o s
  BY <1>4, DigitsAre DEF Round
<1> HIDE DEF d
<1>7. CASE w = 0
  <2>1. Digits[v] = <<d>> /\ Away(v) = d
    <3> HIDE DEF w, s, S, Good
    <3>1. Digits[v] = <<d>>
      BY <1>6, <1>7
    <3>2. Away(0) = 0
      BY DEF Away
    <3>3. d \in Int
      BY <1>4
    <3> HIDE DEF Away
    <3>4. Away(v) = 10 * 0 + d
      BY <1>5, <1>7, <3>2
    <3> QED BY <3>1, <3>3, <3>4
  <2>2. Len(Digits[v]) = 1 /\ Digits[v][1] = d
    BY <2>1
  <2>3. ASSUME NEW V, NEW text, NEW o, ReadAfter(V, text, o, Digits[v])
        PROVE  V[o + Len(Digits[v])] = Away(v)
    <3>1. o \in Nat /\ V[o] = 0 /\ 1 \in 1 .. 1 /\ (1 - 1) + 1 = 1
          /\ o + 1 \in o + 1 .. o + 1 /\ (o + 1) - 1 = o
      BY <2>3 DEF ReadAfter
    <3>2. text[o + 1] = d
      BY <2>2, <2>3, <3>1 DEF ReadAfter
    <3>3. V[o + 1] = Read(0, d)
      BY <2>2, <2>3, <3>1, <3>2 DEF ReadAfter
    <3>4. Read(0, d) = d
      BY <1>4 DEF Read, Sign
    <3> QED BY <2>1, <2>2, <3>3, <3>4
  <2> QED BY <1>3, <2>1, <2>2, <2>3 DEF ReadsBack
<1>8. CASE w # 0
  <2>1. n # 0
    <3>1. n = 0 => v = 0
      BY <1>3
    <3> QED BY <1>4, <1>8, <3>1, Tenth
  <2>2. n - 1 \in Nat /\ ~(n <= n - 1) /\ (n - 1) + 1 = n
    BY <1>4, <2>1
  <2>3. n - 1 \notin S
    <3> HIDE DEF S
    <3> QED BY <1>2, <2>2
  <2>4. w \in -(n - 1) .. n - 1
    BY <1>3, <1>4, <2>2, Tenth
  <2>5. ReadsBack(w)
    BY <2>2, <2>3, <2>4
  <2>6. s \in Seq(Int) /\ <<d>> \in Seq(Int) /\ Len(<<d>>) = 1 /\ <<d>>[1] = d
    <3>1. s \in Seq(0 .. 9)
      BY <1>4, DigitsIsSeq
    <3>2. 0 .. 9 \subseteq Int
      OBVIOUS
    <3> HIDE DEF s
    <3> QED BY <1>4, <3>1, <3>2, SeqMonotonic
  <2> DEFINE m == Len(s)
             u == Digits[v]
  <2>7. /\ m \in Nat /\ Len(u) = m + 1 /\ u[1] = d
        /\ \A i \in 1 .. m : u[i + 1] = s[i]
    <3> HIDE DEF s
    <3>1. m \in Nat
      BY <2>6, LenProperties
    <3>2. /\ u = <<d>> \o s
          /\ Len(u) = 1 + m
          /\ \A i \in 1 .. 1 + m : u[i] = IF i <= 1 THEN <<d>>[i] ELSE s[i - 1]
      BY <1>6, <1>8, <2>6, ConcatProperties
    <3>3. u[1] = d
      BY <2>6, <3>1, <3>2
    <3>4. ASSUME NEW i \in 1 .. m
          PROVE  u[i + 1] = s[i]
      <4>1. i + 1 \in 1 .. 1 + m /\ ~(i + 1 <= 1) /\ (i + 1) - 1 = i
        BY <3>1
      <4> HIDE DEF u, m
      <4> QED BY <3>2, <4>1
    <3> QED BY <3>1, <3>2, <3>3, <3>4
  <2> HIDE DEF u
  <2>8. ASSUME NEW V, NEW text, NEW o, ReadAfter(V, text, o, u)
        PROVE  V[o + (m + 1)] = Away(v)
    <3> HIDE DEF m, s, w
    <3>0. /\ o \in Nat /\ V[o] = 0
          /\ \A i \in 1 .. m + 1 : text[o + i] = u[((m + 1) - i) + 1]
          /\ \A k \in o + 1 .. o + (m + 1) : V[k] = Read(V[k - 1], text[k])
      BY <2>7, <2>8 DEF ReadAfter
    <3>1. ASSUME NEW i \in 1 .. m
          PROVE  text[o + i] = s[(m - i) + 1]
      <4>1. /\ i \in 1 .. m + 1 /\ ((m + 1) - i) + 1 = ((m - i) + 1) + 1
            /\ (m - i) + 1 \in 1 .. m
        BY <2>7
      <4>2. text[o + i] = u[((m - i) + 1) + 1]
        BY <3>0, <4>1
      <4> QED BY <2>7, <4>1, <4>2
    <3>2. \A k \in o + 1 .. o + m : V[k] = Read(V[k - 1], text[k])
      BY <2>7, <3>0
    <3>3. V[o + m] = Away(w)
      <4>1. ReadAfter(V, text, o, s)
        BY <3>0, <3>1, <3>2 DEF ReadAfter, m
      <4> QED BY <2>5, <4>1 DEF ReadsBack, m, s
    <3>4. m + 1 \in 1 .. m + 1 /\ ((m + 1) - (m + 1)) + 1 = 1
          /\ o + (m + 1) \in o + 1 .. o + (m + 1) /\ (o + (m + 1)) - 1 = o + m
      BY <2>7, <3>0
    <3>5. text[o + (m + 1)] = d
      BY <2>7, <3>0, <3>4
    <3>6. V[o + (m + 1)] = Read(Away(w), d)
      BY <3>0, <3>3, <3>4, <3>5
    <3> QED BY <1>4, <1>5, <3>6 DEF Read, Sign
  <2>9. Len(u) = m + 1 /\ Len(u) >= 1
    BY <2>7
  <2>10. ReadsBack(v)
    <3> HIDE DEF m
    <3> QED BY <2>8, <2>9 DEF ReadsBack, u
  <2> QED BY <1>3, <2>9, <2>10 DEF u
<1> QED BY <1>7, <1>8

\* itoa's characters give back the number, whatever its sign
\* (lib/string.cpp:26-48).
THEOREM ItoaGivesBack == \A n \in Int : ValueOf(Itoa(n)) = n
<1> SUFFICES ASSUME NEW n \in Int PROVE ValueOf(Itoa(n)) = n
  OBVIOUS
<1> DEFINE s == Digits[n]
           r == Reverse(s)
           text == Itoa(n)
<1>1. s \in Seq(0 .. 9)
  BY DigitsIsSeq
<1>2. ReadsBack(n) /\ Len(s) >= 1
  BY AllReadBack
<1> HIDE DEF s
<1>3. Len(s) \in Nat /\ \A i \in 1 .. Len(s) : s[i] \in 0 .. 9
  BY <1>1, LenProperties, ElementOfSeq
<1>4. /\ r \in Seq(Int) /\ Len(r) = Len(s)
      /\ \A i \in 1 .. Len(s) : r[i] = s[(Len(s) - i) + 1] /\ r[i] \in 0 .. 9
  <2>1. \A i \in 1 .. Len(s) : (Len(s) - i) + 1 \in 1 .. Len(s)
    BY <1>3
  <2>2. \A i \in 1 .. Len(s) : s[(Len(s) - i) + 1] \in 0 .. 9
    BY <1>3, <2>1
  <2>3. r = [i \in 1 .. Len(s) |-> s[(Len(s) - i) + 1]]
    BY DEF Reverse
  <2> HIDE DEF r
  <2>4. \A i \in 1 .. Len(s) : r[i] = s[(Len(s) - i) + 1]
    BY <2>3
  <2>5. r \in Seq(Int) /\ Len(r) = Len(s)
    <3>0. \A k \in 0 .. 9 : k \in Int
      OBVIOUS
    <3>1. \A i \in 1 .. Len(s) : s[(Len(s) - i) + 1] \in Int
      BY <2>2, <3>0, Zenon
    <3> QED BY <1>3, <2>3, <3>1
  <2> QED BY <2>2, <2>4, <2>5
<1> HIDE DEF r
<1>5. text \in Seq(Int)
  BY ItoaIsSeq
<1>6. CASE n < 0
  <2>1. text = <<Sign>> \o r
    BY <1>6 DEF Itoa, r, s
  <2>2. <<Sign>> \in Seq(Int) /\ Len(<<Sign>>) = 1 /\ <<Sign>>[1] = Sign
    BY DEF Sign
  <2>3. /\ Len(text) = 1 + Len(s)
        /\ \A i \in 1 .. 1 + Len(s) : text[i] = IF i <= 1 THEN <<Sign>>[i] ELSE r[i - 1]
    BY <1>4, <2>1, <2>2, ConcatProperties
  <2> HIDE DEF text
  <2>4. text[1] = Sign
    BY <1>3, <2>2, <2>3
  <2>5. ASSUME NEW i \in 1 .. Len(s)
        PROVE  text[1 + i] = s[(Len(s) - i) + 1]
    <3>1. 1 + i \in 1 .. 1 + Len(s) /\ ~(1 + i <= 1) /\ (1 + i) - 1 = i
      BY <1>3
    <3> QED BY <1>4, <2>3, <3>1
  <2>6. PICK V : ReadUp(V, text) /\ ValueOf(text) = V[Len(text)] * (-1)
    BY <1>5, <2>4, ValueIsRead
  <2>7. V[1] = 0
    <3>1. 1 \in 1 .. Len(text) /\ 1 - 1 = 0
      BY <1>3, <2>3
    <3> QED BY <2>4, <2>6, <3>1 DEF ReadUp, Read
  <2>8. \A k \in 1 + 1 .. 1 + Len(s) : V[k] = Read(V[k - 1], text[k])
    BY <1>3, <2>3, <2>6 DEF ReadUp
  <2>9. V[1 + Len(s)] = Away(n)
    <3>1. ReadAfter(V, text, 1, s)
      BY <2>5, <2>7, <2>8 DEF ReadAfter
    <3> QED BY <1>2, <3>1 DEF ReadsBack, s
  <2>10. ValueOf(text) = Away(n) * (-1)
    BY <2>3, <2>6, <2>9
  <2> QED BY <1>6, <2>10 DEF Away, text
<1>7. CASE n >= 0
  <2>1. text = r
    <3>0. ~(n < 0)
      BY <1>7
    <3>1. text = <<>> \o r
      BY <3>0, Zenon DEF Itoa, r, s
    <3> HIDE DEF text
    <3> QED BY <1>4, <3>1, ConcatEmptySeq
  <2> HIDE DEF text
  <2>2. text[1] # Sign
    <3>1. 1 \in 1 .. Len(s)
      BY <1>2, <1>3
    <3>2. r[1] \in 0 .. 9
      BY <1>4, <3>1
    <3> QED BY <2>1, <3>2 DEF Sign
  <2>3. PICK V : ReadUp(V, text) /\ ValueOf(text) = V[Len(text)] * 1
    BY <1>5, <2>2, ValueIsRead
  <2>4. \A i \in 1 .. Len(s) : text[0 + i] = s[(Len(s) - i) + 1]
    BY <1>3, <1>4, <2>1
  <2>5. V[0] = 0 /\ \A k \in 0 + 1 .. 0 + Len(s) : V[k] = Read(V[k - 1], text[k])
    BY <1>3, <1>4, <2>1, <2>3 DEF ReadUp
  <2>6. V[0 + Len(s)] = Away(n)
    <3>1. ReadAfter(V, text, 0, s)
      BY <2>4, <2>5 DEF ReadAfter
    <3> QED BY <1>2, <3>1 DEF ReadsBack, s
  <2>7. ValueOf(text) = Away(n) * 1
    BY <1>3, <1>4, <2>1, <2>3, <2>6
  <2> QED BY <1>7, <2>7 DEF Away, text
<1> QED BY <1>6, <1>7

--------------------------------------------------------------------------------
(* Texts *)

Colours == {"gray", "red", "yellow"}
Moves == {"char", "newline"}
Others == {"itoa", "paging", "cli", "loop"}
Ops == Colours \cup Moves \cup Others

\* Every text that leaves the colour of plain text comes back to it.
Restores(t) ==
  \A i \in 1 .. Len(t) : t[i] \in {"red", "yellow"} =>
    \E j \in i + 1 .. Len(t) : t[j] = "gray"

Without(t, ops) == \A i \in 1 .. Len(t) : t[i] \notin ops

Part(t) ==
  t \in Seq(Ops) /\ Restores(t) /\ Without(t, {"loop"})

Gray(t) == \E i \in 1 .. Len(t) : t[i] = "gray"
Calm(t) == Without(t, {"itoa"})
Leads(t) == Len(t) >= 1 /\ t[1] \in Moves

LEMMA DoIsOne ==
  ASSUME NEW op \in Ops
  PROVE  /\ Do(op) \in Seq(Ops) /\ Len(Do(op)) = 1
         /\ Do(op)[1] = op
BY DEF Do

LEMMA OnePart ==
  ASSUME NEW op \in Ops \ {"red", "yellow", "loop"}
  PROVE  /\ Part(Do(op))
         /\ op = "gray" => Gray(Do(op))
         /\ op # "itoa" => Calm(Do(op))
         /\ op \in Moves => Leads(Do(op))
BY DoIsOne DEF Part, Restores, Without, Gray, Calm, Leads

\* Where the operations of two texts are when one follows the other.
LEMMA Places ==
  ASSUME NEW s \in Seq(Ops), NEW t \in Seq(Ops)
  PROVE  /\ s \o t \in Seq(Ops)
         /\ Len(s) \in Nat /\ Len(t) \in Nat
         /\ Len(s \o t) = Len(s) + Len(t)
         /\ \A i \in 1 .. Len(s) : (s \o t)[i] = s[i]
         /\ \A i \in 1 .. Len(t) : (s \o t)[i + Len(s)] = t[i]
         /\ \A i \in 1 .. Len(s) + Len(t) :
              \/ i \in 1 .. Len(s) /\ (s \o t)[i] = s[i]
              \/ i - Len(s) \in 1 .. Len(t) /\ (s \o t)[i] = t[i - Len(s)]
<1>1. Len(s) \in Nat /\ Len(t) \in Nat
  BY LenProperties
<1>2. /\ s \o t \in Seq(Ops)
      /\ Len(s \o t) = Len(s) + Len(t)
      /\ \A i \in 1 .. Len(s) + Len(t) :
           (s \o t)[i] = IF i <= Len(s) THEN s[i] ELSE t[i - Len(s)]
  BY ConcatProperties
<1> DEFINE u == s \o t
<1> HIDE DEF u
<1>3. ASSUME NEW i \in 1 .. Len(t)
      PROVE  u[i + Len(s)] = t[i]
  <2>1. i + Len(s) \in 1 .. Len(s) + Len(t) /\ ~(i + Len(s) <= Len(s))
        /\ (i + Len(s)) - Len(s) = i
    BY <1>1
  <2> QED BY <2>1, <1>2 DEF u
<1> QED BY <1>1, <1>2, <1>3 DEF u

LEMMA Added ==
  ASSUME NEW s \in Seq(Ops), NEW op \in Ops
  PROVE  /\ s \o Do(op) \in Seq(Ops)
         /\ Len(s) \in Nat /\ Len(s \o Do(op)) = Len(s) + 1
         /\ \A i \in 1 .. Len(s) : (s \o Do(op))[i] = s[i]
         /\ (s \o Do(op))[Len(s) + 1] = op
<1> DEFINE t == Do(op)
<1>1. t \in Seq(Ops) /\ Len(t) = 1 /\ t[1] = op
  BY DoIsOne
<1> HIDE DEF t
<1>2. /\ s \o t \in Seq(Ops)
      /\ Len(s) \in Nat /\ Len(s \o t) = Len(s) + Len(t)
      /\ \A i \in 1 .. Len(s) : (s \o t)[i] = s[i]
      /\ \A i \in 1 .. Len(t) : (s \o t)[i + Len(s)] = t[i]
  BY <1>1, Places
<1>3. (s \o t)[1 + Len(s)] = t[1] /\ 1 + Len(s) = Len(s) + 1
  BY <1>1, <1>2
<1> QED BY <1>1, <1>2, <1>3 DEF t

\* A text of whole parts keeps what its parts keep.
LEMMA Joined ==
  ASSUME NEW s, NEW t, Part(s), Part(t)
  PROVE  /\ Part(s \o t)
         /\ Gray(s) \/ Gray(t) => Gray(s \o t)
         /\ Calm(s) /\ Calm(t) => Calm(s \o t)
         /\ Leads(s) => Leads(s \o t)
<1> DEFINE u == s \o t
<1>1. /\ u \in Seq(Ops)
      /\ Len(s) \in Nat /\ Len(t) \in Nat
      /\ Len(u) = Len(s) + Len(t)
      /\ \A i \in 1 .. Len(s) : u[i] = s[i]
      /\ \A i \in 1 .. Len(t) : u[i + Len(s)] = t[i]
      /\ \A i \in 1 .. Len(s) + Len(t) :
           \/ i \in 1 .. Len(s) /\ u[i] = s[i]
           \/ i - Len(s) \in 1 .. Len(t) /\ u[i] = t[i - Len(s)]
  BY Places DEF Part
<1> HIDE DEF u
<1>2. Without(u, {"loop"})
  BY <1>1 DEF Part, Without
<1>3. ASSUME NEW i \in 1 .. Len(u), u[i] \in {"red", "yellow"}
      PROVE  \E j \in i + 1 .. Len(u) : u[j] = "gray"
  <2>1. CASE i \in 1 .. Len(s) /\ u[i] = s[i]
    <3>1. PICK j \in i + 1 .. Len(s) : s[j] = "gray"
      BY <2>1, <1>1, <1>3 DEF Part, Restores
    <3> QED BY <3>1, <1>1
  <2>2. CASE i - Len(s) \in 1 .. Len(t) /\ u[i] = t[i - Len(s)]
    <3>1. PICK j \in i - Len(s) + 1 .. Len(t) : t[j] = "gray"
      BY <2>2, <1>1, <1>3 DEF Part, Restores
    <3>2. u[j + Len(s)] = "gray" /\ j + Len(s) \in i + 1 .. Len(u)
      BY <3>1, <2>2, <1>1
    <3> QED BY <3>2
  <2> QED BY <2>1, <2>2, <1>1
<1>4. Gray(s) => Gray(u)
  BY <1>1 DEF Gray
<1>5. Gray(t) => Gray(u)
  <2> SUFFICES ASSUME NEW i \in 1 .. Len(t), t[i] = "gray"
               PROVE  Gray(u)
    BY DEF Gray
  <2>1. u[i + Len(s)] = "gray" /\ i + Len(s) \in 1 .. Len(u)
    BY <1>1
  <2> QED BY <2>1 DEF Gray
<1>6. Calm(s) /\ Calm(t) => Calm(u)
  BY <1>1 DEF Calm, Without
<1>7. Leads(s) => Leads(u)
  BY <1>1 DEF Leads
<1> QED BY <1>1, <1>2, <1>3, <1>4, <1>5, <1>6, <1>7 DEF Part, Restores, u

\* The parts that texts are made of.
LEMMA WordIsPart ==
  ASSUME NEW c \in Colours
  PROVE  Part(Word(c)) /\ Gray(Word(c)) /\ Calm(Word(c))
<1> DEFINE a == Do("gray") \o Char
           b == a \o Do(c)
           d == b \o Char
           e == d \o Do("gray")
           w == e \o Char
<1>1. {"gray", "char", c} \subseteq Ops
  BY DEF Ops, Colours, Moves
<1>2. a \in Seq(Ops) /\ Len(a) = 2 /\ a[1] = "gray" /\ a[2] = "char"
  <2> DEFINE g == Do("gray")
  <2>1. g \in Seq(Ops) /\ Len(g) = 1 /\ g[1] = "gray"
    BY <1>1, DoIsOne
  <2>2. a = g \o Do("char")
    BY DEF Char
  <2> HIDE DEF g, a
  <2>3. /\ g \o Do("char") \in Seq(Ops) /\ Len(g \o Do("char")) = Len(g) + 1
        /\ \A i \in 1 .. Len(g) : (g \o Do("char"))[i] = g[i]
        /\ (g \o Do("char"))[Len(g) + 1] = "char"
    BY <1>1, <2>1, Added
  <2> QED BY <2>1, <2>2, <2>3
<1> HIDE DEF a
<1>3. /\ b \in Seq(Ops) /\ Len(b) = 3
      /\ b[1] = a[1] /\ b[2] = a[2] /\ b[3] = c
  <2>1. /\ b \in Seq(Ops) /\ Len(b) = Len(a) + 1
        /\ \A i \in 1 .. Len(a) : b[i] = a[i]
        /\ b[Len(a) + 1] = c
    BY <1>1, <1>2, Added
  <2> HIDE DEF b
  <2> QED BY <2>1, <1>2
<1> HIDE DEF b
<1>4. /\ d \in Seq(Ops) /\ Len(d) = 4
      /\ d[1] = b[1] /\ d[2] = b[2] /\ d[3] = b[3] /\ d[4] = "char"
  <2>1. /\ d \in Seq(Ops) /\ Len(d) = Len(b) + 1
        /\ \A i \in 1 .. Len(b) : d[i] = b[i]
        /\ d[Len(b) + 1] = "char"
    BY <1>1, <1>3, Added DEF Char
  <2> HIDE DEF d
  <2> QED BY <2>1, <1>3
<1> HIDE DEF d
<1>5. /\ e \in Seq(Ops) /\ Len(e) = 5
      /\ e[1] = d[1] /\ e[2] = d[2] /\ e[3] = d[3] /\ e[4] = d[4]
      /\ e[5] = "gray"
  <2>1. /\ e \in Seq(Ops) /\ Len(e) = Len(d) + 1
        /\ \A i \in 1 .. Len(d) : e[i] = d[i]
        /\ e[Len(d) + 1] = "gray"
    BY <1>1, <1>4, Added
  <2> HIDE DEF e
  <2> QED BY <2>1, <1>4
<1> HIDE DEF e
<1>6. /\ w \in Seq(Ops) /\ Len(w) = 6
      /\ w[1] = "gray" /\ w[2] = "char" /\ w[3] = c /\ w[4] = "char"
      /\ w[5] = "gray" /\ w[6] = "char"
  <2>1. /\ w \in Seq(Ops) /\ Len(w) = 6
        /\ w[1] = e[1] /\ w[2] = e[2] /\ w[3] = e[3] /\ w[4] = e[4] /\ w[5] = e[5]
        /\ w[6] = "char"
    <3>1. /\ w \in Seq(Ops) /\ Len(w) = Len(e) + 1
          /\ \A i \in 1 .. Len(e) : w[i] = e[i]
          /\ w[Len(e) + 1] = "char"
      BY <1>1, <1>5, Added DEF Char
    <3> HIDE DEF w
    <3> QED BY <3>1, <1>5
  <2> QED BY <2>1, <1>2, <1>3, <1>4, <1>5
<1>7. w = Word(c)
  BY DEF w, e, d, b, a, Word
<1> HIDE DEF w
<1>8. \A i \in 1 .. Len(w) : i \in {1, 2, 3, 4, 5, 6}
  BY <1>6
<1>9. Restores(w)
  BY <1>6, <1>8 DEF Restores
<1>10. Without(w, {"loop"}) /\ Calm(w) /\ Gray(w)
  BY <1>6, <1>8 DEF Without, Calm, Gray, Colours
<1> QED BY <1>6, <1>7, <1>9, <1>10 DEF Part

LEMMA CharsIsPart ==
  ASSUME NEW n \in Nat
  PROVE  Part(Chars(n)) /\ Calm(Chars(n))
<1>1. "char" \in Ops
  BY DEF Ops, Moves
<1>2. Chars(n) \in Seq(Ops) /\ Len(Chars(n)) = n
      /\ \A k \in 1 .. n : Chars(n)[k] = "char"
  BY <1>1 DEF Chars
<1> QED BY <1>2 DEF Part, Restores, Without, Calm

LEMMA HexIsPart == Part(PrintfHex) /\ Calm(PrintfHex)
BY CharsIsPart DEF PrintfHex

LEMMA IntIsPart ==
  ASSUME NEW value, Itoa(value) \in Seq(Int)
  PROVE  Part(PrintInt(value))
<1>1. Part(Chars(Len(Itoa(value))))
  BY CharsIsPart, LenProperties
<1>2. Part(Do("itoa"))
  BY OnePart DEF Ops, Others
<1> QED BY <1>1, <1>2, Joined DEF PrintInt

--------------------------------------------------------------------------------
(* What is printed, and what the handlers print *)

\* A text loops only in the end, and then prints nothing more.
Text(t) ==
  /\ t \in Seq(Ops) /\ Len(t) >= 1 /\ Restores(t)
  /\ \A i \in 1 .. Len(t) : t[i] = "loop" => i = Len(t)

Endless(t) == t[Len(t)] = "loop"

LEMMA Whole ==
  ASSUME NEW t, Part(t), Gray(t) \/ Leads(t)
  PROVE  Text(t)
<1>1. Len(t) \in Nat
  BY LenProperties DEF Part
<1>2. Len(t) >= 1
  BY <1>1 DEF Gray, Leads
<1> QED BY <1>2 DEF Part, Text, Without

LEMMA Looped ==
  ASSUME NEW s, Part(s), Gray(s)
  PROVE  LET t == s \o Do("loop") IN
         /\ Text(t) /\ Gray(t) /\ Endless(t)
         /\ Calm(s) => Calm(t)
         /\ Leads(s) => Leads(t)
<1> DEFINE t == s \o Do("loop")
<1>1. /\ t \in Seq(Ops)
      /\ Len(s) \in Nat /\ Len(t) = Len(s) + 1
      /\ \A i \in 1 .. Len(s) : t[i] = s[i]
      /\ t[Len(s) + 1] = "loop"
  BY Added DEF Part, Ops, Others
<1> HIDE DEF t
<1>2. \A i \in 1 .. Len(t) : i \in 1 .. Len(s) \/ i = Len(t)
  BY <1>1
<1>3. /\ \A i \in 1 .. Len(t) : t[i] = "loop" => i = Len(t)
      /\ Endless(t)
  BY <1>1, <1>2 DEF Part, Without, Endless
<1>4. ASSUME NEW i \in 1 .. Len(t), t[i] \in {"red", "yellow"}
      PROVE  \E j \in i + 1 .. Len(t) : t[j] = "gray"
  <2>1. i \in 1 .. Len(s) /\ s[i] \in {"red", "yellow"}
    BY <1>1, <1>2, <1>4
  <2>2. PICK j \in i + 1 .. Len(s) : s[j] = "gray"
    BY <2>1 DEF Part, Restores
  <2> QED BY <2>2, <1>1, <2>1
<1>5. Gray(t)
  BY <1>1 DEF Gray
<1>6. Calm(s) => Calm(t)
  BY <1>1, <1>2 DEF Calm, Without
<1>7. Leads(s) => Leads(t)
  BY <1>1 DEF Leads
<1> QED BY <1>1, <1>3, <1>4, <1>5, <1>6, <1>7 DEF Text, Restores, t

\* The parts that are single operations.
LEMMA Single ==
  /\ Part(Char) /\ Calm(Char) /\ Leads(Char)
  /\ Part(NewLine) /\ Calm(NewLine) /\ Leads(NewLine)
  /\ Part(Do("cli")) /\ Calm(Do("cli"))
  /\ Part(Do("paging")) /\ Calm(Do("paging"))
  /\ Part(<<>>) /\ Calm(<<>>)
<1>1. {"char", "newline", "cli", "paging"}
        \subseteq Ops \ {"red", "yellow", "loop"}
  BY DEF Ops, Moves, Others
<1>2. Part(<<>>) /\ Calm(<<>>)
  BY DEF Part, Calm, Restores, Without
<1> QED BY <1>1, <1>2, OnePart DEF Char, NewLine, Moves

LEMMA PanicLoops ==
  LET body == Do("cli") \o Word("red") \o Char \o NewLine IN
  /\ Part(body) /\ Gray(body) /\ Calm(body)
  /\ Panic(Char) = body \o Do("loop")
  /\ Text(Panic(Char)) /\ Gray(Panic(Char))
<1> DEFINE a == Do("cli") \o Word("red")
           b == a \o Char
           c == b \o NewLine
<1>1. Part(a) /\ Gray(a) /\ Calm(a)
  BY Single, WordIsPart, Joined DEF Colours
<1> HIDE DEF a
<1>2. Part(b) /\ Gray(b) /\ Calm(b)
  BY <1>1, Single, Joined
<1> HIDE DEF b
<1>3. Part(c) /\ Gray(c) /\ Calm(c)
  BY <1>2, Single, Joined
<1>4. Panic(Char) = c \o Do("loop")
  BY DEF Panic, a, b, c
<1> HIDE DEF c
<1>5. Text(c \o Do("loop")) /\ Gray(c \o Do("loop"))
  BY <1>3, Looped
<1> QED BY <1>3, <1>4, <1>5 DEF a, b, c

LEMMA AssertLoops ==
  ASSUME NEW line, Itoa(line) \in Seq(Int)
  PROVE  Text(PanicAssert(line)) /\ Gray(PanicAssert(line))
<1> DEFINE a == Do("cli") \o Word("red")
           b == a \o Char
           c == b \o NewLine
           d == c \o Char
           e == d \o PrintInt(line)
           f == e \o NewLine
<1>1. Part(a) /\ Gray(a)
  BY Single, WordIsPart, Joined DEF Colours
<1> HIDE DEF a
<1>2. Part(b) /\ Gray(b)
  BY <1>1, Single, Joined
<1> HIDE DEF b
<1>3. Part(c) /\ Gray(c)
  BY <1>2, Single, Joined
<1> HIDE DEF c
<1>4. Part(d) /\ Gray(d)
  BY <1>3, Single, Joined
<1> HIDE DEF d
<1>5. Part(e) /\ Gray(e)
  BY <1>4, IntIsPart, Joined
<1> HIDE DEF e
<1>6. Part(f) /\ Gray(f)
  BY <1>5, Single, Joined
<1>7. PanicAssert(line) = f \o Do("loop")
  BY DEF PanicAssert, a, b, c, d, e, f
<1> HIDE DEF f
<1> QED BY <1>6, <1>7, Looped

LEMMA KernelTextIsText ==
  ASSUME NEW n, Itoa(n) \in Seq(Int)
  PROVE  Text(KernelText(n))
<1> DEFINE message == SysMsg(<<>>)
           a == PrintInt(n) \o message
           b == a \o Do("paging")
           c == b \o NewLine
           d == c \o Char
           e == d \o NewLine
<1>1. Part(message) /\ Gray(message)
  <2> DEFINE w == Word("yellow") \o <<>>
  <2>1. Part(w) /\ Gray(w)
    BY Single, WordIsPart, Joined DEF Colours
  <2>2. message = w \o NewLine
    BY DEF SysMsg
  <2> HIDE DEF w
  <2> QED BY <2>1, <2>2, Single, Joined
<1> HIDE DEF message
<1>2. Part(a) /\ Gray(a)
  BY <1>1, IntIsPart, Joined
<1> HIDE DEF a
<1>3. Part(b) /\ Gray(b)
  BY <1>2, Single, Joined
<1> HIDE DEF b
<1>4. Part(c) /\ Gray(c)
  BY <1>3, Single, Joined
<1> HIDE DEF c
<1>5. Part(d) /\ Gray(d)
  BY <1>4, Single, Joined
<1> HIDE DEF d
<1>6. Part(e) /\ Gray(e)
  BY <1>5, Single, Joined
<1>7. KernelText(n) = e
  BY DEF KernelText, message, a, b, c, d, e
<1> HIDE DEF e
<1> QED BY <1>6, <1>7, Whole

\* The page fault's handler begins with a character and never asks itoa for
\* anything, so that a fault of its own cannot follow.
LEMMA PageFaultLoops ==
  LET t == PageFaultText IN
  Text(t) /\ Gray(t) /\ Endless(t) /\ Calm(t) /\ Leads(t)
<1> DEFINE body == Do("cli") \o Word("red") \o Char \o NewLine
           a == NewLine \o Char
           b == a \o PrintfHex
<1>1. Part(a) /\ Calm(a) /\ Leads(a)
  BY Single, Joined
<1> HIDE DEF a
<1>2. Part(b) /\ Calm(b) /\ Leads(b)
  BY <1>1, HexIsPart, Joined
<1>3. PageFaultText = b \o Panic(Char)
  BY DEF PageFaultText, a, b
<1> HIDE DEF b
<1>4. Part(body) /\ Gray(body) /\ Calm(body) /\ Panic(Char) = body \o Do("loop")
  BY PanicLoops
<1> HIDE DEF body
<1> DEFINE s == b \o body
<1>5. Part(s) /\ Gray(s) /\ Calm(s) /\ Leads(s)
  BY <1>2, <1>4, Joined
<1>6. PageFaultText = s \o Do("loop")
  <2>1. Do("loop") \in Seq(Ops)
    BY DoIsOne DEF Ops, Others
  <2>2. b \in Seq(Ops) /\ body \in Seq(Ops)
    BY <1>2, <1>4 DEF Part
  <2>3. b \o (body \o Do("loop")) = (b \o body) \o Do("loop")
    BY <2>1, <2>2, ConcatAssociative
  <2> QED BY <1>3, <1>4, <2>3
<1> HIDE DEF s
<1> QED BY <1>5, <1>6, Looped

\* The operations of the keyboard's handler.
LEMMA KeyOps ==
  Len(KeyText) = 3 /\ \A i \in 1 .. 3 : KeyText[i] = "char"
<1> DEFINE hex == PrintfHex
<1>1. hex \in Seq(Ops) /\ Char \in Seq(Ops)
  BY HexIsPart, Single DEF Part
<1>2. Len(hex) = 2 /\ hex[1] = "char" /\ hex[2] = "char"
  BY DEF PrintfHex, Chars
<1>3. Len(Char) = 1 /\ Char[1] = "char"
  BY DEF Char, Do
<1>4. KeyText = Char \o hex
  BY DEF KeyText
<1> HIDE DEF hex
<1>5. /\ Len(Char \o hex) = Len(Char) + Len(hex)
      /\ \A i \in 1 .. Len(Char) + Len(hex) :
           (Char \o hex)[i] = IF i <= Len(Char) THEN Char[i] ELSE hex[i - Len(Char)]
  BY <1>1, ConcatProperties
<1>6. ASSUME NEW i \in 1 .. 3
      PROVE  KeyText[i] = IF i <= 1 THEN Char[i] ELSE hex[i - 1]
  BY <1>2, <1>3, <1>4, <1>5
<1>7. ASSUME NEW i \in 1 .. 3
      PROVE  KeyText[i] = "char"
  <2>1. i = 1 \/ i = 2 \/ i = 3
    OBVIOUS
  <2> QED BY <1>2, <1>3, <1>6, <2>1
<1>8. Len(KeyText) = 3
  BY <1>2, <1>3, <1>4, <1>5
<1> QED BY <1>7, <1>8

\* The keyboard's handler begins with a character and only prints.
LEMMA KeyOnlyPrints ==
  /\ Text(KeyText) /\ Leads(KeyText)
  /\ Without(KeyText, Colours \cup Others)
<1>1. Part(KeyText) /\ Leads(KeyText)
  BY HexIsPart, Single, Joined DEF KeyText
<1>2. Without(KeyText, Colours \cup Others)
  BY KeyOps DEF Without, Colours, Others
<1> QED BY <1>1, <1>2, Whole

--------------------------------------------------------------------------------
(* The inductive invariant *)

Walking == {"nl0", "nl1", "nl2", "put0", "put1", "put2", "put3", "put4",
            "wrap0", "wrap1", "wrap2", "clear", "row0",
            "blank0", "blank1", "blank2", "blank3", "blank4",
            "row1", "row2", "home0", "home1"}
Choosing == {"edge", "bottom", "row", "column", "done"}
Spots == Walking \cup Choosing \cup {"fetch"}

Contexts == [text : Seq(Ops), next : Nat, pc : Spots,
             x : Nat, y : Nat, tmp : Int]

\* The registers of a text, of which a handler's first character may have
\* loaded a column and a row one further off (`slack`).
Registers(c, slack) ==
  /\ c.x <= Cols /\ c.y <= Rows
  /\ c.pc \in {"nl2", "wrap2"} => c.y <= Rows - 1 + slack
  /\ c.pc = "put4" => c.x <= Cols - 1 + slack
  /\ c.pc = "row2" => c.y < Rows
  /\ c.pc = "blank4" => c.x < Cols
  /\ c.pc \in {"put2", "blank2"} => Near(c.tmp)

\* How far off the screen the cursor may be at each place of a text.
Cursor(c, slack) ==
  LET X == Cols - 1 + slack
      Y == Rows - 1 + slack
  IN  /\ c.pc \in {"fetch", "nl0", "put0", "put1", "put2", "put3", "put4"} =>
           x <= X /\ y <= Y
      /\ c.pc \in {"nl1", "nl2", "wrap1", "wrap2"} => x < Cols /\ y <= Y
      /\ c.pc = "edge" => x <= X + 1 /\ y <= Y + 1 /\ (x < Cols \/ y <= Y)
      /\ c.pc = "wrap0" => x <= X + 1 /\ y <= Y
      /\ c.pc \in {"bottom", "clear"} => x < Cols /\ y <= Y + 1
      /\ c.pc \in {"row", "home0"} => x <= Cols /\ y <= Rows
      /\ c.pc \in {"row0", "column", "row1", "row2"} => x <= Cols /\ y < Rows
      /\ c.pc \in {"blank0", "blank1", "blank2", "blank3", "blank4", "done"} =>
           x < Cols /\ y < Rows
      /\ c.pc = "home1" => x < Cols /\ y <= Rows

\* Where a text is: it does not get past an operation that loops.
Reading(c) ==
  /\ Text(c.text)
  /\ c.next >= 1 /\ c.next <= Len(c.text) + 1
  /\ Endless(c.text) => c.next <= Len(c.text)
  /\ c.pc # "fetch" => c.next <= Len(c.text) /\ c.text[c.next] # "loop"

\* Whatever the colour is, the text comes back to that of plain text.
Pending(c) == IF c.pc = "fetch" THEN c.next ELSE c.next + 1
Coloured(c) ==
  \/ colour = "gray"
  \/ \E i \in Pending(c) .. Len(c.text) : c.text[i] = "gray"

\* A handler finds the cursor wherever kernelMain has left it, until its own
\* first character is printed.
Slack(c) == IF c.next = 1 THEN 1 ELSE 0

Kernel(c) == Reading(c) /\ Registers(c, 0)
Handler(c) ==
  /\ Reading(c) /\ Leads(c.text)
  /\ Registers(c, Slack(c)) /\ Cursor(c, Slack(c))

Alone(c) == Kernel(c) /\ Cursor(c, 0) /\ Coloured(c)
Interrupted(c, d) ==
  /\ Kernel(c) /\ Handler(d) /\ ~enabled
  /\ \/ d.text = KeyText /\ Coloured(c)
     \/ d.text = PageFaultText /\ Coloured(d)

Values ==
  /\ x \in Nat /\ y \in Nat
  /\ colour \in Colours
  /\ number \in Numbers
  /\ paged \in BOOLEAN /\ enabled \in BOOLEAN
  /\ keys \in Nat /\ keys <= MaxInterrupts

Inv ==
  /\ Values /\ stack \in Seq(Contexts)
  /\ \/ Len(stack) = 1 /\ \E c \in {stack[1]} : Alone(c)
     \/ Len(stack) = 2 /\ \E c \in {stack[1]}, d \in {stack[2]} : Interrupted(c, d)

--------------------------------------------------------------------------------
(* The steps of a text *)

LEMMA FollowingIs ==
  /\ Following["nl0"] = "nl1" /\ Following["nl1"] = "nl2"
  /\ Following["nl2"] = "edge" /\ Following["put0"] = "put1"
  /\ Following["put1"] = "put2" /\ Following["put2"] = "put3"
  /\ Following["put3"] = "put4" /\ Following["put4"] = "edge"
  /\ Following["wrap0"] = "wrap1" /\ Following["wrap1"] = "wrap2"
  /\ Following["wrap2"] = "bottom" /\ Following["clear"] = "row"
  /\ Following["row0"] = "column" /\ Following["blank0"] = "blank1"
  /\ Following["blank1"] = "blank2" /\ Following["blank2"] = "blank3"
  /\ Following["blank3"] = "blank4" /\ Following["blank4"] = "column"
  /\ Following["row1"] = "row2" /\ Following["row2"] = "row"
  /\ Following["home0"] = "home1" /\ Following["home1"] = "done"
  /\ DOMAIN Following = Walking
BY DEF Following, Walking

LEMMA SpotsAre ==
  Spots = DOMAIN Following \cup {"fetch", "edge", "bottom", "row", "column", "done"}
<1>1. DOMAIN Following = Walking
  BY FollowingIs
<1> QED BY <1>1 DEF Spots, Choosing

\* What remains of a context when one of its fields changes.
Holds(c, text, next, p, cx, cy, tmp) ==
  /\ c \in Contexts
  /\ c.text = text /\ c.next = next /\ c.pc = p
  /\ c.x = cx /\ c.y = cy /\ c.tmp = tmp

LEMMA Turned ==
  ASSUME NEW c \in Contexts, NEW p \in Spots
  PROVE  /\ Holds([c EXCEPT !.pc = p], c.text, c.next, p, c.x, c.y, c.tmp)
         /\ \A n \in Nat :
              Holds([c EXCEPT !.x = n, !.pc = p], c.text, c.next, p, n, c.y, c.tmp)
         /\ \A n \in Nat :
              Holds([c EXCEPT !.y = n, !.pc = p], c.text, c.next, p, c.x, n, c.tmp)
         /\ \A n \in Int :
              Holds([c EXCEPT !.tmp = n, !.pc = p], c.text, c.next, p, c.x, c.y, n)
         /\ \A n \in Nat :
              Holds([c EXCEPT !.next = n, !.pc = p], c.text, n, p, c.x, c.y, c.tmp)
<1>1. Holds([c EXCEPT !.pc = p], c.text, c.next, p, c.x, c.y, c.tmp)
  BY DEF Holds, Contexts
<1>2. ASSUME NEW n \in Nat
      PROVE  /\ Holds([c EXCEPT !.x = n, !.pc = p], c.text, c.next, p, n, c.y, c.tmp)
             /\ Holds([c EXCEPT !.y = n, !.pc = p], c.text, c.next, p, c.x, n, c.tmp)
             /\ Holds([c EXCEPT !.next = n, !.pc = p], c.text, n, p, c.x, c.y, c.tmp)
  <2>1. Holds([c EXCEPT !.x = n, !.pc = p], c.text, c.next, p, n, c.y, c.tmp)
    BY DEF Holds, Contexts
  <2>2. Holds([c EXCEPT !.y = n, !.pc = p], c.text, c.next, p, c.x, n, c.tmp)
    BY DEF Holds, Contexts
  <2>3. Holds([c EXCEPT !.next = n, !.pc = p], c.text, n, p, c.x, c.y, c.tmp)
    BY DEF Holds, Contexts
  <2> QED BY <2>1, <2>2, <2>3
<1>3. ASSUME NEW n \in Int
      PROVE  Holds([c EXCEPT !.tmp = n, !.pc = p], c.text, c.next, p, c.x, c.y, n)
  BY DEF Holds, Contexts
<1> QED BY <1>1, <1>2, <1>3

\* The stack keeps its height when its top is replaced.
LEMMA Stacks ==
  ASSUME NEW st \in Seq(Contexts), NEW d \in Contexts, Len(st) = 1 \/ Len(st) = 2
  PROVE  /\ Last(st) = st[Len(st)] /\ Last(st) \in Contexts
         /\ Append(Front(st), d) \in Seq(Contexts)
         /\ Len(Append(Front(st), d)) = Len(st)
         /\ Append(Front(st), d)[Len(st)] = d
         /\ Len(st) = 2 => /\ Append(Front(st), d)[1] = st[1]
                           /\ Front(st) \in Seq(Contexts) /\ Len(Front(st)) = 1
                           /\ Front(st)[1] = st[1]
         /\ Append(st, d) \in Seq(Contexts) /\ Len(Append(st, d)) = Len(st) + 1
         /\ Append(st, d)[1] = st[1] /\ Append(st, d)[Len(st) + 1] = d
<1> DEFINE n == Len(st)
           front == SubSeq(st, 1, n - 1)
<1>1. \A i \in 1 .. n : st[i] \in Contexts
  BY ElementOfSeq
<1>2. n = 1 \/ n = 2
  OBVIOUS
<1>3. Front(st) = front /\ Last(st) = st[n]
  BY DEF Front, Last
<1>4. /\ front \in Seq(Contexts)
      /\ Len(front) = IF 1 <= n - 1 THEN (n - 1) - 1 + 1 ELSE 0
      /\ \A i \in 1 .. (n - 1) - 1 + 1 : front[i] = st[1 + i - 1]
  <2>1. \A i \in 1 .. n - 1 : st[i] \in Contexts
    BY <1>1, <1>2
  <2>2. n - 1 \in Int
    BY <1>2
  <2> HIDE DEF n
  <2> QED BY <2>1, <2>2, SubSeqProperties
<1>5. Len(front) = n - 1 /\ (n = 2 => front[1] = st[1])
  <2> HIDE DEF front, n
  <2>1. CASE n = 1
    BY <2>1, <1>4
  <2>2. CASE n = 2
    <3>1. Len(front) = 1 /\ front[1] = st[1 + 1 - 1]
      BY <2>2, <1>4
    <3> QED BY <3>1, <2>2
  <2> QED BY <2>1, <2>2, <1>2
<1> HIDE DEF front, n
<1>6. /\ Append(front, d) \in Seq(Contexts)
      /\ Len(Append(front, d)) = Len(front) + 1
      /\ Append(front, d)[Len(front) + 1] = d
      /\ \A i \in 1 .. Len(front) : Append(front, d)[i] = front[i]
  BY <1>4, AppendProperties
<1>7. /\ Append(st, d) \in Seq(Contexts) /\ Len(Append(st, d)) = n + 1
      /\ Append(st, d)[n + 1] = d
      /\ \A i \in 1 .. n : Append(st, d)[i] = st[i]
  BY AppendProperties DEF n
<1> QED BY <1>1, <1>2, <1>3, <1>4, <1>5, <1>6, <1>7 DEF n

\* A text whose context is c is on top, at a place where it prints.
Printer(c, slack) ==
  /\ c \in Contexts /\ Top = c /\ slack \in {0, 1}
  /\ x \in Nat /\ y \in Nat
  /\ Registers(c, slack) /\ Cursor(c, slack)

\* The step takes it to d, within the same operation.
Carried(c, d, slack) ==
  /\ d \in Contexts /\ Becomes(d)
  /\ x' \in Nat /\ y' \in Nat
  /\ d.text = c.text /\ d.next = c.next /\ c.pc # "fetch" /\ d.pc # "fetch"
  /\ Registers(d, slack) /\ Cursor(d, slack)'

LEMMA ZeroXCarries ==
  ASSUME NEW c, NEW slack, Printer(c, slack), ZeroX
  PROVE  \E d : Carried(c, d, slack)
<1>1. /\ c.pc \in {"nl0", "wrap0", "row0", "home0"}
      /\ Becomes([c EXCEPT !.pc = Following[c.pc]])
      /\ x' = 0 /\ y' = y
      /\ c \in Contexts /\ c.x \in Nat /\ c.y \in Nat /\ x \in Nat /\ y \in Nat
  BY DEF ZeroX, At, Advance, Goto, Printer, cursor, Contexts
<1>2. Following[c.pc] \in Spots
  BY <1>1, FollowingIs DEF Spots, Walking, Choosing
<1>3. PICK d : Becomes(d) /\ Holds(d, c.text, c.next, Following[c.pc], c.x, c.y, c.tmp)
  BY <1>1, <1>2, Turned
<1>4. \/ c.pc = "nl0" /\ d.pc = "nl1"
      \/ c.pc = "wrap0" /\ d.pc = "wrap1"
      \/ c.pc = "row0" /\ d.pc = "column"
      \/ c.pc = "home0" /\ d.pc = "home1"
  <2>1. d.pc = Following[c.pc]
    BY <1>3 DEF Holds
  <2> QED BY <1>1, <2>1, FollowingIs
<1>5. Registers(d, slack)
  BY <1>1, <1>3, <1>4, ConsoleAssumption DEF Printer, Holds, Registers, Cursor
<1>6. Cursor(d, slack)'
  BY <1>1, <1>3, <1>4, ConsoleAssumption DEF Printer, Holds, Registers, Cursor
<1> QED BY <1>1, <1>3, <1>4, <1>5, <1>6 DEF Carried, Holds

LEMMA ZeroYCarries ==
  ASSUME NEW c, NEW slack, Printer(c, slack), ZeroY
  PROVE  \E d : Carried(c, d, slack)
<1>1. /\ c.pc \in {"clear", "home1"}
      /\ Becomes([c EXCEPT !.pc = Following[c.pc]])
      /\ y' = 0 /\ x' = x
      /\ c \in Contexts /\ c.x \in Nat /\ c.y \in Nat /\ x \in Nat /\ y \in Nat
  BY DEF ZeroY, At, Advance, Goto, Printer, cursor, Contexts
<1>2. Following[c.pc] \in Spots
  BY <1>1, FollowingIs DEF Spots, Walking, Choosing
<1>3. PICK d : Becomes(d) /\ Holds(d, c.text, c.next, Following[c.pc], c.x, c.y, c.tmp)
  BY <1>1, <1>2, Turned
<1>4. \/ c.pc = "clear" /\ d.pc = "row"
      \/ c.pc = "home1" /\ d.pc = "done"
  <2>1. d.pc = Following[c.pc]
    BY <1>3 DEF Holds
  <2> QED BY <1>1, <2>1, FollowingIs
<1>5. Registers(d, slack)
  BY <1>1, <1>3, <1>4, ConsoleAssumption DEF Printer, Holds, Registers, Cursor
<1>6. Cursor(d, slack)'
  BY <1>1, <1>3, <1>4, ConsoleAssumption DEF Printer, Holds, Registers, Cursor
<1> QED BY <1>1, <1>3, <1>4, <1>5, <1>6 DEF Carried, Holds

LEMMA LoadYCarries ==
  ASSUME NEW c, NEW slack, Printer(c, slack), LoadY
  PROVE  \E d : Carried(c, d, slack)
<1>1. /\ c.pc \in {"nl1", "wrap1", "row1", "put0", "blank0"}
      /\ Becomes([c EXCEPT !.y = y, !.pc = Following[c.pc]])
      /\ y' = y /\ x' = x
      /\ c \in Contexts /\ c.x \in Nat /\ c.y \in Nat /\ x \in Nat /\ y \in Nat
  BY DEF LoadY, At, Advance, Goto, Printer, cursor, Contexts
<1>2. Following[c.pc] \in Spots
  BY <1>1, FollowingIs DEF Spots, Walking, Choosing
<1>3. PICK d : Becomes(d) /\ Holds(d, c.text, c.next, Following[c.pc], c.x, y, c.tmp)
  BY <1>1, <1>2, Turned
<1>4. \/ c.pc = "nl1" /\ d.pc = "nl2"
      \/ c.pc = "wrap1" /\ d.pc = "wrap2"
      \/ c.pc = "row1" /\ d.pc = "row2"
      \/ c.pc = "put0" /\ d.pc = "put1"
      \/ c.pc = "blank0" /\ d.pc = "blank1"
  <2>1. d.pc = Following[c.pc]
    BY <1>3 DEF Holds
  <2> QED BY <1>1, <2>1, FollowingIs
<1>5. Registers(d, slack)
  BY <1>1, <1>3, <1>4, ConsoleAssumption DEF Printer, Holds, Registers, Cursor
<1>6. Cursor(d, slack)'
  BY <1>1, <1>3, <1>4, ConsoleAssumption DEF Printer, Holds, Registers, Cursor
<1> QED BY <1>1, <1>3, <1>4, <1>5, <1>6 DEF Carried, Holds

LEMMA StoreYCarries ==
  ASSUME NEW c, NEW slack, Printer(c, slack), StoreY
  PROVE  \E d : Carried(c, d, slack)
<1>1. /\ c.pc \in {"nl2", "wrap2", "row2"}
      /\ Becomes([c EXCEPT !.pc = Following[c.pc]])
      /\ y' = c.y + 1 /\ x' = x
      /\ c \in Contexts /\ c.x \in Nat /\ c.y \in Nat /\ x \in Nat /\ y \in Nat
  BY DEF StoreY, At, Advance, Goto, Printer, cursor, Contexts
<1>2. Following[c.pc] \in Spots
  BY <1>1, FollowingIs DEF Spots, Walking, Choosing
<1>3. PICK d : Becomes(d) /\ Holds(d, c.text, c.next, Following[c.pc], c.x, c.y, c.tmp)
  BY <1>1, <1>2, Turned
<1>4. \/ c.pc = "nl2" /\ d.pc = "edge"
      \/ c.pc = "wrap2" /\ d.pc = "bottom"
      \/ c.pc = "row2" /\ d.pc = "row"
  <2>1. d.pc = Following[c.pc]
    BY <1>3 DEF Holds
  <2> QED BY <1>1, <2>1, FollowingIs
<1>5. Registers(d, slack)
  BY <1>1, <1>3, <1>4, ConsoleAssumption DEF Printer, Holds, Registers, Cursor
<1>6. Cursor(d, slack)'
  BY <1>1, <1>3, <1>4, ConsoleAssumption DEF Printer, Holds, Registers, Cursor
<1> QED BY <1>1, <1>3, <1>4, <1>5, <1>6 DEF Carried, Holds

LEMMA LoadXCarries ==
  ASSUME NEW c, NEW slack, Printer(c, slack), LoadX
  PROVE  \E d : Carried(c, d, slack)
<1>1. /\ c.pc \in {"put3", "blank3"}
      /\ Becomes([c EXCEPT !.x = x, !.pc = Following[c.pc]])
      /\ y' = y /\ x' = x
      /\ c \in Contexts /\ c.x \in Nat /\ c.y \in Nat /\ x \in Nat /\ y \in Nat
  BY DEF LoadX, At, Advance, Goto, Printer, cursor, Contexts
<1>2. Following[c.pc] \in Spots
  BY <1>1, FollowingIs DEF Spots, Walking, Choosing
<1>3. PICK d : Becomes(d) /\ Holds(d, c.text, c.next, Following[c.pc], x, c.y, c.tmp)
  BY <1>1, <1>2, Turned
<1>4. \/ c.pc = "put3" /\ d.pc = "put4"
      \/ c.pc = "blank3" /\ d.pc = "blank4"
  <2>1. d.pc = Following[c.pc]
    BY <1>3 DEF Holds
  <2> QED BY <1>1, <2>1, FollowingIs
<1>5. Registers(d, slack)
  BY <1>1, <1>3, <1>4, ConsoleAssumption DEF Printer, Holds, Registers, Cursor
<1>6. Cursor(d, slack)'
  BY <1>1, <1>3, <1>4, ConsoleAssumption DEF Printer, Holds, Registers, Cursor
<1> QED BY <1>1, <1>3, <1>4, <1>5, <1>6 DEF Carried, Holds

LEMMA StoreXCarries ==
  ASSUME NEW c, NEW slack, Printer(c, slack), StoreX
  PROVE  \E d : Carried(c, d, slack)
<1>1. /\ c.pc \in {"put4", "blank4"}
      /\ Becomes([c EXCEPT !.pc = Following[c.pc]])
      /\ x' = c.x + 1 /\ y' = y
      /\ c \in Contexts /\ c.x \in Nat /\ c.y \in Nat /\ x \in Nat /\ y \in Nat
  BY DEF StoreX, At, Advance, Goto, Printer, cursor, Contexts
<1>2. Following[c.pc] \in Spots
  BY <1>1, FollowingIs DEF Spots, Walking, Choosing
<1>3. PICK d : Becomes(d) /\ Holds(d, c.text, c.next, Following[c.pc], c.x, c.y, c.tmp)
  BY <1>1, <1>2, Turned
<1>4. \/ c.pc = "put4" /\ d.pc = "edge"
      \/ c.pc = "blank4" /\ d.pc = "column"
  <2>1. d.pc = Following[c.pc]
    BY <1>3 DEF Holds
  <2> QED BY <1>1, <2>1, FollowingIs
<1>5. Registers(d, slack)
  BY <1>1, <1>3, <1>4, ConsoleAssumption DEF Printer, Holds, Registers, Cursor
<1>6. Cursor(d, slack)'
  BY <1>1, <1>3, <1>4, ConsoleAssumption DEF Printer, Holds, Registers, Cursor
<1> QED BY <1>1, <1>3, <1>4, <1>5, <1>6 DEF Carried, Holds

LEMMA WriteCarries ==
  ASSUME NEW c, NEW slack, Printer(c, slack), Write
  PROVE  \E d : Carried(c, d, slack)
<1>1. /\ c.pc \in {"put2", "blank2"}
      /\ Becomes([c EXCEPT !.pc = Following[c.pc]])
      /\ x' = x /\ y' = y
      /\ c \in Contexts /\ c.x \in Nat /\ c.y \in Nat /\ x \in Nat /\ y \in Nat
  BY DEF Write, At, Advance, Goto, Printer, cursor, Contexts
<1>2. Following[c.pc] \in Spots
  BY <1>1, FollowingIs DEF Spots, Walking, Choosing
<1>3. PICK d : Becomes(d) /\ Holds(d, c.text, c.next, Following[c.pc], c.x, c.y, c.tmp)
  BY <1>1, <1>2, Turned
<1>4. \/ c.pc = "put2" /\ d.pc = "put3"
      \/ c.pc = "blank2" /\ d.pc = "blank3"
  <2>1. d.pc = Following[c.pc]
    BY <1>3 DEF Holds
  <2> QED BY <1>1, <2>1, FollowingIs
<1>5. Registers(d, slack)
  BY <1>1, <1>3, <1>4, ConsoleAssumption DEF Printer, Holds, Registers, Cursor
<1>6. Cursor(d, slack)'
  BY <1>1, <1>3, <1>4, ConsoleAssumption DEF Printer, Holds, Registers, Cursor
<1> QED BY <1>1, <1>3, <1>4, <1>5, <1>6 DEF Carried, Holds

\* A cell of the window, or of the row below it, and one more.
LEMMA NearCell ==
  ASSUME NEW column \in Nat, NEW row \in Nat, column <= Cols, row <= Rows
  PROVE  Cell(column, row) \in Int /\ Near(Cell(column, row))
<1>1. Cols \in Nat /\ Rows \in Nat
  BY ConsoleAssumption
<1>2. Cols * row <= Cols * Rows
  <2>1. PICK k \in Nat : Rows = row + k
    <3>1. Rows - row \in Nat /\ Rows = row + (Rows - row)
      BY <1>1
    <3> QED BY <3>1
  <2>2. Cols * Rows = Cols * row + Cols * k
    BY <1>1, <2>1
  <2>3. Cols * k \in Nat /\ Cols * row \in Nat
    BY <1>1, <2>1
  <2> QED BY <2>2, <2>3
<1>3. Cols * (Rows + 1) = Cols * Rows + Cols
  BY <1>1
<1>4. Cols * row \in Nat /\ Cols * Rows \in Nat
  BY <1>1
<1> QED BY <1>1, <1>2, <1>3, <1>4 DEF Cell, Near

LEMMA AddressCarries ==
  ASSUME NEW c, NEW slack, Printer(c, slack), Address
  PROVE  \E d : Carried(c, d, slack)
<1> DEFINE cell == Cell(x, c.y)
<1>1. /\ c.pc \in {"put1", "blank1"}
      /\ Becomes([c EXCEPT !.tmp = cell, !.pc = Following[c.pc]])
      /\ y' = y /\ x' = x
      /\ c \in Contexts /\ c.x \in Nat /\ c.y \in Nat /\ x \in Nat /\ y \in Nat
  BY DEF Address, At, Printer, cursor, Contexts
<1>2. Following[c.pc] \in Spots
  BY <1>1, FollowingIs DEF Spots, Walking, Choosing
<1>3. x <= Cols /\ c.y <= Rows
  BY <1>1, ConsoleAssumption DEF Printer, Registers, Cursor
<1>4. cell \in Int /\ Near(cell)
  BY <1>1, <1>3, NearCell
<1> HIDE DEF cell
<1>5. PICK d : Becomes(d) /\ Holds(d, c.text, c.next, Following[c.pc], c.x, c.y, cell)
  BY <1>1, <1>2, <1>4, Turned
<1>6. \/ c.pc = "put1" /\ d.pc = "put2"
      \/ c.pc = "blank1" /\ d.pc = "blank2"
  <2>1. d.pc = Following[c.pc]
    BY <1>5 DEF Holds
  <2> QED BY <1>1, <2>1, FollowingIs
<1>7. Near(d.tmp)
  BY <1>4, <1>5 DEF Holds
<1>8. Registers(d, slack)
  BY <1>1, <1>5, <1>6, <1>7, ConsoleAssumption DEF Printer, Holds, Registers, Cursor
<1>9. Cursor(d, slack)'
  BY <1>1, <1>5, <1>6, ConsoleAssumption DEF Printer, Holds, Registers, Cursor
<1> QED BY <1>1, <1>5, <1>6, <1>8, <1>9 DEF Carried, Holds

\* The next operation of the text is reached from the end of one.
Ended(c, d) ==
  /\ d \in Contexts /\ Becomes(d)
  /\ x' \in Nat /\ y' \in Nat
  /\ d.text = c.text /\ d.next = c.next + 1 /\ c.pc # "fetch" /\ d.pc = "fetch"
  /\ Registers(d, 0) /\ Cursor(d, 0)'

LEMMA TestCarries ==
  ASSUME NEW c, NEW slack, Printer(c, slack), Test
  PROVE  \E d : Carried(c, d, slack) \/ Ended(c, d)
<1>1. /\ c \in Contexts /\ c.x \in Nat /\ c.y \in Nat /\ c.next \in Nat
      /\ x \in Nat /\ y \in Nat /\ Cols \in Nat /\ Rows \in Nat
  BY ConsoleAssumption DEF Printer, Contexts
<1>2. x' = x /\ y' = y
  BY DEF Test, cursor
<1>3. ASSUME NEW p \in Spots, Goto(p)
      PROVE  \E d : Becomes(d) /\ Holds(d, c.text, c.next, p, c.x, c.y, c.tmp)
  BY <1>1, <1>3, Turned DEF Goto, Printer
<1>4. CASE At({"edge"}) /\ Goto(IF AtEdge(x) THEN "wrap0" ELSE "bottom")
  <2>1. c.pc = "edge"
    BY <1>4 DEF At, Printer
  <2>2. PICK p \in {"wrap0", "bottom"} : /\ Goto(p)
                                         /\ p = "wrap0" <=> x >= Cols
    BY <1>1, <1>4 DEF AtEdge
  <2>3. PICK d : Becomes(d) /\ Holds(d, c.text, c.next, p, c.x, c.y, c.tmp)
    BY <1>3, <2>2 DEF Spots, Walking, Choosing
  <2>4. Registers(d, slack)
    BY <1>1, <2>1, <2>2, <2>3 DEF Printer, Holds, Registers
  <2>5. Cursor(d, slack)'
    BY <1>1, <1>2, <2>1, <2>2, <2>3 DEF Printer, Holds, Cursor
  <2> QED BY <1>1, <1>2, <2>1, <2>2, <2>3, <2>4, <2>5 DEF Carried, Holds
<1>5. CASE At({"bottom"}) /\ Goto(IF BelowWindow(y) THEN "clear" ELSE "done")
  <2>1. c.pc = "bottom"
    BY <1>5 DEF At, Printer
  <2>2. PICK p \in {"clear", "done"} : /\ Goto(p)
                                       /\ p = "clear" <=> y >= Rows
    BY <1>1, <1>5 DEF BelowWindow
  <2>3. PICK d : Becomes(d) /\ Holds(d, c.text, c.next, p, c.x, c.y, c.tmp)
    BY <1>3, <2>2 DEF Spots, Walking, Choosing
  <2>4. Registers(d, slack)
    BY <1>1, <2>1, <2>2, <2>3 DEF Printer, Holds, Registers
  <2>5. Cursor(d, slack)'
    BY <1>1, <1>2, <2>1, <2>2, <2>3 DEF Printer, Holds, Cursor
  <2> QED BY <1>1, <1>2, <2>1, <2>2, <2>3, <2>4, <2>5 DEF Carried, Holds
<1>6. CASE At({"row"}) /\ Goto(IF BelowWindow(y) THEN "home0" ELSE "row0")
  <2>1. c.pc = "row"
    BY <1>6 DEF At, Printer
  <2>2. PICK p \in {"home0", "row0"} : /\ Goto(p)
                                       /\ p = "home0" <=> y >= Rows
    BY <1>1, <1>6 DEF BelowWindow
  <2>3. PICK d : Becomes(d) /\ Holds(d, c.text, c.next, p, c.x, c.y, c.tmp)
    BY <1>3, <2>2 DEF Spots, Walking, Choosing
  <2>4. Registers(d, slack)
    BY <1>1, <2>1, <2>2, <2>3 DEF Printer, Holds, Registers
  <2>5. Cursor(d, slack)'
    BY <1>1, <1>2, <2>1, <2>2, <2>3 DEF Printer, Holds, Cursor
  <2> QED BY <1>1, <1>2, <2>1, <2>2, <2>3, <2>4, <2>5 DEF Carried, Holds
<1>7. CASE At({"column"}) /\ Goto(IF AtEdge(x) THEN "row1" ELSE "blank0")
  <2>1. c.pc = "column"
    BY <1>7 DEF At, Printer
  <2>2. PICK p \in {"row1", "blank0"} : /\ Goto(p)
                                        /\ p = "row1" <=> x >= Cols
    BY <1>1, <1>7 DEF AtEdge
  <2>3. PICK d : Becomes(d) /\ Holds(d, c.text, c.next, p, c.x, c.y, c.tmp)
    BY <1>3, <2>2 DEF Spots, Walking, Choosing
  <2>4. Registers(d, slack)
    BY <1>1, <2>1, <2>2, <2>3 DEF Printer, Holds, Registers
  <2>5. Cursor(d, slack)'
    BY <1>1, <1>2, <2>1, <2>2, <2>3 DEF Printer, Holds, Cursor
  <2> QED BY <1>1, <1>2, <2>1, <2>2, <2>3, <2>4, <2>5 DEF Carried, Holds
<1>8. CASE At({"done"}) /\ Becomes([Top EXCEPT !.next = @ + 1, !.pc = "fetch"])
  <2>1. c.pc = "done" /\ Becomes([c EXCEPT !.next = c.next + 1, !.pc = "fetch"])
    BY <1>8 DEF At, Printer
  <2>2. "fetch" \in Spots /\ c.next + 1 \in Nat
    BY <1>1 DEF Spots
  <2>3. PICK d : /\ Becomes(d)
                 /\ Holds(d, c.text, c.next + 1, "fetch", c.x, c.y, c.tmp)
    BY <1>1, <2>1, <2>2, Turned
  <2>4. Registers(d, 0)
    BY <1>1, <2>1, <2>3 DEF Printer, Holds, Registers
  <2>5. Cursor(d, 0)'
    BY <1>1, <1>2, <2>1, <2>3 DEF Printer, Holds, Cursor
  <2> QED BY <1>1, <1>2, <2>1, <2>3, <2>4, <2>5 DEF Ended, Holds
<1> QED BY <1>4, <1>5, <1>6, <1>7, <1>8 DEF Test

--------------------------------------------------------------------------------
(* The invariant holds *)

TopSlack(c) == IF Len(stack) = 1 THEN 0 ELSE Slack(c)

\* The step takes the text on top from c to d and leaves the others alone.
Lifts(c, d) ==
  /\ d \in Contexts /\ Becomes(d) /\ d.text = c.text
  /\ Reading(d)
  /\ \E slack : slack = TopSlack(d) /\ Registers(d, slack) /\ Cursor(d, slack)'
  /\ Coloured(c) => Coloured(d)'
  /\ Without(c.text, Colours \cup Others) => colour' = colour
  /\ enabled' = enabled \/ enabled' = FALSE

LEMMA OnTop ==
  ASSUME Inv
  PROVE  \E c, slack : /\ Printer(c, slack) /\ Reading(c) /\ slack = TopSlack(c)
                       /\ slack = 1 => c.next = 1 /\ Leads(c.text)
                       /\ Len(stack) = 1 \/ Len(stack) = 2
<1>1. CASE Len(stack) = 1 /\ \E c \in {stack[1]} : Alone(c)
  <2>1. PICK c : c = stack[1] /\ Alone(c)
    BY <1>1
  <2>2. Top = c /\ c \in Contexts
    BY <2>1, <1>1, Stacks DEF Inv, Top
  <2>3. 0 = TopSlack(c)
    BY <1>1 DEF TopSlack
  <2>4. Printer(c, 0) /\ Reading(c)
    BY <2>1, <2>2 DEF Inv, Values, Alone, Kernel, Printer
  <2> QED BY <1>1, <2>3, <2>4
<1>2. CASE Len(stack) = 2 /\ \E c \in {stack[1]}, d \in {stack[2]} : Interrupted(c, d)
  <2>1. PICK b, c : b = stack[1] /\ c = stack[2] /\ Interrupted(b, c)
    BY <1>2
  <2>2. Top = c /\ c \in Contexts
    BY <2>1, <1>2, Stacks DEF Inv, Top
  <2>3. Slack(c) = TopSlack(c) /\ Slack(c) \in {0, 1} /\ (Slack(c) = 1 => c.next = 1)
    BY <1>2 DEF TopSlack, Slack
  <2>4. Printer(c, Slack(c)) /\ Reading(c) /\ Leads(c.text)
    BY <2>1, <2>2, <2>3 DEF Inv, Values, Interrupted, Handler, Printer
  <2> QED BY <1>2, <2>3, <2>4
<1> QED BY <1>1, <1>2 DEF Inv

LEMMA Lifted ==
  ASSUME Inv, Values', NEW c, c = Top, NEW d, Lifts(c, d)
  PROVE  Inv'
<1>1. stack \in Seq(Contexts) /\ d \in Contexts /\ stack' = Append(Front(stack), d)
  BY DEF Inv, Lifts, Becomes
<1>2. CASE Len(stack) = 1 /\ \E b \in {stack[1]} : Alone(b)
  <2>1. c = stack[1] /\ Alone(c)
    BY <1>1, <1>2, Stacks DEF Top
  <2>2. stack' \in Seq(Contexts) /\ Len(stack') = 1 /\ stack'[1] = d
    BY <1>1, <1>2, Stacks
  <2>3. Registers(d, 0) /\ Cursor(d, 0)' /\ Coloured(d)' /\ Reading(d)
    BY <1>2, <2>1 DEF Lifts, TopSlack, Alone
  <2>4. Alone(d)'
    BY <2>3 DEF Alone, Kernel
  <2> QED BY <2>2, <2>4 DEF Inv
<1>3. CASE /\ Len(stack) = 2
           /\ \E b \in {stack[1]}, e \in {stack[2]} : Interrupted(b, e)
  <2>1. PICK b : b = stack[1] /\ Interrupted(b, c)
    BY <1>1, <1>3, Stacks DEF Top
  <2>2. /\ stack' \in Seq(Contexts) /\ Len(stack') = 2
        /\ stack'[1] = b /\ stack'[2] = d
    BY <1>1, <1>3, <2>1, Stacks
  <2>3. PICK slack : slack = Slack(d) /\ Registers(d, slack) /\ Cursor(d, slack)'
    BY <1>3 DEF Lifts, TopSlack
  <2>4. Handler(d)'
    BY <2>1, <2>3 DEF Lifts, Handler, Interrupted
  <2>5. enabled' = FALSE
    BY <2>1 DEF Lifts, Interrupted, Inv, Values
  <2>6. d.text = KeyText /\ Coloured(b) => Coloured(b)'
    BY KeyOnlyPrints DEF Lifts, Coloured
  <2>7. Interrupted(b, d)'
    BY <2>1, <2>4, <2>5, <2>6 DEF Lifts, Interrupted
  <2> QED BY <2>2, <2>7 DEF Inv
<1> QED BY <1>2, <1>3 DEF Inv

\* The steps within an operation, and to the next one.
Walk == \/ ZeroX \/ ZeroY \/ LoadY \/ StoreY \/ LoadX \/ StoreX \/ Address
        \/ Write \/ Test

LEMMA WalkKeeps ==
  ASSUME Inv, Walk
  PROVE  Inv'
<1>1. PICK c, slack : Printer(c, slack) /\ Reading(c) /\ slack = TopSlack(c)
  BY OnTop
<1>2. PICK d : Carried(c, d, slack) \/ Ended(c, d)
  BY <1>1, ZeroXCarries, ZeroYCarries, LoadYCarries, StoreYCarries, LoadXCarries,
     StoreXCarries, AddressCarries, WriteCarries, TestCarries DEF Walk
<1>3. UNCHANGED <<colour, rest>>
  BY DEF Walk, ZeroX, ZeroY, LoadY, StoreY, LoadX, StoreX, Address, Write, Test
<1>4. Values'
  BY <1>2, <1>3 DEF Inv, Values, Carried, Ended, rest
<1>5. Reading(d)
  <2>1. c.next \in Nat /\ Len(c.text) \in Nat
    BY <1>1, LenProperties DEF Printer, Contexts
  <2> QED BY <1>1, <1>2, <2>1 DEF Reading, Carried, Ended, Endless
<1>6. Pending(d) = Pending(c) /\ d.text = c.text /\ d \in Contexts /\ Becomes(d)
  BY <1>1, <1>2 DEF Carried, Ended, Pending, Printer, Contexts
<1>7. Coloured(c) => Coloured(d)'
  BY <1>3, <1>6 DEF Coloured
<1>8. \E t : t = TopSlack(d) /\ Registers(d, t) /\ Cursor(d, t)'
  <2>1. CASE Carried(c, d, slack)
    <3>1. slack = TopSlack(d)
      BY <1>1, <2>1 DEF TopSlack, Slack, Carried
    <3> QED BY <2>1, <3>1 DEF Carried
  <2>2. CASE Ended(c, d)
    <3>1. c.next \in Nat /\ c.next >= 1 /\ d.next = c.next + 1
      BY <1>1, <2>2 DEF Reading, Ended, Printer, Contexts
    <3>2. 0 = TopSlack(d)
      BY <3>1 DEF TopSlack, Slack
    <3> QED BY <2>2, <3>2 DEF Ended
  <2> QED BY <1>2, <2>1, <2>2
<1>9. Lifts(c, d)
  BY <1>3, <1>5, <1>6, <1>7, <1>8 DEF Lifts, rest
<1> QED BY <1>1, <1>4, <1>9, Lifted DEF Printer

\* An operation begins: the text has a place, and the cursor is where its first
\* step expects it.
Begun(c, d, p) ==
  /\ c \in Contexts /\ Top = c /\ c.pc = "fetch" /\ Text(c.text)
  /\ c.next \in 1 .. Len(c.text) /\ c.text[c.next] = Op
  /\ d \in Contexts /\ Becomes(d) /\ d.text = c.text /\ d.next = c.next /\ d.pc = p
  /\ Reading(d)
  /\ \E slack : slack = TopSlack(d) /\ Registers(d, slack) /\ Cursor(d, slack)'

LEMMA Begins ==
  ASSUME Inv, Fetching, Printing, Op # "loop",
         NEW p \in {"nl0", "put0", "done"}, Goto(p),
         p = "done" => Op \notin Moves,
         UNCHANGED cursor
  PROVE  \E c, d : Begun(c, d, p)
<1>1. PICK c, slack : /\ Printer(c, slack) /\ Reading(c) /\ slack = TopSlack(c)
                      /\ slack = 1 => c.next = 1 /\ Leads(c.text)
  BY OnTop
<1>2. /\ c \in Contexts /\ c.next \in Nat /\ c.x \in Nat /\ c.y \in Nat
      /\ x \in Nat /\ y \in Nat /\ Cols \in Nat /\ Rows \in Nat
      /\ Len(c.text) \in Nat
  BY <1>1, ConsoleAssumption, LenProperties DEF Printer, Contexts
<1>3. /\ c.pc = "fetch" /\ c.next \in 1 .. Len(c.text) /\ c.text[c.next] = Op
      /\ Top = c /\ Text(c.text)
  BY <1>1, <1>2 DEF Printer, Fetching, Printing, Op, Reading
<1>4. Becomes([c EXCEPT !.pc = p]) /\ p \in Spots
  BY <1>3 DEF Goto, Spots, Walking, Choosing
<1>5. PICK d : Becomes(d) /\ Holds(d, c.text, c.next, p, c.x, c.y, c.tmp)
  BY <1>2, <1>4, Turned
<1>6. Reading(d)
  BY <1>2, <1>3, <1>5 DEF Reading, Holds
<1>7. slack = TopSlack(d)
  BY <1>1, <1>5 DEF TopSlack, Slack, Holds
<1>8. p = "done" => slack = 0
  BY <1>1, <1>3 DEF Printer, Leads
<1>9. Registers(d, slack)
  BY <1>1, <1>5 DEF Printer, Registers, Holds
<1>10. x' = x /\ y' = y /\ x <= Cols - 1 + slack /\ y <= Rows - 1 + slack
       /\ slack \in {0, 1}
  BY <1>1, <1>3 DEF Printer, Cursor, cursor
<1>11. Cursor(d, slack)'
  BY <1>2, <1>5, <1>8, <1>10 DEF Cursor, Holds
<1> QED BY <1>2, <1>3, <1>5, <1>6, <1>7, <1>9, <1>11 DEF Begun, Holds

LEMMA StillColoured ==
  ASSUME NEW c, NEW d, NEW p \in {"nl0", "put0", "done"}, Begun(c, d, p),
         colour' = colour, Op # "gray", Coloured(c)
  PROVE  Coloured(d)'
<1>1. CASE colour = "gray"
  BY <1>1 DEF Coloured
<1>2. CASE colour # "gray"
  <2>1. PICK i \in c.next .. Len(c.text) : c.text[i] = "gray"
    BY <1>2 DEF Coloured, Begun, Pending
  <2>2. i # c.next
    BY <2>1 DEF Begun
  <2>3. i \in c.next + 1 .. Len(c.text)
    BY <2>1, <2>2 DEF Begun
  <2> QED BY <2>1, <2>3 DEF Coloured, Begun, Pending
<1> QED BY <1>1, <1>2

LEMMA BeginKeeps ==
  ASSUME Inv, Begin
  PROVE  Inv'
<1>1. PICK p \in {"nl0", "put0"} : Goto(p)
  BY DEF Begin
<1>2. Op \notin Colours /\ Op # "loop" /\ Fetching /\ Printing
      /\ UNCHANGED <<cursor, colour, rest>>
  BY DEF Begin, Colours
<1>3. PICK c, d : Begun(c, d, p)
  BY <1>1, <1>2, Begins
<1>4. Values'
  BY <1>2 DEF Inv, Values, cursor, rest
<1>5. Coloured(c) => Coloured(d)'
  BY <1>2, <1>3, StillColoured DEF Colours
<1>6. Lifts(c, d)
  BY <1>2, <1>3, <1>5 DEF Lifts, Begun, rest
<1> QED BY <1>3, <1>4, <1>6, Lifted DEF Begun

LEMMA SetColourKeeps ==
  ASSUME Inv, SetColour
  PROVE  Inv'
<1>1. /\ Op \in Colours /\ Op # "loop" /\ Op \notin Moves
      /\ Fetching /\ Printing /\ Goto("done") /\ colour' = Op
      /\ UNCHANGED <<cursor, rest>>
  BY DEF SetColour, Colours, Moves
<1>2. PICK c, d : Begun(c, d, "done")
  BY <1>1, Begins
<1>3. Values'
  BY <1>1 DEF Inv, Values, cursor, rest
<1>4. Coloured(d)'
  <2>1. CASE Op = "gray"
    BY <1>1, <2>1 DEF Coloured
  <2>2. CASE Op \in {"red", "yellow"}
    <3>1. PICK j \in c.next + 1 .. Len(c.text) : c.text[j] = "gray"
      BY <1>2, <2>2 DEF Begun, Text, Restores
    <3> QED BY <1>2, <3>1 DEF Coloured, Begun, Pending
  <2> QED BY <1>1, <2>1, <2>2 DEF Colours
<1>5. ~Without(c.text, Colours \cup Others)
  BY <1>1, <1>2 DEF Without, Begun
<1>6. Lifts(c, d)
  BY <1>1, <1>2, <1>4, <1>5 DEF Lifts, Begun, rest
<1> QED BY <1>2, <1>3, <1>6, Lifted DEF Begun

LEMMA ControlKeeps ==
  ASSUME Inv, Control
  PROVE  Inv'
<1>1. /\ Op # "gray" /\ Op # "loop" /\ Op \notin Moves
      /\ Fetching /\ Printing /\ Goto("done")
      /\ UNCHANGED <<cursor, colour, number, keys>>
      /\ paged' \in {paged, TRUE} /\ enabled' \in {enabled, FALSE}
  BY DEF Control, Moves
<1>2. PICK c, d : Begun(c, d, "done")
  BY <1>1, Begins
<1>3. Values'
  BY <1>1 DEF Inv, Values, cursor
<1>4. Coloured(c) => Coloured(d)'
  BY <1>1, <1>2, StillColoured
<1>5. Lifts(c, d)
  BY <1>1, <1>2, <1>4 DEF Lifts, Begun
<1> QED BY <1>2, <1>3, <1>5, Lifted DEF Begun

\* A handler starts with the cursor wherever the kernel has left it.
LEMMA HandlerStarts ==
  ASSUME Inv, Values', Len(stack) = 1, NEW text \in {KeyText, PageFaultText},
         stack' = Append(stack, Context(text)), enabled' = FALSE,
         UNCHANGED <<cursor, colour>>
  PROVE  Inv'
<1> DEFINE d == Context(text)
<1>1. PICK c : c = stack[1] /\ Alone(c)
  BY DEF Inv
<1>2. Text(text) /\ Leads(text) /\ (text = PageFaultText => Gray(text))
  BY KeyOnlyPrints, PageFaultLoops
<1>3. /\ d \in Contexts /\ d.text = text /\ d.next = 1 /\ d.pc = "fetch"
      /\ d.x = 0 /\ d.y = 0
  BY <1>2 DEF Context, Contexts, Text, Spots
<1> HIDE DEF d
<1>4. stack' \in Seq(Contexts) /\ Len(stack') = 2 /\ stack'[1] = c /\ stack'[2] = d
  <2>1. stack \in Seq(Contexts) /\ stack' = Append(stack, d)
    BY DEF Inv, d
  <2> QED BY <1>1, <1>3, <2>1, Stacks
<1>5. c \in Contexts /\ Cols \in Nat /\ Rows \in Nat /\ x \in Nat /\ y \in Nat
  BY <1>1, ConsoleAssumption, ElementOfSeq DEF Inv, Values
<1>6. x' <= Cols /\ y' <= Rows
  <2>1. x <= Cols
    BY <1>1, <1>5 DEF Alone, Cursor, Contexts, Spots, Walking, Choosing
  <2>2. y <= Rows
    BY <1>1, <1>5 DEF Alone, Cursor, Contexts, Spots, Walking, Choosing
  <2> QED BY <2>1, <2>2 DEF cursor
<1>7. Slack(d) = 1
  BY <1>3 DEF Slack
<1>8. Registers(d, 1) /\ Cursor(d, 1)'
  BY <1>3, <1>5, <1>6 DEF Registers, Cursor
<1>9. Reading(d)
  BY <1>2, <1>3 DEF Reading, Text, Endless
<1>10. Handler(d)'
  BY <1>2, <1>3, <1>7, <1>8, <1>9 DEF Handler
<1>11. text = PageFaultText => Coloured(d)'
  BY <1>2, <1>3 DEF Gray, Coloured, Pending
<1>12. Coloured(c)'
  BY <1>1 DEF Alone, Coloured
<1>13. Interrupted(c, d)'
  BY <1>1, <1>3, <1>10, <1>11, <1>12 DEF Interrupted, Alone
<1> QED BY <1>4, <1>13 DEF Inv

LEMMA KeyKeeps ==
  ASSUME Inv, Key
  PROVE  Inv'
<1>1. Len(stack) = 1
  BY DEF Inv, Key, Interrupted
<1>2. Values'
  <2>1. keys' \in Nat /\ keys' <= MaxInterrupts
    BY ConsoleAssumption DEF Inv, Values, Key
  <2>2. enabled' \in BOOLEAN
    BY DEF Key
  <2> QED BY <2>1, <2>2 DEF Inv, Values, Key, cursor
<1> QED BY <1>1, <1>2, HandlerStarts DEF Key

\* Only kernelMain asks itoa for anything.
LEMMA WriteItoaKeeps ==
  ASSUME Inv, WriteItoa
  PROVE  Inv'
<1>1. /\ Fetching /\ Printing /\ Op = "itoa" /\ Op \notin Moves
      /\ UNCHANGED <<cursor, colour, number, paged, keys>>
  BY DEF WriteItoa, Moves
<1>2. CASE paged
  <2>1. stack' = Append(stack, Context(PageFaultText)) /\ enabled' = FALSE
    BY <1>2 DEF WriteItoa
  <2>2. Values'
    BY <1>1, <2>1 DEF Inv, Values, cursor
  <2>3. Len(stack) = 1
    <3>1. SUFFICES ASSUME Len(stack) = 2
                   PROVE  FALSE
      BY DEF Inv
    <3>2. PICK c, d : d = stack[2] /\ Interrupted(c, d)
      BY <3>1 DEF Inv
    <3>3. Top = d
      BY <3>1, <3>2 DEF Top, Last
    <3>4. Without(d.text, {"itoa"})
      BY <3>2, KeyOnlyPrints, PageFaultLoops DEF Interrupted, Without, Others, Calm
    <3>5. d.next \in 1 .. Len(d.text)
      <4>1. d \in Contexts
        BY <3>1, <3>2, ElementOfSeq DEF Inv
      <4>2. d.next \in Nat /\ Len(d.text) \in Nat
        BY <4>1, LenProperties DEF Contexts
      <4> QED BY <1>1, <3>2, <3>3, <4>2 DEF Printing, Interrupted, Handler, Reading
    <3> QED BY <1>1, <3>3, <3>4, <3>5 DEF Op, Without
  <2> QED BY <1>1, <2>1, <2>2, <2>3, HandlerStarts
<1>3. CASE ~paged
  <2>1. Goto("done") /\ UNCHANGED enabled
    BY <1>3 DEF WriteItoa
  <2>2. PICK c, d : Begun(c, d, "done")
    BY <1>1, <2>1, Begins
  <2>3. Values'
    BY <1>1, <2>1 DEF Inv, Values, cursor
  <2>4. Coloured(c) => Coloured(d)'
    BY <1>1, <2>2, StillColoured
  <2>5. Lifts(c, d)
    BY <1>1, <2>1, <2>2, <2>4 DEF Lifts, Begun
  <2> QED BY <2>2, <2>3, <2>5, Lifted DEF Begun
<1> QED BY <1>2, <1>3

LEMMA ReturnKeeps ==
  ASSUME Inv, Return
  PROVE  Inv'
<1>1. PICK c, d : /\ c = stack[1] /\ d = stack[2] /\ Interrupted(c, d)
                  /\ Len(stack) = 2
  BY DEF Inv, Return
<1>2. c \in Contexts /\ d \in Contexts /\ Top = d
  BY <1>1, ElementOfSeq DEF Inv, Top, Last
<1>3. stack' \in Seq(Contexts) /\ Len(stack') = 1 /\ stack'[1] = c
  <2>1. stack \in Seq(Contexts) /\ stack' = Front(stack)
    BY DEF Inv, Return
  <2> QED BY <1>1, <1>2, <2>1, Stacks
<1>4. d.pc = "fetch" /\ d.next \in Nat /\ Len(d.text) \in Nat /\ d.next > Len(d.text)
  BY <1>2, LenProperties DEF Return, Fetching, Printing, Contexts
<1>5. d.text = KeyText
  BY <1>1, <1>4, PageFaultLoops DEF Interrupted, Handler, Reading
<1>6. Slack(d) = 0
  BY <1>1, <1>4 DEF Slack, Interrupted, Handler, Reading, Text
<1>7. x \in Nat /\ y \in Nat /\ x < Cols /\ y < Rows
  BY <1>1, <1>4, <1>6, ConsoleAssumption DEF Interrupted, Handler, Cursor, Inv, Values
<1>8. x' = x /\ y' = y /\ colour' = colour /\ enabled' = TRUE
  BY DEF Return, cursor
<1>9. Cursor(c, 0)'
  BY <1>7, <1>8, ConsoleAssumption DEF Cursor
<1>10. PageFaultText # KeyText
  BY KeyOnlyPrints, PageFaultLoops DEF Without, Endless, Others, Text
<1>11. Coloured(c)'
  BY <1>1, <1>5, <1>8, <1>10 DEF Interrupted, Coloured
<1>12. Alone(c)'
  BY <1>1, <1>9, <1>11 DEF Alone, Interrupted
<1>13. Values'
  BY <1>8 DEF Inv, Values, Return
<1> QED BY <1>3, <1>12, <1>13 DEF Inv

\* A text of kernelMain's starts where the cursor is on the screen.
LEMMA KernelStarts ==
  ASSUME NEW text, Text(text), NEW c, c = Context(text)
  PROVE  /\ c \in Contexts /\ Kernel(c) /\ c.pc = "fetch" /\ c.next = 1
         /\ c.text = text
         /\ <<c>> \in Seq(Contexts) /\ Len(<<c>>) = 1 /\ <<c>>[1] = c
<1>1. /\ c \in Contexts /\ c.text = text /\ c.next = 1 /\ c.pc = "fetch"
      /\ c.x = 0 /\ c.y = 0
  BY DEF Context, Contexts, Text, Spots
<1>2. Reading(c)
  BY <1>1 DEF Reading, Text
<1>3. Registers(c, 0)
  BY <1>1, ConsoleAssumption DEF Registers
<1> QED BY <1>1, <1>2, <1>3 DEF Kernel

LEMMA FailKeeps ==
  ASSUME Inv, Fail
  PROVE  Inv'
<1>1. PICK text \in {Panic(Char), PanicAssert(number)} : stack' = <<Context(text)>>
  BY DEF Fail
<1>2. Text(text) /\ Gray(text)
  <2>1. Itoa(number) \in Seq(Int)
    BY ItoaIsSeq, ConsoleAssumption DEF Inv, Values
  <2> QED BY <1>1, <2>1, PanicLoops, AssertLoops
<1>3. PICK c : c = Context(text)
  OBVIOUS
<1>4. /\ c \in Contexts /\ Kernel(c) /\ c.pc = "fetch" /\ c.next = 1 /\ c.text = text
      /\ stack' \in Seq(Contexts) /\ Len(stack') = 1 /\ stack'[1] = c
  BY <1>1, <1>2, <1>3, KernelStarts
<1>5. x \in Nat /\ y \in Nat /\ x < Cols /\ y < Rows
  <2>1. PICK b : b = stack[1] /\ Alone(b)
    BY DEF Inv, Fail
  <2>2. Top = b
    BY <2>1 DEF Top, Last, Fail
  <2> QED BY <2>1, <2>2, ConsoleAssumption DEF Alone, Cursor, Fail, Fetching, Inv, Values
<1>6. UNCHANGED <<cursor, colour, rest>>
  BY DEF Fail
<1>7. Cursor(c, 0)'
  BY <1>4, <1>5, <1>6, ConsoleAssumption DEF Cursor, cursor
<1>8. Coloured(c)'
  BY <1>2, <1>4 DEF Coloured, Pending, Gray
<1>9. Alone(c)'
  BY <1>4, <1>7, <1>8 DEF Alone
<1>10. Values'
  BY <1>6 DEF Inv, Values, cursor, rest
<1> QED BY <1>4, <1>9, <1>10 DEF Inv

LEMMA InvInit == Init => Inv
<1> SUFFICES ASSUME Init PROVE Inv
  OBVIOUS
<1>1. Text(KernelText(number))
  BY ItoaIsSeq, KernelTextIsText, ConsoleAssumption DEF Init
<1>2. PICK c : c = Context(KernelText(number))
  OBVIOUS
<1>3. /\ c \in Contexts /\ Kernel(c) /\ c.pc = "fetch"
      /\ stack \in Seq(Contexts) /\ Len(stack) = 1 /\ stack[1] = c
  BY <1>1, <1>2, KernelStarts DEF Init
<1>4. Cursor(c, 0)
  BY <1>3, ConsoleAssumption DEF Cursor, Init
<1>5. Coloured(c)
  BY DEF Coloured, Init
<1>6. Values
  <2>1. keys \in Nat /\ keys <= MaxInterrupts /\ x \in Nat /\ y \in Nat
    BY ConsoleAssumption DEF Init
  <2>2. paged \in BOOLEAN /\ enabled \in BOOLEAN
    BY DEF Init
  <2> QED BY <2>1, <2>2 DEF Values, Init, Colours
<1> QED BY <1>3, <1>4, <1>5, <1>6 DEF Inv, Alone

LEMMA InvNext == Inv /\ (Next \/ UNCHANGED vars) => Inv'
<1> SUFFICES ASSUME Inv, Next \/ UNCHANGED vars PROVE Inv'
  OBVIOUS
<1>1. CASE Proceed
  BY <1>1, WalkKeeps, BeginKeeps, SetColourKeeps, WriteItoaKeeps,
     ControlKeeps, ReturnKeeps DEF Proceed, Walk
<1>2. CASE Fail
  BY <1>2, FailKeeps
<1>3. CASE Key
  BY <1>3, KeyKeeps
<1>4. CASE UNCHANGED vars
  <2>1. UNCHANGED <<x, y, colour, number, paged, enabled, keys, stack>>
    BY <1>4 DEF vars, cursor, rest
  <2>2. ASSUME NEW c PROVE Coloured(c)' = Coloured(c)
    BY <2>1 DEF Coloured
  <2>3. ASSUME NEW c, NEW slack PROVE Cursor(c, slack)' = Cursor(c, slack)
    BY <2>1 DEF Cursor
  <2>4. ASSUME NEW c, Alone(c) PROVE Alone(c)'
    BY <2>2, <2>3, <2>4 DEF Alone
  <2>5. ASSUME NEW c, NEW d, Interrupted(c, d) PROVE Interrupted(c, d)'
    BY <2>1, <2>2, <2>3, <2>5 DEF Interrupted, Handler
  <2>6. Values'
    BY <2>1 DEF Inv, Values
  <2> QED BY <2>1, <2>4, <2>5, <2>6 DEF Inv
<1> QED BY <1>1, <1>2, <1>3, <1>4 DEF Next, Halt

--------------------------------------------------------------------------------
(* The properties *)

LEMMA InvHolds == Spec => []Inv
BY InvInit, InvNext, PTL DEF Spec

LEMMA Contents ==
  ASSUME Inv, NEW n \in DOMAIN stack
  PROVE  stack[n] \in Contexts /\ Reading(stack[n]) /\ stack[n].x <= Cols
         /\ stack[n].y <= Rows
<1>1. stack \in Seq(Contexts) /\ (Len(stack) = 1 \/ Len(stack) = 2)
  BY DEF Inv
<1>2. n \in 1 .. Len(stack)
  BY <1>1, LenProperties
<1>3. stack[n] \in Contexts
  BY <1>1, <1>2, ElementOfSeq
<1>4. n = 1 \/ (n = 2 /\ Len(stack) = 2)
  BY <1>1, <1>2
<1>5. CASE n = 1
  <2>1. Kernel(stack[1])
    BY DEF Inv, Alone, Interrupted
  <2> QED BY <1>3, <1>5, <2>1 DEF Kernel, Registers
<1>6. CASE n = 2 /\ Len(stack) = 2
  <2>1. Handler(stack[2])
    BY <1>6 DEF Inv, Interrupted
  <2> QED BY <1>3, <1>6, <2>1 DEF Handler, Registers
<1> QED BY <1>4, <1>5, <1>6

\* The cursor is never further than two columns and rows from the last cell,
\* and every text is at one of its operations, or at its end
\* (console.cpp:80-145).
THEOREM TypesHold == Spec => []TypeOK
<1>1. ASSUME Inv PROVE TypeOK
  <2>1. x \in 0 .. Cols + 1 /\ y \in 0 .. Rows + 1
    <3>1. PICK c, slack : Printer(c, slack)
      BY <1>1, OnTop
    <3>2. /\ x \in Nat /\ y \in Nat /\ slack \in {0, 1} /\ c.pc \in Spots
          /\ Cols \in Nat \ {0} /\ Rows \in Nat \ {0}
      BY <3>1, ConsoleAssumption DEF Printer, Contexts
    <3>3. x <= Cols + 1
      BY <3>1, <3>2 DEF Printer, Cursor, Spots, Walking, Choosing
    <3>4. y <= Rows + 1
      BY <3>1, <3>2 DEF Printer, Cursor, Spots, Walking, Choosing
    <3> QED BY <3>2, <3>3, <3>4
  <2>2. ASSUME NEW n \in DOMAIN stack
        PROVE  /\ stack[n].next \in 1 .. Len(stack[n].text) + 1
               /\ stack[n].pc \in Spots
               /\ stack[n].x \in 0 .. Cols /\ stack[n].y \in 0 .. Rows
    <3>1. stack[n] \in Contexts /\ Reading(stack[n]) /\ stack[n].x <= Cols
          /\ stack[n].y <= Rows
      BY <1>1, Contents
    <3>2. Len(stack[n].text) \in Nat
      BY <3>1, LenProperties DEF Contexts
    <3> QED BY <3>1, <3>2, ConsoleAssumption DEF Contexts, Reading
  <2>3. keys \in 0 .. MaxInterrupts
    BY <1>1, ConsoleAssumption DEF Inv, Values
  <2> QED BY <1>1, <2>1, <2>2, <2>3, SpotsAre DEF TypeOK, Inv, Values, Colours
<1> QED BY <1>1, InvHolds, PTL

\* Between two operations the cursor is on the screen, wherever a key's handler
\* has moved it meanwhile, and printing ends in the colour of plain text
\* (console.cpp:80-101, 116-145).
THEOREM CursorStays == Spec => []CursorOnScreen
<1>1. ASSUME Inv PROVE CursorOnScreen
  <2>1. ASSUME Fetching, Len(stack) = 1
        PROVE  x < Cols /\ y < Rows
    <3>1. PICK c : c = stack[1] /\ Alone(c)
      BY <1>1, <2>1 DEF Inv
    <3>2. Top = c
      BY <2>1, <3>1 DEF Top, Last
    <3> QED BY <1>1, <2>1, <3>1, <3>2, ConsoleAssumption
               DEF Alone, Cursor, Fetching, Inv, Values
  <2>2. ASSUME Finished
        PROVE  colour = "gray"
    <3>1. PICK c, slack : Printer(c, slack) /\ Reading(c)
      BY <1>1, OnTop
    <3>2. Top = c /\ c.pc = "fetch" /\ c \in Contexts
      BY <2>2, <3>1 DEF Printer, Finished, Stopped, Fetching
    <3>3. c.next \in Nat /\ Len(c.text) \in Nat
      BY <3>2, LenProperties DEF Contexts
    <3>4. \A i \in c.next .. Len(c.text) : c.text[i] # "gray"
      <4>1. CASE Stopped
        <5>1. c.next \in 1 .. Len(c.text) /\ c.text[c.next] = "loop"
          BY <3>1, <3>2, <3>3, <4>1 DEF Stopped, Printing, Op, Reading
        <5>2. c.next = Len(c.text)
          BY <3>1, <5>1 DEF Reading, Text
        <5> QED BY <3>3, <5>1, <5>2
      <4>2. CASE ~Printing
        BY <3>2, <3>3, <4>2 DEF Printing
      <4> QED BY <2>2, <4>1, <4>2 DEF Finished
    <3>5. Coloured(c)
      <4>1. CASE Len(stack) = 1
        BY <1>1, <3>2, <4>1 DEF Inv, Alone, Top, Last
      <4>2. CASE Len(stack) = 2
        <5>1. Stopped
          BY <2>2, <4>2 DEF Finished
        <5>2. PICK b : Interrupted(b, c)
          BY <1>1, <3>2, <4>2 DEF Inv, Top, Last
        <5>3. c.text # KeyText
          <6>1. c.next \in 1 .. Len(c.text) /\ c.text[c.next] = "loop"
            BY <3>1, <3>2, <3>3, <5>1 DEF Stopped, Printing, Op, Reading
          <6> QED BY <6>1, KeyOnlyPrints DEF Without, Others
        <5> QED BY <5>2, <5>3 DEF Interrupted
      <4> QED BY <1>1, <4>1, <4>2 DEF Inv
    <3> QED BY <3>2, <3>4, <3>5 DEF Coloured, Pending
  <2> QED BY <2>1, <2>2 DEF CursorOnScreen
<1> QED BY <1>1, InvHolds, PTL

\* No character lands further than the row below the screen, whatever of the
\* cursor a handler has changed between its loads and the store
\* (console.cpp:116-145).
THEOREM NothingFarOff == Spec => []~beyond
<1>1. Init => ~beyond
  BY DEF Init
<1>2. ASSUME Inv, ~beyond, Next \/ UNCHANGED vars
      PROVE  ~beyond'
  <2>1. CASE Write
    <3>1. PICK c, slack : Printer(c, slack)
      BY <1>2, OnTop
    <3>2. Near(Top.tmp)
      BY <2>1, <3>1 DEF Write, At, Printer, Registers
    <3> QED BY <1>2, <2>1, <3>2 DEF Write
  <2>2. CASE ~Write
    <3>1. CASE Proceed
      BY <1>2, <2>2, <3>1 DEF Proceed, ZeroX, ZeroY, LoadY, StoreY, LoadX, StoreX,
         Address, Test, Begin, SetColour, WriteItoa, Control, Return, marks
    <3>2. CASE Fail \/ Key \/ Halt \/ UNCHANGED vars
      BY <1>2, <3>2 DEF Fail, Key, Halt, vars, marks
    <3> QED BY <1>2, <3>1, <3>2 DEF Next
  <2> QED BY <2>1, <2>2
<1> QED BY <1>1, <1>2, InvHolds, PTL DEF Spec

\* itoa gives back every number that it is tried on, whichever they are: also
\* the smallest int, whose digits are those of negative remainders, and the
\* lone 0 (lib/string.cpp:26-48).
THEOREM SamplesReadBack == ItoaReadsBack
<1>1. Samples \subseteq Int
  BY ConsoleAssumption
<1> QED BY <1>1, ItoaGivesBack DEF ItoaReadsBack

--------------------------------------------------------------------------------
(* What a key costs *)

\* The cells of the window follow each other, row by row.
LEMMA CellOrder ==
  ASSUME NEW a \in Nat, NEW b \in Nat, NEW row \in Nat, NEW below \in Nat
  PROVE  /\ Cell(a, row) \in Nat
         /\ Cell(0, row + 1) = Cell(Cols, row)
         /\ Cell(a + 1, row) = Cell(a, row) + 1
         /\ a <= b => Cell(a, row) <= Cell(b, row)
         /\ row <= below => Cell(a, row) <= Cell(a, below)
<1>1. Cols \in Nat
  BY ConsoleAssumption
<1>2. Cols * row \in Nat /\ Cols * below \in Nat /\ Cols * (row + 1) = Cols * row + Cols
  BY <1>1
<1>3. ASSUME row <= below PROVE Cols * row <= Cols * below
  <2>1. PICK k \in Nat : below = row + k
    <3>1. below - row \in Nat /\ below = row + (below - row)
      BY <1>3
    <3> QED BY <3>1
  <2>2. Cols * below = Cols * row + Cols * k /\ Cols * k \in Nat
    BY <1>1, <2>1
  <2> QED BY <1>2, <2>2
<1> QED BY <1>1, <1>2, <1>3 DEF Cell

\* The cells that are written, and those of them from a floor on.
Cells == fresh \subseteq Nat /\ IsFiniteSet(fresh) /\ lost \in Nat
Ahead(floor) == {f \in fresh : f >= floor}

\* What keys have cost, and what they may still cost when kernelMain prints on
\* from the floor.
Account(floor) == Cardinality(Ahead(floor)) + lost

LEMMA AheadIsFinite ==
  ASSUME Cells, NEW floor \in Nat
  PROVE  /\ IsFiniteSet(Ahead(floor)) /\ Cardinality(Ahead(floor)) \in Nat
         /\ Account(floor) \in Nat /\ lost <= Account(floor)
<1>1. IsFiniteSet(Ahead(floor))
  BY FS_Subset DEF Cells, Ahead
<1>2. Cardinality(Ahead(floor)) \in Nat
  BY <1>1, FS_CardinalityType
<1> QED BY <1>1, <1>2 DEF Account, Cells

\* A character costs one at most, and nothing where all the written cells from
\* the floor on are its own and what follows it.
LEMMA WriteCosts ==
  ASSUME Cells, NEW floor \in Nat, NEW cell \in Nat,
         fresh' = fresh \cup {cell},
         lost' = IF cell \in fresh THEN lost + 1 ELSE lost
  PROVE  /\ Cells'
         /\ Account(floor)' <= Account(floor) + 1
         /\ floor <= cell => Account(cell + 1)' <= Account(floor)
<1>1. Cells'
  <2>1. IsFiniteSet(fresh \cup {cell})
    BY FS_AddElement DEF Cells
  <2> QED BY <2>1 DEF Cells
<1>2. /\ IsFiniteSet(Ahead(floor)) /\ Cardinality(Ahead(floor)) \in Nat /\ lost \in Nat
  BY AheadIsFinite DEF Cells
<1>3. Account(floor)' = Cardinality(Ahead(floor)') + lost'
  BY DEF Account
<1>4. Account(floor)' <= Account(floor) + 1
  <2>1. CASE cell \in fresh
    <3>1. Ahead(floor)' = Ahead(floor)
      BY <2>1 DEF Ahead
    <3> QED BY <1>2, <1>3, <2>1, <3>1 DEF Account
  <2>2. CASE cell \notin fresh
    <3>1. Ahead(floor)' = Ahead(floor) \/ Ahead(floor)' = Ahead(floor) \cup {cell}
      BY DEF Ahead
    <3>2. Cardinality(Ahead(floor) \cup {cell}) <= Cardinality(Ahead(floor)) + 1
      <4>1. cell \notin Ahead(floor)
        BY <2>2 DEF Ahead
      <4>2. Cardinality(Ahead(floor) \cup {cell}) = Cardinality(Ahead(floor)) + 1
        BY <1>2, <4>1, FS_AddElement
      <4> QED BY <1>2, <4>2
    <3>3. Cardinality(Ahead(floor) \cup {cell}) \in Nat
      BY <1>2, FS_AddElement, FS_CardinalityType
    <3>4. Cardinality(Ahead(floor)') <= Cardinality(Ahead(floor)) + 1
          /\ Cardinality(Ahead(floor)') \in Nat
      BY <1>2, <3>1, <3>2, <3>3
    <3> QED BY <1>2, <1>3, <2>2, <3>4 DEF Account
  <2> QED BY <2>1, <2>2
<1>5. ASSUME floor <= cell
      PROVE  Account(cell + 1)' <= Account(floor)
  <2> DEFINE rest1 == Ahead(cell + 1)'
  <2>1. rest1 \subseteq Ahead(floor) /\ cell \notin rest1
    <3>1. ASSUME NEW f \in rest1
          PROVE  f \in Ahead(floor) /\ f # cell
      <4>1. f \in fresh \cup {cell} /\ f >= cell + 1
        BY DEF Ahead
      <4>2. f \in Nat /\ f # cell /\ f >= floor
        BY <1>5, <4>1 DEF Cells
      <4> QED BY <4>1, <4>2 DEF Ahead
    <3> QED BY <3>1
  <2>2. Account(cell + 1)' = Cardinality(rest1) + lost'
    BY DEF Account
  <2> HIDE DEF rest1
  <2>3. IsFiniteSet(rest1) /\ Cardinality(rest1) \in Nat
        /\ Cardinality(rest1) <= Cardinality(Ahead(floor))
    BY <1>2, <2>1, FS_Subset, FS_CardinalityType
  <2>4. CASE cell \in fresh
    <3>1. cell \in Ahead(floor)
      BY <1>5, <2>4 DEF Ahead
    <3>2. /\ rest1 \cup {cell} \subseteq Ahead(floor)
          /\ Cardinality(rest1 \cup {cell}) = Cardinality(rest1) + 1
      BY <2>1, <2>3, <3>1, FS_AddElement
    <3>3. Cardinality(rest1 \cup {cell}) <= Cardinality(Ahead(floor))
      BY <1>2, <3>2, FS_Subset
    <3> QED BY <1>2, <2>2, <2>3, <2>4, <3>2, <3>3 DEF Account
  <2>5. CASE cell \notin fresh
    BY <1>2, <2>2, <2>3, <2>5 DEF Account
  <2> QED BY <2>4, <2>5
<1> QED BY <1>1, <1>4, <1>5

\* A blank costs what was written there, which is written no more.
LEMMA BlankCosts ==
  ASSUME Cells, NEW cell, fresh' = fresh \ {cell},
         lost' = IF cell \in fresh THEN lost + 1 ELSE lost
  PROVE  Cells' /\ Account(0)' <= Account(0)
<1>1. Cells'
  <2>1. IsFiniteSet(fresh \ {cell})
    BY FS_RemoveElement DEF Cells
  <2>2. fresh \ {cell} \subseteq Nat
    BY DEF Cells
  <2>3. lost' \in Nat
    BY DEF Cells
  <2> QED BY <2>1, <2>2, <2>3 DEF Cells
<1>2. Ahead(0) = fresh /\ Ahead(0)' = fresh'
  <2>1. ASSUME NEW S, S \subseteq Nat PROVE {f \in S : f >= 0} = S
    <3>1. \A f \in S : f >= 0
      BY <2>1
    <3> QED BY <3>1
  <2>2. fresh \subseteq Nat /\ fresh' \subseteq Nat
    BY <1>1 DEF Cells
  <2> QED BY <2>1, <2>2 DEF Ahead
<1>3. /\ IsFiniteSet(fresh) /\ Cardinality(fresh) \in Nat /\ lost \in Nat
      /\ cell \in fresh => Cardinality(fresh \ {cell}) = Cardinality(fresh) - 1
  BY FS_RemoveElement, FS_CardinalityType DEF Cells
<1>4. Account(0) = Cardinality(fresh) + lost
  BY <1>2 DEF Account
<1>5. Account(0)' = Cardinality(fresh') + lost'
  BY <1>2 DEF Account
<1>6. CASE cell \in fresh
  <2>1. lost' = lost + 1 /\ Cardinality(fresh') = Cardinality(fresh) - 1
    BY <1>3, <1>6
  <2> QED BY <1>1, <1>3, <1>4, <1>5, <2>1
<1>7. CASE cell \notin fresh
  <2>1. lost' = lost /\ Cardinality(fresh') = Cardinality(fresh)
    <3>1. fresh' = fresh
      BY <1>7
    <3> QED BY <1>7, <3>1
  <2> QED BY <1>1, <1>3, <1>4, <1>5, <2>1
<1> QED BY <1>1, <1>6, <1>7

LEMMA ClearCosts ==
  ASSUME Cells, fresh' = {}, lost' = lost, NEW floor \in Nat
  PROVE  Cells' /\ Account(0)' <= Account(floor)
<1>1. Cells'
  BY FS_EmptySet DEF Cells
<1>2. Ahead(0)' = {}
  BY DEF Ahead
<1>3. Account(0)' = lost
  BY <1>2, FS_EmptySet DEF Account, Cells
<1> QED BY <1>1, <1>3, AheadIsFinite

\* Where the text on top prints next when its step is over, and in which row; a
\* column beyond the window counts as the next row's first.
Passed == {"nl0", "nl1", "nl2", "wrap0", "wrap1", "wrap2"}
Clip(n) == IF n > Cols THEN Cols ELSE n
Position(d) ==
  IF d.pc \in Passed THEN Cell(0, y + 1)
  ELSE IF d.pc \in {"put3", "put4"} THEN Cell(Clip(x + 1), y)
  ELSE Cell(Clip(x), y)
Line(d) == IF d.pc \in Passed THEN y + 1 ELSE y

\* The places within ClearScreen, after the screen is counted as empty.
Clearing == {"row", "row0", "row1", "row2", "column", "home0", "home1",
             "blank0", "blank1", "blank2", "blank3", "blank4"}

\* A text that goes on at c, with the cursor at the position in the line, writes
\* nothing before the floor, but what it has already a row or a cell for.
Onward(c, floor, position, line) ==
  /\ c.pc \in {"fetch", "edge", "bottom", "done", "clear", "put0", "put1", "put2"} =>
       floor <= position
  /\ c.pc \in {"wrap0", "wrap1", "nl0", "nl1"} => floor <= Cell(0, line + 1)
  /\ c.pc \in {"wrap2", "nl2"} => floor <= Cell(0, c.y + 1)
  /\ c.pc = "put3" => floor <= position + 1
  /\ c.pc = "put4" => floor <= Cell(c.x + 1, line)
  /\ c.pc \in Clearing => floor = 0

\* A character that has a row or a cell, which may be out of date.
Pends(c) == c.pc \in {"put1", "put2"}
InOrder(c, floor) ==
  /\ c.pc = "put1" => floor <= Cell(x, c.y) /\ c.y <= y
  /\ c.pc = "put2" => floor <= c.tmp /\ c.tmp <= Cell(x, y)
Solid(c) == c.pc = "put2" => c.tmp \in Nat

\* A text that nobody is above stays within the limit, and if its character is
\* out of date there is one more to spend.
Funded(c, floor, limit) ==
  /\ floor \in Nat /\ Onward(c, floor, Cell(x, y), y) /\ Account(floor) <= limit
  /\ Account(floor) < limit \/ (Pends(c) => InOrder(c, floor))
Solvent(c, limit) == \E floor \in Nat : Funded(c, floor, limit)

\* A key's handler: it prints in each operation, and what it has loaded is up to
\* date.
Waiting == {"fetch", "put0", "put1", "put2"}
Written(d) == IF d.pc \in Waiting THEN d.next - 1 ELSE d.next
Unprinted(d) == d.next = 1 /\ d.pc \in Waiting
Handling(d) ==
  /\ d.next \in 1 .. 4
  /\ d.pc # "fetch" => d.next \in 1 .. 3
  /\ d.pc \in {"nl2", "wrap2", "put1", "put2"} => d.y = y
  /\ d.pc = "put2" => d.tmp = Cell(x, y)
  /\ d.pc = "put4" => d.x = x

\* The handler d is above a text at c.
Burdened(c, d, floor, limit) ==
  /\ floor \in Nat /\ Onward(c, floor, Position(d), Line(d))
  /\ Account(floor) <= limit
  /\ d.pc \in Clearing => floor = 0
  /\ Pends(c) => \/ Account(floor) < limit
                 \/ Unprinted(d) /\ InOrder(c, floor) /\ x < Cols
Bearing(c, d, limit) == \E floor \in Nat : Burdened(c, d, floor, limit)

Keyed(c, d) ==
  /\ keys > 0 /\ Solid(c) /\ Handling(d)
  /\ Bearing(c, d, 3 * (keys - 1) + Written(d))
Faulted(d) == Registers(d, 0) /\ Cursor(d, 0) /\ Solvent(d, 3 * keys)

Costs ==
  /\ Cells
  /\ \/ Len(stack) = 1 /\ \E c \in {stack[1]} : Solid(c) /\ Solvent(c, 3 * keys)
     \/ /\ Len(stack) = 2
        /\ \E c \in {stack[1]}, d \in {stack[2]} :
             /\ Solid(d)
             /\ IF d.text = KeyText THEN Keyed(c, d) ELSE Faulted(d)

LEMMA OnwardGrows ==
  ASSUME NEW c \in Contexts, NEW floor \in Nat,
         NEW p \in Nat, NEW q \in Nat, NEW line \in Nat, NEW below \in Nat,
         p <= q, line <= below, Onward(c, floor, p, line)
  PROVE  Onward(c, floor, q, below)
<1>1. c.x + 1 \in Nat
  BY DEF Contexts
<1>2. /\ Cell(0, line + 1) <= Cell(0, below + 1)
      /\ Cell(0, line + 1) \in Nat /\ Cell(0, below + 1) \in Nat
  <2>1. 0 \in Nat /\ line + 1 \in Nat /\ below + 1 \in Nat /\ line + 1 <= below + 1
    OBVIOUS
  <2> QED BY <2>1, CellOrder
<1>3. /\ Cell(c.x + 1, line) <= Cell(c.x + 1, below)
      /\ Cell(c.x + 1, line) \in Nat /\ Cell(c.x + 1, below) \in Nat
  BY <1>1, CellOrder
<1> QED BY <1>2, <1>3 DEF Onward

LEMMA OnwardFromTop ==
  ASSUME NEW c \in Contexts, NEW p \in Nat, NEW line \in Nat
  PROVE  Onward(c, 0, p, line)
<1>1. c.x + 1 \in Nat /\ c.y \in Nat
  BY DEF Contexts
<1>2. Cell(0, line + 1) \in Nat /\ Cell(0, c.y + 1) \in Nat /\ Cell(c.x + 1, line) \in Nat
  <2>1. 0 \in Nat /\ line + 1 \in Nat /\ c.y + 1 \in Nat
    BY <1>1
  <2> QED BY <1>1, <2>1, CellOrder
<1> QED BY <1>2 DEF Onward

LEMMA Positions ==
  ASSUME x \in Nat, y \in Nat, NEW d
  PROVE  Position(d) \in Nat /\ Line(d) \in Nat /\ Clip(x) \in Nat /\ Clip(x + 1) \in Nat
<1>1. Cols \in Nat
  BY ConsoleAssumption
<1>2. Clip(x) \in Nat /\ Clip(x + 1) \in Nat /\ 0 \in Nat /\ y + 1 \in Nat
  BY <1>1 DEF Clip
<1>3. Cell(0, y + 1) \in Nat /\ Cell(Clip(x), y) \in Nat /\ Cell(Clip(x + 1), y) \in Nat
  BY <1>2, CellOrder
<1> QED BY <1>2, <1>3 DEF Position, Line

LEMMA PositionsNext ==
  ASSUME x' \in Nat, y' \in Nat, NEW d
  PROVE  Position(d)' \in Nat /\ Line(d)' \in Nat
<1>1. Cols \in Nat
  BY ConsoleAssumption
<1>2. Clip(x') \in Nat /\ Clip(x' + 1) \in Nat /\ 0 \in Nat /\ y' + 1 \in Nat
  <2>1. ASSUME NEW n \in Nat PROVE Clip(n) \in Nat /\ n + 1 \in Nat /\ 0 \in Nat
    BY <1>1 DEF Clip
  <2> QED BY <2>1
<1>3. Cell(0, y' + 1) \in Nat /\ Cell(Clip(x'), y') \in Nat /\ Cell(Clip(x' + 1), y') \in Nat
  BY <1>2, CellOrder
<1> QED BY <1>2, <1>3 DEF Position, Line

\* The handler goes on from c to d and leaves the marks as they are.
LEMMA BearsOn ==
  ASSUME NEW b \in Contexts, NEW c, NEW d, NEW limit \in Int,
         x \in Nat, y \in Nat, x' \in Nat, y' \in Nat,
         fresh' = fresh, lost' = lost,
         Position(c) <= Position(d)', Line(c) <= Line(d)', d.pc \notin Clearing,
         Unprinted(c) => Unprinted(d) /\ x' = x /\ y' = y,
         Bearing(b, c, limit)
  PROVE  Bearing(b, d, limit)'
<1>1. PICK floor \in Nat : Burdened(b, c, floor, limit)
  BY DEF Bearing
<1>2. Onward(b, floor, Position(d)', Line(d)')
  BY <1>1, Positions, PositionsNext, OnwardGrows DEF Burdened
<1>3. Account(floor)' = Account(floor)
  BY DEF Account, Ahead
<1>4. x' = x /\ y' = y => InOrder(b, floor)' = InOrder(b, floor)
  BY DEF InOrder
<1>5. Burdened(b, d, floor, limit)'
  BY <1>1, <1>2, <1>3, <1>4 DEF Burdened
<1> QED BY <1>5 DEF Bearing

\* It clears the screen, or goes on clearing it.
LEMMA BearsClearing ==
  ASSUME NEW b \in Contexts, NEW c, NEW d, NEW limit \in Int, Cells, Cells',
         x' \in Nat, y' \in Nat, c.pc \in Clearing \cup {"clear"},
         \A floor \in Nat : (c.pc \in Clearing => floor = 0) =>
                              Account(0)' <= Account(floor),
         Bearing(b, c, limit)
  PROVE  Bearing(b, d, limit)'
<1>1. PICK floor \in Nat : Burdened(b, c, floor, limit)
  BY DEF Bearing
<1>2. Onward(b, 0, Position(d)', Line(d)')
  BY PositionsNext, OnwardFromTop
<1>3. Account(0)' <= Account(floor)
  BY <1>1 DEF Burdened
<1>4. Account(floor) \in Nat
  BY AheadIsFinite
<1>5. Account(0)' \in Int
  <2>1. Cardinality(Ahead(0)') \in Nat /\ lost' \in Nat
    <3>1. IsFiniteSet(Ahead(0)') /\ lost' \in Nat
      BY FS_Subset DEF Cells, Ahead
    <3> QED BY <3>1, FS_CardinalityType
  <2> QED BY <2>1 DEF Account
<1>6. ~Unprinted(c)
  BY DEF Unprinted, Waiting, Clearing
<1>7. Burdened(b, d, 0, limit)'
  BY <1>1, <1>2, <1>3, <1>4, <1>5, <1>6 DEF Burdened
<1> QED BY <1>7 DEF Bearing

\* The same of a text that nobody is above.
LEMMA SolventClearing ==
  ASSUME NEW c, NEW d \in Contexts, NEW limit \in Int, Cells, Cells',
         x' \in Nat, y' \in Nat, c.pc \in Clearing \cup {"clear"}, ~Pends(d),
         \A floor \in Nat : (c.pc \in Clearing => floor = 0) =>
                              Account(0)' <= Account(floor),
         Solvent(c, limit)
  PROVE  Solvent(d, limit)'
<1>1. PICK floor \in Nat : Funded(c, floor, limit)
  BY DEF Solvent
<1>2. Onward(d, 0, Cell(x', y'), y')
  <2>1. Cell(x', y') \in Nat
    BY CellOrder
  <2> QED BY <2>1, OnwardFromTop
<1>3. Account(0)' <= Account(floor)
  BY <1>1 DEF Funded, Onward
<1>4. Account(floor) \in Nat
  BY AheadIsFinite
<1>5. Account(0)' \in Int
  <2>1. Cardinality(Ahead(0)') \in Nat /\ lost' \in Nat
    <3>1. IsFiniteSet(Ahead(0)') /\ lost' \in Nat
      BY FS_Subset DEF Cells, Ahead
    <3> QED BY <3>1, FS_CardinalityType
  <2> QED BY <2>1 DEF Account
<1>6. Funded(d, 0, limit)'
  BY <1>1, <1>2, <1>3, <1>4, <1>5 DEF Funded
<1> QED BY <1>6 DEF Solvent

LEMMA ClipIs ==
  ASSUME NEW n \in Nat
  PROVE  /\ Clip(n) \in Nat /\ Clip(n) <= Cols /\ Clip(n) <= Clip(n + 1)
         /\ n <= Cols => Clip(n) = n
         /\ n >= Cols => Clip(n) = Cols
BY ConsoleAssumption DEF Clip

\* The cells that follow the cursor's.
LEMMA Forward ==
  ASSUME x \in Nat, y \in Nat
  PROVE  /\ Cell(x, y) \in Nat /\ Cell(0, y + 1) \in Nat
         /\ Cell(x + 1, y) = Cell(x, y) + 1
         /\ x <= Cols => Cell(x, y) <= Cell(0, y + 1) /\ Cell(Clip(x), y) = Cell(x, y)
         /\ Cell(Clip(x), y) <= Cell(Clip(x + 1), y)
         /\ x >= Cols => Cell(Clip(x), y) = Cell(0, y + 1)
         /\ \A row \in Nat : Cell(0, row) <= Cell(x, row) /\ Cell(0, row) <= Cell(Clip(x), row)
         /\ \A row \in Nat : row <= y => Cell(x, row) <= Cell(x, y) /\ Cell(x, row) \in Nat
         /\ Cell(Clip(x), y) \in Nat /\ Cell(Clip(x + 1), y) \in Nat
<1>1. /\ 0 \in Nat /\ x + 1 \in Nat /\ y + 1 \in Nat /\ Cols \in Nat
      /\ Clip(x) \in Nat /\ Clip(x + 1) \in Nat /\ Clip(x) <= Clip(x + 1)
  <2>1. x + 1 \in Nat
    OBVIOUS
  <2> QED BY <2>1, ClipIs, ConsoleAssumption
<1>2. /\ Cell(x, y) \in Nat /\ Cell(0, y + 1) \in Nat /\ Cell(0, y + 1) = Cell(Cols, y)
      /\ Cell(x + 1, y) = Cell(x, y) + 1
      /\ x <= Cols => Cell(x, y) <= Cell(Cols, y)
      /\ Cell(Clip(x), y) <= Cell(Clip(x + 1), y)
      /\ Cell(Clip(x), y) \in Nat /\ Cell(Clip(x + 1), y) \in Nat
  BY <1>1, CellOrder
<1>3. ASSUME NEW row \in Nat
      PROVE  /\ Cell(0, row) <= Cell(x, row) /\ Cell(0, row) <= Cell(Clip(x), row)
             /\ row <= y => Cell(x, row) <= Cell(x, y)
             /\ Cell(x, row) \in Nat
  <2>1. 0 <= x /\ 0 <= Clip(x)
    BY <1>1
  <2>2. Cell(0, row) <= Cell(x, row) /\ Cell(0, row) <= Cell(Clip(x), row)
    BY <1>1, <2>1, CellOrder
  <2>3. (row <= y => Cell(x, row) <= Cell(x, y)) /\ Cell(x, row) \in Nat
    BY CellOrder
  <2> QED BY <2>2, <2>3
<1>4. (x <= Cols => Clip(x) = x) /\ (x >= Cols => Clip(x) = Cols)
  BY ClipIs
<1> QED BY <1>2, <1>3, <1>4

LEMMA AccountNext ==
  ASSUME Cells', NEW floor \in Nat
  PROVE  Account(floor)' \in Nat
<1>1. IsFiniteSet(Ahead(floor)') /\ lost' \in Nat
  BY FS_Subset DEF Cells, Ahead
<1>2. Cardinality(Ahead(floor)') \in Nat
  BY <1>1, FS_CardinalityType
<1> QED BY <1>1, <1>2 DEF Account

\* What a step of the text on top owes, from c to d: the limit that a text has
\* nobody above, and what a handler has printed, it may spend.
Pays(c, d) ==
  /\ d \in Contexts /\ Becomes(d) /\ d.text = c.text
  /\ Cells' /\ Solid(d)
  /\ Cursor(c, 0) => \A limit \in Int : Solvent(c, limit) => Solvent(d, limit)'
  /\ c.text = KeyText /\ Handling(c) =>
       /\ Handling(d)'
       /\ \A b \in Contexts, limit \in Int :
            Bearing(b, c, limit) => Bearing(b, d, limit + (Written(d) - Written(c)))'

\* A step that leaves the marks as they are: nobody is above the text that takes
\* it, or it is a handler's.
OwnerGoes(c, d) ==
  \A floor \in Nat : Onward(c, floor, Cell(x, y), y) =>
    /\ Onward(d, floor, Cell(x', y'), y')
    /\ (Pends(c) => InOrder(c, floor)) => (Pends(d) => InOrder(d, floor)')
GuestGoes(c, d) ==
  /\ Handling(d)' /\ Written(d) = Written(c)
  /\ Unprinted(c) => Unprinted(d) /\ x' = x /\ y' = y
  /\ \/ c.pc \in Clearing
     \/ d.pc \notin Clearing /\ Position(c) <= Position(d)' /\ Line(c) <= Line(d)'

LEMMA StepPays ==
  ASSUME NEW c \in Contexts, NEW d \in Contexts, Becomes(d), d.text = c.text,
         x \in Nat, y \in Nat, x' \in Nat, y' \in Nat,
         Cells, Solid(d), UNCHANGED <<fresh, lost>>,
         Cursor(c, 0) => OwnerGoes(c, d),
         c.text = KeyText /\ Handling(c) => GuestGoes(c, d)
  PROVE  Pays(c, d)
<1>1. Cells'
  BY DEF Cells
<1>2. \A floor \in Nat : Account(floor)' = Account(floor) /\ Account(floor) \in Nat
  BY AheadIsFinite DEF Account, Ahead
<1>3. ASSUME Cursor(c, 0), NEW limit \in Int, Solvent(c, limit)
      PROVE  Solvent(d, limit)'
  <2>1. PICK floor \in Nat : Funded(c, floor, limit)
    BY <1>3 DEF Solvent
  <2>2. /\ Onward(d, floor, Cell(x', y'), y')
        /\ (Pends(c) => InOrder(c, floor)) => (Pends(d) => InOrder(d, floor)')
    BY <1>3, <2>1 DEF OwnerGoes, Funded
  <2>3. Funded(d, floor, limit)'
    BY <1>2, <2>1, <2>2 DEF Funded
  <2> QED BY <2>3 DEF Solvent
<1>4. ASSUME c.text = KeyText, Handling(c),
             NEW b \in Contexts, NEW limit \in Int, Bearing(b, c, limit)
      PROVE  Bearing(b, d, limit + (Written(d) - Written(c)))'
  <2>1. GuestGoes(c, d)
    BY <1>4
  <2>2. limit + (Written(d) - Written(c)) = limit
    <3>1. Written(c) \in Int
      BY <1>4 DEF Handling, Written
    <3> QED BY <2>1, <3>1 DEF GuestGoes
  <2>3. CASE c.pc \in Clearing
    <3>1. \A floor \in Nat : (c.pc \in Clearing => floor = 0) =>
                               Account(0)' <= Account(floor)
      BY <1>2, <2>3
    <3>2. Bearing(b, d, limit)'
      BY <1>1, <1>4, <2>3, <3>1, BearsClearing
    <3> QED BY <2>2, <3>2
  <2>4. CASE c.pc \notin Clearing
    <3>1. Bearing(b, d, limit)'
      BY <1>4, <2>1, <2>4, BearsOn DEF GuestGoes
    <3> QED BY <2>2, <3>1
  <2> QED BY <2>3, <2>4
<1>5. c.text = KeyText /\ Handling(c) => Handling(d)'
  BY DEF GuestGoes
<1> QED BY <1>1, <1>3, <1>4, <1>5 DEF Pays

\* A step leaves one context on top.
LEMMA OneTop ==
  ASSUME stack \in Seq(Contexts), Len(stack) = 1 \/ Len(stack) = 2,
         NEW c \in Contexts, NEW d \in Contexts, Becomes(c), Becomes(d)
  PROVE  c = d
<1>1. Append(Front(stack), c)[Len(stack)] = c
  BY Stacks
<1>2. Append(Front(stack), d)[Len(stack)] = d
  BY Stacks
<1> QED BY <1>1, <1>2 DEF Becomes

LEMMA ZeroXPays ==
  ASSUME NEW c, NEW slack, Printer(c, slack), Cells, ZeroX
  PROVE  \E d : Pays(c, d)
<1>1. /\ c.pc \in {"nl0", "wrap0", "row0", "home0"}
      /\ Becomes([c EXCEPT !.pc = Following[c.pc]])
      /\ x' = 0 /\ y' = y /\ UNCHANGED <<fresh, lost>>
      /\ c \in Contexts /\ c.y \in Nat /\ x \in Nat /\ y \in Nat
  BY DEF ZeroX, At, Advance, Goto, Printer, cursor, marks, Contexts
<1>2. Following[c.pc] \in Spots
  BY <1>1, FollowingIs DEF Spots, Walking, Choosing
<1>3. PICK d : Becomes(d) /\ Holds(d, c.text, c.next, Following[c.pc], c.x, c.y, c.tmp)
  BY <1>1, <1>2, Turned
<1>4. /\ d \in Contexts /\ d.text = c.text /\ d.next = c.next
      /\ \/ c.pc = "nl0" /\ d.pc = "nl1"
         \/ c.pc = "wrap0" /\ d.pc = "wrap1"
         \/ c.pc = "row0" /\ d.pc = "column"
         \/ c.pc = "home0" /\ d.pc = "home1"
  <2>1. d.pc = Following[c.pc]
    BY <1>3 DEF Holds
  <2> QED BY <1>1, <1>3, <2>1, FollowingIs DEF Holds
<1>5. Solid(d)
  BY <1>4 DEF Solid
<1>6. OwnerGoes(c, d)
  BY <1>1, <1>4 DEF OwnerGoes, Onward, Pends, Clearing
<1>7. ASSUME Handling(c)
      PROVE  GuestGoes(c, d)
  <2>1. Handling(d)'
    BY <1>4, <1>7 DEF Handling
  <2>2. Written(d) = Written(c) /\ ~Unprinted(c)
    BY <1>4 DEF Written, Unprinted, Waiting
  <2>3. \/ c.pc \in Clearing
        \/ /\ d.pc \notin Clearing /\ Position(c) \in Nat /\ Line(c) \in Nat
           /\ Position(c) = Position(d)' /\ Line(c) = Line(d)'
    BY <1>1, <1>4, Positions DEF Clearing, Position, Line, Passed
  <2> QED BY <2>1, <2>2, <2>3 DEF GuestGoes
<1> QED BY <1>1, <1>3, <1>4, <1>5, <1>6, <1>7, StepPays

LEMMA LoadYPays ==
  ASSUME NEW c, NEW slack, Printer(c, slack), Cells, LoadY
  PROVE  \E d : Pays(c, d)
<1>1. /\ c.pc \in {"nl1", "wrap1", "row1", "put0", "blank0"}
      /\ Becomes([c EXCEPT !.y = y, !.pc = Following[c.pc]])
      /\ y' = y /\ x' = x /\ UNCHANGED <<fresh, lost>>
      /\ c \in Contexts /\ x \in Nat /\ y \in Nat
  BY DEF LoadY, At, Advance, Goto, Printer, cursor, marks, Contexts
<1>2. Following[c.pc] \in Spots
  BY <1>1, FollowingIs DEF Spots, Walking, Choosing
<1>3. PICK d : Becomes(d) /\ Holds(d, c.text, c.next, Following[c.pc], c.x, y, c.tmp)
  BY <1>1, <1>2, Turned
<1>4. /\ d \in Contexts /\ d.text = c.text /\ d.next = c.next /\ d.y = y
      /\ \/ c.pc = "nl1" /\ d.pc = "nl2"
         \/ c.pc = "wrap1" /\ d.pc = "wrap2"
         \/ c.pc = "row1" /\ d.pc = "row2"
         \/ c.pc = "put0" /\ d.pc = "put1"
         \/ c.pc = "blank0" /\ d.pc = "blank1"
  <2>1. d.pc = Following[c.pc]
    BY <1>3 DEF Holds
  <2> QED BY <1>1, <1>3, <2>1, FollowingIs DEF Holds
<1>5. Solid(d)
  BY <1>4 DEF Solid
<1>6. OwnerGoes(c, d)
  BY <1>1, <1>4 DEF OwnerGoes, Onward, Pends, Clearing, InOrder
<1>7. ASSUME Handling(c)
      PROVE  GuestGoes(c, d)
  <2>1. Handling(d)'
    BY <1>1, <1>4, <1>7 DEF Handling
  <2>2. Written(d) = Written(c) /\ (Unprinted(c) => Unprinted(d))
    BY <1>4 DEF Written, Unprinted, Waiting
  <2>3. \/ c.pc \in Clearing
        \/ /\ d.pc \notin Clearing /\ Position(c) \in Nat /\ Line(c) \in Nat
           /\ Position(c) = Position(d)' /\ Line(c) = Line(d)'
    BY <1>1, <1>4, Positions DEF Clearing, Position, Line, Passed
  <2> QED BY <1>1, <2>1, <2>2, <2>3 DEF GuestGoes
<1> QED BY <1>1, <1>3, <1>4, <1>5, <1>6, <1>7, StepPays

LEMMA StoreYPays ==
  ASSUME NEW c, NEW slack, Printer(c, slack), Cells, StoreY
  PROVE  \E d : Pays(c, d)
<1>1. /\ c.pc \in {"nl2", "wrap2", "row2"}
      /\ Becomes([c EXCEPT !.pc = Following[c.pc]])
      /\ y' = c.y + 1 /\ x' = x /\ UNCHANGED <<fresh, lost>>
      /\ c \in Contexts /\ c.y + 1 \in Nat /\ x \in Nat /\ y \in Nat
  BY DEF StoreY, At, Advance, Goto, Printer, cursor, marks, Contexts
<1>2. Following[c.pc] \in Spots
  BY <1>1, FollowingIs DEF Spots, Walking, Choosing
<1>3. PICK d : Becomes(d) /\ Holds(d, c.text, c.next, Following[c.pc], c.x, c.y, c.tmp)
  BY <1>1, <1>2, Turned
<1>4. /\ d \in Contexts /\ d.text = c.text /\ d.next = c.next
      /\ \/ c.pc = "nl2" /\ d.pc = "edge"
         \/ c.pc = "wrap2" /\ d.pc = "bottom"
         \/ c.pc = "row2" /\ d.pc = "row"
  <2>1. d.pc = Following[c.pc]
    BY <1>3 DEF Holds
  <2> QED BY <1>1, <1>3, <2>1, FollowingIs DEF Holds
<1>5. Solid(d)
  BY <1>4 DEF Solid
<1>6. OwnerGoes(c, d)
  <2>1. SUFFICES ASSUME NEW floor \in Nat, Onward(c, floor, Cell(x, y), y)
                 PROVE  Onward(d, floor, Cell(x', y'), y') /\ ~Pends(d)
    BY DEF OwnerGoes
  <2>2. CASE c.pc \in {"nl2", "wrap2"}
    <3>1. floor <= Cell(0, c.y + 1)
      BY <2>1, <2>2 DEF Onward
    <3>2. Cell(0, c.y + 1) <= Cell(x', y') /\ Cell(0, c.y + 1) \in Nat /\ Cell(x', y') \in Nat
      <4>1. 0 \in Nat /\ 0 <= x
        BY <1>1
      <4> QED BY <1>1, <4>1, CellOrder
    <3>3. floor <= Cell(x', y')
      BY <3>1, <3>2
    <3> QED BY <1>4, <2>2, <3>3 DEF Onward, Pends, Clearing
  <2>3. CASE c.pc = "row2"
    BY <1>4, <2>1, <2>3 DEF Onward, Pends, Clearing
  <2> QED BY <1>1, <2>2, <2>3
<1>7. ASSUME Handling(c)
      PROVE  GuestGoes(c, d)
  <2>1. Handling(d)'
    BY <1>1, <1>4, <1>7 DEF Handling
  <2>2. Written(d) = Written(c) /\ ~Unprinted(c)
    BY <1>4 DEF Written, Unprinted, Waiting
  <2>3. ASSUME c.pc \notin Clearing
        PROVE  /\ d.pc \notin Clearing /\ Position(c) <= Position(d)'
               /\ Line(c) <= Line(d)'
    <3>1. /\ c.pc \in Passed /\ d.pc \notin Passed \cup Clearing \cup {"put3", "put4"}
          /\ y' = y + 1
      BY <1>1, <1>4, <1>7, <2>3 DEF Clearing, Passed, Handling
    <3>2. Position(c) = Cell(0, y + 1) /\ Line(c) = y + 1
          /\ Position(d)' = Cell(Clip(x), y + 1) /\ Line(d)' = y + 1
      BY <1>1, <3>1 DEF Position, Line
    <3>3. y + 1 \in Nat /\ Cell(0, y + 1) <= Cell(Clip(x), y + 1)
      <4>1. y + 1 \in Nat
        BY <1>1
      <4> QED BY <1>1, <4>1, Forward
    <3> QED BY <3>1, <3>2, <3>3
  <2> QED BY <2>1, <2>2, <2>3 DEF GuestGoes
<1> QED BY <1>1, <1>3, <1>4, <1>5, <1>6, <1>7, StepPays

LEMMA LoadXPays ==
  ASSUME NEW c, NEW slack, Printer(c, slack), Cells, LoadX
  PROVE  \E d : Pays(c, d)
<1>1. /\ c.pc \in {"put3", "blank3"}
      /\ Becomes([c EXCEPT !.x = x, !.pc = Following[c.pc]])
      /\ y' = y /\ x' = x /\ UNCHANGED <<fresh, lost>>
      /\ c \in Contexts /\ x \in Nat /\ y \in Nat
  BY DEF LoadX, At, Advance, Goto, Printer, cursor, marks, Contexts
<1>2. Following[c.pc] \in Spots
  BY <1>1, FollowingIs DEF Spots, Walking, Choosing
<1>3. PICK d : Becomes(d) /\ Holds(d, c.text, c.next, Following[c.pc], x, c.y, c.tmp)
  BY <1>1, <1>2, Turned
<1>4. /\ d \in Contexts /\ d.text = c.text /\ d.next = c.next /\ d.x = x
      /\ \/ c.pc = "put3" /\ d.pc = "put4"
         \/ c.pc = "blank3" /\ d.pc = "blank4"
  <2>1. d.pc = Following[c.pc]
    BY <1>3 DEF Holds
  <2> QED BY <1>1, <1>3, <2>1, FollowingIs DEF Holds
<1>5. Solid(d)
  BY <1>4 DEF Solid
<1>6. OwnerGoes(c, d)
  <2>1. Cell(x + 1, y) = Cell(x, y) + 1
    BY <1>1, Forward
  <2> QED BY <1>1, <1>4, <2>1 DEF OwnerGoes, Onward, Pends, Clearing
<1>7. ASSUME Handling(c)
      PROVE  GuestGoes(c, d)
  <2>1. Handling(d)'
    BY <1>1, <1>4, <1>7 DEF Handling
  <2>2. Written(d) = Written(c) /\ ~Unprinted(c)
    BY <1>4 DEF Written, Unprinted, Waiting
  <2>3. \/ c.pc \in Clearing
        \/ /\ d.pc \notin Clearing /\ Position(c) \in Nat /\ Line(c) \in Nat
           /\ Position(c) = Position(d)' /\ Line(c) = Line(d)'
    BY <1>1, <1>4, Positions DEF Clearing, Position, Line, Passed
  <2> QED BY <1>1, <2>1, <2>2, <2>3 DEF GuestGoes
<1> QED BY <1>1, <1>3, <1>4, <1>5, <1>6, <1>7, StepPays

LEMMA StoreXPays ==
  ASSUME NEW c, NEW slack, Printer(c, slack), Cells, StoreX
  PROVE  \E d : Pays(c, d)
<1>1. /\ c.pc \in {"put4", "blank4"}
      /\ Becomes([c EXCEPT !.pc = Following[c.pc]])
      /\ x' = c.x + 1 /\ y' = y /\ UNCHANGED <<fresh, lost>>
      /\ c \in Contexts /\ c.x + 1 \in Nat /\ x \in Nat /\ y \in Nat
  BY DEF StoreX, At, Advance, Goto, Printer, cursor, marks, Contexts
<1>2. Following[c.pc] \in Spots
  BY <1>1, FollowingIs DEF Spots, Walking, Choosing
<1>3. PICK d : Becomes(d) /\ Holds(d, c.text, c.next, Following[c.pc], c.x, c.y, c.tmp)
  BY <1>1, <1>2, Turned
<1>4. /\ d \in Contexts /\ d.text = c.text /\ d.next = c.next
      /\ \/ c.pc = "put4" /\ d.pc = "edge"
         \/ c.pc = "blank4" /\ d.pc = "column"
  <2>1. d.pc = Following[c.pc]
    BY <1>3 DEF Holds
  <2> QED BY <1>1, <1>3, <2>1, FollowingIs DEF Holds
<1>5. Solid(d)
  BY <1>4 DEF Solid
<1>6. OwnerGoes(c, d)
  BY <1>1, <1>4 DEF OwnerGoes, Onward, Pends, Clearing
<1>7. ASSUME Handling(c)
      PROVE  GuestGoes(c, d)
  <2>1. Handling(d)'
    BY <1>1, <1>4, <1>7 DEF Handling
  <2>2. Written(d) = Written(c) /\ ~Unprinted(c)
    BY <1>4 DEF Written, Unprinted, Waiting
  <2>3. c.pc = "put4" => x' = x + 1
    BY <1>1, <1>7 DEF Handling
  <2>4. \/ c.pc \in Clearing
        \/ /\ d.pc \notin Clearing /\ Position(c) \in Nat /\ Line(c) \in Nat
           /\ Position(c) = Position(d)' /\ Line(c) = Line(d)'
    BY <1>1, <1>4, <2>3, Positions DEF Clearing, Position, Line, Passed
  <2> QED BY <1>1, <2>1, <2>2, <2>4 DEF GuestGoes
<1> QED BY <1>1, <1>3, <1>4, <1>5, <1>6, <1>7, StepPays

LEMMA AddressPays ==
  ASSUME NEW c, NEW slack, Printer(c, slack), Cells, Address
  PROVE  \E d : Pays(c, d)
<1> DEFINE cell == Cell(x, c.y)
<1>1. /\ c.pc \in {"put1", "blank1"}
      /\ Becomes([c EXCEPT !.tmp = cell, !.pc = Following[c.pc]])
      /\ y' = y /\ x' = x /\ UNCHANGED <<fresh, lost>>
      /\ c \in Contexts /\ c.y \in Nat /\ x \in Nat /\ y \in Nat
  BY DEF Address, At, Printer, cursor, marks, Contexts
<1>2. Following[c.pc] \in Spots /\ cell \in Int /\ cell \in Nat
  <2>1. cell \in Nat
    BY <1>1, CellOrder
  <2>2. Following[c.pc] \in Spots
    BY <1>1, FollowingIs DEF Spots, Walking, Choosing
  <2> HIDE DEF cell
  <2> QED BY <2>1, <2>2
<1> HIDE DEF cell
<1>3. PICK d : Becomes(d) /\ Holds(d, c.text, c.next, Following[c.pc], c.x, c.y, cell)
  BY <1>1, <1>2, Turned
<1>4. /\ d \in Contexts /\ d.text = c.text /\ d.next = c.next /\ d.y = c.y
      /\ d.tmp = cell
      /\ \/ c.pc = "put1" /\ d.pc = "put2"
         \/ c.pc = "blank1" /\ d.pc = "blank2"
  <2>1. d.pc = Following[c.pc]
    BY <1>3 DEF Holds
  <2> QED BY <1>1, <1>3, <2>1, FollowingIs DEF Holds
<1>5. Solid(d)
  BY <1>2, <1>4 DEF Solid
<1>6. OwnerGoes(c, d)
  <2>1. c.y <= y => cell <= Cell(x, y)
    BY <1>1, Forward DEF cell
  <2>2. ASSUME NEW floor \in Nat, Onward(c, floor, Cell(x, y), y)
        PROVE  Onward(d, floor, Cell(x', y'), y')
    BY <1>1, <1>4, <2>2 DEF Onward, Clearing
  <2>3. ASSUME NEW floor \in Nat, Pends(c) => InOrder(c, floor)
        PROVE  Pends(d) => InOrder(d, floor)'
    BY <1>1, <1>4, <2>1, <2>3 DEF Pends, InOrder, cell
  <2> QED BY <2>2, <2>3 DEF OwnerGoes
<1>7. ASSUME Handling(c)
      PROVE  GuestGoes(c, d)
  <2>1. Handling(d)'
    BY <1>1, <1>4, <1>7 DEF Handling, cell
  <2>2. Written(d) = Written(c) /\ (Unprinted(c) => Unprinted(d))
    BY <1>4 DEF Written, Unprinted, Waiting
  <2>3. \/ c.pc \in Clearing
        \/ /\ d.pc \notin Clearing /\ Position(c) \in Nat /\ Line(c) \in Nat
           /\ Position(c) = Position(d)' /\ Line(c) = Line(d)'
    BY <1>1, <1>4, Positions DEF Clearing, Position, Line, Passed
  <2> QED BY <1>1, <2>1, <2>2, <2>3 DEF GuestGoes
<1> QED BY <1>1, <1>3, <1>4, <1>5, <1>6, <1>7, StepPays

\* A step of ClearScreen's, after which the floor is at the top.
LEMMA ClearingPays ==
  ASSUME NEW c \in Contexts, NEW d \in Contexts, Becomes(d), d.text = c.text,
         x' \in Nat, y' \in Nat, Cells, Cells', Solid(d),
         c.pc \in Clearing \cup {"clear"}, ~Pends(d),
         \A floor \in Nat : (c.pc \in Clearing => floor = 0) =>
                              Account(0)' <= Account(floor),
         Handling(c) => Handling(d)' /\ Written(d) = Written(c)
  PROVE  Pays(c, d)
<1>1. ASSUME NEW limit \in Int, Solvent(c, limit)
      PROVE  Solvent(d, limit)'
  BY <1>1, SolventClearing
<1>2. ASSUME Handling(c), NEW b \in Contexts, NEW limit \in Int, Bearing(b, c, limit)
      PROVE  Bearing(b, d, limit + (Written(d) - Written(c)))'
  <2>1. limit + (Written(d) - Written(c)) = limit
    <3>1. Written(c) \in Int
      BY <1>2 DEF Handling, Written
    <3> QED BY <1>2, <3>1
  <2>2. Bearing(b, d, limit)'
    BY <1>2, BearsClearing
  <2> QED BY <2>1, <2>2
<1> QED BY <1>1, <1>2 DEF Pays

LEMMA ZeroYPays ==
  ASSUME NEW c, NEW slack, Printer(c, slack), Cells, ZeroY
  PROVE  \E d : Pays(c, d)
<1>1. /\ c.pc \in {"clear", "home1"}
      /\ Becomes([c EXCEPT !.pc = Following[c.pc]])
      /\ y' = 0 /\ x' = x /\ lost' = lost
      /\ fresh' = IF c.pc = "clear" THEN {} ELSE fresh
      /\ c \in Contexts /\ x \in Nat /\ y \in Nat
  BY DEF ZeroY, At, Advance, Goto, Printer, Contexts
<1>2. Following[c.pc] \in Spots
  BY <1>1, FollowingIs DEF Spots, Walking, Choosing
<1>3. PICK d : Becomes(d) /\ Holds(d, c.text, c.next, Following[c.pc], c.x, c.y, c.tmp)
  BY <1>1, <1>2, Turned
<1>4. /\ d \in Contexts /\ d.text = c.text /\ d.next = c.next
      /\ \/ c.pc = "clear" /\ d.pc = "row"
         \/ c.pc = "home1" /\ d.pc = "done"
  <2>1. d.pc = Following[c.pc]
    BY <1>3 DEF Holds
  <2> QED BY <1>1, <1>3, <2>1, FollowingIs DEF Holds
<1>5. Solid(d) /\ ~Pends(d) /\ c.pc \in Clearing \cup {"clear"}
  BY <1>4 DEF Solid, Pends, Clearing
<1>6. ASSUME Handling(c)
      PROVE  Handling(d)' /\ Written(d) = Written(c)
  <2>1. Handling(d)'
    BY <1>4, <1>6 DEF Handling
  <2> QED BY <1>4, <2>1 DEF Written, Waiting
<1>7. /\ Cells'
      /\ \A floor \in Nat : (c.pc \in Clearing => floor = 0) =>
                              Account(0)' <= Account(floor)
  <2>1. CASE c.pc = "clear"
    <3>1. fresh' = {} /\ lost' = lost
      BY <1>1, <2>1
    <3> QED BY <3>1, ClearCosts
  <2>2. CASE c.pc = "home1"
    <3>1. fresh' = fresh /\ lost' = lost /\ c.pc \in Clearing
      BY <1>1, <2>2 DEF Clearing
    <3>2. Cells'
      BY <3>1 DEF Cells
    <3>3. Account(0)' = Account(0) /\ Account(0) \in Nat
      BY <3>1, AheadIsFinite DEF Account, Ahead
    <3> QED BY <3>1, <3>2, <3>3
  <2> QED BY <1>1, <2>1, <2>2
<1>8. x' \in Nat /\ y' \in Nat
  BY <1>1
<1> QED BY <1>1, <1>3, <1>4, <1>5, <1>6, <1>7, <1>8, ClearingPays

\* A text that nobody is above writes to a cell which it has for its own, or
\* spends the one that it has left.
LEMMA OwnerWrites ==
  ASSUME NEW c, NEW d, c.pc = "put2", d.pc = "put3", Solid(c), Cells,
         x \in Nat, y \in Nat, x' = x, y' = y,
         fresh' = fresh \cup {c.tmp},
         lost' = IF c.tmp \in fresh THEN lost + 1 ELSE lost,
         NEW limit \in Int, Solvent(c, limit)
  PROVE  Solvent(d, limit)'
<1>1. PICK floor \in Nat : Funded(c, floor, limit)
  BY DEF Solvent
<1>2. c.tmp \in Nat /\ c.tmp + 1 \in Nat
  BY DEF Solid
<1>3. /\ Cells' /\ Account(floor)' <= Account(floor) + 1
      /\ floor <= c.tmp => Account(c.tmp + 1)' <= Account(floor)
  BY <1>2, WriteCosts
<1>4. /\ Account(floor) \in Nat /\ Account(floor)' \in Nat
      /\ Account(c.tmp + 1)' \in Nat /\ Cell(x, y) \in Nat
  BY <1>2, <1>3, AheadIsFinite, AccountNext, CellOrder
<1>5. floor <= Cell(x, y) /\ Account(floor) <= limit
  BY <1>1 DEF Funded, Onward
<1>6. CASE Account(floor) < limit
  <2>1. Account(floor)' <= limit
    BY <1>3, <1>4, <1>6
  <2>2. floor <= Cell(x', y') + 1
    BY <1>4, <1>5
  <2>3. Funded(d, floor, limit)'
    BY <2>1, <2>2 DEF Funded, Onward, Pends, Clearing
  <2> QED BY <2>3 DEF Solvent
<1>7. CASE InOrder(c, floor)
  <2>1. floor <= c.tmp /\ c.tmp <= Cell(x, y)
    BY <1>7 DEF InOrder
  <2>2. Account(c.tmp + 1)' <= limit
    BY <1>3, <1>4, <1>5, <2>1
  <2>3. c.tmp + 1 <= Cell(x', y') + 1
    BY <1>2, <1>4, <2>1
  <2>4. Funded(d, c.tmp + 1, limit)'
    BY <1>2, <2>2, <2>3 DEF Funded, Onward, Pends, Clearing
  <2> QED BY <1>2, <2>4 DEF Solvent
<1> QED BY <1>1, <1>6, <1>7 DEF Funded, Pends

\* A handler writes where the text below would have, or what follows that.
LEMMA GuestWrites ==
  ASSUME NEW b \in Contexts, NEW c, NEW d, c.pc = "put2", d.pc = "put3",
         Cells, x \in Nat, y \in Nat, x' = x, y' = y, Handling(c),
         fresh' = fresh \cup {c.tmp},
         lost' = IF c.tmp \in fresh THEN lost + 1 ELSE lost,
         NEW limit \in Int, Bearing(b, c, limit)
  PROVE  Bearing(b, d, limit + 1)'
<1>1. PICK floor \in Nat : Burdened(b, c, floor, limit)
  BY DEF Bearing
<1>2. PICK h \in Nat : h = Cell(x, y) /\ h = c.tmp
  <2>1. Cell(x, y) \in Nat
    BY CellOrder
  <2> QED BY <2>1 DEF Handling
<1>3. /\ Cells' /\ Account(floor)' <= Account(floor) + 1
      /\ floor <= h => Account(h + 1)' <= Account(floor)
  BY <1>2, WriteCosts
<1>4. Account(floor) \in Nat /\ Account(floor)' \in Nat /\ Account(h + 1)' \in Nat
  <2>1. h + 1 \in Nat
    OBVIOUS
  <2> QED BY <1>3, <2>1, AheadIsFinite, AccountNext
<1>5. /\ Position(c) = Cell(Clip(x), y) /\ Position(d)' = Cell(Clip(x + 1), y)
      /\ Line(c) = y /\ Line(d)' = y
  BY DEF Position, Line, Passed
<1>6. /\ Cell(Clip(x), y) \in Nat /\ Cell(Clip(x + 1), y) \in Nat
      /\ Cell(Clip(x), y) <= Cell(Clip(x + 1), y)
  BY Forward
<1>7. /\ Account(floor) <= limit /\ Onward(b, floor, Cell(Clip(x), y), y)
  BY <1>1, <1>5 DEF Burdened
<1>8. CASE Pends(b) => Account(floor) < limit
  <2>1. Onward(b, floor, Cell(Clip(x + 1), y), y)
    BY <1>6, <1>7, OnwardGrows
  <2>2. /\ Account(floor)' <= limit + 1
        /\ Pends(b) => Account(floor)' < limit + 1
    BY <1>3, <1>4, <1>7, <1>8
  <2>3. Burdened(b, d, floor, limit + 1)'
    BY <1>5, <2>1, <2>2 DEF Burdened, Clearing
  <2> QED BY <2>3 DEF Bearing
<1>9. CASE Pends(b) /\ x < Cols
  <2>1. Clip(x) = x /\ Clip(x + 1) = x + 1 /\ Cell(x + 1, y) = h + 1
    <3>1. Cell(x + 1, y) = h + 1
      BY <1>2, Forward
    <3>2. x \in Nat /\ x + 1 \in Nat /\ Cols \in Nat
      BY ConsoleAssumption
    <3> QED BY <1>9, <3>1, <3>2 DEF Clip
  <2>2. floor <= h
    BY <1>2, <1>7, <1>9, <2>1 DEF Onward, Pends
  <2>3. Account(h + 1)' <= limit /\ Account(h + 1)' < limit + 1
    BY <1>3, <1>4, <1>7, <2>2
  <2>4. Onward(b, h + 1, Cell(Clip(x + 1), y), y)
    BY <1>9, <2>1 DEF Onward, Pends, Clearing
  <2>5. Burdened(b, d, h + 1, limit + 1)'
    <3>1. h + 1 \in Nat
      OBVIOUS
    <3>2. Onward(b, h + 1, Position(d)', Line(d)')
      BY <1>5, <2>4
    <3>3. d.pc \notin Clearing
      BY DEF Clearing
    <3>4. Account(h + 1)' <= limit + 1
      BY <1>4, <2>3
    <3> QED BY <2>3, <3>1, <3>2, <3>3, <3>4 DEF Burdened
  <2>6. h + 1 \in Nat
    OBVIOUS
  <2> QED BY <2>5, <2>6 DEF Bearing
<1> QED BY <1>1, <1>8, <1>9 DEF Burdened

LEMMA WritePays ==
  ASSUME NEW c, NEW slack, Printer(c, slack), Cells, Solid(c), Write
  PROVE  \E d : Pays(c, d)
<1>1. /\ c.pc \in {"put2", "blank2"}
      /\ Becomes([c EXCEPT !.pc = Following[c.pc]])
      /\ x' = x /\ y' = y
      /\ fresh' = IF c.pc = "put2" THEN fresh \cup {c.tmp} ELSE fresh \ {c.tmp}
      /\ lost' = IF c.tmp \in fresh THEN lost + 1 ELSE lost
      /\ c \in Contexts /\ x \in Nat /\ y \in Nat
  BY DEF Write, At, Advance, Goto, Printer, cursor, Contexts
<1>2. Following[c.pc] \in Spots
  BY <1>1, FollowingIs DEF Spots, Walking, Choosing
<1>3. PICK d : Becomes(d) /\ Holds(d, c.text, c.next, Following[c.pc], c.x, c.y, c.tmp)
  BY <1>1, <1>2, Turned
<1>4. /\ d \in Contexts /\ d.text = c.text /\ d.next = c.next
      /\ \/ c.pc = "put2" /\ d.pc = "put3"
         \/ c.pc = "blank2" /\ d.pc = "blank3"
  <2>1. d.pc = Following[c.pc]
    BY <1>3 DEF Holds
  <2> QED BY <1>1, <1>3, <2>1, FollowingIs DEF Holds
<1>5. Solid(d) /\ ~Pends(d) /\ x' \in Nat /\ y' \in Nat
  BY <1>1, <1>4 DEF Solid, Pends
<1>6. Handling(c) => Handling(d)'
  BY <1>4 DEF Handling
<1>7. CASE c.pc = "put2"
  <2>1. /\ fresh' = fresh \cup {c.tmp} /\ d.pc = "put3"
        /\ lost' = IF c.tmp \in fresh THEN lost + 1 ELSE lost
    BY <1>1, <1>4, <1>7
  <2>2. Cells'
    BY <1>7, <2>1, WriteCosts DEF Solid
  <2>3. \A limit \in Int : Solvent(c, limit) => Solvent(d, limit)'
    BY <1>1, <1>7, <2>1, OwnerWrites
  <2>4. ASSUME Handling(c), NEW b \in Contexts, NEW limit \in Int, Bearing(b, c, limit)
        PROVE  Bearing(b, d, limit + (Written(d) - Written(c)))'
    <3>1. Written(d) - Written(c) = 1
      BY <1>4, <1>7, <2>4 DEF Handling, Written, Waiting
    <3>2. Bearing(b, d, limit + 1)'
      BY <1>1, <1>7, <2>1, <2>4, GuestWrites
    <3> QED BY <3>1, <3>2
  <2> QED BY <1>3, <1>4, <1>5, <1>6, <2>2, <2>3, <2>4 DEF Pays
<1>8. CASE c.pc = "blank2"
  <2>1. /\ fresh' = fresh \ {c.tmp} /\ c.pc \in Clearing
        /\ lost' = IF c.tmp \in fresh THEN lost + 1 ELSE lost
    BY <1>1, <1>8 DEF Clearing
  <2>2. Cells' /\ Account(0)' <= Account(0)
    BY <2>1, BlankCosts
  <2>3. \A floor \in Nat : (c.pc \in Clearing => floor = 0) =>
                             Account(0)' <= Account(floor)
    BY <2>1, <2>2
  <2>4. Written(d) = Written(c)
    BY <1>4, <1>8 DEF Written, Waiting
  <2> QED BY <1>1, <1>3, <1>4, <1>5, <1>6, <2>1, <2>2, <2>3, <2>4, ClearingPays
<1> QED BY <1>1, <1>7, <1>8

\* A test chooses between the wrap and the end, or between two steps of a loop.
LEMMA TestPays ==
  ASSUME NEW c, NEW slack, Printer(c, slack), Cells, Test
  PROVE  \E d : Pays(c, d)
<1>1. /\ c \in Contexts /\ c.next \in Nat /\ x \in Nat /\ y \in Nat
      /\ Cols \in Nat /\ Rows \in Nat
  BY ConsoleAssumption DEF Printer, Contexts
<1>2. x' = x /\ y' = y /\ UNCHANGED <<fresh, lost>>
  BY DEF Test, cursor, marks
<1>3. ASSUME NEW p \in Spots, Goto(p)
      PROVE  \E d : Becomes(d) /\ Holds(d, c.text, c.next, p, c.x, c.y, c.tmp)
  BY <1>1, <1>3, Turned DEF Goto, Printer
<1>4. ASSUME At({"done"}), Becomes([Top EXCEPT !.next = @ + 1, !.pc = "fetch"])
      PROVE  \E d : Becomes(d) /\ Holds(d, c.text, c.next + 1, "fetch", c.x, c.y, c.tmp)
  <2>1. Becomes([c EXCEPT !.next = c.next + 1, !.pc = "fetch"])
    BY <1>4 DEF Printer
  <2>2. "fetch" \in Spots /\ c.next + 1 \in Nat
    BY <1>1 DEF Spots
  <2> QED BY <1>1, <2>1, <2>2, Turned
<1>5. PICK d :
        /\ d \in Contexts /\ d.text = c.text /\ Becomes(d)
        /\ \/ d.next = c.next /\ c.pc = "edge" /\ d.pc = "wrap0" /\ x >= Cols
           \/ d.next = c.next /\ c.pc = "edge" /\ d.pc = "bottom"
           \/ d.next = c.next /\ c.pc = "bottom" /\ d.pc \in {"clear", "done"}
           \/ d.next = c.next /\ c.pc = "row" /\ d.pc \in {"home0", "row0"}
           \/ d.next = c.next /\ c.pc = "column" /\ d.pc \in {"row1", "blank0"}
           \/ d.next = c.next + 1 /\ c.pc = "done" /\ d.pc = "fetch"
  <2>1. CASE At({"edge"}) /\ Goto(IF AtEdge(x) THEN "wrap0" ELSE "bottom")
    <3>1. c.pc = "edge"
      BY <2>1 DEF At, Printer
    <3>2. PICK p \in {"wrap0", "bottom"} : Goto(p) /\ (p = "wrap0" => x >= Cols)
      BY <1>1, <2>1 DEF AtEdge
    <3> QED BY <1>3, <3>1, <3>2 DEF Spots, Walking, Choosing, Holds
  <2>2. CASE At({"bottom"}) /\ Goto(IF BelowWindow(y) THEN "clear" ELSE "done")
    <3>1. c.pc = "bottom"
      BY <2>2 DEF At, Printer
    <3>2. PICK p \in {"clear", "done"} : Goto(p)
      BY <2>2
    <3> QED BY <1>3, <3>1, <3>2 DEF Spots, Walking, Choosing, Holds
  <2>3. CASE At({"row"}) /\ Goto(IF BelowWindow(y) THEN "home0" ELSE "row0")
    <3>1. c.pc = "row"
      BY <2>3 DEF At, Printer
    <3>2. PICK p \in {"home0", "row0"} : Goto(p)
      BY <2>3
    <3> QED BY <1>3, <3>1, <3>2 DEF Spots, Walking, Choosing, Holds
  <2>4. CASE At({"column"}) /\ Goto(IF AtEdge(x) THEN "row1" ELSE "blank0")
    <3>1. c.pc = "column"
      BY <2>4 DEF At, Printer
    <3>2. PICK p \in {"row1", "blank0"} : Goto(p)
      BY <2>4
    <3> QED BY <1>3, <3>1, <3>2 DEF Spots, Walking, Choosing, Holds
  <2>5. CASE At({"done"}) /\ Becomes([Top EXCEPT !.next = @ + 1, !.pc = "fetch"])
    <3>1. c.pc = "done"
      BY <2>5 DEF At, Printer
    <3> QED BY <1>4, <2>5, <3>1 DEF Holds
  <2> QED BY <2>1, <2>2, <2>3, <2>4, <2>5 DEF Test
<1>6. Solid(d)
  BY <1>5 DEF Solid
<1>7. x >= Cols => Cell(Clip(x), y) = Cell(0, y + 1)
  BY <1>1, Forward
<1>8. /\ Cell(x, y) \in Nat /\ Cell(0, y + 1) \in Nat
      /\ x <= Cols => Cell(x, y) <= Cell(0, y + 1)
  BY <1>1, Forward
<1>9. ASSUME Cursor(c, 0)
      PROVE  OwnerGoes(c, d)
  <2>1. d.pc = "wrap0" => x <= Cols
    BY <1>1, <1>5, <1>9 DEF Cursor
  <2>2. SUFFICES ASSUME NEW floor \in Nat, Onward(c, floor, Cell(x, y), y)
                 PROVE  Onward(d, floor, Cell(x', y'), y') /\ ~Pends(d)
    BY DEF OwnerGoes
  <2>3. CASE d.pc = "wrap0"
    <3>1. floor <= Cell(x, y)
      BY <1>5, <2>2, <2>3 DEF Onward
    <3>2. floor <= Cell(0, y + 1)
      BY <1>8, <2>1, <2>3, <3>1
    <3> QED BY <1>2, <2>3, <3>2 DEF Onward, Pends, Clearing
  <2>4. CASE d.pc # "wrap0"
    BY <1>2, <1>5, <2>2, <2>4 DEF Onward, Pends, Clearing
  <2> QED BY <2>3, <2>4
<1>10. ASSUME Handling(c)
       PROVE  GuestGoes(c, d)
  <2>1. Handling(d)'
    BY <1>1, <1>2, <1>5, <1>10 DEF Handling
  <2>2. Written(d) = Written(c) /\ ~Unprinted(c)
    <3>1. c.next \in 1 .. 4
      BY <1>10 DEF Handling
    <3> QED BY <1>5, <3>1 DEF Written, Unprinted, Waiting
  <2>3. ASSUME c.pc \notin Clearing
        PROVE  /\ d.pc \notin Clearing /\ Position(c) <= Position(d)'
               /\ Line(c) <= Line(d)'
    <3>1. Position(c) \in Nat /\ Line(c) \in Nat /\ y + 1 \in Nat /\ y <= y + 1
      BY <1>1, Positions
    <3>2. d.pc \notin Clearing
      BY <1>5, <2>3 DEF Clearing
    <3>3. Position(c) = Position(d)'
      BY <1>2, <1>5, <1>7, <2>3 DEF Clearing, Position, Passed
    <3>4. Line(c) <= Line(d)'
      BY <1>1, <1>2, <1>5, <2>3, <3>1 DEF Clearing, Line, Passed
    <3> QED BY <3>1, <3>2, <3>3, <3>4
  <2> QED BY <2>1, <2>2, <2>3 DEF GuestGoes
<1> QED BY <1>1, <1>2, <1>5, <1>6, <1>9, <1>10, StepPays

\* An operation begins, and what it costs is still to come.
LEMMA BeginsPay ==
  ASSUME Inv, Cells, NEW c, NEW d, NEW p \in {"nl0", "put0", "done"}, Begun(c, d, p),
         p = "nl0" => Op = "newline",
         p = "put0" => Op = "char",
         p = "done" => Op # "char",
         UNCHANGED <<cursor, fresh, lost>>
  PROVE  Pays(c, d)
<1>1. /\ c \in Contexts /\ d \in Contexts /\ Becomes(d) /\ d.text = c.text
      /\ d.next = c.next /\ c.pc = "fetch" /\ d.pc = p
      /\ c.next \in 1 .. Len(c.text) /\ c.text[c.next] = Op
      /\ x \in Nat /\ y \in Nat /\ x' = x /\ y' = y
  BY DEF Begun, Inv, Values, cursor
<1>2. Solid(d)
  BY <1>1 DEF Solid
<1>3. ASSUME Cursor(c, 0)
      PROVE  OwnerGoes(c, d)
  <2>1. /\ Cell(x, y) \in Nat /\ Cell(0, y + 1) \in Nat
        /\ Cell(x, y) <= Cell(0, y + 1)
    <3>1. x <= Cols
      BY <1>1, <1>3, ConsoleAssumption DEF Cursor
    <3> QED BY <1>1, <3>1, Forward
  <2> QED BY <1>1, <2>1 DEF OwnerGoes, Onward, Pends, Clearing
<1>4. ASSUME c.text = KeyText, Handling(c)
      PROVE  GuestGoes(c, d)
  <2>1. c.next \in 1 .. 3 /\ KeyText[c.next] = Op
    BY <1>1, <1>4, KeyOps
  <2>2. p = "put0"
    BY <2>1, KeyOps
  <2>3. Handling(d)'
    BY <1>1, <2>1, <2>2 DEF Handling
  <2>4. Written(d) = Written(c) /\ (Unprinted(c) => Unprinted(d))
    BY <1>1, <2>2 DEF Written, Unprinted, Waiting
  <2>5. /\ d.pc \notin Clearing /\ Position(c) \in Nat /\ Line(c) \in Nat
        /\ Position(c) = Position(d)' /\ Line(c) = Line(d)'
    BY <1>1, <2>2, Positions DEF Clearing, Position, Line, Passed
  <2> QED BY <1>1, <2>3, <2>4, <2>5 DEF GuestGoes
<1> QED BY <1>1, <1>2, <1>3, <1>4, StepPays

\* The text on top goes on, and the others stay where they are.
LEMMA CostsLifted ==
  ASSUME Inv, Costs, NEW c, c = Top, NEW d, Pays(c, d), keys' = keys,
         Registers(c, 0) /\ Cursor(c, 0) => Registers(d, 0) /\ Cursor(d, 0)'
  PROVE  Costs'
<1>1. stack \in Seq(Contexts) /\ d \in Contexts /\ stack' = Append(Front(stack), d)
  BY DEF Inv, Pays, Becomes
<1>2. keys \in Nat /\ d.text = c.text /\ Cells' /\ Solid(d)
  BY DEF Inv, Values, Pays
<1>3. CASE Len(stack) = 1
  <2>1. c = stack[1] /\ Len(stack') = 1 /\ stack'[1] = d
    BY <1>1, <1>3, Stacks DEF Top
  <2>2. Solvent(c, 3 * keys) /\ Cursor(c, 0)
    BY <1>3, <2>1 DEF Costs, Inv, Alone
  <2>3. 3 * keys \in Int
    BY <1>2
  <2>4. Solvent(d, 3 * keys)'
    BY <2>2, <2>3 DEF Pays
  <2> QED BY <1>2, <2>1, <2>4 DEF Costs
<1>4. CASE Len(stack) = 2
  <2>1. PICK b : b = stack[1] /\ b \in Contexts
    <3>1. 1 \in 1 .. Len(stack)
      BY <1>4
    <3> QED BY <1>1, <3>1, ElementOfSeq
  <2>2. c = stack[2] /\ Len(stack') = 2 /\ stack'[1] = b /\ stack'[2] = d
    BY <1>1, <1>4, <2>1, Stacks DEF Top
  <2>3. CASE c.text = KeyText
    <3>1. Keyed(b, c)
      BY <1>4, <2>1, <2>2, <2>3 DEF Costs
    <3>2. Handling(c) /\ Handling(d)'
      BY <2>3, <3>1 DEF Keyed, Pays
    <3>3. Written(c) \in Int /\ Written(d) \in Int
      BY <3>2 DEF Handling, Written
    <3> DEFINE limit == 3 * (keys - 1) + Written(c)
    <3>4. limit \in Int /\ limit + (Written(d) - Written(c)) = 3 * (keys - 1) + Written(d)
      BY <1>2, <3>3
    <3>5. Bearing(b, c, limit)
      BY <3>1 DEF Keyed
    <3>6. PICK k \in Int : k = limit
      BY <3>4
    <3>7. Bearing(b, d, k + (Written(d) - Written(c)))'
      BY <2>1, <2>3, <3>2, <3>5, <3>6 DEF Pays
    <3>8. Bearing(b, d, 3 * (keys - 1) + Written(d))'
      BY <3>4, <3>6, <3>7
    <3>9. Keyed(b, d)'
      BY <3>1, <3>2, <3>8 DEF Keyed
    <3> QED BY <1>2, <2>2, <2>3, <3>9 DEF Costs
  <2>4. CASE c.text # KeyText
    <3>1. Faulted(c)
      BY <1>4, <2>1, <2>2, <2>4 DEF Costs
    <3>2. 3 * keys \in Int
      BY <1>2
    <3>3. Solvent(d, 3 * keys)'
      BY <3>1, <3>2 DEF Faulted, Pays
    <3>4. Faulted(d)'
      BY <3>1, <3>3 DEF Faulted
    <3> QED BY <1>2, <2>2, <2>4, <3>4 DEF Costs
  <2> QED BY <2>3, <2>4
<1> QED BY <1>3, <1>4 DEF Inv

LEMMA TopIsSolid ==
  ASSUME Inv, Costs
  PROVE  Cells /\ Solid(Top)
<1>1. stack \in Seq(Contexts) /\ (Len(stack) = 1 \/ Len(stack) = 2)
  BY DEF Inv
<1>2. Top = stack[Len(stack)]
  BY DEF Top, Last
<1> QED BY <1>1, <1>2 DEF Costs

LEMMA WalkCosts ==
  ASSUME Inv, Costs, Walk
  PROVE  Costs'
<1>1. PICK c, slack : Printer(c, slack)
  BY OnTop
<1>2. c = Top /\ c \in Contexts /\ Cells /\ Solid(c)
  BY <1>1, TopIsSolid DEF Printer
<1>3. PICK d : Pays(c, d)
  BY <1>1, <1>2, ZeroXPays, ZeroYPays, LoadYPays, StoreYPays, LoadXPays,
     StoreXPays, AddressPays, WritePays, TestPays DEF Walk
<1>4. keys' = keys
  BY DEF Walk, ZeroX, ZeroY, LoadY, StoreY, LoadX, StoreX, Address, Write, Test, rest
<1>5. ASSUME Registers(c, 0), Cursor(c, 0)
      PROVE  Registers(d, 0) /\ Cursor(d, 0)'
  <2>1. Printer(c, 0)
    BY <1>1, <1>5 DEF Printer
  <2>2. PICK e : Carried(c, e, 0) \/ Ended(c, e)
    BY <2>1, ZeroXCarries, ZeroYCarries, LoadYCarries, StoreYCarries, LoadXCarries,
       StoreXCarries, AddressCarries, WriteCarries, TestCarries DEF Walk
  <2>3. e \in Contexts /\ Becomes(e) /\ Registers(e, 0) /\ Cursor(e, 0)'
    BY <2>2 DEF Carried, Ended
  <2>4. d = e
    BY <1>3, <2>3, OneTop DEF Pays, Inv
  <2> QED BY <2>3, <2>4
<1> QED BY <1>2, <1>3, <1>4, <1>5, CostsLifted

LEMMA BeginCosts ==
  ASSUME Inv, Costs, Fetching, Printing, Op # "loop",
         NEW p \in {"nl0", "put0", "done"}, Goto(p),
         p = "nl0" => Op = "newline",
         p = "put0" => Op = "char",
         p = "done" => Op \notin {"char", "newline"},
         UNCHANGED <<cursor, marks, keys>>
  PROVE  Costs'
<1>1. UNCHANGED cursor /\ UNCHANGED <<cursor, fresh, lost>> /\ keys' = keys
  BY DEF marks
<1>2. PICK c, d : Begun(c, d, p)
  BY <1>1, Begins DEF Moves
<1>3. Cells /\ c = Top
  BY <1>2, TopIsSolid DEF Begun
<1>4. Pays(c, d)
  BY <1>1, <1>2, <1>3, BeginsPay
<1>5. ASSUME Registers(c, 0), Cursor(c, 0)
      PROVE  Registers(d, 0) /\ Cursor(d, 0)'
  <2>1. /\ c.pc = "fetch" /\ d.pc = p /\ x' = x /\ y' = y /\ x \in Nat /\ y \in Nat
        /\ Cols \in Nat /\ Rows \in Nat
    BY <1>1, <1>2, ConsoleAssumption DEF Begun, cursor, Inv, Values
  <2>2. x <= Cols - 1 /\ y <= Rows - 1
    BY <1>5, <2>1 DEF Cursor
  <2>3. Cursor(d, 0)'
    BY <2>1, <2>2 DEF Cursor
  <2>4. Registers(d, 0)
    BY <1>2, <2>1 DEF Begun, Registers
  <2> QED BY <2>3, <2>4
<1> QED BY <1>1, <1>3, <1>4, <1>5, CostsLifted

\* Another text may start where one has come to an operation.
LEMMA SolventStarts ==
  ASSUME NEW c, NEW d, c.pc = "fetch", d.pc = "fetch", NEW limit, Solvent(c, limit),
         UNCHANGED <<cursor, marks>>
  PROVE  Solvent(d, limit)'
<1>1. x' = x /\ y' = y /\ fresh' = fresh /\ lost' = lost
  BY DEF cursor, marks
<1>2. PICK floor \in Nat : Funded(c, floor, limit)
  BY DEF Solvent
<1>3. Account(floor)' = Account(floor)
  BY <1>1 DEF Account, Ahead
<1>4. Onward(d, floor, Cell(x', y'), y')
  BY <1>1, <1>2 DEF Funded, Onward, Clearing
<1>5. Funded(d, floor, limit)'
  BY <1>2, <1>3, <1>4 DEF Funded, Pends
<1> QED BY <1>5 DEF Solvent

\* A handler's context is put on the stack.
LEMMA Stacked ==
  ASSUME Inv, Len(stack) = 1, NEW text, Text(text), NEW c, c = stack[1],
         NEW d, d = Context(text), stack' = Append(stack, d)
  PROVE  /\ d.text = text /\ d.next = 1 /\ d.pc = "fetch" /\ d.x = 0 /\ d.y = 0
         /\ Len(stack') = 2 /\ stack'[1] = c /\ stack'[2] = d /\ c \in Contexts
<1>1. /\ d \in Contexts /\ d.text = text /\ d.next = 1 /\ d.pc = "fetch"
      /\ d.x = 0 /\ d.y = 0
  BY DEF Context, Contexts, Text, Spots
<1>2. stack \in Seq(Contexts)
  BY DEF Inv
<1>3. Len(stack') = 2 /\ stack'[1] = c /\ stack'[2] = d
  BY <1>1, <1>2, Stacks
<1>4. c \in Contexts
  BY <1>2, Stacks, <1>1
<1> QED BY <1>1, <1>3, <1>4

LEMMA KeyCosts ==
  ASSUME Inv, Costs, Key
  PROVE  Costs'
<1>1. Len(stack) = 1
  BY DEF Inv, Key, Interrupted
<1>2. PICK c : c = stack[1] /\ Alone(c) /\ Solid(c) /\ Solvent(c, 3 * keys)
  BY <1>1 DEF Inv, Costs
<1>3. PICK d : d = Context(KeyText)
  OBVIOUS
<1>4. /\ d.text = KeyText /\ d.next = 1 /\ d.pc = "fetch"
      /\ Len(stack') = 2 /\ stack'[1] = c /\ stack'[2] = d /\ c \in Contexts
  BY <1>1, <1>2, <1>3, KeyOnlyPrints, Stacked DEF Key
<1>5. /\ x' = x /\ y' = y /\ fresh' = fresh /\ lost' = lost /\ keys' = keys + 1
      /\ x \in Nat /\ y \in Nat /\ keys \in Nat /\ Cols \in Nat /\ Rows \in Nat
  BY ConsoleAssumption DEF Key, cursor, marks, Inv, Values
<1>6. x <= Cols /\ (Pends(c) => x < Cols)
  <2>1. Cursor(c, 0) /\ c.pc \in Spots
    BY <1>2, <1>4 DEF Alone, Contexts
  <2>2. x <= Cols
    BY <1>5, <2>1 DEF Cursor, Spots, Walking, Choosing
  <2>3. Pends(c) => x < Cols
    BY <1>5, <2>1 DEF Cursor, Pends
  <2> QED BY <2>2, <2>3
<1>7. Position(d)' = Cell(x, y) /\ Line(d)' = y
  <2>1. Clip(x) = x
    BY <1>5, <1>6, ClipIs
  <2> QED BY <1>4, <1>5, <2>1 DEF Position, Line, Passed
<1>8. Written(d) = 0 /\ Unprinted(d) /\ Handling(d)' /\ d.pc \notin Clearing /\ Solid(d)
  BY <1>4 DEF Written, Unprinted, Waiting, Handling, Clearing, Solid
<1>9. 3 * (keys' - 1) + Written(d) = 3 * keys
  BY <1>5, <1>8
<1>10. PICK floor \in Nat : Funded(c, floor, 3 * keys)
  BY <1>2 DEF Solvent
<1>11. Account(floor)' = Account(floor) /\ InOrder(c, floor)' = InOrder(c, floor)
  BY <1>5 DEF Account, Ahead, InOrder
<1>12. PICK k : k = 3 * keys
  OBVIOUS
<1>13. Burdened(c, d, floor, k)'
  BY <1>5, <1>6, <1>7, <1>8, <1>10, <1>11, <1>12 DEF Burdened, Funded
<1>14. Bearing(c, d, 3 * (keys - 1) + Written(d))'
  <2>1. Bearing(c, d, k)'
    BY <1>13 DEF Bearing
  <2> QED BY <1>9, <1>12, <2>1
<1>15. keys' > 0
  BY <1>5
<1>16. Keyed(c, d)'
  BY <1>2, <1>8, <1>14, <1>15 DEF Keyed
<1>17. Cells'
  BY <1>5 DEF Costs, Cells
<1> QED BY <1>4, <1>8, <1>16, <1>17 DEF Costs

LEMMA WriteItoaCosts ==
  ASSUME Inv, Costs, WriteItoa
  PROVE  Costs'
<1>1. /\ Fetching /\ Printing /\ Op = "itoa" /\ UNCHANGED <<cursor, marks, keys>>
  BY DEF WriteItoa
<1>2. CASE ~paged
  <2>1. Goto("done") /\ Op # "loop"
        /\ Op \notin {"char", "newline"}
    BY <1>1, <1>2 DEF WriteItoa
  <2> QED BY <1>1, <2>1, BeginCosts
<1>3. CASE paged
  <2>1. stack' = Append(stack, Context(PageFaultText))
    BY <1>3 DEF WriteItoa
  <2>2. Len(stack) = 1
    <3>1. stack' \in Seq(Contexts) /\ Len(stack') = Len(stack) + 1
      <4>1. Context(PageFaultText) \in Contexts
        BY PageFaultLoops DEF Context, Contexts, Text, Spots
      <4> QED BY <2>1, <4>1, Stacks DEF Inv
    <3>2. Len(stack') = 1 \/ Len(stack') = 2
      BY WriteItoaKeeps DEF Inv
    <3> QED BY <3>1, <3>2 DEF Inv
  <2>3. PICK c : c = stack[1] /\ Alone(c) /\ Solid(c) /\ Solvent(c, 3 * keys)
    BY <2>2 DEF Inv, Costs
  <2>4. PICK d : d = Context(PageFaultText)
    OBVIOUS
  <2>5. /\ d.text = PageFaultText /\ d.next = 1 /\ d.pc = "fetch" /\ d.x = 0 /\ d.y = 0
        /\ Len(stack') = 2 /\ stack'[1] = c /\ stack'[2] = d
    BY <2>1, <2>2, <2>3, <2>4, PageFaultLoops, Stacked
  <2>6. c.pc = "fetch"
    BY <1>1, <2>2, <2>3 DEF Fetching, Top, Last
  <2>7. PageFaultText # KeyText
    BY KeyOnlyPrints, PageFaultLoops DEF Without, Endless, Others, Text
  <2>8. Cols \in Nat /\ Rows \in Nat /\ x' = x /\ y' = y /\ keys' = keys
    BY <1>1, ConsoleAssumption DEF cursor
  <2>9. Registers(d, 0) /\ Cursor(d, 0)'
    BY <2>3, <2>5, <2>6, <2>8 DEF Registers, Cursor, Alone
  <2>10. PICK k : k = 3 * keys
    OBVIOUS
  <2>11. Solvent(d, k)'
    BY <1>1, <2>3, <2>5, <2>6, <2>10, SolventStarts
  <2>12. Solvent(d, 3 * keys)'
    BY <2>8, <2>10, <2>11
  <2>13. Faulted(d)'
    BY <2>9, <2>12 DEF Faulted
  <2>14. Cells' /\ Solid(d)
    BY <1>1, <2>5 DEF Costs, Cells, marks, Solid
  <2> QED BY <2>5, <2>7, <2>13, <2>14 DEF Costs
<1> QED BY <1>2, <1>3

LEMMA FailCosts ==
  ASSUME Inv, Costs, Fail
  PROVE  Costs'
<1>1. PICK text \in {Panic(Char), PanicAssert(number)} : stack' = <<Context(text)>>
  BY DEF Fail
<1>2. Text(text)
  <2>1. Itoa(number) \in Seq(Int)
    BY ItoaIsSeq, ConsoleAssumption DEF Inv, Values
  <2> QED BY <1>1, <2>1, PanicLoops, AssertLoops
<1>3. PICK d : d = Context(text)
  OBVIOUS
<1>4. d.pc = "fetch" /\ Len(stack') = 1 /\ stack'[1] = d
  BY <1>1, <1>2, <1>3, KernelStarts
<1>5. /\ Len(stack) = 1 /\ Fetching /\ UNCHANGED <<cursor, marks>> /\ keys' = keys
  BY DEF Fail, rest
<1>6. PICK c : c = stack[1] /\ Solvent(c, 3 * keys)
  BY <1>5 DEF Costs
<1>7. c.pc = "fetch"
  BY <1>5, <1>6 DEF Fetching, Top, Last
<1>8. PICK k : k = 3 * keys
  OBVIOUS
<1>9. Solvent(d, k)'
  BY <1>4, <1>5, <1>6, <1>7, <1>8, SolventStarts
<1>10. Solvent(d, 3 * keys)'
  BY <1>5, <1>8, <1>9
<1>11. Cells' /\ Solid(d)
  BY <1>4, <1>5 DEF Costs, Cells, marks, Solid
<1> QED BY <1>4, <1>10, <1>11 DEF Costs

\* When the handler ends it has printed three characters, and the text below
\* goes on from where it has left the cursor.
LEMMA ReturnCosts ==
  ASSUME Inv, Costs, Return
  PROVE  Costs'
<1>1. PICK c, d : /\ c = stack[1] /\ d = stack[2] /\ Interrupted(c, d)
                  /\ Len(stack) = 2
  BY DEF Inv, Return
<1>2. c \in Contexts /\ d \in Contexts /\ Top = d
  BY <1>1, ElementOfSeq DEF Inv, Top, Last
<1>3. stack' \in Seq(Contexts) /\ Len(stack') = 1 /\ stack'[1] = c
  <2>1. stack \in Seq(Contexts) /\ stack' = Front(stack)
    BY DEF Inv, Return
  <2> QED BY <1>1, <1>2, <2>1, Stacks
<1>4. d.pc = "fetch" /\ d.next \in Nat /\ Len(d.text) \in Nat /\ d.next > Len(d.text)
  BY <1>2, LenProperties DEF Return, Fetching, Printing, Contexts
<1>5. d.text = KeyText
  BY <1>1, <1>4, PageFaultLoops DEF Interrupted, Handler, Reading
<1>6. Keyed(c, d) /\ Solid(c) /\ Cells
  BY <1>1, <1>5 DEF Costs, Keyed
<1>7. d.next = 4
  BY <1>4, <1>5, <1>6, KeyOps DEF Keyed, Handling
<1>8. Written(d) = 3 /\ ~Unprinted(d)
  BY <1>4, <1>7 DEF Written, Waiting, Unprinted
<1>9. /\ x' = x /\ y' = y /\ fresh' = fresh /\ lost' = lost /\ keys' = keys
      /\ x \in Nat /\ y \in Nat /\ keys \in Nat /\ Cols \in Nat
  BY ConsoleAssumption DEF Return, cursor, marks, Inv, Values
<1>10. Position(d) = Cell(x, y) /\ Line(d) = y
  <2>1. Slack(d) = 0
    BY <1>7 DEF Slack
  <2>2. x <= Cols
    BY <1>1, <1>4, <1>9, <2>1 DEF Interrupted, Handler, Cursor
  <2>3. Clip(x) = x
    BY <1>9, <2>2, ClipIs
  <2> QED BY <1>4, <2>3 DEF Position, Line, Passed
<1>11. PICK k : k = 3 * keys
  OBVIOUS
<1>12. Bearing(c, d, k)
  <2>1. 3 * (keys - 1) + Written(d) = k
    BY <1>8, <1>9, <1>11
  <2> QED BY <1>6, <2>1 DEF Keyed
<1>13. PICK floor \in Nat : Burdened(c, d, floor, k)
  BY <1>12 DEF Bearing
<1>14. Account(floor)' = Account(floor)
  BY <1>9 DEF Account, Ahead
<1>15. Funded(c, floor, k)'
  BY <1>8, <1>9, <1>10, <1>13, <1>14 DEF Burdened, Funded
<1>16. Solvent(c, 3 * keys)'
  <2>1. Solvent(c, k)'
    BY <1>15 DEF Solvent
  <2> QED BY <1>9, <1>11, <2>1
<1>17. Cells'
  BY <1>6, <1>9 DEF Cells
<1> QED BY <1>3, <1>6, <1>16, <1>17 DEF Costs

LEMMA CostsNext == Inv /\ Costs /\ (Next \/ UNCHANGED vars) => Costs'
<1> SUFFICES ASSUME Inv, Costs, Next \/ UNCHANGED vars PROVE Costs'
  OBVIOUS
<1>1. CASE Walk
  BY <1>1, WalkCosts
<1>2. CASE Begin
  <2>1. Fetching /\ Printing /\ Op # "loop" /\ UNCHANGED <<cursor, marks, keys>>
    BY <1>2 DEF Begin, rest
  <2>2. CASE Op = "newline" /\ Goto("nl0")
    BY <2>1, <2>2, BeginCosts
  <2>3. CASE Op = "char" /\ Goto("put0")
    BY <2>1, <2>3, BeginCosts
  <2> QED BY <1>2, <2>2, <2>3 DEF Begin
<1>3. CASE SetColour \/ Control
  <2>1. /\ Fetching /\ Printing /\ Op # "loop" /\ UNCHANGED <<cursor, marks, keys>>
        /\ Goto("done") /\ Op \notin {"char", "newline"}
    BY <1>3 DEF SetColour, Control, rest
  <2> QED BY <2>1, BeginCosts
<1>4. CASE UNCHANGED vars
  <2>1. UNCHANGED <<x, y, stack, keys, fresh, lost>>
    BY <1>4 DEF vars, cursor, rest, marks
  <2>2. ASSUME NEW c, NEW limit, Solvent(c, limit)
        PROVE  Solvent(c, limit)'
    <3>1. PICK floor \in Nat : Funded(c, floor, limit)
      BY <2>2 DEF Solvent
    <3>2. Funded(c, floor, limit)'
      BY <2>1, <3>1 DEF Funded, InOrder, Account, Ahead
    <3> QED BY <3>2 DEF Solvent
  <2>3. ASSUME NEW c, NEW d, Keyed(c, d)
        PROVE  Keyed(c, d)'
    <3>1. PICK floor \in Nat : Burdened(c, d, floor, 3 * (keys - 1) + Written(d))
      BY <2>3 DEF Keyed, Bearing
    <3>2. PICK k : k = 3 * (keys - 1) + Written(d)
      OBVIOUS
    <3>3. Burdened(c, d, floor, k)'
      BY <2>1, <3>1, <3>2 DEF Burdened, InOrder, Account, Ahead, Position, Line
    <3>4. Bearing(c, d, k)'
      BY <3>3 DEF Bearing
    <3>5. Bearing(c, d, 3 * (keys - 1) + Written(d))'
      BY <2>1, <3>2, <3>4
    <3>6. Handling(d)'
      BY <2>1, <2>3 DEF Keyed, Handling
    <3> QED BY <2>1, <2>3, <3>5, <3>6 DEF Keyed
  <2>4. ASSUME NEW d, Faulted(d)
        PROVE  Faulted(d)'
    <3>1. PICK k : k = 3 * keys
      OBVIOUS
    <3>2. Solvent(d, k)'
      BY <2>2, <2>4, <3>1 DEF Faulted
    <3>3. Cursor(d, 0)'
      BY <2>1, <2>4 DEF Faulted, Cursor
    <3> QED BY <2>1, <2>4, <3>1, <3>2, <3>3 DEF Faulted
  <2>5. Cells'
    BY <2>1 DEF Costs, Cells
  <2>6. ASSUME NEW c, Solvent(c, 3 * keys)
        PROVE  Solvent(c, 3 * keys)'
    <3>1. PICK k : k = 3 * keys
      OBVIOUS
    <3> QED BY <2>1, <2>2, <2>6, <3>1
  <2> QED BY <2>1, <2>3, <2>4, <2>5, <2>6 DEF Costs
<1>5. CASE WriteItoa \/ Key \/ Return \/ Fail
  BY <1>5, WriteItoaCosts, KeyCosts, ReturnCosts, FailCosts
<1> QED BY <1>1, <1>2, <1>3, <1>4, <1>5 DEF Next, Proceed, Walk, Halt

LEMMA CostsInit == Init => Costs
<1> SUFFICES ASSUME Init PROVE Costs
  OBVIOUS
<1>1. x = 0 /\ y = 0 /\ fresh = {} /\ lost = 0 /\ keys = 0
  BY DEF Init
<1>2. PICK c : c = Context(KernelText(number))
  OBVIOUS
<1>3. Text(KernelText(number))
  BY ItoaIsSeq, KernelTextIsText, ConsoleAssumption DEF Init
<1>4. Len(stack) = 1 /\ stack[1] = c /\ c.pc = "fetch" /\ c \in Contexts
  BY <1>2, <1>3, KernelStarts DEF Init
<1>5. Cells
  BY <1>1, FS_EmptySet DEF Cells
<1>6. Account(0) = 0
  <2>1. Ahead(0) = {}
    BY <1>1 DEF Ahead
  <2> QED BY <1>1, <2>1, FS_EmptySet DEF Account
<1>7. Onward(c, 0, Cell(x, y), y)
  <2>1. 0 \in Nat /\ x \in Nat /\ y \in Nat
    BY <1>1
  <2>2. Cell(x, y) \in Nat
    BY <2>1, CellOrder
  <2> QED BY <1>4, <2>1, <2>2, OnwardFromTop
<1>8. Solvent(c, 3 * keys)
  <2>1. Funded(c, 0, 3 * keys)
    BY <1>1, <1>4, <1>6, <1>7 DEF Funded, Pends
  <2> QED BY <2>1 DEF Solvent
<1> QED BY <1>4, <1>5, <1>8 DEF Costs, Solid

LEMMA CostsBound ==
  ASSUME Inv, Costs
  PROVE  lost <= keys * 3
<1>1. Cells /\ keys \in Nat /\ lost \in Nat
  BY DEF Costs, Cells, Inv, Values
<1>2. ASSUME NEW floor \in Nat, NEW limit \in Int, Account(floor) <= limit,
             limit <= 3 * keys
      PROVE  lost <= keys * 3
  <2>1. lost <= Account(floor) /\ Account(floor) \in Nat
    BY <1>1, AheadIsFinite
  <2> QED BY <1>1, <1>2, <2>1
<1>3. ASSUME NEW c, Solvent(c, 3 * keys)
      PROVE  lost <= keys * 3
  <2>1. PICK floor \in Nat : Account(floor) <= 3 * keys
    BY <1>3 DEF Solvent, Funded
  <2>2. 3 * keys \in Int /\ 3 * keys <= 3 * keys
    BY <1>1
  <2> QED BY <1>2, <2>1, <2>2
<1>4. ASSUME NEW c, NEW d, Keyed(c, d)
      PROVE  lost <= keys * 3
  <2>1. Written(d) \in Int /\ Written(d) <= 3
    BY <1>4 DEF Keyed, Handling, Written, Waiting
  <2>2. PICK floor \in Nat : Account(floor) <= 3 * (keys - 1) + Written(d)
    BY <1>4 DEF Keyed, Bearing, Burdened
  <2>3. 3 * (keys - 1) + Written(d) \in Int /\ 3 * (keys - 1) + Written(d) <= 3 * keys
    BY <1>1, <2>1
  <2> QED BY <1>2, <2>2, <2>3
<1> QED BY <1>3, <1>4 DEF Costs, Faulted

\* The account bounds what keys cost: a key's text of three characters costs no
\* more than three, wherever it comes between the loads and stores of another
\* text's newline, wrap or character or within ClearScreen, and no character
\* lands further than a row off the screen (console.cpp:22-33, 116-145).
THEOREM LossStays == Spec => []LossIsBounded
<1>1. Init => Inv /\ Costs
  BY InvInit, CostsInit
<1>2. Inv /\ Costs /\ (Next \/ UNCHANGED vars) => Inv' /\ Costs'
  BY InvNext, CostsNext
<1>3. Inv /\ Costs => lost <= keys * 3
  BY CostsBound
<1>4. ~beyond /\ lost <= keys * 3 => LossIsBounded
  BY DEF LossIsBounded
<1> QED BY <1>1, <1>2, <1>3, <1>4, NothingFarOff, PTL DEF Spec
================================================================================
