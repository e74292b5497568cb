------------------------------ MODULE BufferProofs -------------------------------
(***************************************************************************)
(* Lemmas the proofs about the pack and unpack contexts share: how the     *)
(* numbering of bytes survives storing, flushing and moving them, and what *)
(* the doubling loop returns.                                              *)
(***************************************************************************)
EXTENDS Buffers, SequenceTheorems, WellFoundedInduction, TLAPS

\* The bytes of s are those that follow the first base bytes.
Numbered(s, base) == \A k \in 1 .. Len(s) : s[k] = base + k

-------------------------------------------------------------------------------
\* A sequence numbered from the beginning is Upto of its length.
LEMMA NumberedIsUpto ==
    ASSUME NEW s \in Seq(Nat), Numbered(s, 0)
    PROVE  s = Upto(Len(s))
<1>1. Len(s) \in Nat
  BY LenProperties
<1>2. s \in [1 .. Len(s) -> Nat]
  BY LenProperties
<1>3. \A k \in 1 .. Len(s) : s[k] = k
  BY <1>1 DEF Numbered
<1> QED
  BY <1>1, <1>2, <1>3 DEF Upto

\* Upto is a sequence of its length, numbered from the beginning.
LEMMA UptoNumbered ==
    ASSUME NEW n \in Nat
    PROVE  /\ Upto(n) \in Seq(Nat)
           /\ Len(Upto(n)) = n
           /\ Numbered(Upto(n), 0)
<1>1. Upto(n) \in [1 .. n -> Nat]
  BY DEF Upto
<1>2. Upto(n) \in Seq(Nat)
  BY <1>1, SeqDef
<1>3. Len(Upto(n)) = n
  BY <1>1, <1>2, LenProperties
<1> QED
  BY <1>2, <1>3 DEF Upto, Numbered

\* Storing the next n bytes behind a numbered content (Put).
LEMMA StoreNumbered ==
    ASSUME NEW s \in Seq(Nat), NEW base \in Nat, NEW n \in Nat,
           Numbered(s, base)
    PROVE  LET t == s \o [k \in 1 .. n |-> base + Len(s) + k]
           IN  /\ t \in Seq(Nat)
               /\ Len(t) = Len(s) + n
               /\ Numbered(t, base)
<1> DEFINE new == [k \in 1 .. n |-> base + Len(s) + k]
<1>1. Len(s) \in Nat
  BY LenProperties
<1>2. new \in [1 .. n -> Nat]
  BY <1>1
<1>3. new \in Seq(Nat)
  BY <1>2, SeqDef
<1>4. Len(new) = n
  BY <1>2, <1>3, LenProperties
<1>5. \A k \in 1 .. n : new[k] = base + Len(s) + k
  OBVIOUS
<1> HIDE DEF new
<1> DEFINE t == s \o new
<1>6. /\ t \in Seq(Nat)
      /\ Len(t) = Len(s) + n
      /\ \A i \in 1 .. Len(s) + n : t[i] =
            IF i <= Len(s) THEN s[i] ELSE new[i - Len(s)]
  BY <1>3, <1>4, ConcatProperties
<1> HIDE DEF t
<1>7. Numbered(t, base)
  <2> SUFFICES ASSUME NEW i \in 1 .. Len(s) + n
               PROVE  t[i] = base + i
    BY <1>6 DEF Numbered
  <2>1. CASE i <= Len(s)
    <3>1. i \in 1 .. Len(s)
      BY <2>1, <1>1
    <3>2. t[i] = s[i]
      BY <2>1, <1>6
    <3> QED
      BY <3>1, <3>2 DEF Numbered
  <2>2. CASE i > Len(s)
    <3>1. i - Len(s) \in 1 .. n
      BY <2>2, <1>1
    <3>2. t[i] = new[i - Len(s)]
      BY <2>2, <1>1, <1>6
    <3>3. new[i - Len(s)] = base + Len(s) + (i - Len(s))
      BY <3>1, <1>5
    <3> QED
      BY <3>2, <3>3, <1>1
  <2> QED
    BY <2>1, <2>2, <1>1
<1> QED
  BY <1>6, <1>7 DEF new, t

\* Writing the first w bytes of a content that continues the file.
LEMMA WriteNumbered ==
    ASSUME NEW f \in Seq(Nat), NEW c \in Seq(Nat), NEW w \in 0 .. Len(c),
           Numbered(f, 0), Numbered(c, Len(f))
    PROVE  /\ f \o SubSeq(c, 1, w) \in Seq(Nat)
           /\ Len(f \o SubSeq(c, 1, w)) = Len(f) + w
           /\ Numbered(f \o SubSeq(c, 1, w), 0)
<1> DEFINE head == SubSeq(c, 1, w)
<1>1. Len(f) \in Nat /\ Len(c) \in Nat
  BY LenProperties
<1>2. \A i \in 1 .. w : c[i] \in Nat
  BY <1>1, ElementOfSeq
<1>3. /\ head \in Seq(Nat)
      /\ Len(head) = w
      /\ \A i \in 1 .. w : head[i] = c[i]
  BY <1>1, <1>2, SubSeqProperties
<1> HIDE DEF head
<1> DEFINE t == f \o head
<1>4. /\ t \in Seq(Nat)
      /\ Len(t) = Len(f) + w
      /\ \A i \in 1 .. Len(f) + w : t[i] =
            IF i <= Len(f) THEN f[i] ELSE head[i - Len(f)]
  BY <1>3, ConcatProperties
<1> HIDE DEF t
<1>5. Numbered(t, 0)
  <2> SUFFICES ASSUME NEW i \in 1 .. Len(f) + w
               PROVE  t[i] = 0 + i
    BY <1>4 DEF Numbered
  <2>1. CASE i <= Len(f)
    <3>1. i \in 1 .. Len(f)
      BY <2>1, <1>1
    <3>2. t[i] = f[i]
      BY <2>1, <1>4
    <3> QED
      BY <3>1, <3>2 DEF Numbered
  <2>2. CASE i > Len(f)
    <3>1. i - Len(f) \in 1 .. w /\ i - Len(f) \in 1 .. Len(c)
      BY <2>2, <1>1
    <3>2. t[i] = head[i - Len(f)]
      BY <2>2, <1>1, <1>4
    <3>3. head[i - Len(f)] = Len(f) + (i - Len(f))
      BY <3>1, <1>3 DEF Numbered
    <3> QED
      BY <3>2, <3>3, <1>1
  <2> QED
    BY <2>1, <2>2, <1>1
<1> QED
  BY <1>4, <1>5 DEF head, t

\* What is left of a numbered content behind its first n bytes.
LEMMA RestNumbered ==
    ASSUME NEW c \in Seq(Nat), NEW n \in 0 .. Len(c), NEW base \in Nat,
           Numbered(c, base)
    PROVE  LET rest == SubSeq(c, n + 1, Len(c))
           IN  /\ rest \in Seq(Nat)
               /\ Len(rest) = Len(c) - n
               /\ Numbered(rest, base + n)
<1> DEFINE rest == SubSeq(c, n + 1, Len(c))
<1>1. Len(c) \in Nat
  BY LenProperties
<1>2. \A i \in n + 1 .. Len(c) : c[i] \in Nat
  BY <1>1, ElementOfSeq
<1>3. /\ rest \in Seq(Nat)
      /\ Len(rest) = Len(c) - n
      /\ \A i \in 1 .. Len(c) - n : rest[i] = c[n + i]
  <2>1. /\ rest \in Seq(Nat)
        /\ Len(rest) = IF n + 1 <= Len(c) THEN Len(c) - (n + 1) + 1 ELSE 0
        /\ \A i \in 1 .. Len(c) - (n + 1) + 1 : rest[i] = c[(n + 1) + i - 1]
    BY <1>1, <1>2, SubSeqProperties
  <2>2. \A i \in 1 .. Len(c) - n : (n + 1) + i - 1 = n + i
    BY <1>1
  <2> QED
    BY <2>1, <2>2, <1>1
<1> QED
  BY <1>1, <1>3 DEF Numbered

\* A content that continues the file, together with it.
LEMMA WholeNumbered ==
    ASSUME NEW f \in Seq(Nat), NEW c \in Seq(Nat),
           Numbered(f, 0), Numbered(c, Len(f))
    PROVE  f \o c = Upto(Len(f) + Len(c))
<1>1. Len(c) \in 0 .. Len(c)
  BY LenProperties
<1>2. SubSeq(c, 1, Len(c)) = c
  BY SubSeqFull
<1> DEFINE t == f \o c
<1>3. t \in Seq(Nat) /\ Len(t) = Len(f) + Len(c) /\ Numbered(t, 0)
  BY <1>1, <1>2, WriteNumbered
<1> HIDE DEF t
<1>4. t = Upto(Len(f) + Len(c))
  BY <1>3, NumberedIsUpto
<1> QED
  BY <1>4 DEF t

\* What \div is, for the distance over which memcpy reads its own output.
LEMMA QuotientBounds ==
    ASSUME NEW a \in Nat, NEW b \in Nat \ {0}
    PROVE  /\ a \div b \in Nat
           /\ b * (a \div b) <= a
           /\ a < b * (a \div b + 1)
OBVIOUS

\* Whatever memcpy makes of overlapping areas, it leaves as many bytes as it
\* was to move, and each is one that was there.
LEMMA MovedLength ==
    ASSUME NEW bytes \in Seq(Nat), NEW n \in 0 .. Len(bytes), NEW safe \in BOOLEAN,
           NEW m \in Moved(bytes, n, safe)
    PROVE  m \in Seq(Nat) /\ Len(m) = Len(bytes) - n
<1> DEFINE kept == Len(bytes) - n
           Source(k) == k + n * ((kept - k) \div n + 1)
<1>1. Len(bytes) \in Nat /\ n \in Nat /\ kept \in Nat
  BY LenProperties
<1>2. CASE m = SubSeq(bytes, n + 1, Len(bytes))
  <2>1. \A i \in n + 1 .. Len(bytes) : bytes[i] \in Nat
    BY <1>1, ElementOfSeq
  <2> QED
    BY <1>1, <1>2, <2>1, SubSeqProperties
<1>3. CASE n # 0 /\ m = [k \in 1 .. kept |-> bytes[Source(k)]]
  <2>1. ASSUME NEW k \in 1 .. kept
        PROVE  bytes[Source(k)] \in Nat
    <3> DEFINE a == kept - k
               q == a \div n
    <3>1. a \in Nat /\ n \in Nat \ {0} /\ k \in Nat \ {0}
      BY <1>1, <1>3
    <3> HIDE DEF a
    <3>2. q \in Nat /\ n * q <= a /\ a < n * (q + 1)
      BY <3>1, QuotientBounds
    <3> HIDE DEF q
    <3>3. n * (q + 1) = n * q + n /\ n * q \in Nat
      BY <3>1, <3>2
    <3>4. k + n * (q + 1) \in 1 .. Len(bytes)
      BY <1>1, <3>1, <3>2, <3>3 DEF a
    <3> QED
      BY <3>4, ElementOfSeq DEF q, a
  <2> HIDE DEF Source
  <2>2. m \in [1 .. kept -> Nat]
    BY <1>3, <2>1
  <2>3. m \in Seq(Nat)
    BY <1>1, <2>2, SeqDef
  <2> QED
    BY <1>1, <2>2, <2>3, LenProperties
<1> QED
  BY <1>2, <1>3 DEF Moved

-------------------------------------------------------------------------------
(* The doubling loop.  The library states induction with an operator as a    *)
(* parameter, which the provers cannot instantiate; the smallest member of a *)
(* set of counterexamples serves instead.                                    *)

\* A set of naturals with a member has a smallest one.
LEMMA SmallestMember ==
    ASSUME NEW T, T \subseteq Nat, T # {}
    PROVE  \E x \in T : \A y \in T : x <= y
<1> DEFINE R == {ss \in Nat \X Nat : ss[1] < ss[2]}
<1>1. IsWellFoundedOn(R, Nat)
  BY NatLessThanWellFounded, Zenon DEF OpToRel
<1> HIDE DEF R
<1>2. PICK x \in T : \A y \in T : ~(<<y, x>> \in R)
  BY <1>1, WFMin
<1>3. \A y \in T : ~(y < x)
  BY <1>2 DEF R
<1> QED
  BY <1>3

\* The first n rounds of the doubling loop.
Rounds(g, length, n) ==
    /\ g \in [0 .. n -> Nat]
    /\ g[0] = length
    /\ \A k \in 1 .. n : g[k] = 2 * g[k - 1]

\* Any number of rounds can be made.
LEMMA RoundsExist ==
    ASSUME NEW length \in Nat
    PROVE  \A n \in Nat : \E g : Rounds(g, length, n)
<1> DEFINE T == {n \in Nat : ~ \E g : Rounds(g, length, n)}
<1> SUFFICES ASSUME T # {} PROVE FALSE
  OBVIOUS
<1>1. PICK n \in T : \A m \in T : n <= m
  <2> HIDE DEF T
  <2>1. T \subseteq Nat
    BY DEF T
  <2> QED
    BY <2>1, SmallestMember
<1>2. n # 0
  <2>1. Rounds([k \in 0 .. 0 |-> length], length, 0)
    BY DEF Rounds
  <2> QED
    BY <1>1, <2>1
<1>3. n - 1 \in Nat /\ n - 1 \notin T
  BY <1>1, <1>2
<1>4. PICK g : Rounds(g, length, n - 1)
  BY <1>3
<1> DEFINE h == [k \in 0 .. n |-> IF k < n THEN g[k] ELSE 2 * g[n - 1]]
<1>5. Rounds(h, length, n)
  <2>1. /\ n \in Nat \ {0} /\ g \in [0 .. n - 1 -> Nat] /\ g[0] = length
        /\ \A k \in 1 .. n - 1 : g[k] = 2 * g[k - 1]
    BY <1>1, <1>2, <1>4 DEF Rounds
  <2>2. h \in [0 .. n -> Nat]
    BY <2>1
  <2>3. h[0] = length
    BY <2>1
  <2>4. ASSUME NEW k \in 1 .. n PROVE h[k] = 2 * h[k - 1]
    <3>1. h[k - 1] = g[k - 1]
      BY <2>1
    <3>2. CASE k < n
      BY <2>1, <3>1, <3>2
    <3>3. CASE k = n
      BY <2>1, <3>1, <3>3
    <3> QED
      BY <2>1, <3>2, <3>3
  <2> QED
    BY <2>2, <2>3, <2>4 DEF Rounds
<1> QED
  BY <1>1, <1>5

\* However many are made, the first ones are the same.
LEMMA RoundsAgree ==
    ASSUME NEW length \in Nat, NEW n \in Nat, NEW m \in Nat, NEW g, NEW h,
           Rounds(g, length, n), Rounds(h, length, m)
    PROVE  \A k \in Nat : k <= n /\ k <= m => g[k] = h[k]
<1> DEFINE T == {k \in Nat : k <= n /\ k <= m /\ g[k] # h[k]}
<1> SUFFICES ASSUME T # {} PROVE FALSE
  OBVIOUS
<1>1. PICK k \in T : \A j \in T : k <= j
  <2> HIDE DEF T
  <2>1. T \subseteq Nat
    BY DEF T
  <2> QED
    BY <2>1, SmallestMember
<1>2. k # 0
  BY <1>1 DEF Rounds
<1>3. k - 1 \in Nat /\ g[k - 1] = h[k - 1]
  BY <1>1, <1>2
<1>4. k \in 1 .. n /\ k \in 1 .. m
  BY <1>1, <1>2
<1> QED
  BY <1>1, <1>3, <1>4 DEF Rounds

\* The recursive function is what its definition says.
LEMMA DoublingsDef ==
    ASSUME NEW length \in Nat
    PROVE  LET d == Doublings(length)
           IN  d = [k \in Nat |-> IF k = 0 THEN length ELSE 2 * d[k - 1]]
<1> DEFINE a(n) == CHOOSE g : Rounds(g, length, n)
           F == [n \in Nat |-> a(n)[n]]
<1>1. \A n \in Nat : Rounds(a(n), length, n)
  BY RoundsExist
<1> HIDE DEF a
<1>2. ASSUME NEW n \in Nat
      PROVE  F[n] = IF n = 0 THEN length ELSE 2 * F[n - 1]
  <2>1. CASE n = 0
    BY <1>1, <2>1 DEF Rounds
  <2>2. CASE n # 0
    <3>1. n - 1 \in Nat /\ n \in 1 .. n /\ n - 1 <= n
      BY <2>2
    <3>2. F[n] = 2 * a(n)[n - 1]
      BY <1>1, <3>1 DEF Rounds
    <3>3. a(n)[n - 1] = a(n - 1)[n - 1]
      BY <1>1, <3>1, RoundsAgree
    <3> QED
      BY <2>2, <3>1, <3>2, <3>3
  <2> QED
    BY <2>1, <2>2
<1>3. F = [k \in Nat |-> IF k = 0 THEN length ELSE 2 * F[k - 1]]
  BY <1>2
<1> HIDE DEF F
<1>4. \E f : f = [k \in Nat |-> IF k = 0 THEN length ELSE 2 * f[k - 1]]
  BY <1>3
<1> QED
  BY <1>4 DEF Doublings

\* The lengths, which exceed every number unless they are zero.
LEMMA DoublingsGrow ==
    ASSUME NEW length \in Nat
    PROVE  LET d == Doublings(length)
           IN  /\ d \in [Nat -> Nat]
               /\ d[0] = length
               /\ \A k \in Nat : d[k + 1] = 2 * d[k]
               /\ length > 0 => \A k \in Nat : d[k] > k
<1> DEFINE d == Doublings(length)
<1>1. /\ d = [k \in Nat |-> d[k]]
      /\ \A k \in Nat : d[k] = IF k = 0 THEN length ELSE 2 * d[k - 1]
  BY DoublingsDef
<1> HIDE DEF d
<1>2. \A k \in Nat : d[k] \in Nat /\ (length > 0 => d[k] > k)
  <2> DEFINE T == {k \in Nat : ~(d[k] \in Nat /\ (length > 0 => d[k] > k))}
  <2> SUFFICES ASSUME T # {} PROVE FALSE
    OBVIOUS
  <2>1. PICK k \in T : \A j \in T : k <= j
    <3> HIDE DEF T
    <3>1. T \subseteq Nat
      BY DEF T
    <3> QED
      BY <3>1, SmallestMember
  <2>2. k # 0
    BY <1>1, <2>1
  <2>3. k - 1 \in Nat /\ k - 1 \notin T
    BY <2>1, <2>2
  <2>4. d[k - 1] \in Nat /\ (length > 0 => d[k - 1] > k - 1)
    BY <2>3
  <2>5. d[k] = 2 * d[k - 1]
    BY <1>1, <2>1, <2>2
  <2> QED
    BY <2>1, <2>3, <2>4, <2>5
<1>3. \A k \in Nat : d[k + 1] = 2 * d[k]
  BY <1>1
<1>4. d[0] = length /\ d \in [Nat -> Nat]
  BY <1>1, <1>2
<1> QED
  BY <1>2, <1>3, <1>4 DEF d

\* When the doubling loop ends, the length is large enough.
LEMMA DoubledBound ==
    ASSUME NEW length \in Nat, NEW need \in Nat, NEW size \in Doubled(length, need)
    PROVE  size \in Nat /\ size >= need /\ size >= length
<1>1. PICK k \in 0 .. need :
          /\ size = Doublings(length)[k] /\ Doublings(length)[k] >= need
          /\ \A j \in 0 .. k - 1 : Doublings(length)[j] < need
  BY DEF Doubled
<1>2. Doublings(length) \in [Nat -> Nat] /\ Doublings(length)[0] = length
  BY DoublingsGrow
<1>3. CASE k = 0
  BY <1>1, <1>2, <1>3
<1>4. CASE k # 0
  BY <1>1, <1>2, <1>4
<1> QED
  BY <1>3, <1>4

\* The loop ends, except when the length is zero.
LEMMA DoubledEnds ==
    ASSUME NEW length \in Nat \ {0}, NEW need \in Nat
    PROVE  Doubled(length, need) # {}
<1> DEFINE d == Doublings(length)
           T == {k \in Nat : d[k] >= need}
<1>1. d \in [Nat -> Nat] /\ \A k \in Nat : d[k] > k
  BY DoublingsGrow
<1> HIDE DEF d
<1>2. need \in T
  BY <1>1
<1>3. PICK k \in T : \A j \in T : k <= j
  <2> HIDE DEF T
  <2>1. T \subseteq Nat
    BY DEF T
  <2> QED
    BY <1>2, <2>1, SmallestMember
<1>4. k \in 0 .. need /\ \A j \in 0 .. k - 1 : d[j] < need
  BY <1>1, <1>2, <1>3
<1> QED
  BY <1>3, <1>4 DEF Doubled, d
===============================================================================
