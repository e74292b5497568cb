------------------------------ MODULE CodecProofs -------------------------------
(***************************************************************************)
(* Lemmas about the formats: what each routine packs is what the unpacking *)
(* routines read, for every word, length, type and time; and what asking   *)
(* for bytes does at the end of the input.                                 *)
(***************************************************************************)
EXTENDS CodecChannel, BufferProofs

LEMMA BytesAreNumbers == \A x \in Byte : x \in Nat /\ x >= 0 /\ x <= 255
BY DEF Byte

-------------------------------------------------------------------------------
(* Functions defined by recursion over 0 .. n.                             *)

\* f begins with zero, and its values follow from the steps g, up to n.
Iterates(f, g, S, zero, n) ==
    /\ f \in [0 .. n -> S]
    /\ f[0] = zero
    /\ \A k \in 1 .. n : f[k] = g[k][f[k - 1]]

\* There is such a function, whatever the steps.
LEMMA IterationExists ==
    ASSUME NEW S, NEW zero \in S, NEW n \in Nat, NEW g \in [1 .. n -> [S -> S]]
    PROVE  \E f : Iterates(f, g, S, zero, n)
<1> DEFINE T == {m \in 0 .. n : ~ \E f : Iterates(f, g, S, zero, m)}
<1>0. CASE T = {}
  <2>1. n \in 0 .. n
    OBVIOUS
  <2> QED
    BY <1>0, <2>1
<1> SUFFICES ASSUME T # {} PROVE FALSE
  BY <1>0
<1>1. PICK m \in T : \A k \in T : m <= k
  <2> HIDE DEF T
  <2>1. T \subseteq Nat
    BY DEF T
  <2> QED
    BY <2>1, SmallestMember
<1>2. m # 0
  <2>1. Iterates([k \in 0 .. 0 |-> zero], g, S, zero, 0)
    BY DEF Iterates
  <2> QED
    BY <1>1, <2>1
<1>3. m \in 1 .. n /\ m - 1 \in 0 .. n /\ m - 1 \notin T
  BY <1>1, <1>2
<1>4. PICK f : Iterates(f, g, S, zero, m - 1)
  BY <1>3
<1> DEFINE h == [k \in 0 .. m |-> IF k < m THEN f[k] ELSE g[m][f[m - 1]]]
<1>5. Iterates(h, g, S, zero, m)
  <2>1. /\ m \in Nat \ {0} /\ f \in [0 .. m - 1 -> S] /\ f[0] = zero
        /\ \A k \in 1 .. m - 1 : f[k] = g[k][f[k - 1]]
    BY <1>3, <1>4 DEF Iterates
  <2>2. g[m] \in [S -> S] /\ f[m - 1] \in S
    BY <1>3, <2>1
  <2>3. h \in [0 .. m -> S]
    BY <2>1, <2>2
  <2>4. h[0] = zero
    BY <2>1
  <2>5. ASSUME NEW k \in 1 .. m PROVE h[k] = g[k][h[k - 1]]
    <3>1. h[k - 1] = f[k - 1]
      BY <2>1
    <3>2. CASE k < m
      BY <2>1, <3>1, <3>2
    <3>3. CASE k = m
      BY <2>1, <3>1, <3>3
    <3> QED
      BY <2>1, <3>2, <3>3
  <2> QED
    BY <2>3, <2>4, <2>5 DEF Iterates
<1> QED
  BY <1>1, <1>5

\* The sums of the first numbers of a sequence are what their recursion says.
LEMMA SumsDef ==
    ASSUME NEW n \in Nat, NEW asks \in [1 .. n -> Nat], Len(asks) = n
    PROVE  /\ Sums(asks) \in [0 .. n -> Nat]
           /\ Sums(asks)[0] = 0
           /\ \A k \in 1 .. n : Sums(asks)[k] = Sums(asks)[k - 1] + asks[k]
           /\ Total(asks) = Sums(asks)[n]
<1> DEFINE step == [k \in 1 .. n |-> [x \in Nat |-> x + asks[k]]]
<1>1. step \in [1 .. n -> [Nat -> Nat]]
  OBVIOUS
<1>2. \A k \in 1 .. n, x \in Nat : step[k][x] = x + asks[k]
  OBVIOUS
<1> HIDE DEF step
<1>3. PICK f : Iterates(f, step, Nat, 0, n)
  BY <1>1, IterationExists
<1>4. f = [k \in 0 .. n |-> IF k = 0 THEN 0 ELSE f[k - 1] + asks[k]]
  <2>1. f \in [0 .. n -> Nat] /\ f[0] = 0
        /\ \A k \in 1 .. n : f[k] = step[k][f[k - 1]]
    BY <1>3 DEF Iterates
  <2>2. ASSUME NEW k \in 1 .. n PROVE f[k] = f[k - 1] + asks[k]
    <3>1. f[k - 1] \in Nat
      BY <2>1
    <3> QED
      BY <1>2, <2>1, <3>1
  <2> QED
    BY <2>1, <2>2
<1> DEFINE s == Sums(asks)
<1>5. s = [k \in 0 .. n |-> IF k = 0 THEN 0 ELSE s[k - 1] + asks[k]]
  <2>1. \E sum : sum = [k \in 0 .. Len(asks) |->
                          IF k = 0 THEN 0 ELSE sum[k - 1] + asks[k]]
    BY <1>4
  <2> QED
    BY <2>1 DEF Sums
<1> HIDE DEF s
<1>6. s[0] = 0 /\ \A k \in 1 .. n : s[k] = s[k - 1] + asks[k]
  BY <1>5
<1>7. \A k \in 0 .. n : s[k] \in Nat
  <2> DEFINE T == {k \in 0 .. n : s[k] \notin Nat}
  <2> SUFFICES ASSUME T # {} PROVE FALSE
    OBVIOUS
  <2>1. PICK k \in T : \A j \in T : k <= j
    <3> HIDE DEF T
    <3>1. T \subseteq Nat
      BY DEF T
    <3> QED
      BY <3>1, SmallestMember
  <2>2. k \in 1 .. n /\ k - 1 \in 0 .. n /\ k - 1 \notin T
    BY <1>6, <2>1
  <2> QED
    BY <1>6, <2>1, <2>2
<1>8. s \in [0 .. n -> Nat]
  BY <1>5, <1>7
<1> QED
  BY <1>6, <1>8 DEF s, Total

\* The value of a field of bytes, likewise.
LEMMA NumberDef ==
    ASSUME NEW n \in Nat, NEW bytes \in [1 .. n -> Byte], Len(bytes) = n
    PROVE  \E v \in [0 .. n -> Nat] :
              /\ v[0] = 0
              /\ \A k \in 1 .. n : v[k] = 256 * v[k - 1] + bytes[k]
              /\ Number(bytes) = v[n]
<1>0. \A k \in 1 .. n : bytes[k] \in Nat
  BY BytesAreNumbers
<1> DEFINE step == [k \in 1 .. n |-> [x \in Nat |-> 256 * x + bytes[k]]]
<1>1. step \in [1 .. n -> [Nat -> Nat]]
  <2>1. \A k \in 1 .. n : bytes[k] \in Nat
    BY <1>0
  <2>2. \A k \in 1 .. n, x \in Nat : 256 * x + bytes[k] \in Nat
    BY <2>1
  <2> QED
    BY <2>2
<1>2. \A k \in 1 .. n, x \in Nat : step[k][x] = 256 * x + bytes[k]
  OBVIOUS
<1> HIDE DEF step
<1>3. PICK f : Iterates(f, step, Nat, 0, n)
  BY <1>1, IterationExists
<1>4. f = [k \in 0 .. n |-> IF k = 0 THEN 0 ELSE 256 * f[k - 1] + bytes[k]]
  <2>1. f \in [0 .. n -> Nat] /\ f[0] = 0
        /\ \A k \in 1 .. n : f[k] = step[k][f[k - 1]]
    BY <1>3 DEF Iterates
  <2>2. ASSUME NEW k \in 1 .. n PROVE f[k] = 256 * f[k - 1] + bytes[k]
    <3>1. f[k - 1] \in Nat
      BY <2>1
    <3> QED
      BY <1>2, <2>1, <3>1, ZenonT(30)
  <2> QED
    BY <2>1, <2>2
<1> DEFINE v == CHOOSE v : v = [k \in 0 .. Len(bytes) |->
                                  IF k = 0 THEN 0 ELSE 256 * v[k - 1] + bytes[k]]
<1>5. v = [k \in 0 .. n |-> IF k = 0 THEN 0 ELSE 256 * v[k - 1] + bytes[k]]
  BY <1>4, SMTT(30)
<1>6. Number(bytes) = v[n]
  BY DEF Number
<1> HIDE DEF v
<1>7. v[0] = 0 /\ \A k \in 1 .. n : v[k] = 256 * v[k - 1] + bytes[k]
  BY <1>5
<1>8. \A k \in 0 .. n : v[k] \in Nat
  <2> DEFINE T == {k \in 0 .. n : v[k] \notin Nat}
  <2> SUFFICES ASSUME T # {} PROVE FALSE
    OBVIOUS
  <2>1. PICK k \in T : \A j \in T : k <= j
    <3> HIDE DEF T
    <3>1. T \subseteq Nat
      BY DEF T
    <3> QED
      BY <3>1, SmallestMember
  <2>2. k \in 1 .. n /\ k - 1 \in 0 .. n /\ k - 1 \notin T
    BY <1>7, <2>1
  <2>3. v[k - 1] \in Nat /\ bytes[k] \in Nat
    BY <1>0, <2>2
  <2> QED
    BY <1>7, <2>1, <2>2, <2>3
<1>9. v \in [0 .. n -> Nat]
  BY <1>5, <1>8
<1> QED
  BY <1>6, <1>7, <1>9

\* The sums of short sequences.
LEMMA Totals ==
    /\ Total(<<>>) = 0
    /\ \A a \in Nat : Total(<<a>>) = a
    /\ \A a, b \in Nat : Total(<<a, b>>) = a + b
    /\ \A a, b, c \in Nat : Total(<<a, b, c>>) = a + b + c
    /\ \A a, b, c, d \in Nat : Total(<<a, b, c, d>>) = a + b + c + d
    /\ \A a, b, c, d, e \in Nat : Total(<<a, b, c, d, e>>) = a + b + c + d + e
<1>1. Total(<<>>) = 0
  <2>1. <<>> \in [1 .. 0 -> Nat] /\ Len(<<>>) = 0
    OBVIOUS
  <2> QED
    BY <2>1, SumsDef
<1>2. ASSUME NEW a \in Nat PROVE Total(<<a>>) = a
  <2> DEFINE s == <<a>>
  <2>1. s \in [1 .. 1 -> Nat] /\ Len(s) = 1 /\ s[1] = a
    OBVIOUS
  <2> HIDE DEF s
  <2>2. /\ Sums(s) \in [0 .. 1 -> Nat] /\ Sums(s)[0] = 0
        /\ \A k \in 1 .. 1 : Sums(s)[k] = Sums(s)[k - 1] + s[k]
        /\ Total(s) = Sums(s)[1]
    BY <2>1, 1 \in Nat, SumsDef, Zenon
  <2> QED
    BY <2>1, <2>2 DEF s
<1>3. ASSUME NEW a \in Nat, NEW b \in Nat PROVE Total(<<a, b>>) = a + b
  <2> DEFINE s == <<a, b>>
  <2>1. s \in [1 .. 2 -> Nat] /\ Len(s) = 2 /\ s[1] = a /\ s[2] = b
    OBVIOUS
  <2> HIDE DEF s
  <2>2. /\ Sums(s) \in [0 .. 2 -> Nat] /\ Sums(s)[0] = 0
        /\ \A k \in 1 .. 2 : Sums(s)[k] = Sums(s)[k - 1] + s[k]
        /\ Total(s) = Sums(s)[2]
    BY <2>1, 2 \in Nat, SumsDef, Zenon
  <2> QED
    BY <2>1, <2>2 DEF s
<1>4. ASSUME NEW a \in Nat, NEW b \in Nat, NEW c \in Nat
      PROVE  Total(<<a, b, c>>) = a + b + c
  <2> DEFINE s == <<a, b, c>>
  <2>1. s \in [1 .. 3 -> Nat] /\ Len(s) = 3 /\ s[1] = a /\ s[2] = b /\ s[3] = c
    OBVIOUS
  <2> HIDE DEF s
  <2>2. /\ Sums(s) \in [0 .. 3 -> Nat] /\ Sums(s)[0] = 0
        /\ \A k \in 1 .. 3 : Sums(s)[k] = Sums(s)[k - 1] + s[k]
        /\ Total(s) = Sums(s)[3]
    BY <2>1, 3 \in Nat, SumsDef, Zenon
  <2> QED
    BY <2>1, <2>2 DEF s
<1>5. ASSUME NEW a \in Nat, NEW b \in Nat, NEW c \in Nat, NEW d \in Nat
      PROVE  Total(<<a, b, c, d>>) = a + b + c + d
  <2> DEFINE s == <<a, b, c, d>>
  <2>1. /\ s \in [1 .. 4 -> Nat] /\ Len(s) = 4
        /\ s[1] = a /\ s[2] = b /\ s[3] = c /\ s[4] = d
    OBVIOUS
  <2> HIDE DEF s
  <2>2. /\ Sums(s) \in [0 .. 4 -> Nat] /\ Sums(s)[0] = 0
        /\ \A k \in 1 .. 4 : Sums(s)[k] = Sums(s)[k - 1] + s[k]
        /\ Total(s) = Sums(s)[4]
    BY <2>1, 4 \in Nat, SumsDef, Zenon
  <2> QED
    BY <2>1, <2>2 DEF s
<1>6. ASSUME NEW a \in Nat, NEW b \in Nat, NEW c \in Nat, NEW d \in Nat, NEW e \in Nat
      PROVE  Total(<<a, b, c, d, e>>) = a + b + c + d + e
  <2> DEFINE s == <<a, b, c, d, e>>
  <2>1. /\ s \in [1 .. 5 -> Nat] /\ Len(s) = 5
        /\ s[1] = a /\ s[2] = b /\ s[3] = c /\ s[4] = d /\ s[5] = e
    OBVIOUS
  <2> HIDE DEF s
  <2>2. /\ Sums(s) \in [0 .. 5 -> Nat] /\ Sums(s)[0] = 0
        /\ \A k \in 1 .. 5 : Sums(s)[k] = Sums(s)[k - 1] + s[k]
        /\ Total(s) = Sums(s)[5]
    BY <2>1, 5 \in Nat, SumsDef, Zenon
  <2> QED
    BY <2>1, <2>2 DEF s
<1> QED
  BY <1>1, <1>2, <1>3, <1>4, <1>5, <1>6

\* Sums grow.
LEMMA SumsGrow ==
    ASSUME NEW n \in Nat, NEW asks \in [1 .. n -> Nat], Len(asks) = n,
           NEW j \in 0 .. n
    PROVE  \A k \in j .. n : Sums(asks)[j] <= Sums(asks)[k]
<1> DEFINE s == Sums(asks)
           T == {k \in j .. n : ~(s[j] <= s[k])}
<1> SUFFICES ASSUME T # {} PROVE FALSE
  OBVIOUS
<1>1. PICK k \in T : \A i \in T : k <= i
  <2> HIDE DEF T
  <2>1. T \subseteq Nat
    BY DEF T
  <2> QED
    BY <2>1, SmallestMember
<1>2. /\ s \in [0 .. n -> Nat]
      /\ \A i \in 1 .. n : s[i] = s[i - 1] + asks[i]
  BY SumsDef
<1> HIDE DEF s
<1>3. k # j /\ k \in 1 .. n /\ k - 1 \in j .. n /\ k - 1 \notin T
  BY <1>1, <1>2
<1>4. s[j] <= s[k - 1] /\ s[j] \in Nat /\ s[k - 1] \in Nat /\ asks[k] \in Nat
  BY <1>2, <1>3
<1>5. s[k] = s[k - 1] + asks[k]
  BY <1>2, <1>3
<1> QED
  BY <1>1, <1>4, <1>5

\* What a routine asks for, step by step: first the tag.
Steps(asks) == asks \in Seq(Nat) /\ asks # <<>> /\ asks[1] = 1

\* With nothing left the end of the input is told and nothing consumed; with
\* too little for the item an underflow, and no more is consumed than there
\* is; otherwise the item is consumed, and its own error told.
LEMMA Asked ==
    ASSUME NEW asks, Steps(asks), NEW available \in Nat, NEW error
    PROVE  LET code     == AskCode(asks, available, error)
               consumed == Consumed(asks, available)
           IN  /\ Total(asks) \in Nat \ {0}
               /\ \/ /\ available = 0
                     /\ code = CWP_RC_END_OF_INPUT /\ consumed = 0
                  \/ /\ 0 < available /\ available < Total(asks)
                     /\ code = CWP_RC_BUFFER_UNDERFLOW
                     /\ consumed \in Nat /\ consumed <= available
                  \/ /\ Total(asks) <= available
                     /\ code = error /\ consumed = Total(asks)
<1> DEFINE n == Len(asks)
           s == Sums(asks)
           k == Satisfied(asks, available)
<1>1. n \in Nat \ {0} /\ asks \in [1 .. n -> Nat]
  BY LenProperties, EmptySeq DEF Steps
<1>2. /\ s \in [0 .. n -> Nat] /\ s[0] = 0
      /\ \A i \in 1 .. n : s[i] = s[i - 1] + asks[i]
      /\ Total(asks) = s[n]
  BY <1>1, SumsDef
<1>3. s[1] = 1
  BY <1>1, <1>2 DEF Steps
<1>4. \A i \in 1 .. n : s[1] <= s[i] /\ s[i] <= s[n]
  <2>1. \A i \in 1 .. n : s[1] <= s[i]
    BY <1>1, SumsGrow
  <2>2. \A i \in 1 .. n : s[i] <= s[n]
    BY <1>1, SumsGrow
  <2> QED
    BY <2>1, <2>2
<1>5. k \in 0 .. n /\ s[k] <= available /\ (k < n => s[k + 1] > available)
  <2> DEFINE T == {i \in 0 .. n : s[i] > available}
             Fits(i) == s[i] <= available /\ (i < n => s[i + 1] > available)
  <2>1. \E i \in 0 .. n : Fits(i)
    <3>1. CASE T = {}
      <4>1. n \in 0 .. n /\ n \notin T /\ s[n] \in Nat
        BY <1>1, <1>2, <3>1
      <4> QED
        BY <4>1
    <3>2. CASE T # {}
      <4>1. PICK i \in T : \A j \in T : i <= j
        <5> HIDE DEF T
        <5>1. T \subseteq Nat
          BY DEF T
        <5> QED
          BY <3>2, <5>1, SmallestMember
      <4>2. i # 0
        BY <1>2, <4>1
      <4>3. i - 1 \in 0 .. n /\ i - 1 \notin T /\ s[i - 1] \in Nat
        BY <1>1, <1>2, <4>1, <4>2
      <4> QED
        BY <4>1, <4>3
    <3> QED
      BY <3>1, <3>2
  <2>2. k = CHOOSE i \in 0 .. n : Fits(i)
    BY DEF Satisfied
  <2> HIDE DEF Fits, k
  <2>3. k \in 0 .. n /\ Fits(k)
    BY <2>1, <2>2
  <2> QED
    BY <2>3 DEF Fits
<1>6. /\ AskCode(asks, available, error) =
            IF k = 0 THEN CWP_RC_END_OF_INPUT
            ELSE IF k < n THEN CWP_RC_BUFFER_UNDERFLOW ELSE error
      /\ Consumed(asks, available) = s[k]
  BY DEF AskCode, Consumed
<1> HIDE DEF n, s, k
<1>7. CASE k = 0
  BY <1>1, <1>2, <1>3, <1>4, <1>5, <1>6, <1>7
<1>8. CASE k \in 1 .. n - 1
  <2>1. s[k] \in Nat /\ s[k] >= 1 /\ s[k + 1] <= s[n] /\ s[n] \in Nat /\ s[k + 1] \in Nat
    BY <1>1, <1>2, <1>3, <1>4, <1>8
  <2>2. k # 0 /\ k < n /\ s[k] <= available /\ s[k + 1] > available
    BY <1>1, <1>5, <1>8
  <2>3. 0 < available /\ available < s[n]
    BY <2>1, <2>2
  <2> QED
    BY <1>2, <1>6, <2>1, <2>2, <2>3
<1>9. CASE k = n
  <2>1. s[n] \in Nat /\ s[n] >= 1
    BY <1>1, <1>2, <1>3, <1>4
  <2> QED
    BY <1>1, <1>2, <1>5, <1>6, <1>9, <2>1
<1> QED
  BY <1>1, <1>5, <1>7, <1>8, <1>9

-------------------------------------------------------------------------------
(* Bytes and words.                                                        *)

\* A function on 1 .. n is a sequence of length n.
LEMMA BytesAreSequence ==
    ASSUME NEW n \in Nat, NEW S, NEW f \in [1 .. n -> S]
    PROVE  f \in Seq(S) /\ Len(f) = n
<1>1. f \in Seq(S)
  BY SeqDef
<1> QED
  BY <1>1, LenProperties

\* Two words with the same bytes are the same.
LEMMA SameWord ==
    ASSUME NEW n \in Nat, NEW u \in [1 .. n -> Byte], NEW v \in [1 .. n -> Byte],
           \A k \in 1 .. n : u[k] = v[k]
    PROVE  u = v
OBVIOUS

\* The last w bytes of a word.
LEMMA LowBytes ==
    ASSUME NEW v \in Word64, NEW w \in 0 .. 8
    PROVE  /\ Low(v, w) \in [1 .. w -> Byte]
           /\ Len(Low(v, w)) = w
           /\ \A k \in 1 .. w : Low(v, w)[k] = v[8 - w + k]
<1>1. v \in [1 .. 8 -> Byte]
  BY DEF Word64
<1>2. v \in Seq(Byte) /\ Len(v) = 8
  BY <1>1, 8 \in Nat, BytesAreSequence
<1> DEFINE m == 9 - w
<1>3. m \in Int /\ \A i \in m .. 8 : v[i] \in Byte
  BY <1>1
<1>4. /\ Low(v, w) \in Seq(Byte)
      /\ Len(Low(v, w)) = IF m <= 8 THEN 8 - m + 1 ELSE 0
      /\ \A i \in 1 .. 8 - m + 1 : Low(v, w)[i] = v[m + i - 1]
  <2>1. Low(v, w) = SubSeq(v, m, 8)
    BY DEF Low
  <2> HIDE DEF m
  <2> QED
    BY <1>2, <1>3, <2>1, SubSeqProperties
<1>5. Len(Low(v, w)) = w
  BY <1>4
<1>6. Low(v, w) \in [1 .. w -> Byte]
  BY <1>4, <1>5, LenProperties
<1>7. ASSUME NEW k \in 1 .. w PROVE Low(v, w)[k] = v[8 - w + k]
  <2>1. k \in 1 .. 8 - (9 - w) + 1 /\ 9 - w + k - 1 = 8 - w + k
    OBVIOUS
  <2> QED
    BY <1>4, <2>1
<1> QED
  BY <1>5, <1>6, <1>7

\* w bytes with copies of another in front, up to a word.
LEMMA Extended ==
    ASSUME NEW w \in 0 .. 8, NEW f \in [1 .. w -> Byte], NEW x \in Byte
    PROVE  LET e == [k \in 1 .. 8 - Len(f) |-> x] \o f
           IN  /\ e \in Word64
               /\ \A k \in 1 .. 8 : e[k] = IF k <= 8 - w THEN x ELSE f[k - (8 - w)]
<1> DEFINE p == [k \in 1 .. 8 - w |-> x]
           e == p \o f
<1>1. f \in Seq(Byte) /\ Len(f) = w
  BY BytesAreSequence
<1>2. 8 - w \in Nat /\ p \in [1 .. 8 - w -> Byte]
  OBVIOUS
<1>3. p \in Seq(Byte) /\ Len(p) = 8 - w
  BY <1>2, BytesAreSequence
<1>4. \A k \in 1 .. 8 - w : p[k] = x
  OBVIOUS
<1> HIDE DEF p
<1>5. /\ e \in Seq(Byte) /\ Len(e) = 8 - w + w
      /\ \A k \in 1 .. 8 - w + w :
            e[k] = IF k <= 8 - w THEN p[k] ELSE f[k - (8 - w)]
  BY <1>1, <1>3, ConcatProperties, SMTT(30)
<1> HIDE DEF e
<1>6. 8 - w + w = 8
  OBVIOUS
<1>7. e \in Word64
  BY <1>5, <1>6, LenProperties DEF Word64
<1>8. ASSUME NEW k \in 1 .. 8
      PROVE  e[k] = IF k <= 8 - w THEN x ELSE f[k - (8 - w)]
  BY <1>4, <1>5, <1>6
<1>9. e = [k \in 1 .. 8 - Len(f) |-> x] \o f
  BY <1>1 DEF e, p
<1> QED
  BY <1>7, <1>8, <1>9

\* An unsigned number fits in w bytes if and only if it is those bytes, with
\* zeros in front.
LEMMA ZeroExtendedLow ==
    ASSUME NEW v \in Word64, NEW w \in 0 .. 8
    PROVE  FitsUnsigned(v, w) <=> ZeroExtended(Low(v, w)) = v
<1> DEFINE e == ZeroExtended(Low(v, w))
<1>1. /\ Low(v, w) \in [1 .. w -> Byte]
      /\ \A k \in 1 .. w : Low(v, w)[k] = v[8 - w + k]
  BY LowBytes
<1>2. 0 \in Byte
  BY DEF Byte
<1>3. /\ e \in Word64
      /\ \A k \in 1 .. 8 : e[k] = IF k <= 8 - w THEN 0 ELSE Low(v, w)[k - (8 - w)]
  BY <1>1, <1>2, Extended DEF ZeroExtended
<1> HIDE DEF e
<1>4. ASSUME NEW k \in 1 .. 8 PROVE e[k] = IF k <= 8 - w THEN 0 ELSE v[k]
  <2>1. CASE k <= 8 - w
    BY <1>3, <2>1
  <2>2. CASE k > 8 - w
    <3>1. k - (8 - w) \in 1 .. w /\ 8 - w + (k - (8 - w)) = k
      BY <2>2
    <3> QED
      BY <1>1, <1>3, <2>2, <3>1
  <2> QED
    BY <2>1, <2>2
<1>5. ASSUME FitsUnsigned(v, w) PROVE e = v
  <2>1. \A k \in 1 .. 8 : e[k] = v[k]
    BY <1>4, <1>5 DEF FitsUnsigned
  <2> QED
    BY <1>3, <2>1, 8 \in Nat, SameWord DEF Word64
<1>6. ASSUME e = v PROVE FitsUnsigned(v, w)
  BY <1>4, <1>6 DEF FitsUnsigned
<1> QED
  BY <1>5, <1>6 DEF e

\* The sign of a number that is extended from w bytes is that of the bytes.
LEMMA SignExtendedBytes ==
    ASSUME NEW w \in 1 .. 8, NEW f \in [1 .. w -> Byte]
    PROVE  LET e == SignExtended(f)
               s == IF f[1] >= 128 THEN 255 ELSE 0
           IN  /\ e \in Word64
               /\ \A k \in 1 .. 8 : e[k] = IF k <= 8 - w THEN s ELSE f[k - (8 - w)]
               /\ Negative(e) <=> f[1] >= 128
<1> DEFINE e == SignExtended(f)
           s == IF f[1] >= 128 THEN 255 ELSE 0
<1>1. s \in Byte /\ f[1] \in Byte
  BY DEF Byte
<1>2. /\ e = [k \in 1 .. 8 - Len(f) |-> s] \o f
      /\ w \in 0 .. 8
  BY DEF SignExtended
<1>3. s = IF f[1] >= 128 THEN 255 ELSE 0
  OBVIOUS
<1> HIDE DEF s
<1> HIDE DEF e
<1>4. /\ e \in Word64
      /\ \A k \in 1 .. 8 : e[k] = IF k <= 8 - w THEN s ELSE f[k - (8 - w)]
  <2>1. LET g == [k \in 1 .. 8 - Len(f) |-> s] \o f
        IN  /\ g \in Word64
            /\ \A k \in 1 .. 8 : g[k] = IF k <= 8 - w THEN s ELSE f[k - (8 - w)]
    BY <1>1, <1>2, Extended
  <2> QED
    BY <1>2, <2>1
<1>5. e[1] = IF 1 <= 8 - w THEN s ELSE f[1]
  BY <1>4
<1>6. Negative(e) <=> f[1] >= 128
  BY <1>1, <1>3, <1>5 DEF Negative, Byte
<1> QED
  BY <1>3, <1>4, <1>6 DEF e, s

\* A word is the sign extension of its last w bytes if and only if it is, as
\* an int64_t, between -2^(8w-1) and 2^(8w-1) - 1.
LEMMA SignExtendedLow ==
    ASSUME NEW v \in Word64, NEW w \in 1 .. 8
    PROVE  /\ SignExtended(Low(v, w)) = v <=>
                FitsNegative(v, w) \/ (FitsUnsigned(v, w) /\ v[9 - w] < 128)
           /\ FitsNegative(v, w) => Negative(v)
           /\ FitsUnsigned(v, w) /\ v[9 - w] < 128 => ~Negative(v)
<1> DEFINE e == SignExtended(Low(v, w))
           s == IF v[9 - w] >= 128 THEN 255 ELSE 0
<1>0. w \in 0 .. 8
  OBVIOUS
<1>1. /\ Low(v, w) \in [1 .. w -> Byte]
      /\ \A k \in 1 .. w : Low(v, w)[k] = v[8 - w + k]
  BY <1>0, LowBytes
<1>2. Low(v, w)[1] = v[9 - w]
  BY <1>1
<1>3. /\ e \in Word64
      /\ \A k \in 1 .. 8 : e[k] = IF k <= 8 - w THEN s ELSE Low(v, w)[k - (8 - w)]
  <2> DEFINE f == Low(v, w)
  <2>1. f \in [1 .. w -> Byte] /\ s = IF f[1] >= 128 THEN 255 ELSE 0
    BY <1>1, <1>2
  <2> HIDE DEF f, s
  <2>2. /\ SignExtended(f) \in Word64
        /\ \A k \in 1 .. 8 : SignExtended(f)[k] = IF k <= 8 - w THEN s ELSE f[k - (8 - w)]
    BY <2>1, SignExtendedBytes
  <2> QED
    BY <2>2 DEF f
<1>4. s = IF v[9 - w] >= 128 THEN 255 ELSE 0
  OBVIOUS
<1> HIDE DEF e, s
<1>5. ASSUME NEW k \in 1 .. 8 PROVE e[k] = IF k <= 8 - w THEN s ELSE v[k]
  <2>1. CASE k <= 8 - w
    BY <1>3, <2>1
  <2>2. CASE k > 8 - w
    <3>1. k - (8 - w) \in 1 .. w /\ 8 - w + (k - (8 - w)) = k
      BY <2>2
    <3> QED
      BY <1>1, <1>3, <2>2, <3>1
  <2> QED
    BY <2>1, <2>2
<1>6. \A k \in 1 .. 8 : v[k] \in 0 .. 255
  BY DEF Word64, Byte
<1>7. 9 - w \in 1 .. 8 /\ v[9 - w] \in 0 .. 255
  BY <1>6
<1>8. ASSUME FitsNegative(v, w) \/ (FitsUnsigned(v, w) /\ v[9 - w] < 128)
      PROVE  e = v
  <2>1. \A k \in 1 .. 8 : e[k] = v[k]
    BY <1>4, <1>5, <1>7, <1>8 DEF FitsUnsigned, FitsNegative
  <2> QED
    BY <1>3, <2>1, 8 \in Nat, SameWord DEF Word64
<1>9. ASSUME e = v
      PROVE  FitsNegative(v, w) \/ (FitsUnsigned(v, w) /\ v[9 - w] < 128)
  BY <1>4, <1>5, <1>7, <1>9 DEF FitsUnsigned, FitsNegative
<1>10. FitsNegative(v, w) => Negative(v)
  <2>1. CASE w = 8
    BY <2>1 DEF FitsNegative, Negative
  <2>2. CASE w < 8
    BY <2>2 DEF FitsNegative, Negative
  <2> QED
    BY <2>1, <2>2
<1>11. FitsUnsigned(v, w) /\ v[9 - w] < 128 => ~Negative(v)
  <2>1. CASE w = 8
    BY <1>6, <2>1 DEF Negative
  <2>2. CASE w < 8
    BY <2>2 DEF FitsUnsigned, Negative
  <2> QED
    BY <2>1, <2>2
<1> QED
  BY <1>8, <1>9, <1>10, <1>11 DEF e

-------------------------------------------------------------------------------
(* Numbers in one, two and four bytes.                                     *)

LEMMA Places ==
    Place[0] = 1 /\ Place[1] = 256 /\ Place[2] = 65536 /\ Place[3] = 16777216
BY DEF Place

\* The value of a field.
LEMMA NumberOfBytes ==
    /\ \A f \in [1 .. 1 -> Byte] : Number(f) = f[1]
    /\ \A f \in [1 .. 2 -> Byte] : Number(f) = 256 * f[1] + f[2]
    /\ \A f \in [1 .. 4 -> Byte] :
          Number(f) = 16777216 * f[1] + 65536 * f[2] + 256 * f[3] + f[4]
<1>1. ASSUME NEW f \in [1 .. 1 -> Byte] PROVE Number(f) = f[1]
  <2>1. Len(f) = 1 /\ f[1] \in Nat
    BY 1 \in Nat, BytesAreSequence, BytesAreNumbers
  <2>2. PICK v \in [0 .. 1 -> Nat] :
            /\ v[0] = 0
            /\ \A k \in 1 .. 1 : v[k] = 256 * v[k - 1] + f[k]
            /\ Number(f) = v[1]
    BY <2>1, 1 \in Nat, NumberDef, ZenonT(30)
  <2> QED
    BY <2>1, <2>2
<1>2. ASSUME NEW f \in [1 .. 2 -> Byte] PROVE Number(f) = 256 * f[1] + f[2]
  <2>1. Len(f) = 2 /\ f[1] \in Nat /\ f[2] \in Nat
    BY 2 \in Nat, BytesAreSequence, BytesAreNumbers
  <2>2. PICK v \in [0 .. 2 -> Nat] :
            /\ v[0] = 0
            /\ \A k \in 1 .. 2 : v[k] = 256 * v[k - 1] + f[k]
            /\ Number(f) = v[2]
    BY <2>1, 2 \in Nat, NumberDef, ZenonT(30)
  <2> QED
    BY <2>1, <2>2
<1>3. ASSUME NEW f \in [1 .. 4 -> Byte]
      PROVE  Number(f) = 16777216 * f[1] + 65536 * f[2] + 256 * f[3] + f[4]
  <2>1. Len(f) = 4 /\ f[1] \in Nat /\ f[2] \in Nat /\ f[3] \in Nat /\ f[4] \in Nat
    BY 4 \in Nat, BytesAreSequence, BytesAreNumbers
  <2>2. PICK v \in [0 .. 4 -> Nat] :
            /\ v[0] = 0
            /\ \A k \in 1 .. 4 : v[k] = 256 * v[k - 1] + f[k]
            /\ Number(f) = v[4]
    BY <2>1, 4 \in Nat, NumberDef, ZenonT(30)
  <2>3. v[1] = f[1] /\ v[2] = 256 * v[1] + f[2]
    BY <2>1, <2>2
  <2>4. v[3] = 256 * v[2] + f[3] /\ v[4] = 256 * v[3] + f[4]
    BY <2>1, <2>2
  <2> QED
    BY <2>1, <2>2, <2>3, <2>4
<1> QED
  BY <1>1, <1>2, <1>3

\* The bytes of a number, most significant first, and their value.
LEMMA BigEndianBytes ==
    ASSUME NEW n \in Lengths31, NEW w \in {1, 2, 4}
    PROVE  /\ BigEndian(n, w) \in [1 .. w -> Byte]
           /\ w = 4 \/ n < Place[w] => Number(BigEndian(n, w)) = n
<1> DEFINE f == BigEndian(n, w)
<1>0. n \in Nat
  BY SMT DEF Lengths31
<1>4. n \div 16777216 < 256
  BY SMT DEF Lengths31
<1>1. CASE w = 1
  <2>1. f = [k \in 1 .. 1 |-> (n \div Place[1 - k]) % 256]
    BY <1>1 DEF BigEndian
  <2>2. f[1] = n % 256
    BY <1>0, <2>1, Places, SMT
  <2>3. f \in [1 .. 1 -> Byte]
    BY <1>0, <2>1, <2>2, SMT DEF Byte
  <2>4. Number(f) = f[1]
    BY <2>3, NumberOfBytes, SMT
  <2> QED
    BY <1>0, <1>1, <2>2, <2>3, <2>4, Places, SMT
<1>2. CASE w = 2
  <2>1. f = [k \in 1 .. 2 |-> (n \div Place[2 - k]) % 256]
    BY <1>2 DEF BigEndian
  <2>2. f[1] = (n \div 256) % 256 /\ f[2] = n % 256
    BY <1>0, <2>1, Places, SMT
  <2>3. f \in [1 .. 2 -> Byte]
    BY <1>0, <2>1, <2>2, SMT DEF Byte
  <2>4. Number(f) = 256 * f[1] + f[2]
    BY <2>3, NumberOfBytes, SMT
  <2> QED
    BY <1>0, <1>2, <2>2, <2>3, <2>4, Places, SMT
<1>3. CASE w = 4
  <2>1. f = [k \in 1 .. 4 |-> (n \div Place[4 - k]) % 256]
    BY <1>3 DEF BigEndian
  <2>2. /\ f[1] = (n \div 16777216) % 256 /\ f[2] = (n \div 65536) % 256
        /\ f[3] = (n \div 256) % 256 /\ f[4] = n % 256
    BY <1>0, <2>1, Places, SMT
  <2>3. f \in [1 .. 4 -> Byte]
    BY <1>0, <2>1, <2>2, SMT DEF Byte
  <2>4. Number(f) = 16777216 * f[1] + 65536 * f[2] + 256 * f[3] + f[4]
    BY <2>3, NumberOfBytes, SMT
  <2>5. 16777216 * ((n \div 16777216) % 256) + 65536 * ((n \div 65536) % 256)
                + 256 * ((n \div 256) % 256) + (n % 256) = n
    <3> DEFINE q1 == n \div 256
               q2 == q1 \div 256
               q3 == q2 \div 256
    <3>1. /\ n = 256 * q1 + (n % 256) /\ q1 = 256 * q2 + (q1 % 256)
          /\ q2 = 256 * q3 + (q2 % 256)
          /\ q1 \in Nat /\ q2 \in Nat /\ q3 \in Nat
      BY <1>0, SMT
    <3>2. n \div 65536 = q2 /\ n \div 16777216 = q3
      BY <1>0, SMT
    <3>3. q3 % 256 = q3
      BY <1>0, <1>4, <3>1, <3>2, SMT
    <3> HIDE DEF q1, q2, q3
    <3>4. n % 256 \in Int /\ q1 % 256 \in Int /\ q2 % 256 \in Int /\ q3 % 256 \in Int
      BY <1>0, <3>1, SMT
    <3>5. 16777216 * (q3 % 256) + 65536 * (q2 % 256)
                + 256 * (q1 % 256) + (n % 256) = n
      BY <3>1, <3>3, <3>4, SMT
    <3> QED
      BY <1>0, <3>2, <3>5, SMT DEF q1
  <2>6. Number(f) = n
    BY <2>2, <2>4, <2>5, SMT
  <2> QED
    BY <1>3, <2>3, <2>6, SMT
<1> QED
  BY <1>1, <1>2, <1>3

-------------------------------------------------------------------------------
(* The tables of tags.                                                     *)

LEMMA Widths ==
    /\ DOMAIN Width = 196 .. 211 \cup 217 .. 223
    /\ \A c \in {196, 199, 204, 208, 217} : Width[c] = 1
    /\ \A c \in {197, 200, 205, 209, 218, 220, 222} : Width[c] = 2
    /\ \A c \in {198, 201, 202, 206, 210, 219, 221, 223} : Width[c] = 4
    /\ \A c \in {203, 207, 211} : Width[c] = 8
    /\ \A c \in DOMAIN Width : Width[c] \in {1, 2, 4, 8}
BY DEF Width

LEMMA FixExtLengths ==
    /\ FixExtLength[212] = 1 /\ FixExtLength[213] = 2 /\ FixExtLength[214] = 4
    /\ FixExtLength[215] = 8 /\ FixExtLength[216] = 16
BY DEF FixExtLength, FixExt

-------------------------------------------------------------------------------
(* Walking over an item: what unpacking and skipping ask for.              *)

\* b begins with a tag, and the field behind it is one of bytes.
Tagged(b) ==
    /\ b[0] \in Byte
    /\ b[0] \in DOMAIN Width => \A k \in 1 .. Width[b[0]] : b[k] \in Byte

\* The value of a field is a number.
LEMMA CountIsNumber ==
    ASSUME NEW b, Tagged(b), b[0] \in DOMAIN Width
    PROVE  Width[b[0]] \in {1, 2, 4, 8} /\ Count(b) \in Nat
<1> DEFINE w == Width[b[0]]
           f == Field(b, 1, w)
<1>1. w \in {1, 2, 4, 8}
  BY Widths
<1>2. f \in [1 .. w -> Byte]
  BY <1>1 DEF Field, Tagged
<1>3. Count(b) = Number(f)
  BY DEF Count
<1> HIDE DEF f, w
<1>4. w \in Nat /\ w \in 0 .. w /\ Len(f) = w
  BY <1>1, <1>2, BytesAreSequence
<1>5. PICK v \in [0 .. w -> Nat] :
         /\ v[0] = 0
         /\ \A k \in 1 .. w : v[k] = 256 * v[k - 1] + f[k]
         /\ Number(f) = v[w]
  BY <1>2, <1>4, NumberDef, ZenonT(30)
<1>6. v[w] \in Nat
  BY <1>4, <1>5
<1>7. Count(b) \in Nat
  BY <1>3, <1>5, <1>6
<1> QED
  BY <1>1, <1>7 DEF w

\* Short sequences of asks are asks.
LEMMA ShortSteps ==
    /\ Steps(<<1>>)
    /\ \A a \in Nat : Steps(<<1, a>>)
    /\ \A a, b \in Nat : Steps(<<1, a, b>>)
    /\ \A a, b, c \in Nat : Steps(<<1, a, b, c>>)
    /\ \A a, b, c, d \in Nat : Steps(<<1, a, b, c, d>>)
BY DEF Steps

\* Skipping asks for the whole of an item, and so does unpacking unless it
\* finds an error; looking ahead does not look beyond the header.
Walks(b) ==
    LET format == Format(b)
        size   == format.length + format.payload
    IN  /\ format.length \in Nat \ {0} /\ format.payload \in Nat
        /\ format.children \in Nat
        /\ Steps(SkipAsks(b)) /\ Total(SkipAsks(b)) = size
        /\ Steps(UnpackAsks(b)) /\ Total(UnpackAsks(b)) <= size
        /\ ItemError(b) = CWP_RC_OK => Total(UnpackAsks(b)) = size
        /\ Children(b) = format.children
        /\ Peek(b) \in Nat \ {0} /\ Peek(b) <= format.length

LEMMA Walk ==
    ASSUME NEW b, Tagged(b)
    PROVE  Walks(b)
<1> DEFINE c == b[0]
<1> USE DEF FixStr, FixMap, FixArray, StrOrBin, Ext, FixExt, Container, Numeric
<1>0. c \in 0 .. 255
  BY DEF Tagged, Byte
<1>1. CASE c \in FixStr
  <2>1. Format(b) = [length |-> 1, payload |-> c - 160, children |-> 0]
    BY <1>1 DEF Format
  <2>2. SkipAsks(b) = <<1, c - 160>> /\ UnpackAsks(b) = <<1, c - 160>>
    BY <1>1 DEF SkipAsks, UnpackAsks
  <2>3. c - 160 \in Nat
    BY <1>1
  <2>4. Children(b) = 0 /\ Peek(b) = 1
    BY <1>1 DEF Children, Peek
  <2> HIDE DEF c, FixStr, FixMap, FixArray, StrOrBin, Ext, FixExt, Container, Numeric
  <2> QED
    BY <2>1, <2>2, <2>3, <2>4, Totals, ShortSteps DEF Walks
<1>2. CASE c \in StrOrBin
  <2>1. Format(b) = [length |-> 1 + Width[c], payload |-> Count(b), children |-> 0]
    BY <1>2 DEF Format
  <2>2. SkipAsks(b) = <<1, Width[c], Count(b)>> /\ UnpackAsks(b) = <<1, Width[c], Count(b)>>
    BY <1>2 DEF SkipAsks, UnpackAsks
  <2>3. Width[c] \in {1, 2, 4, 8} /\ Count(b) \in Nat
    BY <1>2, Widths, CountIsNumber
  <2>4. Children(b) = 0 /\ Peek(b) = 1
    BY <1>2 DEF Children, Peek
  <2> HIDE DEF c, FixStr, FixMap, FixArray, StrOrBin, Ext, FixExt, Container, Numeric
  <2>5. /\ Total(<<1, Width[c], Count(b)>>) = 1 + Width[c] + Count(b)
        /\ Steps(<<1, Width[c], Count(b)>>)
    BY <2>3, Totals, ShortSteps
  <2> QED
    BY <2>1, <2>2, <2>3, <2>4, <2>5 DEF Walks
<1>3. CASE c \in FixExt
  <2>1. Format(b) = [length |-> 2, payload |-> FixExtLength[c], children |-> 0]
    BY <1>3 DEF Format
  <2>2. SkipAsks(b) = <<1, FixExtLength[c] + 1>> /\ UnpackAsks(b) = <<1, FixExtLength[c] + 1>>
    BY <1>3 DEF SkipAsks, UnpackAsks
  <2>3. FixExtLength[c] \in Nat
    BY <1>3, FixExtLengths
  <2>4. Children(b) = 0 /\ Peek(b) = 2
    BY <1>3 DEF Children, Peek
  <2> HIDE DEF c, FixStr, FixMap, FixArray, StrOrBin, Ext, FixExt, Container, Numeric
  <2> QED
    BY <2>1, <2>2, <2>3, <2>4, Totals, ShortSteps DEF Walks
<1>4. CASE c \in Numeric
  <2>1. Format(b) = [length |-> 1 + Width[c], payload |-> 0, children |-> 0]
    BY <1>4 DEF Format
  <2>2. SkipAsks(b) = <<1, Width[c]>> /\ UnpackAsks(b) = <<1, Width[c]>>
    BY <1>4 DEF SkipAsks, UnpackAsks
  <2>3. Width[c] \in Nat
    BY <1>4, Widths
  <2>4. Children(b) = 0 /\ Peek(b) = 1
    BY <1>4 DEF Children, Peek
  <2> HIDE DEF c, FixStr, FixMap, FixArray, StrOrBin, Ext, FixExt, Container, Numeric
  <2> QED
    BY <2>1, <2>2, <2>3, <2>4, Totals, ShortSteps DEF Walks
<1>5. CASE c \in {220, 221}
  <2>1. Format(b) = [length |-> 1 + Width[c], payload |-> 0, children |-> Count(b)]
    BY <1>5 DEF Format
  <2>2. SkipAsks(b) = <<1, Width[c]>> /\ UnpackAsks(b) = <<1, Width[c]>>
    BY <1>5 DEF SkipAsks, UnpackAsks
  <2>3. Width[c] \in {1, 2, 4, 8} /\ Count(b) \in Nat
    BY <1>5, Widths, CountIsNumber
  <2>4. Children(b) = Count(b) /\ Peek(b) = 1
    BY <1>5 DEF Children, Peek
  <2> HIDE DEF c, FixStr, FixMap, FixArray, StrOrBin, Ext, FixExt, Container, Numeric
  <2> QED
    BY <2>1, <2>2, <2>3, <2>4, Totals, ShortSteps DEF Walks
<1>6. CASE c \in {222, 223}
  <2>1. Format(b) = [length |-> 1 + Width[c], payload |-> 0, children |-> 2 * Count(b)]
    BY <1>6 DEF Format
  <2>2. SkipAsks(b) = <<1, Width[c]>> /\ UnpackAsks(b) = <<1, Width[c]>>
    BY <1>6 DEF SkipAsks, UnpackAsks
  <2>3. Width[c] \in {1, 2, 4, 8} /\ Count(b) \in Nat
    BY <1>6, Widths, CountIsNumber
  <2>4. Children(b) = 2 * Count(b) /\ Peek(b) = 1
    BY <1>6 DEF Children, Peek
  <2> HIDE DEF c, FixStr, FixMap, FixArray, StrOrBin, Ext, FixExt, Container, Numeric
  <2> QED
    BY <2>1, <2>2, <2>3, <2>4, Totals, ShortSteps, SMTT(30) DEF Walks
<1>7. CASE c \in FixMap
  <2>1. Format(b) = [length |-> 1, payload |-> 0, children |-> 2 * (c - 128)]
    BY <1>7 DEF Format
  <2>2. SkipAsks(b) = <<1>> /\ UnpackAsks(b) = <<1>>
    BY <1>7 DEF SkipAsks, UnpackAsks
  <2>3. c - 128 \in Nat
    BY <1>7
  <2>4. Children(b) = 2 * (c - 128) /\ Peek(b) = 1
    BY <1>7 DEF Children, Peek
  <2> HIDE DEF c, FixStr, FixMap, FixArray, StrOrBin, Ext, FixExt, Container, Numeric
  <2> QED
    BY <2>1, <2>2, <2>3, <2>4, Totals, ShortSteps DEF Walks
<1>8. CASE c \in FixArray
  <2>1. Format(b) = [length |-> 1, payload |-> 0, children |-> c - 144]
    BY <1>8 DEF Format
  <2>2. SkipAsks(b) = <<1>> /\ UnpackAsks(b) = <<1>>
    BY <1>8 DEF SkipAsks, UnpackAsks
  <2>3. c - 144 \in Nat
    BY <1>8
  <2>4. Children(b) = c - 144 /\ Peek(b) = 1
    BY <1>8 DEF Children, Peek
  <2> HIDE DEF c, FixStr, FixMap, FixArray, StrOrBin, Ext, FixExt, Container, Numeric
  <2> QED
    BY <2>1, <2>2, <2>3, <2>4, Totals, ShortSteps DEF Walks
<1>9. CASE c \notin FixMap \cup FixArray \cup 160 .. 191 \cup 196 .. 223
  <2>1. Format(b) = [length |-> 1, payload |-> 0, children |-> 0]
    BY <1>9 DEF Format
  <2>2. SkipAsks(b) = <<1>> /\ UnpackAsks(b) = <<1>>
    BY <1>9 DEF SkipAsks, UnpackAsks
  <2>3. c \in Nat
    BY <1>0
  <2>4. Children(b) = 0 /\ Peek(b) = 1
    BY <1>9 DEF Children, Peek
  <2> HIDE DEF c, FixStr, FixMap, FixArray, StrOrBin, Ext, FixExt, Container, Numeric
  <2> QED
    BY <2>1, <2>2, <2>3, <2>4, Totals, ShortSteps DEF Walks
<1>10. CASE c \in Ext
  <2>1. Format(b) = [length |-> 2 + Width[c], payload |-> Count(b), children |-> 0]
    BY <1>10 DEF Format
  <2>2. /\ SkipAsks(b) = <<1, Width[c], Count(b) + 1>>
        /\ UnpackAsks(b) = IF c = 199 /\ Signed8(b[2]) = CWP_ITEM_TIMESTAMP
                           THEN IF Count(b) = 12 THEN <<1, 1, 1, 4, 8>> ELSE <<1, 1, 1>>
                           ELSE <<1, Width[c], 1, Count(b)>>
    BY <1>10 DEF SkipAsks, UnpackAsks
  <2>3. /\ Width[c] \in {1, 2, 4} /\ (c = 199 => Width[c] = 1)
        /\ Count(b) \in Nat
    BY <1>10, Widths, CountIsNumber
  <2>4. Children(b) = 0 /\ Peek(b) = 2 + Width[c]
    BY <1>10, Widths DEF Children, Peek
  <2>5. c = 199 /\ Signed8(b[2]) = CWP_ITEM_TIMESTAMP => Timestamp(b)
    BY Widths DEF Timestamp, ExtType
  <2>6. c \in Nat /\ (ItemError(b) = CWP_RC_OK /\ Timestamp(b) =>
            UnpackAsks(b) \in {<<1, 5>>, <<1, 9>>, <<1, 1, 1, 4, 8>>})
    BY <1>0 DEF ItemError, CWP_RC_OK, CWP_RC_MALFORMED_INPUT,
            CWP_RC_WRONG_TIMESTAMP_LENGTH
  <2> HIDE DEF c, FixStr, FixMap, FixArray, StrOrBin, Ext, FixExt, Container, Numeric
  <2>7. CASE c = 199 /\ Signed8(b[2]) = CWP_ITEM_TIMESTAMP
    <3>1. UnpackAsks(b) = IF Count(b) = 12 THEN <<1, 1, 1, 4, 8>> ELSE <<1, 1, 1>>
      BY <2>2, <2>7
    <3>2. Total(<<1, 1, 1>>) = 3 /\ Total(<<1, 1, 1, 4, 8>>) = 15
      BY Totals
    <3>3. <<1, 1, 1>> \notin {<<1, 5>>, <<1, 9>>, <<1, 1, 1, 4, 8>>}
      OBVIOUS
    <3>4. Total(UnpackAsks(b)) <= 3 + Count(b)
            /\ (ItemError(b) = CWP_RC_OK => Total(UnpackAsks(b)) = 3 + Count(b))
      BY <2>3, <2>5, <2>6, <2>7, <3>1, <3>2, <3>3
    <3>5. Steps(UnpackAsks(b))
      BY <3>1, ShortSteps
    <3>6. Steps(SkipAsks(b)) /\ Total(SkipAsks(b)) = 3 + Count(b)
      BY <2>2, <2>3, <2>7, Totals, ShortSteps, SMTT(30)
    <3> QED
      BY <2>1, <2>3, <2>4, <2>7, <3>4, <3>5, <3>6 DEF Walks
  <2>8. CASE ~(c = 199 /\ Signed8(b[2]) = CWP_ITEM_TIMESTAMP)
    <3>1. UnpackAsks(b) = <<1, Width[c], 1, Count(b)>>
      BY <2>2, <2>8
    <3>2. /\ Total(<<1, Width[c], 1, Count(b)>>) = 2 + Width[c] + Count(b)
          /\ Steps(<<1, Width[c], 1, Count(b)>>)
      BY <2>3, Totals, ShortSteps
    <3>3. Steps(SkipAsks(b)) /\ Total(SkipAsks(b)) = 2 + Width[c] + Count(b)
      BY <2>2, <2>3, Totals, ShortSteps
    <3> QED
      BY <2>1, <2>3, <2>4, <3>1, <3>2, <3>3 DEF Walks
  <2> QED
    BY <2>7, <2>8
<1> QED
  BY <1>0, <1>1, <1>2, <1>3, <1>4, <1>5, <1>6, <1>7, <1>8, <1>9, <1>10

-------------------------------------------------------------------------------
(* Inputs that begin with a header.                                        *)

Begins(b, header) == \A k \in 1 .. Len(header) : b[k - 1] = header[k]

\* The field behind a first part of a header is what was put there.
LEMMA FieldBehind ==
    ASSUME NEW p \in Seq(Byte), NEW f \in Seq(Byte), NEW b, Begins(b, p \o f)
    PROVE  /\ \A k \in 1 .. Len(p) : b[k - 1] = p[k]
           /\ Field(b, Len(p), Len(f)) = f
<1> DEFINE n == Len(p)
           w == Len(f)
           h == p \o f
<1>1. f = [k \in 1 .. w |-> f[k]]
  BY LenProperties
<1>2. n \in Nat /\ w \in Nat
  BY LenProperties
<1>3. /\ Len(h) = n + w
      /\ \A k \in 1 .. n + w : h[k] = IF k <= n THEN p[k] ELSE f[k - n]
  BY ConcatProperties
<1>4. \A k \in 1 .. n + w : b[k - 1] = h[k]
  BY <1>3 DEF Begins
<1> HIDE DEF h, n, w
<1>5. ASSUME NEW k \in 1 .. n PROVE b[k - 1] = p[k]
  <2>1. k \in 1 .. n + w /\ k <= n
    BY <1>2
  <2> QED
    BY <1>3, <1>4, <2>1
<1>6. ASSUME NEW k \in 1 .. w PROVE b[n + k - 1] = f[k]
  <2> DEFINE i == n + k
  <2>1. i \in 1 .. n + w /\ i - n = k /\ ~(i <= n)
    BY <1>2
  <2> HIDE DEF i
  <2>2. h[i] = f[k] /\ b[i - 1] = h[i]
    BY <1>3, <1>4, <2>1
  <2> QED
    BY <1>2, <2>2 DEF i
<1>7. Field(b, n, w) = f
  <2>1. Field(b, n, w) = [k \in 1 .. w |-> f[k]]
    BY <1>6 DEF Field
  <2> QED
    BY <1>1, <2>1
<1> QED
  BY <1>5, <1>7 DEF n, w

\* What MessagePack says of each tag.
LEMMA Formats ==
    ASSUME NEW b, b[0] \in Byte
    PROVE  LET c == b[0]
               f(length, payload, children) ==
                   [length |-> length, payload |-> payload, children |-> children]
           IN  /\ c \in FixStr => Format(b) = f(1, c - 160, 0)
               /\ c \in StrOrBin => Format(b) = f(1 + Width[c], Count(b), 0)
               /\ c \in FixExt => Format(b) = f(2, FixExtLength[c], 0)
               /\ c \in Ext => Format(b) = f(2 + Width[c], Count(b), 0)
               /\ c \in Numeric => Format(b) = f(1 + Width[c], 0, 0)
               /\ c \in {220, 221} => Format(b) = f(1 + Width[c], 0, Count(b))
               /\ c \in {222, 223} => Format(b) = f(1 + Width[c], 0, 2 * Count(b))
               /\ c \in FixArray => Format(b) = f(1, 0, c - 144)
               /\ c \in FixMap => Format(b) = f(1, 0, 2 * (c - 128))
               /\ c \in 0 .. 127 \cup 192 .. 195 \cup 224 .. 255 => Format(b) = f(1, 0, 0)
<1> USE DEF FixStr, FixMap, FixArray, StrOrBin, Ext, FixExt, Container, Numeric
<1> DEFINE c == b[0]
<1>0. c \in 0 .. 255
  BY DEF Byte
<1>1. ASSUME c \in FixStr
      PROVE  Format(b) = [length |-> 1, payload |-> c - 160, children |-> 0]
  BY <1>1 DEF Format
<1>2. ASSUME c \in StrOrBin
      PROVE  Format(b) = [length |-> 1 + Width[c], payload |-> Count(b), children |-> 0]
  BY <1>2 DEF Format
<1>3. ASSUME c \in FixExt
      PROVE  Format(b) = [length |-> 2, payload |-> FixExtLength[c], children |-> 0]
  BY <1>3 DEF Format
<1>4. ASSUME c \in Ext
      PROVE  Format(b) = [length |-> 2 + Width[c], payload |-> Count(b), children |-> 0]
  BY <1>4 DEF Format
<1>5. ASSUME c \in Numeric
      PROVE  Format(b) = [length |-> 1 + Width[c], payload |-> 0, children |-> 0]
  BY <1>5 DEF Format
<1>6. ASSUME c \in {220, 221}
      PROVE  Format(b) = [length |-> 1 + Width[c], payload |-> 0, children |-> Count(b)]
  BY <1>6 DEF Format
<1>7. ASSUME c \in {222, 223}
      PROVE  Format(b) = [length |-> 1 + Width[c], payload |-> 0, children |-> 2 * Count(b)]
  BY <1>7 DEF Format
<1>8. ASSUME c \in FixArray
      PROVE  Format(b) = [length |-> 1, payload |-> 0, children |-> c - 144]
  BY <1>8 DEF Format
<1>9. ASSUME c \in FixMap
      PROVE  Format(b) = [length |-> 1, payload |-> 0, children |-> 2 * (c - 128)]
  BY <1>9 DEF Format
<1>10. ASSUME c \in 0 .. 127 \cup 192 .. 195 \cup 224 .. 255
       PROVE  Format(b) = [length |-> 1, payload |-> 0, children |-> 0]
  BY <1>10, SMTT(30) DEF Format
<1> QED
  BY <1>1, <1>2, <1>3, <1>4, <1>5, <1>6, <1>7, <1>8, <1>9, <1>10

\* The header is one byte or the tag, its field and, in an ext, a type.
LEMMA FormatLengths ==
    ASSUME NEW b, b[0] \in Byte
    PROVE  /\ b[0] \in DOMAIN Width => Format(b).length >= 1 + Width[b[0]]
           /\ Format(b).length \in 1 .. 10
<1> USE DEF FixStr, FixMap, FixArray, StrOrBin, Ext, FixExt, Container, Numeric
<1>1. b[0] \in 0 .. 255
  BY DEF Byte
<1>2. CASE b[0] \in DOMAIN Width
  <2>1. Width[b[0]] \in {1, 2, 4, 8} /\ (b[0] \in Ext => Width[b[0]] \in {1, 2, 4})
    BY <1>2, Widths
  <2>2. Format(b).length = 1 + Width[b[0]] \/ Format(b).length = 2 + Width[b[0]]
    BY <1>1, <1>2, Widths, Formats
  <2> QED
    BY <2>1, <2>2
<1>3. CASE b[0] \notin DOMAIN Width
  BY <1>1, <1>3, Widths, Formats
<1> QED
  BY <1>2, <1>3

\* An item's format needs no more than the header.
LEMMA SameFormat ==
    ASSUME NEW g, Tagged(g), NEW b,
           \A k \in 0 .. Format(g).length - 1 : b[k] = g[k]
    PROVE  Tagged(b) /\ Format(b) = Format(g)
<1> USE DEF FixStr, FixMap, FixArray, StrOrBin, Ext, FixExt, Container, Numeric
<1>1. g[0] \in Byte /\ g[0] \in 0 .. 255
  BY DEF Tagged, Byte
<1>2. Format(g).length \in 1 .. 10
  BY <1>1, FormatLengths
<1>3. b[0] = g[0]
  BY <1>2
<1>4. ASSUME g[0] \in DOMAIN Width, NEW k \in 1 .. Width[g[0]]
      PROVE  b[k] = g[k] /\ b[k] \in Byte
  <2>1. Width[g[0]] \in {1, 2, 4, 8} /\ Format(g).length >= 1 + Width[g[0]]
    BY <1>1, <1>4, Widths, FormatLengths
  <2>2. k \in 0 .. Format(g).length - 1
    BY <1>2, <2>1
  <2> QED
    BY <1>4, <2>2 DEF Tagged
<1>5. Tagged(b)
  BY <1>1, <1>3, <1>4 DEF Tagged
<1>6. ASSUME g[0] \in DOMAIN Width PROVE Count(b) = Count(g)
  <2>1. \A k \in 1 .. Width[g[0]] : 1 + k - 1 = k
    BY <1>6, Widths
  <2>2. Field(b, 1, Width[g[0]]) = Field(g, 1, Width[g[0]])
    BY <1>4, <1>6, <2>1 DEF Field
  <2> QED
    BY <1>3, <2>2 DEF Count
<1>7. Format(b) = Format(g)
  <2>1. b[0] \in Byte
    BY <1>1, <1>3
  <2>2. CASE g[0] \in DOMAIN Width
    BY <1>1, <1>3, <1>6, <2>1, <2>2, Formats, Widths
  <2>3. CASE g[0] \notin DOMAIN Width
    BY <1>1, <1>3, <2>1, <2>3, Formats, Widths
  <2> QED
    BY <2>2, <2>3
<1> QED
  BY <1>5, <1>7

-------------------------------------------------------------------------------
(* What each tag is read as.                                               *)

\* At the beginning of b is an item of size bytes, and unpacking and looking
\* ahead find it there.
Reads(b, size, children, item) ==
    /\ Tagged(b)
    /\ Format(b).length + Format(b).payload = size
    /\ Format(b).children = children
    /\ ItemError(b) = CWP_RC_OK
    /\ UnpackItem(b) = item
    /\ AheadType(b) = item.type

LEMMA FieldTagged ==
    ASSUME NEW b, b[0] \in Byte,
           b[0] \in DOMAIN Width =>
               Field(b, 1, Width[b[0]]) \in [1 .. Width[b[0]] -> Byte]
    PROVE  Tagged(b)
<1> SUFFICES ASSUME b[0] \in DOMAIN Width, NEW k \in 1 .. Width[b[0]]
             PROVE  b[k] \in Byte
  BY DEF Tagged
<1>1. Field(b, 1, Width[b[0]])[k] \in Byte
  OBVIOUS
<1>2. Field(b, 1, Width[b[0]])[k] = b[1 + k - 1] /\ 1 + k - 1 = k
  BY Widths DEF Field
<1> QED
  BY <1>1, <1>2

LEMMA ItemParts ==
    \A b : UnpackItem(b) = [type |-> UnpackItem(b).type, as |-> UnpackItem(b).as]
BY DEF UnpackItem

\* Tags of one kind.
Nils       == {192}
FloatTags  == {202}
DoubleTags == {203}
BinTags    == 196 .. 198
StrTags    == 217 .. 219
ArrayTags  == {220, 221}
MapTags    == {222, 223}

LEMMA ReadSmall ==
    ASSUME NEW b
    PROVE  /\ b[0] \in 0 .. 127 =>
                Reads(b, 1, 0, [type |-> CWP_ITEM_POSITIVE_INTEGER,
                                as |-> ZeroExtended(<<b[0]>>)])
           /\ b[0] \in 224 .. 255 =>
                Reads(b, 1, 0, [type |-> CWP_ITEM_NEGATIVE_INTEGER,
                                as |-> SignExtended(<<b[0]>>)])
           /\ b[0] \in Nils => Reads(b, 1, 0, [type |-> CWP_ITEM_NIL, as |-> <<>>])
           /\ b[0] \in {194, 195} =>
                Reads(b, 1, 0, [type |-> CWP_ITEM_BOOLEAN, as |-> b[0] = 195])
           /\ b[0] \in FixMap =>
                Reads(b, 1, 2 * (b[0] - 128),
                      [type |-> CWP_ITEM_MAP, as |-> b[0] - 128])
           /\ b[0] \in FixArray =>
                Reads(b, 1, b[0] - 144,
                      [type |-> CWP_ITEM_ARRAY, as |-> b[0] - 144])
           /\ b[0] \in FixStr =>
                Reads(b, 1 + (b[0] - 160), 0,
                      [type |-> CWP_ITEM_STR,
                       as |-> [length |-> b[0] - 160, start |-> 1]])
<1> DEFINE c == b[0]
<1> USE DEF FixStr, FixMap, FixArray, StrOrBin, Ext, FixExt, Container, Numeric
<1>1. ASSUME c \in 0 .. 191 \cup 192 .. 195 \cup 224 .. 255 PROVE Tagged(b)
  BY <1>1, Widths DEF Tagged, Byte
<1>2. ASSUME c \in 0 .. 191 \cup {192, 194, 195} \cup 224 .. 255
      PROVE  ItemError(b) = CWP_RC_OK /\ AheadType(b) = TagType(c)
  <2>1. TagType(c) # CWP_NOT_AN_ITEM
    BY <1>2 DEF TagType, CWP_NOT_AN_ITEM, CWP_ITEM_POSITIVE_INTEGER,
       CWP_ITEM_NEGATIVE_INTEGER, CWP_ITEM_MAP, CWP_ITEM_ARRAY, CWP_ITEM_STR,
       CWP_ITEM_NIL, CWP_ITEM_BOOLEAN
  <2>2. c \notin Ext \cup FixExt \cup {199}
    BY <1>2
  <2> QED
    BY <2>1, <2>2 DEF ItemError, AheadType, Timestamp
<1> HIDE DEF c, FixStr, FixMap, FixArray, StrOrBin, Ext, FixExt, Container, Numeric
<1>3. ASSUME c \in 0 .. 127
      PROVE  Reads(b, 1, 0, [type |-> CWP_ITEM_POSITIVE_INTEGER, as |-> ZeroExtended(<<c>>)])
  <2>0. /\ c \notin FixStr \cup StrOrBin \cup Ext \cup FixExt \cup FixMap
        /\ c \notin FixArray \cup Container \cup {194, 195} \cup {202, 203}
    BY <1>3 DEF FixStr, FixMap, FixArray, StrOrBin, Ext, FixExt, Container, Numeric
  <2>1. TagType(c) = CWP_ITEM_POSITIVE_INTEGER
    BY <1>3 DEF TagType, FixStr, FixMap, FixArray, StrOrBin, Ext, FixExt, Container, Numeric
  <2>3. UnpackItem(b).type = CWP_ITEM_POSITIVE_INTEGER
    BY <1>3, <2>0, <2>1 DEF UnpackItem, c, FixMap, FixArray
  <2>4. UnpackItem(b).as = (Integer(b))
    BY <1>3, <2>0, <2>1 DEF UnpackItem, c
  <2>5. Integer(b) = ZeroExtended(<<c>>)
    BY <1>3 DEF Integer, c
  <2>6. UnpackItem(b) = [type |-> CWP_ITEM_POSITIVE_INTEGER, as |-> ZeroExtended(<<c>>)]
    BY <2>3, <2>4, <2>5, ItemParts
  <2>7. Format(b).length + Format(b).payload = 1 /\ Format(b).children = 0
    BY <1>3, Formats DEF Byte, c, FixMap, FixArray
  <2> QED
    BY <1>1, <1>2, <1>3, <2>1, <2>6, <2>7 DEF Reads, c, FixMap, FixArray
<1>4. ASSUME c \in 224 .. 255
      PROVE  Reads(b, 1, 0, [type |-> CWP_ITEM_NEGATIVE_INTEGER, as |-> SignExtended(<<c>>)])
  <2>0. /\ c \notin FixStr \cup StrOrBin \cup Ext \cup FixExt \cup FixMap
        /\ c \notin FixArray \cup Container \cup {194, 195} \cup {202, 203}
    BY <1>4 DEF FixStr, FixMap, FixArray, StrOrBin, Ext, FixExt, Container, Numeric
  <2>1. TagType(c) = CWP_ITEM_NEGATIVE_INTEGER
    BY <1>4 DEF TagType, FixStr, FixMap, FixArray, StrOrBin, Ext, FixExt, Container, Numeric
  <2>3. UnpackItem(b).type = CWP_ITEM_NEGATIVE_INTEGER
    BY <1>4, <2>0, <2>1 DEF UnpackItem, c, FixMap, FixArray
  <2>4. UnpackItem(b).as = (Integer(b))
    BY <1>4, <2>0, <2>1 DEF UnpackItem, c
  <2>5. Integer(b) = SignExtended(<<c>>)
    BY <1>4 DEF Integer, c
  <2>6. UnpackItem(b) = [type |-> CWP_ITEM_NEGATIVE_INTEGER, as |-> SignExtended(<<c>>)]
    BY <2>3, <2>4, <2>5, ItemParts
  <2>7. Format(b).length + Format(b).payload = 1 /\ Format(b).children = 0
    BY <1>4, Formats DEF Byte, c, FixMap, FixArray
  <2> QED
    BY <1>1, <1>2, <1>4, <2>1, <2>6, <2>7 DEF Reads, c, FixMap, FixArray
<1>5. ASSUME c = 192
      PROVE  Reads(b, 1, 0, [type |-> CWP_ITEM_NIL, as |-> <<>>])
  <2>0. /\ c \notin FixStr \cup StrOrBin \cup Ext \cup FixExt \cup FixMap
        /\ c \notin FixArray \cup Container \cup {194, 195} \cup {202, 203}
    BY <1>5 DEF FixStr, FixMap, FixArray, StrOrBin, Ext, FixExt, Container, Numeric
  <2>1. TagType(c) = CWP_ITEM_NIL
    BY <1>5 DEF TagType, FixStr, FixMap, FixArray, StrOrBin, Ext, FixExt, Container, Numeric
  <2>2. TagType(c) \notin {CWP_ITEM_POSITIVE_INTEGER, CWP_ITEM_NEGATIVE_INTEGER}
    BY <2>1 DEF CWP_ITEM_POSITIVE_INTEGER, CWP_ITEM_NEGATIVE_INTEGER, CWP_ITEM_NIL
  <2>3. UnpackItem(b).type = CWP_ITEM_NIL
    BY <1>5, <2>0, <2>1 DEF UnpackItem, c, FixMap, FixArray
  <2>4. UnpackItem(b).as = (<<>>)
    BY <1>5, <2>0, <2>1, <2>2 DEF UnpackItem, c
  <2>6. UnpackItem(b) = [type |-> CWP_ITEM_NIL, as |-> <<>>]
    BY <2>3, <2>4, ItemParts
  <2>7. Format(b).length + Format(b).payload = 1 /\ Format(b).children = 0
    BY <1>5, Formats DEF Byte, c, FixMap, FixArray
  <2> QED
    BY <1>1, <1>2, <1>5, <2>1, <2>6, <2>7 DEF Reads, c, FixMap, FixArray
<1>6. ASSUME c \in {194, 195}
      PROVE  Reads(b, 1, 0, [type |-> CWP_ITEM_BOOLEAN, as |-> c = 195])
  <2>0. /\ c \notin FixStr \cup StrOrBin \cup Ext \cup FixExt \cup FixMap
        /\ c \notin FixArray \cup Container \cup {202, 203}
    BY <1>6 DEF FixStr, FixMap, FixArray, StrOrBin, Ext, FixExt, Container, Numeric
  <2>1. TagType(c) = CWP_ITEM_BOOLEAN
    BY <1>6 DEF TagType, FixStr, FixMap, FixArray, StrOrBin, Ext, FixExt, Container, Numeric
  <2>2. TagType(c) \notin {CWP_ITEM_POSITIVE_INTEGER, CWP_ITEM_NEGATIVE_INTEGER}
    BY <2>1 DEF CWP_ITEM_POSITIVE_INTEGER, CWP_ITEM_NEGATIVE_INTEGER, CWP_ITEM_BOOLEAN
  <2>3. UnpackItem(b).type = CWP_ITEM_BOOLEAN
    BY <1>6, <2>0, <2>1 DEF UnpackItem, c, FixMap, FixArray
  <2>4. UnpackItem(b).as = (c = 195)
    BY <1>6, <2>0, <2>1, <2>2 DEF UnpackItem, c
  <2>6. UnpackItem(b) = [type |-> CWP_ITEM_BOOLEAN, as |-> c = 195]
    BY <2>3, <2>4, ItemParts
  <2>7. Format(b).length + Format(b).payload = 1 /\ Format(b).children = 0
    BY <1>6, Formats DEF Byte, c, FixMap, FixArray
  <2> QED
    BY <1>1, <1>2, <1>6, <2>1, <2>6, <2>7 DEF Reads, c, FixMap, FixArray
<1>7. ASSUME c \in FixMap
      PROVE  Reads(b, 1, 2 * (c - 128), [type |-> CWP_ITEM_MAP, as |-> c - 128])
  <2>0. /\ c \notin FixStr \cup StrOrBin \cup Ext \cup FixExt \cup FixArray
        /\ c \notin Container \cup {194, 195} \cup {202, 203}
    BY <1>7 DEF FixStr, FixMap, FixArray, StrOrBin, Ext, FixExt, Container, Numeric
  <2>1. TagType(c) = CWP_ITEM_MAP
    BY <1>7 DEF TagType, FixStr, FixMap, FixArray, StrOrBin, Ext, FixExt, Container, Numeric
  <2>2. TagType(c) \notin {CWP_ITEM_POSITIVE_INTEGER, CWP_ITEM_NEGATIVE_INTEGER}
    BY <2>1 DEF CWP_ITEM_POSITIVE_INTEGER, CWP_ITEM_NEGATIVE_INTEGER, CWP_ITEM_MAP
  <2>3. UnpackItem(b).type = CWP_ITEM_MAP
    BY <1>7, <2>0, <2>1 DEF UnpackItem, c, FixMap, FixArray
  <2>4. UnpackItem(b).as = (c % 16)
    BY <1>7, <2>0, <2>1, <2>2 DEF UnpackItem, c
  <2>5. c % 16 = c - 128
    BY <1>7 DEF FixMap, FixArray
  <2>6. UnpackItem(b) = [type |-> CWP_ITEM_MAP, as |-> c - 128]
    BY <2>3, <2>4, <2>5, ItemParts
  <2>7. Format(b).length + Format(b).payload = 1 /\ Format(b).children = 2 * (c - 128)
    BY <1>7, Formats DEF Byte, c, FixMap, FixArray
  <2> QED
    BY <1>1, <1>2, <1>7, <2>1, <2>6, <2>7 DEF Reads, c, FixMap, FixArray
<1>8. ASSUME c \in FixArray
      PROVE  Reads(b, 1, c - 144, [type |-> CWP_ITEM_ARRAY, as |-> c - 144])
  <2>0. /\ c \notin FixStr \cup StrOrBin \cup Ext \cup FixExt \cup FixMap
        /\ c \notin Container \cup {194, 195} \cup {202, 203}
    BY <1>8 DEF FixStr, FixMap, FixArray, StrOrBin, Ext, FixExt, Container, Numeric
  <2>1. TagType(c) = CWP_ITEM_ARRAY
    BY <1>8 DEF TagType, FixStr, FixMap, FixArray, StrOrBin, Ext, FixExt, Container, Numeric
  <2>2. TagType(c) \notin {CWP_ITEM_POSITIVE_INTEGER, CWP_ITEM_NEGATIVE_INTEGER}
    BY <2>1 DEF CWP_ITEM_POSITIVE_INTEGER, CWP_ITEM_NEGATIVE_INTEGER, CWP_ITEM_ARRAY
  <2>3. UnpackItem(b).type = CWP_ITEM_ARRAY
    BY <1>8, <2>0, <2>1 DEF UnpackItem, c, FixMap, FixArray
  <2>4. UnpackItem(b).as = (c % 16)
    BY <1>8, <2>0, <2>1, <2>2 DEF UnpackItem, c
  <2>5. c % 16 = c - 144
    BY <1>8 DEF FixMap, FixArray
  <2>6. UnpackItem(b) = [type |-> CWP_ITEM_ARRAY, as |-> c - 144]
    BY <2>3, <2>4, <2>5, ItemParts
  <2>7. Format(b).length + Format(b).payload = 1 /\ Format(b).children = c - 144
    BY <1>8, Formats DEF Byte, c, FixMap, FixArray
  <2> QED
    BY <1>1, <1>2, <1>8, <2>1, <2>6, <2>7 DEF Reads, c, FixMap, FixArray
<1>9. ASSUME c \in FixStr
      PROVE  Reads(b, 1 + (c - 160), 0,
                   [type |-> CWP_ITEM_STR,
                    as |-> [length |-> c - 160, start |-> 1]])
  <2>0. /\ c \notin StrOrBin \cup Ext \cup FixExt \cup FixMap \cup FixArray
        /\ c \notin Container \cup {194, 195} \cup {202, 203}
    BY <1>9 DEF FixStr, FixMap, FixArray, StrOrBin, Ext, FixExt, Container, Numeric
  <2>1. TagType(c) = CWP_ITEM_STR
    BY <1>9 DEF TagType, FixStr, FixMap, FixArray, StrOrBin, Ext, FixExt, Container, Numeric
  <2>2. TagType(c) \notin {CWP_ITEM_POSITIVE_INTEGER, CWP_ITEM_NEGATIVE_INTEGER}
    BY <2>1 DEF CWP_ITEM_POSITIVE_INTEGER, CWP_ITEM_NEGATIVE_INTEGER, CWP_ITEM_STR
  <2>3. UnpackItem(b).type = CWP_ITEM_STR
    BY <1>9, <2>0, <2>1 DEF UnpackItem, c, FixStr
  <2>4. UnpackItem(b).as = Blob(b)
    BY <1>9, <2>0, <2>1, <2>2 DEF UnpackItem, c
  <2>5. UnpackAsks(b) = <<1, c - 160>>
    BY <1>9 DEF UnpackAsks, c, FixStr, FixMap, FixArray, StrOrBin, Ext, FixExt, Container, Numeric
  <2>6. c - 160 \in Nat
    BY <1>9 DEF FixStr
  <2> DEFINE l == c - 160
  <2>7. Total(<<1, l>>) = 1 + l
    <3> HIDE DEF l
    <3> QED
      BY <2>6, Totals DEF l
  <2>8. Blob(b) = [length |-> c - 160, start |-> 1]
    BY <2>0, <2>5, <2>6, <2>7 DEF Blob, c
  <2>9. UnpackItem(b) = [type |-> CWP_ITEM_STR,
                         as |-> [length |-> c - 160, start |-> 1]]
    BY <2>3, <2>4, <2>8, ItemParts
  <2>10. Format(b).length + Format(b).payload = 1 + (c - 160) /\ Format(b).children = 0
    BY <1>9, Formats DEF Byte, c, FixStr
  <2> QED
    BY <1>1, <1>2, <1>9, <2>1, <2>9, <2>10 DEF Reads, c, FixStr
<1> QED
  BY <1>3, <1>4, <1>5, <1>6, <1>7, <1>8, <1>9 DEF c, Nils

LEMMA TagTypes ==
    ASSUME NEW c \in Byte
    PROVE  /\ c \in 0 .. 127 \cup 204 .. 207 => TagType(c) = CWP_ITEM_POSITIVE_INTEGER
           /\ c \in 224 .. 255 \cup 208 .. 211 => TagType(c) = CWP_ITEM_NEGATIVE_INTEGER
           /\ c \in FixMap \cup {222, 223} => TagType(c) = CWP_ITEM_MAP
           /\ c \in FixArray \cup {220, 221} => TagType(c) = CWP_ITEM_ARRAY
           /\ c \in FixStr \cup 217 .. 219 => TagType(c) = CWP_ITEM_STR
           /\ c \in 196 .. 198 => TagType(c) = CWP_ITEM_BIN
           /\ c \in Ext \cup FixExt => TagType(c) = CWP_ITEM_EXT
           /\ c = 202 => TagType(c) = CWP_ITEM_FLOAT
           /\ c = 203 => TagType(c) = CWP_ITEM_DOUBLE
           /\ c = 192 => TagType(c) = CWP_ITEM_NIL
           /\ c \in {194, 195} => TagType(c) = CWP_ITEM_BOOLEAN
           /\ c = 193 => TagType(c) = CWP_NOT_AN_ITEM
           /\ c # 193 => TagType(c) # CWP_NOT_AN_ITEM
<1>1. ASSUME c \in 0 .. 127 \cup 204 .. 207 PROVE TagType(c) = CWP_ITEM_POSITIVE_INTEGER
  BY <1>1 DEF TagType, FixStr, FixMap, FixArray, StrOrBin, Ext, FixExt, Container, Numeric
<1>2. ASSUME c \in 224 .. 255 \cup 208 .. 211 PROVE TagType(c) = CWP_ITEM_NEGATIVE_INTEGER
  BY <1>2 DEF TagType, FixStr, FixMap, FixArray, StrOrBin, Ext, FixExt, Container, Numeric
<1>3. ASSUME c \in FixMap \cup {222, 223} PROVE TagType(c) = CWP_ITEM_MAP
  BY <1>3 DEF TagType, FixStr, FixMap, FixArray, StrOrBin, Ext, FixExt, Container, Numeric
<1>4. ASSUME c \in FixArray \cup {220, 221} PROVE TagType(c) = CWP_ITEM_ARRAY
  BY <1>4 DEF TagType, FixStr, FixMap, FixArray, StrOrBin, Ext, FixExt, Container, Numeric
<1>5. ASSUME c \in FixStr \cup 217 .. 219 PROVE TagType(c) = CWP_ITEM_STR
  BY <1>5 DEF TagType, FixStr, FixMap, FixArray, StrOrBin, Ext, FixExt, Container, Numeric
<1>6. ASSUME c \in 196 .. 198 PROVE TagType(c) = CWP_ITEM_BIN
  BY <1>6 DEF TagType, FixStr, FixMap, FixArray, StrOrBin, Ext, FixExt, Container, Numeric
<1>7. ASSUME c \in Ext \cup FixExt PROVE TagType(c) = CWP_ITEM_EXT
  BY <1>7 DEF TagType, FixStr, FixMap, FixArray, StrOrBin, Ext, FixExt, Container, Numeric
<1>8. ASSUME c = 202 PROVE TagType(c) = CWP_ITEM_FLOAT
  BY <1>8 DEF TagType, FixStr, FixMap, FixArray, StrOrBin, Ext, FixExt, Container, Numeric
<1>9. ASSUME c = 203 PROVE TagType(c) = CWP_ITEM_DOUBLE
  BY <1>9 DEF TagType, FixStr, FixMap, FixArray, StrOrBin, Ext, FixExt, Container, Numeric
<1>10. ASSUME c = 192 PROVE TagType(c) = CWP_ITEM_NIL
  BY <1>10 DEF TagType, FixStr, FixMap, FixArray, StrOrBin, Ext, FixExt, Container, Numeric
<1>11. ASSUME c \in {194, 195} PROVE TagType(c) = CWP_ITEM_BOOLEAN
  BY <1>11 DEF TagType, FixStr, FixMap, FixArray, StrOrBin, Ext, FixExt, Container, Numeric
<1>12. ASSUME c = 193 PROVE TagType(c) = CWP_NOT_AN_ITEM
  BY <1>12 DEF TagType, FixStr, FixMap, FixArray, StrOrBin, Ext, FixExt, Container, Numeric
<1>13. ASSUME c # 193 PROVE TagType(c) # CWP_NOT_AN_ITEM
  <2>1. c \in 0 .. 255 /\ c # 193
    BY <1>13 DEF Byte
  <2>2. \/ c \in 0 .. 127 \cup 204 .. 207 \cup 224 .. 255 \cup 208 .. 211
        \/ c \in FixMap \cup {222, 223} \cup FixArray \cup {220, 221}
        \/ c \in FixStr \cup 217 .. 219 \cup 196 .. 198 \cup Ext \cup FixExt
        \/ c \in {202, 203, 192, 194, 195}
    BY <2>1 DEF FixStr, FixMap, FixArray, StrOrBin, Ext, FixExt, Container, Numeric
  <2> QED
    BY <2>2, <1>1, <1>2, <1>3, <1>4, <1>5, <1>6, <1>7, <1>8, <1>9, <1>10, <1>11
       DEF CWP_NOT_AN_ITEM, CWP_ITEM_POSITIVE_INTEGER, CWP_ITEM_NEGATIVE_INTEGER,
           CWP_ITEM_MAP, CWP_ITEM_ARRAY, CWP_ITEM_STR, CWP_ITEM_BIN, CWP_ITEM_EXT,
           CWP_ITEM_FLOAT, CWP_ITEM_DOUBLE, CWP_ITEM_NIL, CWP_ITEM_BOOLEAN
<1> QED
  BY <1>1, <1>2, <1>3, <1>4, <1>5, <1>6, <1>7, <1>8, <1>9, <1>10, <1>11, <1>12, <1>13

LEMMA ReadWide ==
    ASSUME NEW b, b[0] \in Byte, b[0] \in DOMAIN Width,
           NEW w, Width[b[0]] = w,
           NEW f \in [1 .. w -> Byte], Field(b, 1, w) = f
    PROVE  /\ b[0] \in 204 .. 207 =>
                Reads(b, 1 + w, 0, [type |-> CWP_ITEM_POSITIVE_INTEGER,
                                    as |-> ZeroExtended(f)])
           /\ b[0] \in 208 .. 211 /\ Negative(SignExtended(f)) =>
                Reads(b, 1 + w, 0, [type |-> CWP_ITEM_NEGATIVE_INTEGER,
                                    as |-> SignExtended(f)])
           /\ b[0] \in FloatTags => Reads(b, 1 + w, 0, [type |-> CWP_ITEM_FLOAT, as |-> f])
           /\ b[0] \in DoubleTags => Reads(b, 1 + w, 0, [type |-> CWP_ITEM_DOUBLE, as |-> f])
           /\ b[0] \in ArrayTags =>
                Reads(b, 1 + w, Number(f), [type |-> CWP_ITEM_ARRAY, as |-> Number(f)])
           /\ b[0] \in MapTags =>
                Reads(b, 1 + w, 2 * Number(f), [type |-> CWP_ITEM_MAP, as |-> Number(f)])
           /\ b[0] \in StrTags =>
                Reads(b, 1 + w + Number(f), 0,
                      [type |-> CWP_ITEM_STR,
                       as |-> [length |-> Number(f), start |-> 1 + w]])
           /\ b[0] \in BinTags =>
                Reads(b, 1 + w + Number(f), 0,
                      [type |-> CWP_ITEM_BIN,
                       as |-> [length |-> Number(f), start |-> 1 + w]])
<1> DEFINE c == b[0]
<1>0. c \in Byte
  OBVIOUS
<1>1. Tagged(b)
  BY FieldTagged
<1>2. w \in {1, 2, 4, 8} /\ c \in 196 .. 211 \cup 217 .. 223
  BY Widths, SMTT(30)
<1>3. Count(b) = Number(f) /\ Number(f) \in Nat
  <2>1. Count(b) \in Nat
    BY <1>1, CountIsNumber
  <2> QED
    BY <2>1 DEF Count
<1>4. ASSUME c \notin 199 .. 201
      PROVE  ItemError(b) = CWP_RC_OK /\ AheadType(b) = TagType(c)
  <2>1. TagType(c) # CWP_NOT_AN_ITEM
    <3> HIDE DEF c
    <3>1. c # 193
      BY <1>2
    <3> QED
      BY <1>0, <3>1, TagTypes
  <2>2. c \notin Ext \cup FixExt \cup {199}
    <3> HIDE DEF c
    <3> QED
      BY <1>2, <1>4 DEF Ext, FixExt
  <2> QED
    BY <2>1, <2>2 DEF ItemError, AheadType, Timestamp
<1> HIDE DEF c
<1>5. ASSUME c \in 204 .. 207
      PROVE  Reads(b, 1 + w, 0,
                   [type |-> CWP_ITEM_POSITIVE_INTEGER, as |-> ZeroExtended(f)])
  <2>0. /\ c \notin FixStr \cup StrOrBin \cup Ext \cup FixExt \cup FixMap
        /\ c \notin FixArray \cup Container \cup {194, 195} \cup {202, 203}
    BY <1>5 DEF FixStr, FixMap, FixArray, StrOrBin, Ext, FixExt, Container, Numeric
  <2>1. TagType(c) = CWP_ITEM_POSITIVE_INTEGER
    BY <1>5, <1>0, TagTypes
  <2>3. UnpackItem(b).as = Integer(b)
    BY <1>5, <2>0, <2>1 DEF UnpackItem, c
  <2>6. Integer(b) = ZeroExtended(f)
    BY <1>5 DEF Integer, c
  <2>7. UnpackItem(b).type = CWP_ITEM_POSITIVE_INTEGER
    BY <1>5, <2>0, <2>1 DEF UnpackItem, c
  <2>8. UnpackItem(b) = [type |-> CWP_ITEM_POSITIVE_INTEGER, as |-> ZeroExtended(f)]
    BY <2>3, <2>6, <2>7, ItemParts
  <2>9. Format(b).length + Format(b).payload = 1 + w /\ Format(b).children = 0
    BY <1>2, <1>3, <1>5, Formats DEF c, StrOrBin, Numeric
  <2> QED
    BY <1>1, <1>4, <1>5, <2>1, <2>8, <2>9 DEF Reads
<1>6. ASSUME c \in 208 .. 211, Negative(SignExtended(f))
      PROVE  Reads(b, 1 + w, 0,
                   [type |-> CWP_ITEM_NEGATIVE_INTEGER, as |-> SignExtended(f)])
  <2>0. /\ c \notin FixStr \cup StrOrBin \cup Ext \cup FixExt \cup FixMap
        /\ c \notin FixArray \cup Container \cup {194, 195} \cup {202, 203}
    BY <1>6 DEF FixStr, FixMap, FixArray, StrOrBin, Ext, FixExt, Container, Numeric
  <2>1. TagType(c) = CWP_ITEM_NEGATIVE_INTEGER
    BY <1>6, <1>0, TagTypes
  <2>3. UnpackItem(b).as = Integer(b)
    BY <1>6, <2>0, <2>1 DEF UnpackItem, c
  <2>6. Integer(b) = SignExtended(f)
    BY <1>6 DEF Integer, c
  <2>7. UnpackItem(b).type = CWP_ITEM_NEGATIVE_INTEGER
    BY <1>6, <2>0, <2>1, <2>6 DEF UnpackItem, c
  <2>8. UnpackItem(b) = [type |-> CWP_ITEM_NEGATIVE_INTEGER, as |-> SignExtended(f)]
    BY <2>3, <2>6, <2>7, ItemParts
  <2>9. Format(b).length + Format(b).payload = 1 + w /\ Format(b).children = 0
    BY <1>2, <1>3, <1>6, Formats DEF c, StrOrBin, Numeric
  <2> QED
    BY <1>1, <1>4, <1>6, <2>1, <2>8, <2>9 DEF Reads
<1>7. ASSUME c = 202
      PROVE  Reads(b, 1 + w, 0,
                   [type |-> CWP_ITEM_FLOAT, as |-> f])
  <2>0. /\ c \notin FixStr \cup StrOrBin \cup Ext \cup FixExt \cup FixMap
        /\ c \notin FixArray \cup Container \cup {194, 195}
        /\ c \in {202, 203}
    BY <1>7 DEF FixStr, FixMap, FixArray, StrOrBin, Ext, FixExt, Container, Numeric
  <2>1. TagType(c) = CWP_ITEM_FLOAT
    BY <1>7, <1>0, TagTypes
  <2>2. TagType(c) \notin {CWP_ITEM_POSITIVE_INTEGER, CWP_ITEM_NEGATIVE_INTEGER}
    BY <2>1 DEF CWP_ITEM_POSITIVE_INTEGER, CWP_ITEM_NEGATIVE_INTEGER, CWP_ITEM_FLOAT
  <2>3. UnpackItem(b).as = Field(b, 1, Width[c])
    BY <1>7, <2>0, <2>1, <2>2 DEF UnpackItem, c
  <2>6. Field(b, 1, Width[c]) = f
    BY <1>3 DEF c
  <2>7. UnpackItem(b).type = CWP_ITEM_FLOAT
    BY <1>7, <2>0, <2>1 DEF UnpackItem, c
  <2>8. UnpackItem(b) = [type |-> CWP_ITEM_FLOAT, as |-> f]
    BY <2>3, <2>6, <2>7, ItemParts
  <2>9. Format(b).length + Format(b).payload = 1 + w /\ Format(b).children = 0
    BY <1>2, <1>3, <1>7, Formats DEF c, StrOrBin, Numeric
  <2> QED
    BY <1>1, <1>4, <1>7, <2>1, <2>8, <2>9 DEF Reads
<1>8. ASSUME c = 203
      PROVE  Reads(b, 1 + w, 0,
                   [type |-> CWP_ITEM_DOUBLE, as |-> f])
  <2>0. /\ c \notin FixStr \cup StrOrBin \cup Ext \cup FixExt \cup FixMap
        /\ c \notin FixArray \cup Container \cup {194, 195}
        /\ c \in {202, 203}
    BY <1>8 DEF FixStr, FixMap, FixArray, StrOrBin, Ext, FixExt, Container, Numeric
  <2>1. TagType(c) = CWP_ITEM_DOUBLE
    BY <1>8, <1>0, TagTypes
  <2>2. TagType(c) \notin {CWP_ITEM_POSITIVE_INTEGER, CWP_ITEM_NEGATIVE_INTEGER}
    BY <2>1 DEF CWP_ITEM_POSITIVE_INTEGER, CWP_ITEM_NEGATIVE_INTEGER, CWP_ITEM_DOUBLE
  <2>3. UnpackItem(b).as = Field(b, 1, Width[c])
    BY <1>8, <2>0, <2>1, <2>2 DEF UnpackItem, c
  <2>6. Field(b, 1, Width[c]) = f
    BY <1>3 DEF c
  <2>7. UnpackItem(b).type = CWP_ITEM_DOUBLE
    BY <1>8, <2>0, <2>1 DEF UnpackItem, c
  <2>8. UnpackItem(b) = [type |-> CWP_ITEM_DOUBLE, as |-> f]
    BY <2>3, <2>6, <2>7, ItemParts
  <2>9. Format(b).length + Format(b).payload = 1 + w /\ Format(b).children = 0
    BY <1>2, <1>3, <1>8, Formats DEF c, StrOrBin, Numeric
  <2> QED
    BY <1>1, <1>4, <1>8, <2>1, <2>8, <2>9 DEF Reads
<1>9. ASSUME c \in {220, 221}
      PROVE  Reads(b, 1 + w, Number(f),
                   [type |-> CWP_ITEM_ARRAY, as |-> Number(f)])
  <2>0. /\ c \notin FixStr \cup StrOrBin \cup Ext \cup FixExt \cup FixMap
        /\ c \notin FixArray \cup {194, 195} \cup {202, 203}
        /\ c \in Container
    BY <1>9 DEF FixStr, FixMap, FixArray, StrOrBin, Ext, FixExt, Container, Numeric
  <2>1. TagType(c) = CWP_ITEM_ARRAY
    BY <1>9, <1>0, TagTypes
  <2>2. TagType(c) \notin {CWP_ITEM_POSITIVE_INTEGER, CWP_ITEM_NEGATIVE_INTEGER}
    BY <2>1 DEF CWP_ITEM_POSITIVE_INTEGER, CWP_ITEM_NEGATIVE_INTEGER, CWP_ITEM_ARRAY
  <2>3. UnpackItem(b).as = Count(b)
    BY <1>9, <2>0, <2>1, <2>2 DEF UnpackItem, c
  <2>6. Count(b) = Number(f)
    BY <1>3 DEF c
  <2>7. UnpackItem(b).type = CWP_ITEM_ARRAY
    BY <1>9, <2>0, <2>1 DEF UnpackItem, c
  <2>8. UnpackItem(b) = [type |-> CWP_ITEM_ARRAY, as |-> Number(f)]
    BY <2>3, <2>6, <2>7, ItemParts
  <2>9. Format(b).length + Format(b).payload = 1 + w /\ Format(b).children = Number(f)
    BY <1>2, <1>3, <1>9, Formats, SMTT(30) DEF c, StrOrBin, Numeric
  <2> QED
    BY <1>1, <1>4, <1>9, <2>1, <2>8, <2>9 DEF Reads
<1>10. ASSUME c \in {222, 223}
      PROVE  Reads(b, 1 + w, 2 * Number(f),
                   [type |-> CWP_ITEM_MAP, as |-> Number(f)])
  <2>0. /\ c \notin FixStr \cup StrOrBin \cup Ext \cup FixExt \cup FixMap
        /\ c \notin FixArray \cup {194, 195} \cup {202, 203}
        /\ c \in Container
    BY <1>10 DEF FixStr, FixMap, FixArray, StrOrBin, Ext, FixExt, Container, Numeric
  <2>1. TagType(c) = CWP_ITEM_MAP
    BY <1>10, <1>0, TagTypes
  <2>2. TagType(c) \notin {CWP_ITEM_POSITIVE_INTEGER, CWP_ITEM_NEGATIVE_INTEGER}
    BY <2>1 DEF CWP_ITEM_POSITIVE_INTEGER, CWP_ITEM_NEGATIVE_INTEGER, CWP_ITEM_MAP
  <2>3. UnpackItem(b).as = Count(b)
    BY <1>10, <2>0, <2>1, <2>2 DEF UnpackItem, c
  <2>6. Count(b) = Number(f)
    BY <1>3 DEF c
  <2>7. UnpackItem(b).type = CWP_ITEM_MAP
    BY <1>10, <2>0, <2>1 DEF UnpackItem, c
  <2>8. UnpackItem(b) = [type |-> CWP_ITEM_MAP, as |-> Number(f)]
    BY <2>3, <2>6, <2>7, ItemParts
  <2>9. Format(b).length + Format(b).payload = 1 + w /\ Format(b).children = 2 * Number(f)
    <3>1. Format(b) = [length |-> 1 + w, payload |-> 0, children |-> 2 * Count(b)]
      BY <1>10, Formats DEF c
    <3> QED
      BY <1>2, <1>3, <3>1
  <2> QED
    BY <1>1, <1>4, <1>10, <2>1, <2>8, <2>9 DEF Reads
<1>11. ASSUME c \in 217 .. 219
      PROVE  Reads(b, 1 + w + Number(f), 0,
                   [type |-> CWP_ITEM_STR, as |-> [length |-> Number(f), start |-> 1 + w]])
  <2>0. /\ c \notin FixStr \cup Ext \cup FixExt \cup FixMap \cup FixArray
        /\ c \notin Container \cup {194, 195} \cup {202, 203} \cup Numeric
        /\ c \in StrOrBin
    BY <1>11 DEF FixStr, FixMap, FixArray, StrOrBin, Ext, FixExt, Container, Numeric
  <2>1. TagType(c) = CWP_ITEM_STR
    BY <1>11, <1>0, TagTypes
  <2>2. TagType(c) \notin {CWP_ITEM_POSITIVE_INTEGER, CWP_ITEM_NEGATIVE_INTEGER}
    BY <2>1 DEF CWP_ITEM_POSITIVE_INTEGER, CWP_ITEM_NEGATIVE_INTEGER, CWP_ITEM_STR
  <2>3. UnpackItem(b).as = Blob(b)
    BY <1>11, <2>0, <2>1, <2>2 DEF UnpackItem, c
  <2>4. UnpackAsks(b) = <<1, w, Number(f)>>
    BY <1>3, <2>0 DEF UnpackAsks, c
  <2>5. Total(<<1, w, Number(f)>>) = 1 + w + Number(f)
    BY <1>2, <1>3, Totals
  <2>6. Blob(b) = [length |-> Number(f), start |-> 1 + w]
    BY <1>2, <1>3, <2>0, <2>4, <2>5 DEF Blob, c
  <2>7. UnpackItem(b).type = CWP_ITEM_STR
    BY <1>11, <2>0, <2>1 DEF UnpackItem, c
  <2>8. UnpackItem(b) = [type |-> CWP_ITEM_STR, as |-> [length |-> Number(f), start |-> 1 + w]]
    BY <2>3, <2>6, <2>7, ItemParts
  <2>9. Format(b).length + Format(b).payload = 1 + w + Number(f) /\ Format(b).children = 0
    BY <1>2, <1>3, <1>11, Formats DEF c, StrOrBin, Numeric
  <2> QED
    BY <1>1, <1>4, <1>11, <2>1, <2>8, <2>9 DEF Reads
<1>12. ASSUME c \in 196 .. 198
      PROVE  Reads(b, 1 + w + Number(f), 0,
                   [type |-> CWP_ITEM_BIN, as |-> [length |-> Number(f), start |-> 1 + w]])
  <2>0. /\ c \notin FixStr \cup Ext \cup FixExt \cup FixMap \cup FixArray
        /\ c \notin Container \cup {194, 195} \cup {202, 203} \cup Numeric
        /\ c \in StrOrBin
    BY <1>12 DEF FixStr, FixMap, FixArray, StrOrBin, Ext, FixExt, Container, Numeric
  <2>1. TagType(c) = CWP_ITEM_BIN
    BY <1>12, <1>0, TagTypes
  <2>2. TagType(c) \notin {CWP_ITEM_POSITIVE_INTEGER, CWP_ITEM_NEGATIVE_INTEGER}
    BY <2>1 DEF CWP_ITEM_POSITIVE_INTEGER, CWP_ITEM_NEGATIVE_INTEGER, CWP_ITEM_BIN
  <2>3. UnpackItem(b).as = Blob(b)
    BY <1>12, <2>0, <2>1, <2>2 DEF UnpackItem, c
  <2>4. UnpackAsks(b) = <<1, w, Number(f)>>
    BY <1>3, <2>0 DEF UnpackAsks, c
  <2>5. Total(<<1, w, Number(f)>>) = 1 + w + Number(f)
    BY <1>2, <1>3, Totals
  <2>6. Blob(b) = [length |-> Number(f), start |-> 1 + w]
    BY <1>2, <1>3, <2>0, <2>4, <2>5 DEF Blob, c
  <2>7. UnpackItem(b).type = CWP_ITEM_BIN
    BY <1>12, <2>0, <2>1 DEF UnpackItem, c
  <2>8. UnpackItem(b) = [type |-> CWP_ITEM_BIN, as |-> [length |-> Number(f), start |-> 1 + w]]
    BY <2>3, <2>6, <2>7, ItemParts
  <2>9. Format(b).length + Format(b).payload = 1 + w + Number(f) /\ Format(b).children = 0
    BY <1>2, <1>3, <1>12, Formats DEF c, StrOrBin, Numeric
  <2> QED
    BY <1>1, <1>4, <1>12, <2>1, <2>8, <2>9 DEF Reads
<1> QED
  BY <1>5, <1>6, <1>7, <1>8, <1>9, <1>10, <1>11, <1>12 DEF c, FloatTags, DoubleTags,
     BinTags, StrTags, ArrayTags, MapTags

\* An ext item of any type but that of the timestamps.
LEMMA ReadExt ==
    ASSUME NEW b, b[0] \in Byte, NEW t, t # CWP_ITEM_TIMESTAMP
    PROVE  /\ b[0] \in FixExt /\ Signed8(b[1]) = t =>
                Reads(b, 2 + FixExtLength[b[0]], 0,
                      [type |-> t, as |-> [length |-> FixExtLength[b[0]], start |-> 2]])
           /\ \A w, f :
                b[0] \in Ext /\ w = Width[b[0]] /\ f \in [1 .. w -> Byte]
                    /\ Field(b, 1, w) = f /\ Signed8(b[1 + w]) = t =>
                Reads(b, 2 + w + Number(f), 0,
                      [type |-> t, as |-> [length |-> Number(f), start |-> 2 + w]])
<1> DEFINE c == b[0]
<1>0. c \in Byte
  OBVIOUS
<1>1. ASSUME c \in FixExt, Signed8(b[1]) = t
      PROVE  Reads(b, 2 + FixExtLength[c], 0,
                   [type |-> t, as |-> [length |-> FixExtLength[c], start |-> 2]])
  <2> DEFINE n == FixExtLength[c]
  <2>1. /\ c \in 212 .. 216 /\ c \notin FixStr \cup StrOrBin \cup FixMap \cup FixArray
        /\ c \notin Ext \cup Container \cup {194, 195, 202, 203, 199, 200, 201}
        /\ c \notin DOMAIN Width \cup Numeric
    BY <1>1, Widths
       DEF FixStr, FixMap, FixArray, StrOrBin, Ext, FixExt, Container, Numeric
  <2>2. n \in Nat
    BY <2>1, FixExtLengths
  <2>3. TagType(c) = CWP_ITEM_EXT
    BY <1>0, <1>1, TagTypes
  <2>4. TagType(c) \notin {CWP_ITEM_POSITIVE_INTEGER, CWP_ITEM_NEGATIVE_INTEGER}
          /\ TagType(c) # CWP_NOT_AN_ITEM
    BY <2>3 DEF CWP_ITEM_POSITIVE_INTEGER, CWP_ITEM_NEGATIVE_INTEGER, CWP_ITEM_EXT,
       CWP_NOT_AN_ITEM
  <2>5. Tagged(b)
    BY <2>1 DEF Tagged
  <2>6. ExtType(b) = t
    BY <1>1 DEF ExtType
  <2>7. ~Timestamp(b)
    BY <2>6 DEF Timestamp
  <2>8. UnpackAsks(b) = <<1, n + 1>>
    BY <1>1, <2>1 DEF UnpackAsks
  <2>9. Total(<<1, n + 1>>) = 2 + n
    <3> HIDE DEF n
    <3>1. Total(<<1, n + 1>>) = 1 + (n + 1)
      BY <2>2, Totals
    <3> QED
      BY <2>2, <3>1
  <2>10. Format(b).length + Format(b).payload = 2 + n /\ Format(b).children = 0
    BY <1>1, Formats
  <2>11. AheadType(b) = t
    <3>1. Peek(b) = 2
      BY <1>1, <2>1 DEF Peek
    <3> QED
      BY <1>1, <3>1 DEF AheadType
  <2> HIDE DEF c
  <2>12. UnpackItem(b).type = t
    BY <1>1, <2>6 DEF UnpackItem, c
  <2>13. UnpackItem(b).as = Blob(b)
    BY <1>1, <2>1, <2>4, <2>7 DEF UnpackItem, c
  <2>14. Blob(b) = [length |-> n, start |-> 2]
    <3> HIDE DEF n
    <3>1. Total(UnpackAsks(b)) = 2 + n
      BY <2>8, <2>9
    <3>2. b[0] \in FixExt /\ FixExtLength[b[0]] = n
      BY <1>1 DEF c, n
    <3>3. Total(UnpackAsks(b)) - n = 2
      BY <2>2, <3>1
    <3> QED
      BY <3>2, <3>3, Zenon DEF Blob
  <2>15. UnpackItem(b) = [type |-> t, as |-> [length |-> n, start |-> 2]]
    BY <2>12, <2>13, <2>14, ItemParts
  <2>16. ItemError(b) = CWP_RC_OK
    BY <2>4, <2>7 DEF ItemError, c
  <2> QED
    BY <2>5, <2>10, <2>11, <2>15, <2>16 DEF Reads
<1>2. ASSUME c \in Ext, NEW w, w = Width[c], NEW f \in [1 .. w -> Byte],
             Field(b, 1, w) = f, Signed8(b[1 + w]) = t
      PROVE  Reads(b, 2 + w + Number(f), 0,
                   [type |-> t, as |-> [length |-> Number(f), start |-> 2 + w]])
  <2> DEFINE n == Number(f)
  <2>1. /\ c \in 199 .. 201 /\ c \notin FixStr \cup StrOrBin \cup FixMap \cup FixArray
        /\ c \notin FixExt \cup Container \cup {194, 195, 202, 203} \cup Numeric
    <3> HIDE DEF c
    <3> QED
      BY <1>2
         DEF FixStr, FixMap, FixArray, StrOrBin, Ext, FixExt, Container, Numeric
  <2>2. /\ w \in {1, 2, 4} /\ c \in DOMAIN Width
        /\ (c = 199 /\ w = 1) \/ (c = 200 /\ w = 2) \/ (c = 201 /\ w = 4)
    <3> HIDE DEF c
    <3>1. c = 199 \/ c = 200 \/ c = 201
      BY <2>1
    <3>2. /\ Width[199] = 1 /\ Width[200] = 2 /\ Width[201] = 4
          /\ 199 \in DOMAIN Width /\ 200 \in DOMAIN Width /\ 201 \in DOMAIN Width
      BY Widths
    <3> QED
      BY <1>2, <3>1, <3>2
  <2>3. TagType(c) = CWP_ITEM_EXT
    BY <1>0, <1>2, TagTypes
  <2>4. TagType(c) \notin {CWP_ITEM_POSITIVE_INTEGER, CWP_ITEM_NEGATIVE_INTEGER}
          /\ TagType(c) # CWP_NOT_AN_ITEM
    BY <2>3 DEF CWP_ITEM_POSITIVE_INTEGER, CWP_ITEM_NEGATIVE_INTEGER, CWP_ITEM_EXT,
       CWP_NOT_AN_ITEM
  <2>5. Tagged(b)
    BY <1>2, FieldTagged
  <2>6. ExtType(b) = t
    BY <1>2, <2>1 DEF ExtType
  <2>7. ~Timestamp(b)
    BY <2>6 DEF Timestamp
  <2>8. Count(b) = n /\ n \in Nat
    BY <1>2, <2>2, <2>5, CountIsNumber DEF Count
  <2>9. ~(c = 199 /\ Signed8(b[2]) = CWP_ITEM_TIMESTAMP)
    BY <1>2, <2>2
  <2>10. Format(b).length + Format(b).payload = 2 + w + n /\ Format(b).children = 0
    BY <1>2, <2>8, Formats
  <2>11. AheadType(b) = t
    <3>1. Peek(b) = 2 + w
      BY <2>2 DEF Peek, FixExt
    <3>2. Peek(b) - 1 = 1 + w
      BY <2>2, <3>1
    <3> QED
      BY <1>2, <3>2 DEF AheadType
  <2> HIDE DEF c, n
  <2>12. UnpackAsks(b) = <<1, w, 1, n>>
    BY <1>2, <2>1, <2>8, <2>9 DEF UnpackAsks, c
  <2>13. Total(<<1, w, 1, n>>) = 2 + w + n
    <3>1. Total(<<1, w, 1, n>>) = 1 + w + 1 + n
      BY <2>2, <2>8, Totals
    <3> QED
      BY <2>2, <2>8, <3>1
  <2>14. UnpackItem(b).type = t
    BY <1>2, <2>6 DEF UnpackItem, c
  <2>15. UnpackItem(b).as = Blob(b)
    BY <1>2, <2>1, <2>4, <2>7 DEF UnpackItem, c
  <2>16. Blob(b) = [length |-> n, start |-> 2 + w]
    <3>1. /\ Total(UnpackAsks(b)) = 2 + w + n
          /\ UnpackAsks(b)[Len(UnpackAsks(b))] = n
      BY <2>12, <2>13
    <3>2. b[0] \notin FixExt
      BY <2>1 DEF c
    <3>3. Total(UnpackAsks(b)) - n = 2 + w
      BY <2>2, <2>8, <3>1
    <3> QED
      BY <3>1, <3>2, <3>3, Zenon DEF Blob
  <2>17. UnpackItem(b) = [type |-> t, as |-> [length |-> n, start |-> 2 + w]]
    BY <2>14, <2>15, <2>16, ItemParts
  <2>18. ItemError(b) = CWP_RC_OK
    BY <2>4, <2>7 DEF ItemError, c
  <2> QED
    BY <2>5, <2>10, <2>11, <2>17, <2>18 DEF Reads, n
<1> QED
  BY <1>1, <1>2

\* The three formats of a timestamp.
LEMMA ReadTime ==
    ASSUME NEW b, NEW size,
           \/ (b[0] = 214 /\ b[1] = 255 /\ size = 6)
           \/ (b[0] = 215 /\ b[1] = 255 /\ size = 10)
           \/ (b[0] = 199 /\ b[1] = 12 /\ b[2] = 255 /\ size = 15)
    PROVE  Reads(b, size, 0, [type |-> CWP_ITEM_TIMESTAMP, as |-> TimeValue(b)])
<1> DEFINE c == b[0]
<1>0. c \in Byte /\ c \in {214, 215, 199}
  BY DEF Byte
<1>1. /\ c \notin FixStr \cup StrOrBin \cup FixMap \cup FixArray
      /\ c \notin Container \cup {194, 195, 202, 203} \cup Numeric
      /\ c \in Ext \cup FixExt /\ c \in FixExt \cup {199}
      /\ c = 199 <=> c \in Ext
      /\ c # 199 <=> c \in FixExt
  <2> HIDE DEF c
  <2> QED
    BY <1>0 DEF FixStr, FixMap, FixArray, StrOrBin, Ext, FixExt, Container, Numeric
<1>2. Tagged(b)
  <2>1. c = 199 => Width[c] = 1 /\ b[1] \in Byte
    BY Widths DEF Byte
  <2>2. c # 199 => c \notin DOMAIN Width
    BY <1>0, Widths
  <2> QED
    BY <1>0, <2>1, <2>2 DEF Tagged
<1>3. c = 199 => Count(b) = 12
  <2> SUFFICES ASSUME c = 199 PROVE Count(b) = 12
    OBVIOUS
  <2>1. Width[199] = 1 /\ Field(b, 1, 1) = [k \in 1 .. 1 |-> 12]
    BY Widths DEF Field
  <2>2. Field(b, 1, 1) \in [1 .. 1 -> Byte] /\ Field(b, 1, 1)[1] = 12
    BY <2>1 DEF Byte
  <2> QED
    BY <2>1, <2>2, NumberOfBytes DEF Count
<1>4. Signed8(255) = CWP_ITEM_TIMESTAMP
  BY DEF Signed8, CWP_ITEM_TIMESTAMP
<1>5. ExtType(b) = CWP_ITEM_TIMESTAMP /\ AheadType(b) = CWP_ITEM_TIMESTAMP
  <2>1. b[IF c \in FixExt THEN 1 ELSE 1 + Width[c]] = 255
    BY <1>1, Widths
  <2>2. b[Peek(b) - 1] = 255
    <3>1. CASE c = 199
      BY <3>1 DEF Peek, FixExt
    <3>2. CASE c # 199
      <4>1. Peek(b) = 2
        BY <1>0, <1>1, <3>2 DEF Peek
      <4> QED
        BY <3>2, <4>1
    <3> QED
      BY <3>1, <3>2
  <2> QED
    BY <1>1, <1>4, <2>1, <2>2 DEF ExtType, AheadType
<1>6. UnpackAsks(b) \in {<<1, 5>>, <<1, 9>>, <<1, 1, 1, 4, 8>>}
  <2>1. CASE c = 199
    <3>1. Signed8(b[2]) = CWP_ITEM_TIMESTAMP
      BY <1>4, <2>1
    <3> QED
      BY <1>1, <1>3, <2>1, <3>1 DEF UnpackAsks
  <2>2. CASE c # 199
    <3>1. UnpackAsks(b) = <<1, FixExtLength[c] + 1>>
      BY <1>1, <2>2 DEF UnpackAsks
    <3>2. FixExtLength[c] + 1 \in {5, 9}
      BY <1>0, <2>2, FixExtLengths
    <3> QED
      BY <3>1, <3>2
  <2> QED
    BY <2>1, <2>2
<1>7. TagType(c) \notin {CWP_ITEM_POSITIVE_INTEGER, CWP_ITEM_NEGATIVE_INTEGER}
        /\ TagType(c) # CWP_NOT_AN_ITEM
  <2>1. TagType(c) = CWP_ITEM_EXT
    BY <1>0, <1>1, TagTypes
  <2> QED
    BY <2>1 DEF CWP_ITEM_POSITIVE_INTEGER, CWP_ITEM_NEGATIVE_INTEGER, CWP_ITEM_EXT,
       CWP_NOT_AN_ITEM
<1>8. Format(b).length + Format(b).payload = size /\ Format(b).children = 0
  BY <1>0, <1>1, <1>3, Formats, FixExtLengths, Widths
<1> HIDE DEF c
<1>9. Timestamp(b)
  BY <1>1, <1>5 DEF Timestamp, c
<1>10. ItemError(b) = CWP_RC_OK
  BY <1>6, <1>7 DEF ItemError, c
<1>11. UnpackItem(b).type = CWP_ITEM_TIMESTAMP
  BY <1>1, <1>5 DEF UnpackItem, c
<1>12. UnpackItem(b).as = TimeValue(b)
  BY <1>1, <1>7, <1>9 DEF UnpackItem, c
<1> QED
  BY <1>2, <1>5, <1>8, <1>10, <1>11, <1>12, ItemParts DEF Reads

-------------------------------------------------------------------------------
(* What each routine packs.                                                *)

\* What a routine packs is one of the items to a reader, wherever it stands.
ReadAs(e, items, children) ==
    /\ e.rc = CWP_RC_OK
    /\ e.header \in Seq(Byte) \ {<<>>} /\ Len(e.header) <= 18 /\ e.payload \in Nat
    /\ \A b : Begins(b, e.header) =>
          \E item \in items : Reads(b, Len(e.header) + e.payload, children, item)

LEMMA ReadEncoded ==
    ASSUME NEW h \in Seq(Byte) \ {<<>>}, Len(h) <= 18, NEW n \in Nat, NEW items,
           NEW children, NEW size, size = Len(h) + n,
           \A b : Begins(b, h) => \E item \in items : Reads(b, size, children, item)
    PROVE  ReadAs(Encoded(h, n), items, children)
BY DEF ReadAs, Encoded

\* A header of a tag and a field.
LEMMA TagAndField ==
    ASSUME NEW tag \in Byte, NEW w \in 0 .. 8, NEW f \in [1 .. w -> Byte]
    PROVE  /\ <<tag>> \o f \in Seq(Byte) \ {<<>>} /\ Len(<<tag>> \o f) = 1 + w
           /\ (<<tag>> \o f)[1] = tag
           /\ \A b : Begins(b, <<tag>> \o f) => b[0] = tag /\ Field(b, 1, w) = f
<1> DEFINE p == <<tag>>
<1>1. p \in [1 .. 1 -> Byte] /\ p[1] = tag /\ p \in Seq(Byte) /\ Len(p) = 1
  OBVIOUS
<1>2. f \in Seq(Byte) /\ Len(f) = w
  BY BytesAreSequence
<1> HIDE DEF p
<1>3. p \o f \in Seq(Byte) /\ Len(p \o f) = 1 + w /\ (p \o f)[1] = tag
  <2>1. /\ p \o f \in Seq(Byte) /\ Len(p \o f) = Len(p) + Len(f)
        /\ \A k \in 1 .. Len(p) + Len(f) :
              (p \o f)[k] = IF k <= Len(p) THEN p[k] ELSE f[k - Len(p)]
    BY <1>1, <1>2, ConcatProperties
  <2>2. 1 \in 1 .. Len(p) + Len(f) /\ 1 <= Len(p)
    BY <1>1, <1>2
  <2> QED
    BY <1>1, <1>2, <2>1, <2>2
<1>4. p \o f # <<>>
  BY <1>3, EmptySeq
<1>5. ASSUME NEW b, Begins(b, p \o f) PROVE b[0] = tag /\ Field(b, 1, w) = f
  <2>1. (\A k \in 1 .. 1 : b[k - 1] = p[k]) /\ Field(b, 1, w) = f
    BY <1>1, <1>2, <1>5, FieldBehind
  <2> QED
    BY <1>1, <2>1
<1> QED
  BY <1>3, <1>4, <1>5 DEF p

\* A header of a tag only.
LEMMA TagOnly ==
    ASSUME NEW tag \in Byte
    PROVE  /\ <<tag>> \in Seq(Byte) \ {<<>>} /\ Len(<<tag>>) = 1 /\ <<tag>>[1] = tag
           /\ \A b : Begins(b, <<tag>>) => b[0] = tag
BY DEF Begins

\* What such a header is read as decides what a routine has packed.
LEMMA FieldEncoded ==
    ASSUME NEW tag \in Byte, NEW w \in 0 .. 8, NEW f \in [1 .. w -> Byte],
           NEW n \in Nat, NEW item, NEW children,
           \A b : b[0] = tag /\ Field(b, 1, w) = f => Reads(b, 1 + w + n, children, item)
    PROVE  ReadAs(Encoded(<<tag>> \o f, n), {item}, children)
<1> DEFINE h == <<tag>> \o f
<1>1. /\ h \in Seq(Byte) \ {<<>>} /\ Len(h) = 1 + w
      /\ \A b : Begins(b, h) => b[0] = tag /\ Field(b, 1, w) = f
  BY TagAndField
<1> HIDE DEF h
<1>2. Len(h) <= 18 /\ 1 + w + n = Len(h) + n
  BY <1>1
<1>3. \A b : Begins(b, h) => \E i \in {item} : Reads(b, 1 + w + n, children, i)
  BY <1>1
<1>4. ReadAs(Encoded(h, n), {item}, children)
  BY <1>1, <1>2, <1>3, ReadEncoded, Zenon
<1> QED
  BY <1>4 DEF h

LEMMA TagEncoded ==
    ASSUME NEW tag \in Byte, NEW n \in Nat, NEW item, NEW children,
           \A b : b[0] = tag => Reads(b, 1 + n, children, item)
    PROVE  ReadAs(Encoded(<<tag>>, n), {item}, children)
<1>1. /\ <<tag>> \in Seq(Byte) \ {<<>>} /\ Len(<<tag>>) <= 18
      /\ 1 + n = Len(<<tag>>) + n
  BY TagOnly
<1>2. \A b : Begins(b, <<tag>>) => \E i \in {item} : Reads(b, 1 + n, children, i)
  BY TagOnly
<1> QED
  BY <1>1, <1>2, ReadEncoded, Zenon

LEMMA MinOfWidths ==
    ASSUME NEW S \in SUBSET {1, 2, 4, 8}, S # {}
    PROVE  Min(S) \in S /\ \A k \in S : Min(S) <= k
<1>1. S \subseteq Nat
  OBVIOUS
<1>2. \E x \in S : \A y \in S : x <= y
  BY <1>1, SmallestMember
<1> QED
  BY <1>2 DEF Min

LEMMA Tags ==
    /\ \A w \in {1, 2, 4, 8} : UnsignedTag[w] \in 204 .. 207 /\ Width[UnsignedTag[w]] = w
    /\ \A w \in {1, 2, 4, 8} : SignedTag[w] \in 208 .. 211 /\ Width[SignedTag[w]] = w
    /\ StrTag \in [{1, 2, 4} -> Byte]
    /\ \A w \in {1, 2, 4} : StrTag[w] \in 217 .. 219 /\ Width[StrTag[w]] = w
    /\ BinTag \in [{1, 2, 4} -> Byte]
    /\ \A w \in {1, 2, 4} : BinTag[w] \in 196 .. 198 /\ Width[BinTag[w]] = w
    /\ ExtTag \in [{1, 2, 4} -> Byte]
    /\ \A w \in {1, 2, 4} : ExtTag[w] \in 199 .. 201 /\ Width[ExtTag[w]] = w
    /\ ArrayTag \in [{2, 4} -> Byte]
    /\ \A w \in {2, 4} : ArrayTag[w] \in {220, 221} /\ Width[ArrayTag[w]] = w
    /\ MapTag \in [{2, 4} -> Byte]
    /\ \A w \in {2, 4} : MapTag[w] \in {222, 223} /\ Width[MapTag[w]] = w
    /\ \A w \in {1, 2, 4, 8, 16} : /\ FixExtTag[w] \in FixExt /\ FixExtTag[w] \in Byte
                                   /\ FixExtLength[FixExtTag[w]] = w
<1>1. \A w \in {1, 2, 4, 8} : UnsignedTag[w] \in 204 .. 207 /\ Width[UnsignedTag[w]] = w
  BY Widths DEF UnsignedTag
<1>2. \A w \in {1, 2, 4, 8} : SignedTag[w] \in 208 .. 211 /\ Width[SignedTag[w]] = w
  BY Widths DEF SignedTag
<1>3. /\ StrTag \in [{1, 2, 4} -> Byte]
      /\ \A w \in {1, 2, 4} : StrTag[w] \in 217 .. 219 /\ Width[StrTag[w]] = w
  <2>1. StrTag[1] = 217 /\ StrTag[2] = 218 /\ StrTag[4] = 219
    BY DEF StrTag
  <2>2. StrTag = [w \in {1, 2, 4} |-> StrTag[w]]
    BY DEF StrTag
  <2> QED
    BY <2>1, <2>2, Widths DEF Byte
<1>4. /\ BinTag \in [{1, 2, 4} -> Byte]
      /\ \A w \in {1, 2, 4} : BinTag[w] \in 196 .. 198 /\ Width[BinTag[w]] = w
  <2>1. BinTag[1] = 196 /\ BinTag[2] = 197 /\ BinTag[4] = 198
    BY DEF BinTag
  <2>2. BinTag = [w \in {1, 2, 4} |-> BinTag[w]]
    BY DEF BinTag
  <2> QED
    BY <2>1, <2>2, Widths DEF Byte
<1>5. /\ ExtTag \in [{1, 2, 4} -> Byte]
      /\ \A w \in {1, 2, 4} : ExtTag[w] \in 199 .. 201 /\ Width[ExtTag[w]] = w
  <2>1. ExtTag[1] = 199 /\ ExtTag[2] = 200 /\ ExtTag[4] = 201
    BY DEF ExtTag
  <2>2. ExtTag = [w \in {1, 2, 4} |-> ExtTag[w]]
    BY DEF ExtTag
  <2> QED
    BY <2>1, <2>2, Widths DEF Byte
<1>6. /\ ArrayTag \in [{2, 4} -> Byte]
      /\ \A w \in {2, 4} : ArrayTag[w] \in {220, 221} /\ Width[ArrayTag[w]] = w
  <2>1. ArrayTag[2] = 220 /\ ArrayTag[4] = 221
    BY DEF ArrayTag
  <2>2. ArrayTag = [w \in {2, 4} |-> ArrayTag[w]]
    BY DEF ArrayTag
  <2> QED
    BY <2>1, <2>2, Widths DEF Byte
<1>7. /\ MapTag \in [{2, 4} -> Byte]
      /\ \A w \in {2, 4} : MapTag[w] \in {222, 223} /\ Width[MapTag[w]] = w
  <2>1. MapTag[2] = 222 /\ MapTag[4] = 223
    BY DEF MapTag
  <2>2. MapTag = [w \in {2, 4} |-> MapTag[w]]
    BY DEF MapTag
  <2> QED
    BY <2>1, <2>2, Widths DEF Byte
<1>8. \A w \in {1, 2, 4, 8, 16} : /\ FixExtTag[w] \in FixExt /\ FixExtTag[w] \in Byte
                                  /\ FixExtLength[FixExtTag[w]] = w
  <2>1. /\ FixExtTag[1] = 212 /\ FixExtTag[2] = 213 /\ FixExtTag[4] = 214
        /\ FixExtTag[8] = 215 /\ FixExtTag[16] = 216
    BY DEF FixExtTag
  <2> QED
    BY <2>1, FixExtLengths DEF FixExt, Byte
<1> QED
  BY <1>1, <1>2, <1>3, <1>4, <1>5, <1>6, <1>7, <1>8

LEMMA PackUnsigned ==
    ASSUME NEW v \in Word64
    PROVE  ReadAs(cw_pack_unsigned(v), {[type |-> CWP_ITEM_POSITIVE_INTEGER, as |-> v]}, 0)
<1> DEFINE e == cw_pack_unsigned(v)
           item == [type |-> CWP_ITEM_POSITIVE_INTEGER, as |-> v]
<1>1. \A k \in 1 .. 8 : v[k] \in 0 .. 255
  BY DEF Word64, Byte
<1>2. CASE FitsUnsigned(v, 1) /\ v[8] < 128
  <2>1. Low(v, 1) = <<v[8]>>
    <3>1. /\ Low(v, 1) \in [1 .. 1 -> Byte] /\ Len(Low(v, 1)) = 1
          /\ Low(v, 1)[1] = v[8]
      BY LowBytes
    <3> QED
      BY <3>1
  <2>2. e = Encoded(<<v[8]>>, 0)
    BY <1>2, <2>1 DEF cw_pack_unsigned
  <2>3. v[8] \in 0 .. 127 /\ v[8] \in Byte
    BY <1>1, <1>2 DEF Byte
  <2>4. ZeroExtended(<<v[8]>>) = v
    BY <1>2, <2>1, ZeroExtendedLow
  <2>5. ASSUME NEW b, b[0] = v[8] PROVE Reads(b, 1 + 0, 0, item)
    <3>1. Reads(b, 1, 0, item)
      BY <2>3, <2>4, <2>5, ReadSmall, ZenonT(30)
    <3> QED
      BY <3>1
  <2> HIDE DEF item, e
  <2>6. ReadAs(e, {item}, 0)
    BY <2>2, <2>3, <2>5, 0 \in Nat, TagEncoded
  <2> QED
    BY <2>6 DEF item, e
<1>3. CASE ~(FitsUnsigned(v, 1) /\ v[8] < 128)
  <2> DEFINE S == {k \in {1, 2, 4, 8} : FitsUnsigned(v, k)}
             w == Min(S)
             f == Low(v, w)
             tag == UnsignedTag[w]
  <2>1. 8 \in S
    BY DEF FitsUnsigned
  <2>2. w \in {1, 2, 4, 8} /\ FitsUnsigned(v, w)
    <3>1. w \in S
      BY <2>1, MinOfWidths
    <3> QED
      BY <3>1
  <2>3. e = Encoded(<<tag>> \o f, 0)
    BY <1>3 DEF cw_pack_unsigned
  <2>4. tag \in 204 .. 207 /\ Width[tag] = w
    BY <2>2, Tags
  <2> HIDE DEF w, S
  <2>5. f \in [1 .. w -> Byte] /\ w \in 0 .. 8 /\ ZeroExtended(f) = v
    <3>1. w \in 0 .. 8
      BY <2>2
    <3> QED
      BY <2>2, <3>1, LowBytes, ZeroExtendedLow
  <2> HIDE DEF tag, f
  <2>6. tag \in Byte /\ tag \in DOMAIN Width
    BY <2>4, Widths DEF Byte
  <2>7. ASSUME NEW b, b[0] = tag, Field(b, 1, w) = f
        PROVE  Reads(b, 1 + w + 0, 0, item)
    <3>1. Reads(b, 1 + w, 0, item)
      BY <2>4, <2>5, <2>6, <2>7, ReadWide
    <3> QED
      BY <2>5, <3>1
  <2> HIDE DEF item, e
  <2>8. ReadAs(e, {item}, 0)
    BY <2>3, <2>5, <2>6, <2>7, 0 \in Nat, FieldEncoded
  <2> QED
    BY <2>8 DEF item, e
<1> QED
  BY <1>2, <1>3

LEMMA PackSigned ==
    ASSUME NEW v \in Word64
    PROVE  ReadAs(cw_pack_signed(v),
                  {[type |-> IF Negative(v) THEN CWP_ITEM_NEGATIVE_INTEGER
                                            ELSE CWP_ITEM_POSITIVE_INTEGER, as |-> v]}, 0)
<1> DEFINE e == cw_pack_signed(v)
           item == [type |-> CWP_ITEM_NEGATIVE_INTEGER, as |-> v]
<1>1. \A k \in 1 .. 8 : v[k] \in 0 .. 255
  BY DEF Word64, Byte
<1>2. CASE ~Negative(v)
  BY <1>2, PackUnsigned DEF cw_pack_signed
<1>3. CASE Negative(v) /\ FitsNegative(v, 1) /\ v[8] >= 224
  <2>1. Low(v, 1) = <<v[8]>>
    <3>1. /\ Low(v, 1) \in [1 .. 1 -> Byte] /\ Len(Low(v, 1)) = 1
          /\ Low(v, 1)[1] = v[8]
      BY LowBytes
    <3> QED
      BY <3>1
  <2>2. e = Encoded(<<v[8]>>, 0)
    BY <1>3, <2>1 DEF cw_pack_signed
  <2>3. v[8] \in 224 .. 255 /\ v[8] \in Byte
    BY <1>1, <1>3 DEF Byte
  <2>4. SignExtended(<<v[8]>>) = v
    BY <1>3, <2>1, SignExtendedLow
  <2>5. ASSUME NEW b, b[0] = v[8] PROVE Reads(b, 1 + 0, 0, item)
    <3>1. Reads(b, 1, 0, item)
      BY <2>3, <2>4, <2>5, ReadSmall, ZenonT(30)
    <3> QED
      BY <3>1
  <2> HIDE DEF item, e
  <2>6. ReadAs(e, {item}, 0)
    BY <2>2, <2>3, <2>5, 0 \in Nat, TagEncoded
  <2> QED
    BY <1>3, <2>6 DEF item, e
<1>4. CASE Negative(v) /\ ~(FitsNegative(v, 1) /\ v[8] >= 224)
  <2> DEFINE S == {k \in {1, 2, 4, 8} : FitsNegative(v, k)}
             w == Min(S)
             f == Low(v, w)
             tag == SignedTag[w]
  <2>1. 8 \in S
    BY <1>4 DEF FitsNegative, Negative
  <2>2. w \in {1, 2, 4, 8} /\ FitsNegative(v, w)
    <3>1. w \in S
      BY <2>1, MinOfWidths
    <3> QED
      BY <3>1
  <2>3. e = Encoded(<<tag>> \o f, 0)
    BY <1>4 DEF cw_pack_signed
  <2>4. tag \in 208 .. 211 /\ Width[tag] = w
    BY <2>2, Tags
  <2> HIDE DEF w, S
  <2>5. f \in [1 .. w -> Byte] /\ w \in 0 .. 8 /\ SignExtended(f) = v
    <3>1. w \in 0 .. 8 /\ w \in 1 .. 8
      BY <2>2
    <3> QED
      BY <2>2, <3>1, LowBytes, SignExtendedLow
  <2> HIDE DEF tag, f
  <2>6. tag \in Byte /\ tag \in DOMAIN Width
    BY <2>4, Widths DEF Byte
  <2>7. ASSUME NEW b, b[0] = tag, Field(b, 1, w) = f
        PROVE  Reads(b, 1 + w + 0, 0, item)
    <3>1. Negative(SignExtended(f))
      BY <1>4, <2>5
    <3>2. Reads(b, 1 + w, 0, item)
      BY <2>4, <2>5, <2>6, <2>7, <3>1, ReadWide
    <3> QED
      BY <2>5, <3>2
  <2> HIDE DEF item, e
  <2>8. ReadAs(e, {item}, 0)
    BY <2>3, <2>5, <2>6, <2>7, 0 \in Nat, FieldEncoded
  <2> QED
    BY <1>4, <2>8 DEF item, e
<1> QED
  BY <1>2, <1>3, <1>4

\* nil, booleans and reals.
LEMMA PackScalars ==
    /\ ReadAs(Encoded(<<192>>, 0), {[type |-> CWP_ITEM_NIL, as |-> <<>>]}, 0)
    /\ \A x \in BOOLEAN :
          ReadAs(Encoded(<<IF x THEN 195 ELSE 194>>, 0),
                 {[type |-> CWP_ITEM_BOOLEAN, as |-> x]}, 0)
    /\ \A f \in Bits32 :
          ReadAs(Encoded(<<202>> \o f, 0), {[type |-> CWP_ITEM_FLOAT, as |-> f]}, 0)
    /\ \A f \in Word64 :
          ReadAs(Encoded(<<203>> \o f, 0), {[type |-> CWP_ITEM_DOUBLE, as |-> f]}, 0)
<1>0. 192 \in Byte /\ 194 \in Byte /\ 195 \in Byte /\ 202 \in Byte /\ 203 \in Byte /\ 0 \in Nat
  BY DEF Byte
<1>1. ReadAs(Encoded(<<192>>, 0), {[type |-> CWP_ITEM_NIL, as |-> <<>>]}, 0)
  <2> DEFINE item == [type |-> CWP_ITEM_NIL, as |-> <<>>]
  <2>1. ASSUME NEW b, b[0] = 192 PROVE Reads(b, 1 + 0, 0, item)
    <3>1. b[0] \in Nils
      BY <2>1 DEF Nils
    <3>2. Reads(b, 1, 0, item)
      BY <3>1, ReadSmall
    <3> QED
      BY <3>2
  <2> HIDE DEF item
  <2>2. ReadAs(Encoded(<<192>>, 0), {item}, 0)
    BY <1>0, <2>1, TagEncoded
  <2> QED
    BY <2>2 DEF item
<1>2. ASSUME NEW x \in BOOLEAN
      PROVE  ReadAs(Encoded(<<IF x THEN 195 ELSE 194>>, 0),
                    {[type |-> CWP_ITEM_BOOLEAN, as |-> x]}, 0)
  <2> DEFINE item == [type |-> CWP_ITEM_BOOLEAN, as |-> x]
             tag == IF x THEN 195 ELSE 194
  <2>0. tag \in Byte /\ tag \in {194, 195} /\ (tag = 195) = x
    BY <1>0
  <2> HIDE DEF tag
  <2>1. ASSUME NEW b, b[0] = tag PROVE Reads(b, 1 + 0, 0, item)
    <3>1. Reads(b, 1, 0, [type |-> CWP_ITEM_BOOLEAN, as |-> tag = 195])
      BY <2>0, <2>1, ReadSmall, ZenonT(30)
    <3> QED
      BY <2>0, <3>1
  <2> HIDE DEF item
  <2>2. ReadAs(Encoded(<<tag>>, 0), {item}, 0)
    BY <1>0, <2>0, <2>1, TagEncoded
  <2> QED
    BY <2>2 DEF item, tag
<1>3. ASSUME NEW f \in Bits32
      PROVE  ReadAs(Encoded(<<202>> \o f, 0), {[type |-> CWP_ITEM_FLOAT, as |-> f]}, 0)
  <2> DEFINE item == [type |-> CWP_ITEM_FLOAT, as |-> f]
             tag == 202
             w == 4
  <2>0. f \in [1 .. w -> Byte] /\ w \in 0 .. 8 /\ tag \in DOMAIN Width /\ Width[tag] = w
    BY Widths DEF Bits32
  <2>4. tag \in FloatTags /\ tag \in Byte /\ w \in Nat
    BY <1>0 DEF FloatTags
  <2> HIDE DEF tag, w
  <2>1. ASSUME NEW b, b[0] = tag, Field(b, 1, w) = f PROVE Reads(b, 1 + w + 0, 0, item)
    <3>1. Reads(b, 1 + w, 0, item)
      BY <2>0, <2>1, <2>4, ReadWide
    <3> QED
      BY <2>4, <3>1
  <2> HIDE DEF item
  <2>2. ReadAs(Encoded(<<tag>> \o f, 0), {item}, 0)
    BY <1>0, <2>0, <2>1, <2>4, FieldEncoded, ZenonT(30)
  <2> QED
    BY <2>2 DEF item, tag, w
<1>4. ASSUME NEW f \in Word64
      PROVE  ReadAs(Encoded(<<203>> \o f, 0), {[type |-> CWP_ITEM_DOUBLE, as |-> f]}, 0)
  <2> DEFINE item == [type |-> CWP_ITEM_DOUBLE, as |-> f]
             tag == 203
             w == 8
  <2>0. f \in [1 .. w -> Byte] /\ w \in 0 .. 8 /\ tag \in DOMAIN Width /\ Width[tag] = w
    BY Widths DEF Word64
  <2>4. tag \in DoubleTags /\ tag \in Byte /\ w \in Nat
    BY <1>0 DEF DoubleTags
  <2> HIDE DEF tag, w
  <2>1. ASSUME NEW b, b[0] = tag, Field(b, 1, w) = f PROVE Reads(b, 1 + w + 0, 0, item)
    <3>1. Reads(b, 1 + w, 0, item)
      BY <2>0, <2>1, <2>4, ReadWide
    <3> QED
      BY <2>4, <3>1
  <2> HIDE DEF item
  <2>2. ReadAs(Encoded(<<tag>> \o f, 0), {item}, 0)
    BY <1>0, <2>0, <2>1, <2>4, FieldEncoded, ZenonT(30)
  <2> QED
    BY <2>2 DEF item, tag, w
<1> QED
  BY <1>1, <1>2, <1>3, <1>4

\* The header of a length or size: the narrowest tag that there is for it.
LEMMA Sized ==
    ASSUME NEW tags, DOMAIN tags \subseteq {1, 2, 4}, 4 \in DOMAIN tags,
           NEW n \in Lengths31
    PROVE  \E w \in DOMAIN tags : \E f \in [1 .. w -> Byte] :
              SizedHeader(tags, n) = <<tags[w]>> \o f /\ Number(f) = n
<1> DEFINE S == {k \in DOMAIN tags : k = 4 \/ n < Place[k]}
           w == Min(S)
           f == BigEndian(n, w)
<1>1. S \in SUBSET {1, 2, 4, 8} /\ 4 \in S
  OBVIOUS
<1>2. w \in S
  BY <1>1, MinOfWidths
<1>3. w \in DOMAIN tags /\ w \in {1, 2, 4} /\ (w = 4 \/ n < Place[w])
  BY <1>2
<1>4. SizedHeader(tags, n) = <<tags[w]>> \o f
  BY DEF SizedHeader
<1> HIDE DEF w, S
<1>6. f \in [1 .. w -> Byte]
  BY <1>3, BigEndianBytes
<1>7. Number(f) = n
  BY <1>3, BigEndianBytes
<1> HIDE DEF f
<1> QED
  BY <1>3, <1>4, <1>6, <1>7

LEMMA PackSizes ==
    ASSUME NEW n \in Lengths31
    PROVE  /\ ReadAs(cw_pack_array_size(n), {[type |-> CWP_ITEM_ARRAY, as |-> n]}, n)
           /\ ReadAs(cw_pack_map_size(n), {[type |-> CWP_ITEM_MAP, as |-> n]}, 2 * n)
<1>0. n \in Nat
  BY SMT DEF Lengths31
<1>1. ReadAs(cw_pack_array_size(n), {[type |-> CWP_ITEM_ARRAY, as |-> n]}, n)
  <2> DEFINE e == cw_pack_array_size(n)
             item == [type |-> CWP_ITEM_ARRAY, as |-> n]
  <2>1. CASE n < 16
    <3> DEFINE tag == 144 + n
    <3>1. tag \in FixArray /\ tag \in Byte /\ tag - 144 = n
      BY <1>0, <2>1 DEF FixArray, Byte
    <3>2. e = Encoded(<<tag>>, 0)
      BY <2>1 DEF cw_pack_array_size
    <3> HIDE DEF tag
    <3>3. ASSUME NEW b, b[0] = tag PROVE Reads(b, 1 + 0, n, item)
      <4>1. Reads(b, 1, n, item)
        BY <3>1, <3>3, ReadSmall
      <4> QED
        BY <4>1
    <3> HIDE DEF item, e
    <3>4. ReadAs(e, {item}, n)
      BY <3>1, <3>2, <3>3, 0 \in Nat, TagEncoded
    <3> QED
      BY <3>4 DEF item, e
  <2>2. CASE ~(n < 16)
    <3> DEFINE D == DOMAIN ArrayTag
    <3>1. D \subseteq {1, 2, 4} /\ 4 \in D /\ D = {2, 4}
      BY DEF ArrayTag
    <3> HIDE DEF D
    <3>2. \E w \in D : \E f \in [1 .. w -> Byte] :
              SizedHeader(ArrayTag, n) = <<ArrayTag[w]>> \o f /\ Number(f) = n
      BY <3>1, Sized DEF D
    <3>3. PICK w \in D : \E f \in [1 .. w -> Byte] :
              SizedHeader(ArrayTag, n) = <<ArrayTag[w]>> \o f /\ Number(f) = n
      BY <3>2
    <3>4. PICK f \in [1 .. w -> Byte] :
              SizedHeader(ArrayTag, n) = <<ArrayTag[w]>> \o f /\ Number(f) = n
      BY <3>3
    <3> DEFINE tag == ArrayTag[w]
    <3>5. e = Encoded(<<tag>> \o f, 0)
      BY <2>2, <3>4 DEF cw_pack_array_size
    <3>6. tag \in ArrayTags /\ Width[tag] = w /\ w \in 0 .. 8
      BY <3>1, Tags DEF ArrayTags
    <3> HIDE DEF tag
    <3>7. tag \in Byte /\ tag \in DOMAIN Width
      BY <3>6, Widths, SMTT(30) DEF Byte, ArrayTags
    <3>8. ASSUME NEW b, b[0] = tag, Field(b, 1, w) = f
          PROVE  Reads(b, 1 + w + 0, n, item)
      <4>1. Reads(b, 1 + w, n, item)
        BY <3>4, <3>6, <3>7, <3>8, ReadWide
      <4> QED
        BY <3>6, <4>1
    <3> HIDE DEF item, e
    <3>9. ReadAs(e, {item}, n)
      BY <3>5, <3>6, <3>7, <3>8, 0 \in Nat, FieldEncoded
    <3> QED
      BY <3>9 DEF item, e
  <2> QED
    BY <2>1, <2>2
<1>2. ReadAs(cw_pack_map_size(n), {[type |-> CWP_ITEM_MAP, as |-> n]}, 2 * n)
  <2> DEFINE e == cw_pack_map_size(n)
             item == [type |-> CWP_ITEM_MAP, as |-> n]
  <2>1. CASE n < 16
    <3> DEFINE tag == 128 + n
    <3>1. tag \in FixMap /\ tag \in Byte /\ tag - 128 = n
      BY <1>0, <2>1 DEF FixMap, Byte
    <3>2. e = Encoded(<<tag>>, 0)
      BY <2>1 DEF cw_pack_map_size
    <3> HIDE DEF tag
    <3>3. ASSUME NEW b, b[0] = tag PROVE Reads(b, 1 + 0, 2 * n, item)
      <4>1. Reads(b, 1, 2 * n, item)
        BY <3>1, <3>3, ReadSmall
      <4> QED
        BY <4>1
    <3> HIDE DEF item, e
    <3>4. ReadAs(e, {item}, 2 * n)
      BY <3>1, <3>2, <3>3, 0 \in Nat, TagEncoded
    <3> QED
      BY <3>4 DEF item, e
  <2>2. CASE ~(n < 16)
    <3> DEFINE D == DOMAIN MapTag
    <3>1. D \subseteq {1, 2, 4} /\ 4 \in D /\ D = {2, 4}
      BY DEF MapTag
    <3> HIDE DEF D
    <3>2. \E w \in D : \E f \in [1 .. w -> Byte] :
              SizedHeader(MapTag, n) = <<MapTag[w]>> \o f /\ Number(f) = n
      BY <3>1, Sized DEF D
    <3>3. PICK w \in D : \E f \in [1 .. w -> Byte] :
              SizedHeader(MapTag, n) = <<MapTag[w]>> \o f /\ Number(f) = n
      BY <3>2
    <3>4. PICK f \in [1 .. w -> Byte] :
              SizedHeader(MapTag, n) = <<MapTag[w]>> \o f /\ Number(f) = n
      BY <3>3
    <3> DEFINE tag == MapTag[w]
    <3>5. e = Encoded(<<tag>> \o f, 0)
      BY <2>2, <3>4 DEF cw_pack_map_size
    <3>6. tag \in MapTags /\ Width[tag] = w /\ w \in 0 .. 8
      BY <3>1, Tags DEF MapTags
    <3> HIDE DEF tag
    <3>7. tag \in Byte /\ tag \in DOMAIN Width
      BY <3>6, Widths, SMTT(30) DEF Byte, MapTags
    <3>8. ASSUME NEW b, b[0] = tag, Field(b, 1, w) = f
          PROVE  Reads(b, 1 + w + 0, 2 * n, item)
      <4>1. Reads(b, 1 + w, 2 * n, item)
        BY <3>4, <3>6, <3>7, <3>8, ReadWide
      <4> QED
        BY <3>6, <4>1
    <3> HIDE DEF item, e
    <3>9. ReadAs(e, {item}, 2 * n)
      BY <3>5, <3>6, <3>7, <3>8, 0 \in Nat, FieldEncoded
    <3> QED
      BY <3>9 DEF item, e
  <2> QED
    BY <2>1, <2>2
<1> QED
  BY <1>1, <1>2

\* A blob behind a header: n bytes from the end of the header on.
BlobItem(type, n, e) ==
    [type |-> type, as |-> [length |-> n, start |-> Len(e.header)]]

LEMMA PackStr ==
    ASSUME NEW l \in Lengths31, NEW be_compatible \in BOOLEAN
    PROVE  LET e == cw_pack_str(l, be_compatible)
           IN  ReadAs(e, {BlobItem(CWP_ITEM_STR, l, e)}, 0)
<1> DEFINE e == cw_pack_str(l, be_compatible)
           item == BlobItem(CWP_ITEM_STR, l, e)
<1>0. l \in Nat
  BY SMT DEF Lengths31
<1>1. CASE l < 32
  <2> DEFINE tag == 160 + l
  <2>1. tag \in FixStr /\ tag \in Byte /\ tag - 160 = l
    BY <1>0, <1>1 DEF FixStr, Byte
  <2>2. e = Encoded(<<tag>>, l)
    BY <1>1 DEF cw_pack_str
  <2> HIDE DEF tag
  <2>3. item = [type |-> CWP_ITEM_STR, as |-> [length |-> l, start |-> 1]]
    <3>1. e.header = <<tag>> /\ Len(<<tag>>) = 1
      BY <2>2 DEF Encoded
    <3> QED
      BY <3>1 DEF BlobItem
  <2>4. ASSUME NEW b, b[0] = tag PROVE Reads(b, 1 + l, 0, item)
    BY <2>1, <2>3, <2>4, ReadSmall, ZenonT(30)
  <2> HIDE DEF item, e
  <2>5. ReadAs(e, {item}, 0)
    BY <1>0, <2>1, <2>2, <2>4, TagEncoded
  <2> QED
    BY <2>5 DEF item, e
<1>2. CASE ~(l < 32)
  <2> DEFINE D == DOMAIN StrTag \ (IF be_compatible THEN {1} ELSE {})
             tags == [w \in D |-> StrTag[w]]
  <2>1. DOMAIN tags \subseteq {1, 2, 4} /\ 4 \in DOMAIN tags
    BY DEF StrTag
  <2>2. e = Encoded(SizedHeader(tags, l), l)
    BY <1>2 DEF cw_pack_str
  <2>3. \A w \in DOMAIN tags : tags[w] = StrTag[w]
    OBVIOUS
  <2> HIDE DEF tags, D
  <2>4. PICK w \in DOMAIN tags : \E f \in [1 .. w -> Byte] :
            SizedHeader(tags, l) = <<tags[w]>> \o f /\ Number(f) = l
    BY <2>1, Sized
  <2>5. PICK f \in [1 .. w -> Byte] :
            SizedHeader(tags, l) = <<tags[w]>> \o f /\ Number(f) = l
    BY <2>4
  <2> DEFINE tag == tags[w]
  <2>6. tag \in StrTags /\ Width[tag] = w /\ w \in 0 .. 8
    BY <2>1, <2>3, Tags, SMTT(30) DEF StrTags
  <2>7. e = Encoded(<<tag>> \o f, l)
    BY <2>2, <2>5
  <2> HIDE DEF tag
  <2>8. tag \in Byte /\ tag \in DOMAIN Width
    BY <2>6, Widths, SMTT(30) DEF Byte, StrTags
  <2>9. item = [type |-> CWP_ITEM_STR, as |-> [length |-> l, start |-> 1 + w]]
    <3>1. Len(<<tag>> \o f) = 1 + w
      BY <2>6, <2>8, TagAndField
    <3>2. e.header = <<tag>> \o f
      BY <2>7 DEF Encoded
    <3> QED
      BY <3>1, <3>2 DEF BlobItem
  <2>10. ASSUME NEW b, b[0] = tag, Field(b, 1, w) = f
         PROVE  Reads(b, 1 + w + l, 0, item)
    BY <2>5, <2>6, <2>8, <2>9, <2>10, ReadWide
  <2> HIDE DEF item, e
  <2>11. ReadAs(e, {item}, 0)
    BY <1>0, <2>6, <2>7, <2>8, <2>10, FieldEncoded
  <2> QED
    BY <2>11 DEF item, e
<1> QED
  BY <1>1, <1>2

LEMMA PackBin ==
    ASSUME NEW l \in Lengths31, NEW be_compatible \in BOOLEAN
    PROVE  LET e == cw_pack_bin(l, be_compatible)
               type == IF be_compatible THEN CWP_ITEM_STR ELSE CWP_ITEM_BIN
           IN  ReadAs(e, {BlobItem(type, l, e)}, 0)
<1> DEFINE e == cw_pack_bin(l, be_compatible)
           item == BlobItem(CWP_ITEM_BIN, l, e)
<1>0. l \in Nat
  BY SMT DEF Lengths31
<1>1. CASE be_compatible
  <2>1. cw_pack_bin(l, be_compatible) = cw_pack_str(l, TRUE)
    BY <1>1 DEF cw_pack_bin
  <2>2. LET s == cw_pack_str(l, TRUE) IN ReadAs(s, {BlobItem(CWP_ITEM_STR, l, s)}, 0)
    BY TRUE \in BOOLEAN, PackStr
  <2> QED
    BY <1>1, <2>1, <2>2
<1>2. CASE ~be_compatible
  <2>1. DOMAIN BinTag \subseteq {1, 2, 4} /\ 4 \in DOMAIN BinTag
    BY DEF BinTag
  <2>2. e = Encoded(SizedHeader(BinTag, l), l)
    BY <1>2 DEF cw_pack_bin
  <2>4. PICK w \in DOMAIN BinTag : \E f \in [1 .. w -> Byte] :
            SizedHeader(BinTag, l) = <<BinTag[w]>> \o f /\ Number(f) = l
    BY <2>1, Sized
  <2>5. PICK f \in [1 .. w -> Byte] :
            SizedHeader(BinTag, l) = <<BinTag[w]>> \o f /\ Number(f) = l
    BY <2>4
  <2> DEFINE tag == BinTag[w]
  <2>6. tag \in BinTags /\ Width[tag] = w /\ w \in 0 .. 8
    BY <2>1, Tags, SMTT(30) DEF BinTags
  <2>7. e = Encoded(<<tag>> \o f, l)
    BY <2>2, <2>5
  <2> HIDE DEF tag
  <2>8. tag \in Byte /\ tag \in DOMAIN Width
    BY <2>6, Widths, SMTT(30) DEF Byte, BinTags
  <2>9. item = [type |-> CWP_ITEM_BIN, as |-> [length |-> l, start |-> 1 + w]]
    <3>1. Len(<<tag>> \o f) = 1 + w
      BY <2>6, <2>8, TagAndField
    <3>2. e.header = <<tag>> \o f
      BY <2>7 DEF Encoded
    <3> QED
      BY <3>1, <3>2 DEF BlobItem
  <2>10. ASSUME NEW b, b[0] = tag, Field(b, 1, w) = f
         PROVE  Reads(b, 1 + w + l, 0, item)
    BY <2>5, <2>6, <2>8, <2>9, <2>10, ReadWide, ZenonT(30)
  <2> HIDE DEF item, e
  <2>11. ReadAs(e, {item}, 0)
    BY <1>0, <2>6, <2>7, <2>8, <2>10, FieldEncoded
  <2> QED
    BY <1>2, <2>11 DEF item, e
<1> QED
  BY <1>1, <1>2

\* The type byte of an ext item.
LEMMA TypeBytes ==
    \A type \in ExtTypes :
        /\ type % 256 \in Byte /\ Signed8(type % 256) = type
        /\ type # CWP_ITEM_TIMESTAMP /\ type \in Int /\ type <= 127
<1> SUFFICES ASSUME NEW type \in Int, -128 <= type, type <= 127, type # -1
             PROVE  /\ type % 256 \in Byte /\ Signed8(type % 256) = type
                    /\ type # CWP_ITEM_TIMESTAMP
  BY DEF ExtTypes
<1>1. type % 256 = IF type >= 0 THEN type ELSE type + 256
  BY SMT
<1> QED
  BY <1>1 DEF Byte, Signed8, CWP_ITEM_TIMESTAMP

\* Headers with a type byte: tag and type, with and without a value behind
\* them, and tag, length and type.
LEMMA TypedHeader ==
    ASSUME NEW c \in Byte, NEW x \in Byte, NEW f \in Seq(Byte)
    PROVE  /\ <<c, x>> \o f \in Seq(Byte) \ {<<>>} /\ Len(<<c, x>> \o f) = 2 + Len(f)
           /\ (<<c, x>> \o f)[1] = c
           /\ \A b : Begins(b, <<c, x>> \o f) =>
                 b[0] = c /\ b[1] = x /\ Field(b, 2, Len(f)) = f
<1> DEFINE p == <<c, x>>
<1>1. p \in Seq(Byte) /\ Len(p) = 2 /\ p[1] = c /\ p[2] = x
  OBVIOUS
<1> HIDE DEF p
<1>2. /\ p \o f \in Seq(Byte) /\ Len(p \o f) = Len(p) + Len(f)
      /\ \A k \in 1 .. Len(p) + Len(f) :
            (p \o f)[k] = IF k <= Len(p) THEN p[k] ELSE f[k - Len(p)]
  BY <1>1, ConcatProperties
<1>3. Len(f) \in Nat
  BY LenProperties
<1>4. Len(p \o f) = 2 + Len(f) /\ (p \o f)[1] = c
  BY <1>1, <1>2, <1>3
<1>5. p \o f # <<>>
  BY <1>3, <1>4, EmptySeq
<1>6. ASSUME NEW b, Begins(b, p \o f)
      PROVE  b[0] = c /\ b[1] = x /\ Field(b, 2, Len(f)) = f
  <2>1. (\A k \in 1 .. Len(p) : b[k - 1] = p[k]) /\ Field(b, Len(p), Len(f)) = f
    BY <1>1, <1>6, FieldBehind
  <2>2. 1 \in 1 .. Len(p) /\ 2 \in 1 .. Len(p)
    BY <1>1
  <2>3. b[1 - 1] = p[1] /\ b[2 - 1] = p[2]
    BY <2>1, <2>2
  <2> QED
    BY <1>1, <2>1, <2>3
<1> QED
  BY <1>2, <1>4, <1>5, <1>6 DEF p

LEMMA TypedEnd ==
    ASSUME NEW h \in Seq(Byte), NEW x \in Byte
    PROVE  /\ Append(h, x) \in Seq(Byte) \ {<<>>} /\ Len(Append(h, x)) = Len(h) + 1
           /\ h # <<>> => Append(h, x)[1] = h[1]
           /\ \A b : Begins(b, Append(h, x)) => Begins(b, h) /\ b[Len(h)] = x
<1> DEFINE a == Append(h, x)
<1>1. /\ a \in Seq(Byte) /\ Len(a) = Len(h) + 1
      /\ \A k \in 1 .. Len(h) : a[k] = h[k]
      /\ a[Len(h) + 1] = x
  BY AppendProperties
<1>2. Len(h) \in Nat
  BY LenProperties
<1> HIDE DEF a
<1>3. a # <<>>
  BY <1>1, <1>2, EmptySeq
<1>4. h # <<>> => a[1] = h[1]
  <2>1. h # <<>> => 1 \in 1 .. Len(h)
    BY <1>2, EmptySeq
  <2> QED
    BY <1>1, <2>1
<1>5. ASSUME NEW b, Begins(b, a) PROVE Begins(b, h) /\ b[Len(h)] = x
  <2>1. \A k \in 1 .. Len(h) + 1 : b[k - 1] = a[k]
    BY <1>1, <1>5 DEF Begins
  <2>2. Len(h) + 1 \in 1 .. Len(h) + 1 /\ Len(h) + 1 - 1 = Len(h)
    BY <1>2
  <2>3. b[Len(h)] = x
    BY <1>1, <2>1, <2>2
  <2>4. \A k \in 1 .. Len(h) : k \in 1 .. Len(h) + 1
    BY <1>2
  <2> QED
    BY <1>1, <2>1, <2>3, <2>4 DEF Begins
<1> QED
  BY <1>1, <1>3, <1>4, <1>5 DEF a

LEMMA PackExt ==
    ASSUME NEW type \in ExtTypes, NEW l \in Lengths31
    PROVE  LET e == cw_pack_ext(type, l, FALSE)
           IN  ReadAs(e, {BlobItem(type, l, e)}, 0)
<1> DEFINE e == cw_pack_ext(type, l, FALSE)
           x == type % 256
           item == BlobItem(type, l, e)
<1>0. l \in Nat
  BY SMT DEF Lengths31
<1>1. x \in Byte /\ Signed8(x) = type /\ type # CWP_ITEM_TIMESTAMP
  BY TypeBytes
<1>2. CASE l \in DOMAIN FixExtTag
  <2> DEFINE c == FixExtTag[l]
             g == <<c>>
             h == Append(g, x)
  <2>1. c \in FixExt /\ c \in Byte /\ FixExtLength[c] = l
    <3>1. l \in {1, 2, 4, 8, 16}
      BY <1>2 DEF FixExtTag
    <3> QED
      BY <3>1, Tags
  <2>2. e = Encoded(h, l)
    BY <1>2 DEF cw_pack_ext
  <2> HIDE DEF c, x, e
  <2>3. g \in Seq(Byte) /\ Len(g) = 1 /\ \A b : Begins(b, g) => b[0] = c
    BY <2>1, TagOnly
  <2> HIDE DEF g
  <2>4. /\ h \in Seq(Byte) \ {<<>>} /\ Len(h) = 2
        /\ \A b : Begins(b, h) => b[0] = c /\ b[1] = x
    <3>1. /\ h \in Seq(Byte) \ {<<>>} /\ Len(h) = Len(g) + 1
          /\ \A b : Begins(b, h) => Begins(b, g) /\ b[Len(g)] = x
      BY <1>1, <2>3, TypedEnd
    <3> QED
      BY <2>3, <3>1
  <2> HIDE DEF h
  <2>5. item = [type |-> type, as |-> [length |-> l, start |-> 2]]
    <3>1. e.header = h
      BY <2>2 DEF Encoded
    <3> QED
      BY <2>4, <3>1 DEF BlobItem
  <2>6. ASSUME NEW b, Begins(b, h) PROVE \E i \in {item} : Reads(b, 2 + l, 0, i)
    <3>2. b[0] = c /\ b[1] = x
      BY <2>4, <2>6
    <3>3. b[0] \in Byte /\ b[0] \in FixExt /\ Signed8(b[1]) = type
      BY <1>1, <2>1, <3>2
    <3>4. Reads(b, 2 + FixExtLength[b[0]], 0,
                [type |-> type, as |-> [length |-> FixExtLength[b[0]], start |-> 2]])
      BY <1>1, <3>3, ReadExt
    <3> QED
      BY <2>1, <2>5, <3>2, <3>4
  <2> HIDE DEF item
  <2>7. ReadAs(Encoded(h, l), {item}, 0)
    <3>1. 2 + l = Len(h) + l /\ Len(h) <= 18
      BY <2>4
    <3> QED
      BY <1>0, <2>4, <2>6, <3>1, ReadEncoded, Zenon
  <2> QED
    BY <2>2, <2>3, <2>7 DEF item, e
<1>3. CASE l \notin DOMAIN FixExtTag
  <2>1. DOMAIN ExtTag \subseteq {1, 2, 4} /\ 4 \in DOMAIN ExtTag
    BY DEF ExtTag
  <2>2. e = Encoded(Append(SizedHeader(ExtTag, l), x), l)
    BY <1>3 DEF cw_pack_ext
  <2>4. PICK w \in DOMAIN ExtTag : \E f \in [1 .. w -> Byte] :
            SizedHeader(ExtTag, l) = <<ExtTag[w]>> \o f /\ Number(f) = l
    BY <2>1, Sized
  <2>5. PICK f \in [1 .. w -> Byte] :
            SizedHeader(ExtTag, l) = <<ExtTag[w]>> \o f /\ Number(f) = l
    BY <2>4
  <2> DEFINE c == ExtTag[w]
             g == <<c>> \o f
             h == Append(g, x)
  <2>6. c \in Ext /\ Width[c] = w /\ w \in 0 .. 8
    BY <2>1, Tags, SMTT(30) DEF Ext
  <2>7. e = Encoded(h, l)
    BY <2>2, <2>5
  <2> HIDE DEF c, x, e
  <2>8. c \in Byte /\ w \in 0 .. 8
    BY <2>6 DEF Byte, Ext
  <2>9. /\ g \in Seq(Byte) /\ Len(g) = 1 + w
        /\ \A b : Begins(b, g) => b[0] = c /\ Field(b, 1, w) = f
    BY <2>8, TagAndField
  <2> HIDE DEF g
  <2>10. /\ h \in Seq(Byte) \ {<<>>} /\ Len(h) = 2 + w
         /\ \A b : Begins(b, h) => Begins(b, g) /\ b[1 + w] = x
    BY <1>1, <2>6, <2>9, TypedEnd
  <2> HIDE DEF h
  <2>11. item = [type |-> type, as |-> [length |-> l, start |-> 2 + w]]
    <3>1. e.header = h
      BY <2>7 DEF Encoded
    <3> QED
      BY <2>10, <3>1 DEF BlobItem
  <2>12. ASSUME NEW b, Begins(b, h) PROVE \E i \in {item} : Reads(b, 2 + w + l, 0, i)
    <3>1. b[0] = c /\ Field(b, 1, w) = f /\ b[1 + w] = x
      BY <2>9, <2>10, <2>12
    <3>2. b[0] \in Byte /\ b[0] \in Ext /\ w = Width[b[0]] /\ Signed8(b[1 + w]) = type
      BY <1>1, <2>6, <2>8, <3>1
    <3>3. Reads(b, 2 + w + Number(f), 0,
                [type |-> type, as |-> [length |-> Number(f), start |-> 2 + w]])
      BY <1>1, <3>1, <3>2, ReadExt
    <3> QED
      BY <2>5, <2>11, <3>3
  <2> HIDE DEF item
  <2>13. ReadAs(Encoded(h, l), {item}, 0)
    <3>1. 2 + w + l = Len(h) + l /\ Len(h) <= 18
      BY <2>6, <2>10
    <3> QED
      BY <1>0, <2>10, <2>12, <3>1, ReadEncoded, Zenon
  <2> QED
    BY <2>7, <2>13 DEF item, e
<1> QED
  BY <1>2, <1>3

\* The numeric extensions: fixext items of the width of the value.
LEMMA PackFixExt ==
    ASSUME NEW x \in Byte, NEW type \in ExtTypes, Signed8(x) = type,
           NEW w \in {1, 2, 4, 8}, NEW f \in [1 .. w -> Byte]
    PROVE  LET e == Encoded(<<FixExtTag[w], x>> \o f, 0)
               item == [type |-> type, as |-> [length |-> w, start |-> 2]]
           IN  /\ ReadAs(e, {item}, 0)
               /\ Len(e.header) = 2 + w
               /\ \A b : Begins(b, e.header) => Field(b, 2, w) = f
<1> DEFINE c == FixExtTag[w]
           h == <<c, x>> \o f
           item == [type |-> type, as |-> [length |-> w, start |-> 2]]
<1>1. type # CWP_ITEM_TIMESTAMP
  BY TypeBytes
<1>0. c \in Byte /\ c \in FixExt /\ FixExtLength[c] = w
  BY Tags, SMTT(30)
<1> HIDE DEF c
<1>2. f \in Seq(Byte) /\ Len(f) = w
  <2>1. w \in Nat
    OBVIOUS
  <2> QED
    BY <2>1, BytesAreSequence
<1>3. /\ h \in Seq(Byte) \ {<<>>} /\ Len(h) = 2 + w
      /\ \A b : Begins(b, h) => b[0] = c /\ b[1] = x /\ Field(b, 2, w) = f
  BY <1>0, <1>2, TypedHeader
<1> HIDE DEF h
<1>4. ASSUME NEW b, Begins(b, h) PROVE \E i \in {item} : Reads(b, 2 + w, 0, i)
  <2>1. b[0] = c /\ b[1] = x
    BY <1>3, <1>4
  <2>2. b[0] \in Byte /\ b[0] \in FixExt /\ Signed8(b[1]) = type
    BY <1>0, <2>1
  <2>3. Reads(b, 2 + FixExtLength[b[0]], 0,
              [type |-> type, as |-> [length |-> FixExtLength[b[0]], start |-> 2]])
    BY <1>1, <2>2, ReadExt
  <2> QED
    BY <1>0, <2>1, <2>3
<1> HIDE DEF item
<1>5. ReadAs(Encoded(h, 0), {item}, 0)
  <2>1. 2 + w = Len(h) + 0 /\ Len(h) <= 18 /\ 0 \in Nat
    BY <1>3
  <2> QED
    BY <1>3, <1>4, <2>1, ReadEncoded, Zenon
<1>6. Encoded(h, 0).header = h
  BY DEF Encoded
<1> QED
  BY <1>3, <1>5, <1>6 DEF h, item, c

LEMMA PackExtInteger ==
    ASSUME NEW type \in ExtTypes, NEW v \in Word64
    PROVE  LET e == cw_pack_ext_integer(type, v)
           IN  \E w \in {1, 2, 4, 8} :
                 /\ ReadAs(e, {[type |-> type, as |-> [length |-> w, start |-> 2]]}, 0)
                 /\ Len(e.header) = 2 + w /\ e.payload = 0
                 /\ \A b : Begins(b, e.header) => SignExtended(Field(b, 2, w)) = v
<1> DEFINE S == {k \in {1, 2, 4, 8} :
                   IF Negative(v) THEN FitsNegative(v, k)
                   ELSE FitsUnsigned(v, k) /\ v[9 - k] < 128}
           w == Min(S)
           f == Low(v, w)
           x == type % 256
           e == cw_pack_ext_integer(type, v)
<1>1. 8 \in S
  <2>1. v[1] \in 0 .. 255
    BY DEF Word64, Byte
  <2> QED
    BY <2>1 DEF FitsNegative, FitsUnsigned, Negative
<1>2. w \in S
  BY <1>1, MinOfWidths
<1>3. /\ w \in {1, 2, 4, 8}
      /\ FitsNegative(v, w) \/ (FitsUnsigned(v, w) /\ v[9 - w] < 128)
  BY <1>2
<1>0. x \in Byte /\ Signed8(x) = type
  BY TypeBytes
<1>4. e = Encoded(<<FixExtTag[w], x>> \o f, 0)
  BY DEF cw_pack_ext_integer
<1> HIDE DEF w, S
<1>6. f \in [1 .. w -> Byte] /\ SignExtended(f) = v
  <2>1. w \in 0 .. 8 /\ w \in 1 .. 8
    BY <1>3
  <2> QED
    BY <1>3, <2>1, LowBytes, SignExtendedLow
<1>7. e.payload = 0
  BY <1>4 DEF Encoded
<1> HIDE DEF e, f, x
<1>8. /\ ReadAs(e, {[type |-> type, as |-> [length |-> w, start |-> 2]]}, 0)
      /\ Len(e.header) = 2 + w
      /\ \A b : Begins(b, e.header) => Field(b, 2, w) = f
  <2> DEFINE z == Encoded(<<FixExtTag[w], x>> \o f, 0)
             i == [type |-> type, as |-> [length |-> w, start |-> 2]]
  <2>1. ReadAs(z, {i}, 0)
    BY <1>0, <1>3, <1>6, PackFixExt
  <2>4. /\ Len(z.header) = 2 + w
        /\ \A b : Begins(b, z.header) => Field(b, 2, w) = f
    BY <1>0, <1>3, <1>6, PackFixExt
  <2>2. e = z
    BY <1>4
  <2> HIDE DEF z, i
  <2>3. ReadAs(e, {i}, 0) /\ Len(e.header) = 2 + w
        /\ \A b : Begins(b, e.header) => Field(b, 2, w) = f
    BY <2>1, <2>2, <2>4
  <2> QED
    BY <2>3 DEF i
<1>9. \A b : Begins(b, e.header) => SignExtended(Field(b, 2, w)) = v
  BY <1>6, <1>8
<1> QED
  BY <1>3, <1>7, <1>8, <1>9 DEF e

\* What nsec may be in a timestamp.
Nanoseconds == {n \in Lengths31 : n < SECOND}

\* Four bytes and four bytes are a word.
LEMMA WordOfHalves ==
    ASSUME NEW p \in Seq(Byte), Len(p) = 4, NEW f \in [1 .. 4 -> Byte]
    PROVE  /\ p \o f \in Word64
           /\ \A k \in 1 .. 4 : (p \o f)[k] = p[k] /\ (p \o f)[4 + k] = f[k]
<1>1. f \in Seq(Byte) /\ Len(f) = 4
  <2>1. 4 \in Nat
    OBVIOUS
  <2> QED
    BY <2>1, BytesAreSequence
<1> DEFINE d == p \o f
<1>2. /\ d \in Seq(Byte) /\ Len(d) = Len(p) + Len(f)
      /\ \A k \in 1 .. Len(p) + Len(f) :
            d[k] = IF k <= Len(p) THEN p[k] ELSE f[k - Len(p)]
  BY <1>1, ConcatProperties
<1> HIDE DEF d
<1>3. /\ Len(d) = 8
      /\ \A k \in 1 .. 8 : d[k] = IF k <= 4 THEN p[k] ELSE f[k - 4]
  BY <1>1, <1>2, SMT
<1>4. d \in Word64
  BY <1>2, <1>3, LenProperties DEF Word64
<1>5. ASSUME NEW k \in 1 .. 4
      PROVE  d[k] = p[k] /\ d[4 + k] = f[k]
  <2>1. /\ k \in 1 .. 8 /\ k <= 4 /\ 4 + k \in 1 .. 8
        /\ ~(4 + k <= 4) /\ 4 + k - 4 = k
    BY SMT
  <2> QED
    BY <1>3, <2>1, SMT
<1> QED
  BY <1>4, <1>5 DEF d

\* The data of a timestamp 64: from its bytes both numbers come back.
LEMMA TimeData ==
    ASSUME NEW sec \in Word64, sec[4] < 4,
           NEW nsec \in Nanoseconds
    PROVE  LET d == TimeData64(sec, nsec)
           IN  /\ d \in Word64
               /\ \A k \in 5 .. 8 : d[k] = sec[k]
               /\ d[4] % 4 = sec[4]
               /\ d[1] * 4194304 + d[2] * 16384 + d[3] * 64 + (d[4] \div 4) = nsec
               /\ d[1] = 0 /\ d[2] = 0 /\ d[3] = 0 /\ d[4] = 0 => nsec = 0 /\ sec[4] = 0
<1> DEFINE d == TimeData64(sec, nsec)
           p == <<nsec \div 4194304, (nsec \div 16384) % 256, (nsec \div 64) % 256,
                  (nsec % 64) * 4 + sec[4]>>
           f == Low(sec, 4)
           q1 == nsec \div 64
           q2 == q1 \div 256
           q3 == q2 \div 256
           r == nsec % 64
<1>1. nsec \in Nat
  BY SMT DEF Nanoseconds, Lengths31
<1>2. sec[4] \in 0 .. 3 /\ sec[4] \in Int
  <2>1. sec[4] \in 0 .. 255
    BY SMT DEF Word64, Byte
  <2> QED
    BY <2>1, SMT
<1>3. f \in [1 .. 4 -> Byte] /\ \A k \in 1 .. 4 : f[k] = sec[4 + k]
  <2>1. 4 \in 0 .. 8 /\ 8 - 4 = 4
    BY SMT
  <2> QED
    BY <2>1, LowBytes, SMT
<1>4. d = p \o f
  BY SMT DEF TimeData64, f
<1> HIDE DEF d, f
<1>5. /\ q1 \in Nat /\ q2 \in Nat /\ q3 \in Nat
      /\ nsec = 64 * q1 + r /\ r \in 0 .. 63
      /\ q1 = 256 * q2 + (q1 % 256) /\ q2 = 256 * q3 + (q2 % 256)
      /\ q1 % 256 \in 0 .. 255 /\ q2 % 256 \in 0 .. 255
  BY <1>1, SMT
<1>6. nsec \div 16384 = q2 /\ nsec \div 4194304 = q3
  BY <1>1, SMT
<1>7. q3 \in 0 .. 255
  BY <1>1, <1>5, SMT DEF Nanoseconds, SECOND
<1>8. p = <<q3, q2 % 256, q1 % 256, r * 4 + sec[4]>>
  BY <1>6, SMT
<1> HIDE DEF q1, q2, q3, r
<1>9. r * 4 + sec[4] \in 0 .. 255
  BY <1>2, <1>5, SMT
<1> HIDE DEF p
<1>10. p \in Seq(Byte) /\ Len(p) = 4
  BY <1>5, <1>7, <1>8, <1>9, SMT DEF Byte
<1>11. /\ d \in Word64
       /\ \A k \in 1 .. 4 : d[k] = p[k] /\ d[4 + k] = f[k]
  <2>1. /\ p \o f \in Word64
        /\ \A k \in 1 .. 4 : (p \o f)[k] = p[k] /\ (p \o f)[4 + k] = f[k]
    BY <1>3, <1>10, WordOfHalves, SMT
  <2> QED
    BY <1>4, <2>1, Zenon
<1>12. \A k \in 1 .. 4 : d[k] = p[k] /\ d[4 + k] = f[k]
  BY <1>11
<1>13. /\ d[1] = q3 /\ d[2] = q2 % 256 /\ d[3] = q1 % 256
       /\ d[4] = r * 4 + sec[4]
  BY <1>8, <1>12, SMT
<1>14. \A k \in 5 .. 8 : d[k] = sec[k]
  <2> SUFFICES ASSUME NEW k \in 5 .. 8 PROVE d[k] = sec[k]
    BY SMT
  <2>1. k - 4 \in 1 .. 4 /\ 4 + (k - 4) = k
    BY SMT
  <2> QED
    BY <1>3, <1>12, <2>1, SMT
<1>15. d[4] % 4 = sec[4] /\ d[4] \div 4 = r
  <2>1. r \in Int /\ d[4] = 4 * r + sec[4]
    BY <1>2, <1>5, <1>13, SMT
  <2> QED
    BY <1>2, <2>1, SMT
<1>16. d[1] * 4194304 + d[2] * 16384 + d[3] * 64 + (d[4] \div 4) = nsec
  <2>1. d[1] * 4194304 + d[2] * 16384 + d[3] * 64 + (d[4] \div 4)
          = q3 * 4194304 + (q2 % 256) * 16384 + (q1 % 256) * 64 + r
    BY <1>13, <1>15, SMT
  <2>2. q2 % 256 = q2 - 256 * q3 /\ q1 % 256 = q1 - 256 * q2
    BY <1>5, SMT
  <2> QED
    BY <1>1, <1>5, <2>1, <2>2, SMT
<1>17. d[1] = 0 /\ d[2] = 0 /\ d[3] = 0 /\ d[4] = 0 => nsec = 0 /\ sec[4] = 0
  <2> SUFFICES ASSUME d[1] = 0, d[2] = 0, d[3] = 0, d[4] = 0
               PROVE  nsec = 0 /\ sec[4] = 0
    BY SMT
  <2>1. r = 0 /\ sec[4] = 0
    BY <1>2, <1>5, <1>13, SMT
  <2>2. q3 = 0 /\ q2 = 0 /\ q1 = 0
    BY <1>5, <1>13, SMT
  <2> QED
    BY <1>1, <1>5, <2>1, <2>2, SMT
<1> QED
  BY <1>11, <1>14, <1>15, <1>16, <1>17, SMT DEF d

\* What the fields of a timestamp tell.
LEMMA TimeValues ==
    ASSUME NEW b
    PROVE  /\ b[0] = 214 =>
                TimeValue(b) = [sec |-> ZeroExtended(Field(b, 2, 4)), nsec |-> 0]
           /\ b[0] = 199 =>
                TimeValue(b) = [sec |-> Field(b, 7, 8), nsec |-> Number(Field(b, 3, 4))]
<1>1. ASSUME b[0] = 214
      PROVE  TimeValue(b) = [sec |-> ZeroExtended(Field(b, 2, 4)), nsec |-> 0]
  BY <1>1, SMT DEF TimeValue
<1>2. ASSUME b[0] = 199
      PROVE  TimeValue(b) = [sec |-> Field(b, 7, 8), nsec |-> Number(Field(b, 3, 4))]
  BY <1>2, SMT DEF TimeValue
<1> QED
  BY <1>1, <1>2

NsecOf(x1, x2, x3, x4) == x1 * 4194304 + x2 * 16384 + x3 * 64 + x4 \div 4

LEMMA TimeValue64 ==
    ASSUME NEW b, b[0] = 215
    PROVE  TimeValue(b) =
                [sec  |-> ZeroExtended(<<b[5] % 4>> \o Field(b, 6, 4)),
                 nsec |-> NsecOf(b[2], b[3], b[4], b[5])]
BY SMT DEF TimeValue, NsecOf

\* A header that is a timestamp of these seconds and nanoseconds.
TimeItem(sec, nsec) ==
    [type |-> CWP_ITEM_TIMESTAMP, as |-> [sec |-> sec, nsec |-> nsec]]

LEMMA TimeEncoded ==
    ASSUME NEW h \in Seq(Byte) \ {<<>>}, Len(h) <= 18, NEW sec, NEW nsec,
           \A b : Begins(b, h) =>
              /\ \/ (b[0] = 214 /\ b[1] = 255 /\ Len(h) = 6)
                 \/ (b[0] = 215 /\ b[1] = 255 /\ Len(h) = 10)
                 \/ (b[0] = 199 /\ b[1] = 12 /\ b[2] = 255 /\ Len(h) = 15)
              /\ TimeValue(b) = [sec |-> sec, nsec |-> nsec]
    PROVE  ReadAs(Encoded(h, 0), {TimeItem(sec, nsec)}, 0)
<1>1. ASSUME NEW b, Begins(b, h)
      PROVE  Reads(b, Len(h), 0, TimeItem(sec, nsec))
  <2>1. TimeValue(b) = [sec |-> sec, nsec |-> nsec]
    BY <1>1
  <2>2. Reads(b, Len(h), 0, [type |-> CWP_ITEM_TIMESTAMP, as |-> TimeValue(b)])
    BY <1>1, ReadTime
  <2> QED
    BY <2>1, <2>2 DEF TimeItem
<1> DEFINE items == {TimeItem(sec, nsec)}
<1>2. \A b : Begins(b, h) => \E item \in items : Reads(b, Len(h), 0, item)
  BY <1>1
<1>3. Len(h) \in Nat /\ 0 \in Nat /\ Len(h) = Len(h) + 0
  BY LenProperties
<1> HIDE DEF items
<1>4. ReadAs(Encoded(h, 0), items, 0)
  BY <1>2, <1>3, ReadEncoded, Zenon
<1> QED
  BY <1>4 DEF items

\* Seconds outside 34 bits: nanoseconds and seconds in fields of their own.
LEMMA PackTimeFar ==
    ASSUME NEW sec \in Word64, NEW nsec \in Nanoseconds
    PROVE  ReadAs(Encoded(<<199, 12, 255>> \o BigEndian(nsec, 4) \o sec, 0),
                  {TimeItem(sec, nsec)}, 0)
<1> DEFINE t == <<199, 12, 255>>
           f == BigEndian(nsec, 4)
           p == t \o f
           h == p \o sec
<1>1. f \in [1 .. 4 -> Byte] /\ Number(f) = nsec
  <2>1. nsec \in Lengths31 /\ 4 \in {1, 2, 4}
    BY SMT DEF Nanoseconds
  <2> QED
    BY <2>1, BigEndianBytes
<1>2. f \in Seq(Byte) /\ Len(f) = 4 /\ sec \in Seq(Byte) /\ Len(sec) = 8
  <2>1. 4 \in Nat /\ 8 \in Nat
    OBVIOUS
  <2> QED
    BY <1>1, <2>1, BytesAreSequence DEF Word64
<1>3. t \in Seq(Byte) /\ Len(t) = 3
  BY SMT DEF Byte
<1>9. t[1] = 199 /\ t[2] = 12 /\ t[3] = 255
  BY SMT
<1> HIDE DEF t, f
<1>4. /\ p \in Seq(Byte) /\ Len(p) = 7
      /\ \A k \in 1 .. 7 : p[k] = IF k <= 3 THEN t[k] ELSE f[k - 3]
  <2>1. /\ p \in Seq(Byte) /\ Len(p) = Len(t) + Len(f)
        /\ \A k \in 1 .. Len(t) + Len(f) :
              p[k] = IF k <= Len(t) THEN t[k] ELSE f[k - Len(t)]
    BY <1>2, <1>3, ConcatProperties
  <2> QED
    BY <1>2, <1>3, <2>1, SMT
<1>5. ASSUME NEW b, Begins(b, p)
      PROVE  b[0] = 199 /\ b[1] = 12 /\ b[2] = 255 /\ Field(b, 3, 4) = f
  <2>1. /\ \A k \in 1 .. Len(t) : b[k - 1] = t[k]
        /\ Field(b, Len(t), Len(f)) = f
    BY <1>2, <1>3, <1>5, FieldBehind
  <2> QED
    BY <1>2, <1>3, <1>9, <2>1, SMT
<1> HIDE DEF p
<1>6. h \in Seq(Byte) /\ Len(h) = 15 /\ h # <<>>
  <2>1. h \in Seq(Byte) /\ Len(h) = Len(p) + Len(sec)
    BY <1>2, <1>4, ConcatProperties
  <2>2. Len(h) = 15
    BY <1>2, <1>4, <2>1, SMT
  <2> QED
    BY <2>1, <2>2, SMT
<1>7. ASSUME NEW b, Begins(b, h)
      PROVE  /\ b[0] = 199 /\ b[1] = 12 /\ b[2] = 255
             /\ TimeValue(b) = [sec |-> sec, nsec |-> nsec]
  <2>1. /\ \A k \in 1 .. Len(p) : b[k - 1] = p[k]
        /\ Field(b, Len(p), Len(sec)) = sec
    BY <1>2, <1>4, <1>7, FieldBehind
  <2>2. Begins(b, p) /\ Field(b, 7, 8) = sec
    BY <1>2, <1>4, <2>1 DEF Begins
  <2>3. b[0] = 199 /\ b[1] = 12 /\ b[2] = 255 /\ Field(b, 3, 4) = f
    BY <1>5, <2>2
  <2>4. TimeValue(b) = [sec |-> Field(b, 7, 8), nsec |-> Number(Field(b, 3, 4))]
    BY <2>3, TimeValues
  <2> QED
    BY <1>1, <2>2, <2>3, <2>4
<1> HIDE DEF h
<1>8. ReadAs(Encoded(h, 0), {TimeItem(sec, nsec)}, 0)
  <2>1. Len(h) <= 18
    BY <1>6, SMT
  <2>2. \A b : Begins(b, h) =>
           /\ \/ (b[0] = 214 /\ b[1] = 255 /\ Len(h) = 6)
              \/ (b[0] = 215 /\ b[1] = 255 /\ Len(h) = 10)
              \/ (b[0] = 199 /\ b[1] = 12 /\ b[2] = 255 /\ Len(h) = 15)
           /\ TimeValue(b) = [sec |-> sec, nsec |-> nsec]
    BY <1>6, <1>7
  <2>3. h \in Seq(Byte) \ {<<>>}
    BY <1>6
  <2> QED
    BY <2>1, <2>2, <2>3, TimeEncoded, Zenon
<1> QED
  BY <1>8 DEF h, p, t, f

\* The low halves of two words are the same.
SameLow(u, v) == \A k \in 5 .. 8 : u[k] = v[k]

\* The high half holds the nanoseconds and two bits of the seconds.
HighHalf(d, sec, nsec) ==
    d[4] % 4 = sec[4] /\ NsecOf(d[1], d[2], d[3], d[4]) = nsec

\* No nanoseconds, and seconds of 32 bits: a fixext 4.
LEMMA PackTime32 ==
    ASSUME NEW sec \in Word64, NEW d \in Word64, FitsUnsigned(sec, 4),
           SameLow(d, sec)
    PROVE  ReadAs(Encoded(<<214, 255>> \o Low(d, 4), 0), {TimeItem(sec, 0)}, 0)
<1> DEFINE f == Low(d, 4)
<1>1. f \in [1 .. 4 -> Byte] /\ Low(sec, 4) \in [1 .. 4 -> Byte]
      /\ \A k \in 1 .. 4 : f[k] = Low(sec, 4)[k]
  <2>1. 4 \in 0 .. 8 /\ 8 - 4 = 4
    OBVIOUS
  <2>2. /\ f \in [1 .. 4 -> Byte] /\ \A k \in 1 .. 4 : f[k] = d[4 + k]
        /\ Low(sec, 4) \in [1 .. 4 -> Byte]
        /\ \A k \in 1 .. 4 : Low(sec, 4)[k] = sec[4 + k]
    BY <2>1, LowBytes
  <2>3. \A k \in 1 .. 4 : d[4 + k] = sec[4 + k]
    BY DEF SameLow
  <2> QED
    BY <2>2, <2>3
<1>2. ZeroExtended(f) = sec
  <2>1. 4 \in Nat /\ 4 \in 0 .. 8
    OBVIOUS
  <2>2. f = Low(sec, 4)
    BY <1>1, <2>1, SameWord
  <2> QED
    BY <2>1, <2>2, ZeroExtendedLow
<1> HIDE DEF f
<1>3. f \in Seq(Byte) /\ Len(f) = 4
  <2>1. 4 \in Nat
    OBVIOUS
  <2>2. f \in [1 .. 4 -> Byte]
    BY <1>1
  <2> QED
    BY <2>1, <2>2, BytesAreSequence
<1> DEFINE c == 214
           x == 255
           h == <<c, x>> \o f
<1>4. c \in Byte /\ x \in Byte
  BY SMT DEF Byte
<1>9. c = 214 /\ x = 255
  OBVIOUS
<1> HIDE DEF c, x
<1>5. /\ h \in Seq(Byte) \ {<<>>} /\ Len(h) = 2 + Len(f)
      /\ \A b : Begins(b, h) => b[0] = c /\ b[1] = x /\ Field(b, 2, Len(f)) = f
  <2>0. f \in Seq(Byte)
    BY <1>3
  <2>1. /\ <<c, x>> \o f \in Seq(Byte) \ {<<>>} /\ Len(<<c, x>> \o f) = 2 + Len(f)
        /\ (<<c, x>> \o f)[1] = c
        /\ \A b : Begins(b, <<c, x>> \o f) =>
              b[0] = c /\ b[1] = x /\ Field(b, 2, Len(f)) = f
    BY <2>0, <1>4, TypedHeader, SMT
  <2> QED
    BY <2>1
<1> HIDE DEF h
<1>6. Len(h) = 6 /\ Len(h) <= 18
  BY <1>3, <1>5, SMT
<1>7. ASSUME NEW b, Begins(b, h)
      PROVE  b[0] = 214 /\ b[1] = 255 /\ TimeValue(b) = [sec |-> sec, nsec |-> 0]
  <2>1. b[0] = 214 /\ b[1] = 255 /\ Field(b, 2, 4) = f
    BY <1>3, <1>5, <1>7, <1>9
  <2>2. TimeValue(b) = [sec |-> ZeroExtended(Field(b, 2, 4)), nsec |-> 0]
    BY <2>1, TimeValues
  <2> QED
    BY <1>2, <2>1, <2>2
<1>8. ReadAs(Encoded(h, 0), {TimeItem(sec, 0)}, 0)
  <2>1. \A b : Begins(b, h) =>
           /\ \/ (b[0] = 214 /\ b[1] = 255 /\ Len(h) = 6)
              \/ (b[0] = 215 /\ b[1] = 255 /\ Len(h) = 10)
              \/ (b[0] = 199 /\ b[1] = 12 /\ b[2] = 255 /\ Len(h) = 15)
           /\ TimeValue(b) = [sec |-> sec, nsec |-> 0]
    BY <1>6, <1>7
  <2> QED
    BY <1>5, <1>6, <2>1, TimeEncoded, Zenon
<1> QED
  BY <1>8 DEF h, f, c, x

\* Seconds of 34 bits: a fixext 8, whose fourth byte both numbers share.
LEMMA PackTime64 ==
    ASSUME NEW sec \in Word64, FitsUnsigned(sec, 5),
           NEW nsec, NEW d \in Word64,
           SameLow(d, sec), HighHalf(d, sec, nsec)
    PROVE  ReadAs(Encoded(<<215, 255>> \o d, 0), {TimeItem(sec, nsec)}, 0)
<1>1. d \in Seq(Byte) /\ Len(d) = 8
  <2>1. 8 \in Nat /\ d \in [1 .. 8 -> Byte]
    BY DEF Word64
  <2> QED
    BY <2>1, BytesAreSequence
<1> DEFINE c == 215
           x == 255
           h == <<c, x>> \o d
<1>2. c \in Byte /\ x \in Byte
  BY SMT DEF Byte
<1>3. c = 215 /\ x = 255
  OBVIOUS
<1> HIDE DEF c, x
<1>4. /\ h \in Seq(Byte) \ {<<>>} /\ Len(h) = 2 + Len(d)
      /\ \A b : Begins(b, h) => b[0] = c /\ b[1] = x /\ Field(b, 2, Len(d)) = d
  <2>0. d \in Seq(Byte)
    BY <1>1
  <2>1. /\ <<c, x>> \o d \in Seq(Byte) \ {<<>>} /\ Len(<<c, x>> \o d) = 2 + Len(d)
        /\ (<<c, x>> \o d)[1] = c
        /\ \A b : Begins(b, <<c, x>> \o d) =>
              b[0] = c /\ b[1] = x /\ Field(b, 2, Len(d)) = d
    BY <2>0, <1>2, TypedHeader, SMT
  <2> QED
    BY <2>1
<1> HIDE DEF h
<1>5. Len(h) = 10 /\ Len(h) <= 18
  BY <1>1, <1>4, SMT
<1>6. ASSUME NEW b, Begins(b, h)
      PROVE  b[0] = 215 /\ b[1] = 255 /\ TimeValue(b) = [sec |-> sec, nsec |-> nsec]
  <2>1. b[0] = 215 /\ b[1] = 255 /\ Field(b, 2, 8) = d
    BY <1>1, <1>3, <1>4, <1>6
  <2>2. \A k \in 1 .. 8 : d[k] = b[1 + k]
    BY <2>1, SMT DEF Field
  <2>3. /\ b[2] = d[1] /\ b[3] = d[2] /\ b[4] = d[3] /\ b[5] = d[4]
        /\ \A k \in 1 .. 4 : b[5 + k] = sec[4 + k]
    BY <2>2, SMT DEF SameLow
  <2> DEFINE g == <<sec[4]>> \o Field(b, 6, 4)
             f == Field(b, 6, 4)
             p == <<sec[4]>>
  <2>4. ZeroExtended(g) = sec
    <3>1. f \in [1 .. 4 -> Byte] /\ \A k \in 1 .. 4 : f[k] = sec[4 + k]
      <4>1. f = [k \in 1 .. 4 |-> b[6 + k - 1]]
        BY DEF Field
      <4>2. \A k \in 1 .. 4 : b[6 + k - 1] = sec[4 + k] /\ sec[4 + k] \in Byte
        BY <2>3, SMT DEF Word64
      <4> QED
        BY <4>1, <4>2
    <3> HIDE DEF f
    <3>2. f \in Seq(Byte) /\ Len(f) = 4 /\ p \in Seq(Byte) /\ Len(p) = 1
          /\ p[1] = sec[4]
      <4>1. 4 \in Nat /\ sec[4] \in Byte
        BY DEF Word64
      <4>2. f \in Seq(Byte) /\ Len(f) = 4
        BY <3>1, <4>1, BytesAreSequence
      <4> QED
        BY <4>1, <4>2
    <3> HIDE DEF p
    <3> DEFINE q == p \o f
    <3>3. /\ q \in Seq(Byte) /\ Len(q) = Len(p) + Len(f)
          /\ \A k \in 1 .. Len(p) + Len(f) :
                q[k] = IF k <= Len(p) THEN p[k] ELSE f[k - Len(p)]
      BY <3>2, ConcatProperties
    <3> HIDE DEF q
    <3>4. Len(q) = 5 /\ \A k \in 1 .. 5 : q[k] = sec[3 + k]
      <4>1. Len(q) = 5 /\ \A k \in 1 .. 5 : q[k] = IF k <= 1 THEN p[k] ELSE f[k - 1]
        BY <3>2, <3>3, SMT
      <4>2. ASSUME NEW k \in 1 .. 5 PROVE q[k] = sec[3 + k]
        <5>1. CASE k = 1
          BY <3>2, <4>1, <5>1
        <5>2. CASE k # 1
          <6>1. k - 1 \in 1 .. 4 /\ 4 + (k - 1) = 3 + k /\ ~(k <= 1)
            BY <5>2
          <6> QED
            BY <3>1, <4>1, <6>1
        <5> QED
          BY <5>1, <5>2
      <4> QED
        BY <4>1, <4>2
    <3>5. q \in [1 .. 5 -> Byte]
      BY <3>3, <3>4, LenProperties
    <3>6. q = Low(sec, 5)
      <4>1. 5 \in 0 .. 8 /\ 5 \in Nat /\ 8 - 5 = 3
        OBVIOUS
      <4>2. Low(sec, 5) \in [1 .. 5 -> Byte]
            /\ \A k \in 1 .. 5 : Low(sec, 5)[k] = sec[3 + k]
        BY <4>1, LowBytes
      <4>3. \A k \in 1 .. 5 : q[k] = Low(sec, 5)[k]
        BY <3>4, <4>2
      <4> QED
        BY <3>5, <4>1, <4>2, <4>3, SameWord
    <3>7. ZeroExtended(Low(sec, 5)) = sec
      <4>1. 5 \in 0 .. 8
        OBVIOUS
      <4> QED
        BY <4>1, ZeroExtendedLow
    <3> QED
      BY <3>6, <3>7 DEF q, p, f
  <2>5. TimeValue(b) =
            [sec  |-> ZeroExtended(<<b[5] % 4>> \o Field(b, 6, 4)),
             nsec |-> NsecOf(b[2], b[3], b[4], b[5])]
    BY <2>1, TimeValue64
  <2>6. b[5] % 4 = sec[4] /\ NsecOf(b[2], b[3], b[4], b[5]) = nsec
    BY <2>3 DEF HighHalf
  <2> QED
    BY <2>1, <2>3, <2>4, <2>5, <2>6
<1>7. ReadAs(Encoded(h, 0), {TimeItem(sec, nsec)}, 0)
  <2>1. \A b : Begins(b, h) =>
           /\ \/ (b[0] = 214 /\ b[1] = 255 /\ Len(h) = 6)
              \/ (b[0] = 215 /\ b[1] = 255 /\ Len(h) = 10)
              \/ (b[0] = 199 /\ b[1] = 12 /\ b[2] = 255 /\ Len(h) = 15)
           /\ TimeValue(b) = [sec |-> sec, nsec |-> nsec]
    BY <1>5, <1>6
  <2> QED
    BY <1>4, <1>5, <2>1, TimeEncoded, Zenon
<1> QED
  BY <1>7 DEF h, c, x

\* A timestamp is packed in the smallest format that has room for it, or
\* refused: in compatibility mode, and when a second or more of nanoseconds
\* is given.
LEMMA PackTime ==
    ASSUME NEW sec \in Word64, NEW nsec \in Lengths31, NEW be_compatible \in BOOLEAN
    PROVE  LET e == cw_pack_time(sec, nsec, be_compatible)
           IN  \/ e.rc = CWP_RC_ILLEGAL_CALL
               \/ e.rc = CWP_RC_VALUE_ERROR
               \/ ~be_compatible /\ ReadAs(e, {TimeItem(sec, nsec)}, 0)
<1> DEFINE e == cw_pack_time(sec, nsec, be_compatible)
           d == TimeData64(sec, nsec)
<1>1. CASE be_compatible
  BY <1>1 DEF cw_pack_time, Refused
<1>4. nsec >= SECOND <=> nsec \notin Nanoseconds
  BY SMT DEF Nanoseconds, Lengths31, SECOND
<1>2. CASE ~be_compatible /\ nsec \notin Nanoseconds
  <2>1. e = Refused(CWP_RC_VALUE_ERROR)
    BY <1>2, <1>4 DEF cw_pack_time
  <2> QED
    BY <2>1 DEF Refused
<1>3. CASE ~be_compatible /\ nsec \in Nanoseconds
  <2>1. CASE sec[4] >= 4 \/ \E k \in 1 .. 3 : sec[k] # 0
    <3>1. e = Encoded(<<199, 12, 255>> \o BigEndian(nsec, 4) \o sec, 0)
      BY <1>3, <1>4, <2>1, Zenon DEF cw_pack_time
    <3> HIDE DEF e
    <3>2. ReadAs(Encoded(<<199, 12, 255>> \o BigEndian(nsec, 4) \o sec, 0),
                 {TimeItem(sec, nsec)}, 0)
      BY <1>3, PackTimeFar
    <3>3. ReadAs(e, {TimeItem(sec, nsec)}, 0)
      BY <3>1, <3>2, Zenon
    <3> QED
      BY <1>3, <3>3 DEF e
  <2>2. CASE ~(sec[4] >= 4 \/ \E k \in 1 .. 3 : sec[k] # 0)
    <3>1. sec[4] < 4 /\ \A k \in 1 .. 3 : sec[k] = 0
      <4>1. sec[4] \in 0 .. 255
        BY SMT DEF Word64, Byte
      <4> QED
        BY <2>2, <4>1, SMT
    <3>2. d \in Word64 /\ SameLow(d, sec) /\ HighHalf(d, sec, nsec)
          /\ (d[1] = 0 /\ d[2] = 0 /\ d[3] = 0 /\ d[4] = 0 => nsec = 0 /\ sec[4] = 0)
      BY <1>3, <3>1, TimeData, SMT DEF SameLow, HighHalf, NsecOf
    <3> HIDE DEF d
    <3>3. CASE FitsUnsigned(d, 4)
      <4>1. e = Encoded(<<214, 255>> \o Low(d, 4), 0)
        BY <1>3, <1>4, <2>2, <3>3, Zenon DEF cw_pack_time, d
      <4>2. nsec = 0 /\ sec[4] = 0
        BY <3>2, <3>3, SMT DEF FitsUnsigned
      <4>3. FitsUnsigned(sec, 4)
        BY <3>1, <4>2, SMT DEF FitsUnsigned
      <4>4. ReadAs(Encoded(<<214, 255>> \o Low(d, 4), 0), {TimeItem(sec, 0)}, 0)
        BY <3>2, <4>3, PackTime32
      <4> HIDE DEF e
      <4>5. ReadAs(e, {TimeItem(sec, nsec)}, 0)
        BY <4>1, <4>2, <4>4, Zenon
      <4> QED
        BY <1>3, <4>5 DEF e
    <3>4. CASE ~FitsUnsigned(d, 4)
      <4>1. e = Encoded(<<215, 255>> \o d, 0)
        BY <1>3, <1>4, <2>2, <3>4, Zenon DEF cw_pack_time, d
      <4>2. FitsUnsigned(sec, 5)
        BY <3>1, SMT DEF FitsUnsigned
      <4>3. ReadAs(Encoded(<<215, 255>> \o d, 0), {TimeItem(sec, nsec)}, 0)
        BY <3>2, <4>2, PackTime64
      <4> HIDE DEF e
      <4>4. ReadAs(e, {TimeItem(sec, nsec)}, 0)
        BY <4>1, <4>3, Zenon
      <4> QED
        BY <1>3, <4>4 DEF e
    <3> QED
      BY <3>3, <3>4
  <2> QED
    BY <2>1, <2>2
<1> QED
  BY <1>1, <1>2, <1>3

\* A number of numeric_extensions.c as its item: a fixext of w bytes.
FixExtOf(e, type, w, f) ==
    /\ ReadAs(e, {[type |-> type, as |-> [length |-> w, start |-> 2]]}, 0)
    /\ Len(e.header) = 2 + w
    /\ \A b : Begins(b, e.header) => Field(b, 2, w) = f

LEMMA PackExtReals ==
    ASSUME NEW type \in ExtTypes
    PROVE  /\ \A f \in Bits32 :
                FixExtOf(Encoded(<<214, type % 256>> \o f, 0), type, 4, f)
           /\ \A f \in Word64 :
                FixExtOf(Encoded(<<215, type % 256>> \o f, 0), type, 8, f)
<1> DEFINE x == type % 256
<1>1. FixExtTag[4] = 214 /\ FixExtTag[8] = 215
  BY SMT DEF FixExtTag
<1>2. x \in Byte /\ Signed8(x) = type
  BY TypeBytes
<1> HIDE DEF x
<1>3. ASSUME NEW w \in {1, 2, 4, 8}, NEW f \in [1 .. w -> Byte]
      PROVE  FixExtOf(Encoded(<<FixExtTag[w], x>> \o f, 0), type, w, f)
  <2> DEFINE e == Encoded(<<FixExtTag[w], x>> \o f, 0)
  <2>1. /\ ReadAs(e, {[type |-> type, as |-> [length |-> w, start |-> 2]]}, 0)
        /\ Len(e.header) = 2 + w
        /\ \A b : Begins(b, e.header) => Field(b, 2, w) = f
    BY <1>2, PackFixExt, ZenonT(30)
  <2> HIDE DEF e
  <2>2. FixExtOf(e, type, w, f)
    BY <2>1 DEF FixExtOf
  <2> QED
    BY <2>2 DEF e
<1>4. ASSUME NEW f \in Bits32
      PROVE  FixExtOf(Encoded(<<214, x>> \o f, 0), type, 4, f)
  <2>1. 4 \in {1, 2, 4, 8} /\ f \in [1 .. 4 -> Byte]
    BY DEF Bits32
  <2>2. FixExtOf(Encoded(<<FixExtTag[4], x>> \o f, 0), type, 4, f)
    BY <1>3, <2>1
  <2> QED
    BY <1>1, <2>2, Zenon
<1>5. ASSUME NEW f \in Word64
      PROVE  FixExtOf(Encoded(<<215, x>> \o f, 0), type, 8, f)
  <2>1. 8 \in {1, 2, 4, 8} /\ f \in [1 .. 8 -> Byte]
    BY DEF Word64
  <2>2. FixExtOf(Encoded(<<FixExtTag[8], x>> \o f, 0), type, 8, f)
    BY <1>3, <2>1
  <2> QED
    BY <1>1, <2>2, Zenon
<1> QED
  BY <1>4, <1>5 DEF x

-------------------------------------------------------------------------------
(* What is sent is what is meant.                                          *)

\* A real that is packed as an integer, a float or a double is that number.
LEMMA PackReals ==
    /\ \A d \in Doubles : ReadAs(cw_pack_double_opt(d), Forms(d), 0)
    /\ \A d \in Floats : ReadAs(cw_pack_float_opt(d), Forms(d), 0)
<1>1. ASSUME NEW e, NEW items, NEW item \in items, ReadAs(e, {item}, 0)
      PROVE  ReadAs(e, items, 0)
  BY <1>1, Zenon DEF ReadAs
<1>2. ASSUME NEW d, d.int # <<>>, d.int \in Word64
      PROVE  ReadAs(cw_pack_signed(d.int), Forms(d), 0)
  <2> DEFINE item == [type |-> IF Negative(d.int) THEN CWP_ITEM_NEGATIVE_INTEGER
                                                  ELSE CWP_ITEM_POSITIVE_INTEGER,
                      as |-> d.int]
  <2>1. item \in Forms(d)
    BY <1>2 DEF Forms
  <2>2. ReadAs(cw_pack_signed(d.int), {item}, 0)
    BY <1>2, PackSigned
  <2> HIDE DEF item
  <2> QED
    BY <1>1, <2>1, <2>2
<1>3. ASSUME NEW d, d.float # <<>>, d.float \in Bits32
      PROVE  ReadAs(Encoded(<<202>> \o d.float, 0), Forms(d), 0)
  <2> DEFINE item == [type |-> CWP_ITEM_FLOAT, as |-> d.float]
  <2>1. item \in Forms(d)
    BY <1>3 DEF Forms
  <2>2. ReadAs(Encoded(<<202>> \o d.float, 0), {item}, 0)
    BY <1>3, PackScalars
  <2> HIDE DEF item
  <2> QED
    BY <1>1, <2>1, <2>2
<1>4. ASSUME NEW d, d.double \in Word64
      PROVE  ReadAs(Encoded(<<203>> \o d.double, 0), Forms(d), 0)
  <2> DEFINE item == [type |-> CWP_ITEM_DOUBLE, as |-> d.double]
  <2>1. item \in Forms(d)
    BY DEF Forms
  <2>2. ReadAs(Encoded(<<203>> \o d.double, 0), {item}, 0)
    BY <1>4, PackScalars
  <2> HIDE DEF item
  <2> QED
    BY <1>1, <2>1, <2>2
<1>5. ASSUME NEW d \in Doubles
      PROVE  ReadAs(cw_pack_double_opt(d), Forms(d), 0)
  <2>1. /\ d.double \in Word64
        /\ d.int # <<>> => d.int \in Word64
        /\ d.float # <<>> => d.float \in Bits32
    BY DEF Doubles
  <2>2. CASE IsInt32(d)
    <3>1. d.int # <<>> /\ cw_pack_double_opt(d) = cw_pack_signed(d.int)
      BY <2>2 DEF IsInt32, cw_pack_double_opt
    <3> QED
      BY <1>2, <2>1, <3>1
  <2>3. CASE ~IsInt32(d) /\ d.float # <<>>
    <3>1. cw_pack_double_opt(d) = Encoded(<<202>> \o d.float, 0)
      BY <2>3 DEF cw_pack_double_opt
    <3> QED
      BY <1>3, <2>1, <2>3, <3>1
  <2>4. CASE ~IsInt32(d) /\ d.float = <<>>
    <3>1. cw_pack_double_opt(d) = Encoded(<<203>> \o d.double, 0)
      BY <2>4 DEF cw_pack_double_opt
    <3> QED
      BY <1>4, <2>1, <3>1
  <2> QED
    BY <2>2, <2>3, <2>4
<1>6. ASSUME NEW d \in Floats
      PROVE  ReadAs(cw_pack_float_opt(d), Forms(d), 0)
  <2>1. /\ d.int # <<>> => d.int \in Word64
        /\ d.float \in Bits32
    BY DEF Floats
  <2>2. d.float # <<>>
    <3>1. DOMAIN d.float = 1 .. 4
      BY <2>1 DEF Bits32
    <3>2. DOMAIN <<>> = {}
      OBVIOUS
    <3> QED
      BY <3>1, <3>2
  <2>3. CASE IsInt32(d) /\ InShortRange(d.int)
    <3>1. d.int # <<>> /\ cw_pack_float_opt(d) = cw_pack_signed(d.int)
      BY <2>3 DEF IsInt32, cw_pack_float_opt
    <3> QED
      BY <1>2, <2>1, <3>1
  <2>4. CASE ~(IsInt32(d) /\ InShortRange(d.int))
    <3>1. cw_pack_float_opt(d) = Encoded(<<202>> \o d.float, 0)
      BY <2>4 DEF cw_pack_float_opt
    <3> QED
      BY <1>3, <2>1, <2>2, <3>1
  <2> QED
    BY <2>3, <2>4
<1> QED
  BY <1>5, <1>6

\* The arguments of each routine.
LEMMA CallArguments ==
    ASSUME NEW call \in PackingCalls
    PROVE  /\ call.op \in {"nil", "boolean", "unsigned", "signed", "float", "double",
                           "array_size", "map_size", "str", "bin", "ext", "time",
                           "ext_integer", "ext_float", "ext_double", "double_opt",
                           "float_opt", "time_interval"}
           /\ call.op = "boolean" => call.b \in BOOLEAN
           /\ call.op \in {"unsigned", "signed"} => call.v \in Word64
           /\ call.op \in {"float", "ext_float"} => call.bits \in Bits32
           /\ call.op \in {"double", "ext_double"} => call.bits \in Word64
           /\ call.op \in {"array_size", "map_size"} => call.n \in Lengths31
           /\ call.op \in {"str", "bin", "ext"} => call.l \in Lengths31
           /\ call.op \in {"ext", "ext_integer", "ext_float", "ext_double"} =>
                 call.type \in ExtTypes
           /\ call.op = "ext_integer" => call.v \in Word64
           /\ call.op = "time" => call.sec \in Word64 /\ call.nsec \in Lengths31
           /\ call.op = "double_opt" => call.d \in Doubles
           /\ call.op = "float_opt" => call.d \in Floats
           /\ call.op = "time_interval" =>
                 call.ti.floor \in Word64 /\ call.ti.product \in Lengths31
BY SMT DEF PackingCalls

\* The items that the k-th call may be read as.
Meant(k) == IF Optimised(k) THEN Forms(sent[k].call.d) ELSE {Meaning(k)}

\* Whatever a routine has packed, in whatever mode, is read as what is meant.
LEMMA PackedIsMeant ==
    ASSUME NEW k, NEW call \in PackingCalls, NEW be_compatible \in BOOLEAN,
           sent[k] = [call |-> call, be_compatible |-> be_compatible],
           NEW e, e = EncodeAny(call, be_compatible), e.rc = CWP_RC_OK,
           wire[k] = [header |-> e.header, payload |-> e.payload]
    PROVE  ReadAs(e, Meant(k), ChildrenSent(call))
<1>1. sent[k].call = call /\ sent[k].be_compatible = be_compatible
  OBVIOUS
<1>2. wire[k].header = e.header /\ wire[k].payload = e.payload
  OBVIOUS
<1>3. Size(wire[k]) = Len(e.header) + e.payload
  BY <1>2 DEF Size
<1>4. CASE call.op = "nil"
  <2> DEFINE x == Encoded(<<192>>, 0)
             item == [type |-> CWP_ITEM_NIL, as |-> <<>>]
  <2>1. e = x
    BY <1>4 DEF EncodeAny, Encode
  <2>2. Meant(k) = {item}
    <3>1. ~Optimised(k)
      BY <1>1, <1>4 DEF Optimised
    <3>2. Meaning(k) = item
      BY <1>1, <1>4, Zenon DEF Meaning, NumericExtension
    <3> QED
      BY <3>1, <3>2, Zenon DEF Meant
  <2>4. ChildrenSent(call) = 0
    BY <1>4, Zenon DEF ChildrenSent
  <2>3. ReadAs(x, {item}, 0)
    BY <1>4, PackScalars
  <2> HIDE DEF x, item
  <2> QED
    BY <2>1, <2>2, <2>3, <2>4
<1>5. CASE call.op = "boolean"
  <2> DEFINE x == Encoded(<<IF call.b THEN 195 ELSE 194>>, 0)
             item == [type |-> CWP_ITEM_BOOLEAN, as |-> call.b]
  <2>1. e = x
    BY <1>5 DEF EncodeAny, Encode
  <2>2. Meant(k) = {item}
    <3>1. ~Optimised(k)
      BY <1>1, <1>5 DEF Optimised
    <3>2. Meaning(k) = item
      BY <1>1, <1>5, Zenon DEF Meaning, NumericExtension
    <3> QED
      BY <3>1, <3>2, Zenon DEF Meant
  <2>4. ChildrenSent(call) = 0
    BY <1>5, Zenon DEF ChildrenSent
  <2>3. ReadAs(x, {item}, 0)
    BY <1>5, CallArguments, PackScalars
  <2> HIDE DEF x, item
  <2> QED
    BY <2>1, <2>2, <2>3, <2>4
<1>6. CASE call.op = "unsigned"
  <2> DEFINE x == cw_pack_unsigned(call.v)
             item == [type |-> CWP_ITEM_POSITIVE_INTEGER, as |-> call.v]
  <2>1. e = x
    BY <1>6 DEF EncodeAny, Encode
  <2>2. Meant(k) = {item}
    <3>1. ~Optimised(k)
      BY <1>1, <1>6 DEF Optimised
    <3>2. Meaning(k) = item
      BY <1>1, <1>6, Zenon DEF Meaning, NumericExtension
    <3> QED
      BY <3>1, <3>2, Zenon DEF Meant
  <2>4. ChildrenSent(call) = 0
    BY <1>6, Zenon DEF ChildrenSent
  <2>3. ReadAs(x, {item}, 0)
    BY <1>6, CallArguments, PackUnsigned
  <2> HIDE DEF x, item
  <2> QED
    BY <2>1, <2>2, <2>3, <2>4
<1>7. CASE call.op = "signed"
  <2> DEFINE x == cw_pack_signed(call.v)
             item == [type |-> IF Negative(call.v) THEN CWP_ITEM_NEGATIVE_INTEGER
                                          ELSE CWP_ITEM_POSITIVE_INTEGER, as |-> call.v]
  <2>1. e = x
    BY <1>7 DEF EncodeAny, Encode
  <2>2. Meant(k) = {item}
    <3>1. ~Optimised(k)
      BY <1>1, <1>7 DEF Optimised
    <3>2. Meaning(k) = item
      BY <1>1, <1>7, Zenon DEF Meaning, NumericExtension
    <3> QED
      BY <3>1, <3>2, Zenon DEF Meant
  <2>4. ChildrenSent(call) = 0
    BY <1>7, Zenon DEF ChildrenSent
  <2>3. ReadAs(x, {item}, 0)
    BY <1>7, CallArguments, PackSigned
  <2> HIDE DEF x, item
  <2> QED
    BY <2>1, <2>2, <2>3, <2>4
<1>8. CASE call.op = "float"
  <2> DEFINE x == Encoded(<<202>> \o call.bits, 0)
             item == [type |-> CWP_ITEM_FLOAT, as |-> call.bits]
  <2>1. e = x
    BY <1>8 DEF EncodeAny, Encode
  <2>2. Meant(k) = {item}
    <3>1. ~Optimised(k)
      BY <1>1, <1>8 DEF Optimised
    <3>2. Meaning(k) = item
      BY <1>1, <1>8, Zenon DEF Meaning, NumericExtension
    <3> QED
      BY <3>1, <3>2, Zenon DEF Meant
  <2>4. ChildrenSent(call) = 0
    BY <1>8, Zenon DEF ChildrenSent
  <2>3. ReadAs(x, {item}, 0)
    BY <1>8, CallArguments, PackScalars
  <2> HIDE DEF x, item
  <2> QED
    BY <2>1, <2>2, <2>3, <2>4
<1>9. CASE call.op = "double"
  <2> DEFINE x == Encoded(<<203>> \o call.bits, 0)
             item == [type |-> CWP_ITEM_DOUBLE, as |-> call.bits]
  <2>1. e = x
    BY <1>9 DEF EncodeAny, Encode
  <2>2. Meant(k) = {item}
    <3>1. ~Optimised(k)
      BY <1>1, <1>9 DEF Optimised
    <3>2. Meaning(k) = item
      BY <1>1, <1>9, Zenon DEF Meaning, NumericExtension
    <3> QED
      BY <3>1, <3>2, Zenon DEF Meant
  <2>4. ChildrenSent(call) = 0
    BY <1>9, Zenon DEF ChildrenSent
  <2>3. ReadAs(x, {item}, 0)
    BY <1>9, CallArguments, PackScalars
  <2> HIDE DEF x, item
  <2> QED
    BY <2>1, <2>2, <2>3, <2>4
<1>10. CASE call.op = "array_size"
  <2> DEFINE x == cw_pack_array_size(call.n)
             item == [type |-> CWP_ITEM_ARRAY, as |-> call.n]
  <2>1. e = x
    BY <1>10 DEF EncodeAny, Encode
  <2>2. Meant(k) = {item}
    <3>1. ~Optimised(k)
      BY <1>1, <1>10 DEF Optimised
    <3>2. Meaning(k) = item
      BY <1>1, <1>10, Zenon DEF Meaning, NumericExtension
    <3> QED
      BY <3>1, <3>2, Zenon DEF Meant
  <2>4. ChildrenSent(call) = call.n
    BY <1>10, Zenon DEF ChildrenSent
  <2>3. ReadAs(x, {item}, call.n)
    BY <1>10, CallArguments, PackSizes
  <2> HIDE DEF x, item
  <2> QED
    BY <2>1, <2>2, <2>3, <2>4
<1>11. CASE call.op = "map_size"
  <2> DEFINE x == cw_pack_map_size(call.n)
             item == [type |-> CWP_ITEM_MAP, as |-> call.n]
  <2>1. e = x
    BY <1>11 DEF EncodeAny, Encode
  <2>2. Meant(k) = {item}
    <3>1. ~Optimised(k)
      BY <1>1, <1>11 DEF Optimised
    <3>2. Meaning(k) = item
      BY <1>1, <1>11, Zenon DEF Meaning, NumericExtension
    <3> QED
      BY <3>1, <3>2, Zenon DEF Meant
  <2>4. ChildrenSent(call) = 2 * call.n
    BY <1>11, Zenon DEF ChildrenSent
  <2>3. ReadAs(x, {item}, 2 * call.n)
    BY <1>11, CallArguments, PackSizes
  <2> HIDE DEF x, item
  <2> QED
    BY <2>1, <2>2, <2>3, <2>4
\* Blobs: their payload is what the call has given.
<1>B. ASSUME NEW type, NEW l \in Nat, NEW x, x = e, x.payload = l,
             NEW i, ReadAs(x, i, 0)
      PROVE  Blobbed(type, k, l) = BlobItem(type, l, x)
  <2>1. Len(x.header) \in Nat
    BY <1>B, LenProperties DEF ReadAs
  <2>2. Size(wire[k]) - l = Len(x.header)
    BY <1>3, <1>B, <2>1
  <2> QED
    BY <2>2, Zenon DEF Blobbed, BlobItem
<1>12. CASE call.op = "str"
  <2> DEFINE x == cw_pack_str(call.l, be_compatible)
             type == CWP_ITEM_STR
  <2>1. e = x
    BY <1>12 DEF EncodeAny, Encode
  <2>2. ReadAs(x, {BlobItem(type, call.l, x)}, 0)
    BY <1>12, CallArguments, PackStr
  <2>3. x.payload = call.l
    BY DEF cw_pack_str, Encoded
  <2>4. Meaning(k) = Blobbed(type, k, call.l)
    BY <1>1, <1>12, Zenon DEF Meaning, NumericExtension
  <2> HIDE DEF x, type
  <2>5. Meaning(k) = BlobItem(type, call.l, x)
    <3>1. call.l \in Nat
      BY <1>12, CallArguments DEF Lengths31
    <3> QED
      BY <1>B, <2>1, <2>2, <2>3, <2>4, <3>1
  <2>6. Meant(k) = {BlobItem(type, call.l, x)}
    <3>1. ~Optimised(k)
      BY <1>1, <1>12 DEF Optimised
    <3> QED
      BY <2>5, <3>1, Zenon DEF Meant
  <2>7. ChildrenSent(call) = 0
    BY <1>12, Zenon DEF ChildrenSent
  <2> QED
    BY <2>1, <2>2, <2>6, <2>7
<1>13. CASE call.op = "bin"
  <2> DEFINE x == cw_pack_bin(call.l, be_compatible)
             type == (IF be_compatible THEN CWP_ITEM_STR ELSE CWP_ITEM_BIN)
  <2>1. e = x
    BY <1>13 DEF EncodeAny, Encode
  <2>2. ReadAs(x, {BlobItem(type, call.l, x)}, 0)
    BY <1>13, CallArguments, PackBin
  <2>3. x.payload = call.l
    BY DEF cw_pack_bin, cw_pack_str, Encoded
  <2>4. Meaning(k) = Blobbed(type, k, call.l)
    BY <1>1, <1>13, Zenon DEF Meaning, NumericExtension
  <2> HIDE DEF x, type
  <2>5. Meaning(k) = BlobItem(type, call.l, x)
    <3>1. call.l \in Nat
      BY <1>13, CallArguments DEF Lengths31
    <3> QED
      BY <1>B, <2>1, <2>2, <2>3, <2>4, <3>1
  <2>6. Meant(k) = {BlobItem(type, call.l, x)}
    <3>1. ~Optimised(k)
      BY <1>1, <1>13 DEF Optimised
    <3> QED
      BY <2>5, <3>1, Zenon DEF Meant
  <2>7. ChildrenSent(call) = 0
    BY <1>13, Zenon DEF ChildrenSent
  <2> QED
    BY <2>1, <2>2, <2>6, <2>7
<1>14. CASE call.op = "ext"
  <2> DEFINE x == cw_pack_ext(call.type, call.l, FALSE)
             type == call.type
  <2>1. e = x
    <3>1. e = cw_pack_ext(call.type, call.l, be_compatible)
      BY <1>14 DEF EncodeAny, Encode
    <3>2. ~be_compatible
      BY <3>1 DEF cw_pack_ext, Refused, CWP_RC_OK, CWP_RC_ILLEGAL_CALL
    <3>3. be_compatible = FALSE
      BY <3>2
    <3> QED
      BY <3>1, <3>3, Zenon
  <2>2. ReadAs(x, {BlobItem(type, call.l, x)}, 0)
    BY <1>14, CallArguments, PackExt
  <2>3. x.payload = call.l
    BY DEF cw_pack_ext, Encoded
  <2>4. Meaning(k) = Blobbed(type, k, call.l)
    BY <1>1, <1>14, Zenon DEF Meaning, NumericExtension
  <2> HIDE DEF x, type
  <2>5. Meaning(k) = BlobItem(type, call.l, x)
    <3>1. call.l \in Nat
      BY <1>14, CallArguments DEF Lengths31
    <3> QED
      BY <1>B, <2>1, <2>2, <2>3, <2>4, <3>1
  <2>6. Meant(k) = {BlobItem(type, call.l, x)}
    <3>1. ~Optimised(k)
      BY <1>1, <1>14 DEF Optimised
    <3> QED
      BY <2>5, <3>1, Zenon DEF Meant
  <2>7. ChildrenSent(call) = 0
    BY <1>14, Zenon DEF ChildrenSent
  <2> QED
    BY <2>1, <2>2, <2>6, <2>7
<1>15. CASE call.op = "time"
  <2>1. e = cw_pack_time(call.sec, call.nsec, be_compatible)
    BY <1>15 DEF EncodeAny, Encode
  <2>2. ReadAs(e, {TimeItem(call.sec, call.nsec)}, 0)
    <3>1. call.sec \in Word64 /\ call.nsec \in Lengths31
      BY <1>15, CallArguments
    <3>2. \/ e.rc = CWP_RC_ILLEGAL_CALL \/ e.rc = CWP_RC_VALUE_ERROR
          \/ ReadAs(e, {TimeItem(call.sec, call.nsec)}, 0)
      BY <2>1, <3>1, PackTime
    <3> QED
      BY <3>2 DEF CWP_RC_OK, CWP_RC_ILLEGAL_CALL, CWP_RC_VALUE_ERROR
  <2>3. Meaning(k) = TimeItem(call.sec, call.nsec)
    BY <1>1, <1>15, Zenon DEF Meaning, NumericExtension, TimeItem
  <2>4. Meant(k) = {TimeItem(call.sec, call.nsec)}
    <3>1. ~Optimised(k)
      BY <1>1, <1>15 DEF Optimised
    <3> QED
      BY <2>3, <3>1, Zenon DEF Meant
  <2>5. ChildrenSent(call) = 0
    BY <1>15, Zenon DEF ChildrenSent
  <2> QED
    BY <2>2, <2>4, <2>5
<1>16. CASE call.op = "time_interval"
  <2>1. e = cw_pack_time(call.ti.floor, call.ti.product, be_compatible)
    BY <1>16 DEF EncodeAny, cw_pack_time_interval
  <2>2. ReadAs(e, {TimeItem(call.ti.floor, call.ti.product)}, 0)
    <3>1. call.ti.floor \in Word64 /\ call.ti.product \in Lengths31
      BY <1>16, CallArguments
    <3>2. \/ e.rc = CWP_RC_ILLEGAL_CALL \/ e.rc = CWP_RC_VALUE_ERROR
          \/ ReadAs(e, {TimeItem(call.ti.floor, call.ti.product)}, 0)
      BY <2>1, <3>1, PackTime
    <3> QED
      BY <3>2 DEF CWP_RC_OK, CWP_RC_ILLEGAL_CALL, CWP_RC_VALUE_ERROR
  <2>3. Meaning(k) = TimeItem(call.ti.floor, call.ti.product)
    BY <1>1, <1>16, Zenon DEF Meaning, NumericExtension, TimeItem
  <2>4. Meant(k) = {TimeItem(call.ti.floor, call.ti.product)}
    <3>1. ~Optimised(k)
      BY <1>1, <1>16 DEF Optimised
    <3> QED
      BY <2>3, <3>1, Zenon DEF Meant
  <2>5. ChildrenSent(call) = 0
    BY <1>16, Zenon DEF ChildrenSent
  <2> QED
    BY <2>2, <2>4, <2>5
\* Numeric extensions: two bytes, and the value as the blob.
<1>E. ASSUME NEW w \in {1, 2, 4, 8}, Len(e.header) = 2 + w, e.payload = 0,
             ReadAs(e, {[type |-> call.type, as |-> [length |-> w, start |-> 2]]}, 0),
             NumericExtension(call)
      PROVE  ReadAs(e, Meant(k), ChildrenSent(call))
  <2>1. Size(wire[k]) - 2 = w /\ Size(wire[k]) - w = 2
    BY <1>3, <1>E
  <2>2. call.op \in {"ext_integer", "ext_float", "ext_double"}
    BY <1>E DEF NumericExtension
  <2>3. ~Optimised(k)
    BY <1>1, <2>2 DEF Optimised
  <2>4. Meaning(k) = Blobbed(call.type, k, Size(wire[k]) - 2)
    BY <1>1, <2>2, Zenon DEF Meaning, NumericExtension
  <2>5. Meaning(k) = [type |-> call.type, as |-> [length |-> w, start |-> 2]]
    BY <2>1, <2>4, Zenon DEF Blobbed
  <2>6. ChildrenSent(call) = 0
    BY <2>2, Zenon DEF ChildrenSent
  <2>7. Meant(k) = {[type |-> call.type, as |-> [length |-> w, start |-> 2]]}
    BY <2>3, <2>5, Zenon DEF Meant
  <2> QED
    BY <1>E, <2>6, <2>7
<1>17. CASE call.op = "ext_integer"
  <2>1. e = cw_pack_ext_integer(call.type, call.v)
    BY <1>17 DEF EncodeAny, Encode
  <2>2. call.type \in ExtTypes /\ call.v \in Word64
    BY <1>17, CallArguments
  <2>3. \E w \in {1, 2, 4, 8} :
           /\ ReadAs(e, {[type |-> call.type, as |-> [length |-> w, start |-> 2]]}, 0)
           /\ Len(e.header) = 2 + w /\ e.payload = 0
    BY <2>1, <2>2, PackExtInteger, ZenonT(30)
  <2> QED
    BY <1>17, <1>E, <2>3 DEF NumericExtension
<1>18. CASE call.op = "ext_float"
  <2>1. e = Encoded(<<214, call.type % 256>> \o call.bits, 0)
    BY <1>18 DEF EncodeAny, Encode
  <2>2. call.type \in ExtTypes /\ call.bits \in Bits32
    BY <1>18, CallArguments
  <2>3. FixExtOf(e, call.type, 4, call.bits)
    <3>1. FixExtOf(Encoded(<<214, call.type % 256>> \o call.bits, 0),
                   call.type, 4, call.bits)
      BY <2>2, PackExtReals, Zenon
    <3> QED
      BY <2>1, <3>1, Zenon
  <2>4. e.payload = 0 /\ 4 \in {1, 2, 4, 8}
    BY <2>1 DEF Encoded
  <2> QED
    BY <1>18, <1>E, <2>3, <2>4 DEF FixExtOf, NumericExtension
<1>19. CASE call.op = "ext_double"
  <2>1. e = Encoded(<<215, call.type % 256>> \o call.bits, 0)
    BY <1>19 DEF EncodeAny, Encode
  <2>2. call.type \in ExtTypes /\ call.bits \in Word64
    BY <1>19, CallArguments
  <2>3. FixExtOf(e, call.type, 8, call.bits)
    <3>1. FixExtOf(Encoded(<<215, call.type % 256>> \o call.bits, 0),
                   call.type, 8, call.bits)
      BY <2>2, PackExtReals, Zenon
    <3> QED
      BY <2>1, <3>1, Zenon
  <2>4. e.payload = 0 /\ 8 \in {1, 2, 4, 8}
    BY <2>1 DEF Encoded
  <2> QED
    BY <1>19, <1>E, <2>3, <2>4 DEF FixExtOf, NumericExtension
<1>20. CASE call.op = "double_opt"
  <2>1. e = cw_pack_double_opt(call.d)
    BY <1>20 DEF EncodeAny
  <2>2. ReadAs(e, Forms(call.d), 0)
    BY <1>20, <2>1, CallArguments, PackReals
  <2>3. Meant(k) = Forms(call.d)
    BY <1>1, <1>20 DEF Meant, Optimised
  <2>4. ChildrenSent(call) = 0
    BY <1>20, Zenon DEF ChildrenSent
  <2> QED
    BY <2>2, <2>3, <2>4
<1>21. CASE call.op = "float_opt"
  <2>1. e = cw_pack_float_opt(call.d)
    BY <1>21 DEF EncodeAny
  <2>2. ReadAs(e, Forms(call.d), 0)
    BY <1>21, <2>1, CallArguments, PackReals
  <2>3. Meant(k) = Forms(call.d)
    BY <1>1, <1>21 DEF Meant, Optimised
  <2>4. ChildrenSent(call) = 0
    BY <1>21, Zenon DEF ChildrenSent
  <2> QED
    BY <2>2, <2>3, <2>4
<1> QED
  BY CallArguments, <1>4, <1>5, <1>6, <1>7, <1>8, <1>9, <1>10, <1>11, <1>12, <1>13,
     <1>14, <1>15, <1>16, <1>17, <1>18, <1>19, <1>20, <1>21
===============================================================================
