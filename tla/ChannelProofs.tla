----------------------------- MODULE ChannelProofs ------------------------------
(***************************************************************************)
(* Theorems about CodecChannel: whatever clients pack, in whatever mode,   *)
(* and however long the buffer handed over is, the reader finds what was   *)
(* meant where it is.                                                      *)
(***************************************************************************)
EXTENDS CodecProofs

-------------------------------------------------------------------------------
(* The buffer.                                                             *)

\* What stands in the buffer for each call: nothing but what its routine made
\* of it in the mode the packer was in, or an item of MessagePack.
PackedItem(k) ==
    \E call \in PackingCalls : \E b \in BOOLEAN :
        LET e == EncodeAny(call, b)
        IN  /\ sent[k] = [call |-> call, be_compatible |-> b]
            /\ e.rc = CWP_RC_OK
            /\ wire[k] = [header |-> e.header, payload |-> e.payload]

ForeignItem(k) ==
    \E item :
        /\ IsItem(item)
        /\ sent[k] = [call |-> [op |-> "foreign", children |-> item.children],
                      be_compatible |-> FALSE]
        /\ wire[k] = [header |-> item.header, payload |-> item.payload]

\* The first part of the inductive invariant.
WireSound ==
    /\ Len(wire) \in Nat /\ DOMAIN wire = 1 .. Len(wire)
    /\ Len(sent) = Len(wire) /\ DOMAIN sent = 1 .. Len(wire)
    /\ \A k \in 1 .. Len(wire) : PackedItem(k) \/ ForeignItem(k)

\* No routine packs a foreign item.
LEMMA NotForeign == \A call \in PackingCalls : call.op # "foreign"
BY CallArguments

\* What a reader finds at the beginning of item k, wherever it stands.
Stands(k, b) ==
    LET format == Format(b)
    IN  /\ Tagged(b)
        /\ format.length + format.payload = Size(wire[k])
        /\ format.children = ChildrenSent(sent[k].call)
        /\ Packed(k) => /\ ItemError(b) = CWP_RC_OK
                        /\ UnpackItem(b) \in Meant(k)
                        /\ AheadType(b) = UnpackItem(b).type

LEMMA WireItem ==
    ASSUME NEW k, PackedItem(k) \/ ForeignItem(k)
    PROVE  /\ wire[k].header \in Seq(Byte) \ {<<>>} /\ Len(wire[k].header) \in 1 .. 18
           /\ wire[k].payload \in Nat
           /\ Size(wire[k]) \in Nat \ {0}
           /\ ChildrenSent(sent[k].call) \in Nat
           /\ \A b : Begins(b, wire[k].header) => Stands(k, b)
<1>1. ASSUME NEW h, NEW p, wire[k].header = h, wire[k].payload = p,
             h \in Seq(Byte) \ {<<>>}, Len(h) <= 18, p \in Nat
      PROVE  Len(h) \in 1 .. 18 /\ Size(wire[k]) \in Nat \ {0}
  <2>1. Len(h) \in Nat /\ Len(h) # 0
    BY <1>1, LenProperties, EmptySeq
  <2>2. Size(wire[k]) = Len(h) + p
    BY <1>1, Zenon DEF Size
  <2>3. Len(h) <= 18 /\ p \in Nat
    BY <1>1
  <2>4. \A n, m : n \in Nat /\ n # 0 /\ n <= 18 /\ m \in Nat =>
                    n \in 1 .. 18 /\ n + m \in Nat \ {0}
    BY SMT
  <2> QED
    BY <2>1, <2>2, <2>3, <2>4, Zenon
<1>2. CASE PackedItem(k)
  <2>1. PICK call \in PackingCalls, be_compatible \in BOOLEAN :
            LET e == EncodeAny(call, be_compatible)
            IN  /\ sent[k] = [call |-> call, be_compatible |-> be_compatible]
                /\ e.rc = CWP_RC_OK
                /\ wire[k] = [header |-> e.header, payload |-> e.payload]
    BY <1>2 DEF PackedItem
  <2> DEFINE e == EncodeAny(call, be_compatible)
  <2>2. /\ sent[k] = [call |-> call, be_compatible |-> be_compatible]
        /\ e.rc = CWP_RC_OK
        /\ wire[k] = [header |-> e.header, payload |-> e.payload]
    BY <2>1
  <2>3. e = EncodeAny(call, be_compatible)
    OBVIOUS
  <2> HIDE DEF e
  <2>4. ReadAs(e, Meant(k), ChildrenSent(call))
    BY <2>2, <2>3, PackedIsMeant
  <2>5. sent[k].call = call /\ wire[k].header = e.header /\ wire[k].payload = e.payload
    BY <2>2
  <2>6. /\ e.header \in Seq(Byte) \ {<<>>} /\ Len(e.header) <= 18 /\ e.payload \in Nat
        /\ \A b : Begins(b, e.header) =>
              \E item \in Meant(k) :
                  Reads(b, Len(e.header) + e.payload, ChildrenSent(call), item)
    BY <2>4 DEF ReadAs
  <2>7. ASSUME NEW b, Begins(b, e.header)
        PROVE  Stands(k, b) /\ ChildrenSent(call) \in Nat
    <3>1. PICK item \in Meant(k) :
              Reads(b, Len(e.header) + e.payload, ChildrenSent(call), item)
      BY <2>6, <2>7
    <3>2. /\ Tagged(b) /\ Format(b).length + Format(b).payload = Len(e.header) + e.payload
          /\ Format(b).children = ChildrenSent(call)
          /\ ItemError(b) = CWP_RC_OK /\ UnpackItem(b) = item
          /\ AheadType(b) = item.type
      BY <3>1, Zenon DEF Reads
    <3>3. Format(b).children \in Nat
      BY <3>2, Walk DEF Walks
    <3>4. Size(wire[k]) = Len(e.header) + e.payload
      BY <2>5 DEF Size
    <3> QED
      BY <2>5, <3>1, <3>2, <3>3, <3>4, Zenon DEF Stands
  <2>8. Begins([i \in 0 .. Len(e.header) |-> e.header[i + 1]], e.header)
    <3>1. Len(e.header) \in Nat
      BY <2>6, LenProperties
    <3> QED
      BY <3>1 DEF Begins
  <2> QED
    BY <1>1, <2>5, <2>6, <2>7, <2>8
<1>3. CASE ForeignItem(k)
  <2>1. PICK i : /\ IsItem(i)
                 /\ sent[k] = [call |-> [op |-> "foreign", children |-> i.children],
                               be_compatible |-> FALSE]
                 /\ wire[k] = [header |-> i.header, payload |-> i.payload]
    BY <1>3 DEF ForeignItem
  <2> DEFINE h == i.header
             g == Begun(h)
  <2>2. /\ h \in Seq(Byte) \ {<<>>} /\ Len(h) = Format(g).length
        /\ i.payload = Format(g).payload /\ i.children = Format(g).children
    BY <2>1 DEF IsItem
  <2>3. wire[k].header = h /\ wire[k].payload = i.payload
    BY <2>1
  <2>4. sent[k].call.op = "foreign" /\ sent[k].call.children = i.children
    BY <2>1
  <2>5. ChildrenSent(sent[k].call) = i.children /\ ~Packed(k)
    BY <2>4, Zenon DEF ChildrenSent, Packed
  <2> HIDE DEF h
  <2>6. Len(h) \in Nat /\ h \in [1 .. Len(h) -> Byte] /\ 0 \in Byte
    <3>1. 0 \in Byte
      BY SMT DEF Byte
    <3>2. h \in Seq(Byte)
      BY <2>2
    <3> QED
      BY <3>1, <3>2, LenProperties
  <2>7. \A n \in 0 .. 17 : g[n] = IF n < Len(h) THEN h[n + 1] ELSE 0
    BY DEF Begun
  <2>8. \A n \in 0 .. 17 : g[n] \in Byte
    <3>1. ASSUME NEW n \in 0 .. 17 PROVE g[n] \in Byte
      <4>1. CASE n < Len(h)
        <5>1. n + 1 \in 1 .. Len(h)
          BY <2>6, <4>1
        <5> QED
          BY <2>6, <2>7, <4>1, <5>1
      <4>2. CASE ~(n < Len(h))
        BY <2>6, <2>7, <4>2
      <4> QED
        BY <4>1, <4>2
    <3> QED
      BY <3>1
  <2> HIDE DEF g
  <2>9. Tagged(g)
    <3>1. g[0] \in Byte
      BY <2>8
    <3>2. ASSUME g[0] \in DOMAIN Width, NEW n \in 1 .. Width[g[0]]
          PROVE  g[n] \in Byte
      <4>1. Width[g[0]] \in {1, 2, 4, 8}
        BY <3>2, Widths
      <4> QED
        BY <2>8, <4>1
    <3> QED
      BY <3>1, <3>2 DEF Tagged
  <2>10. Format(g).length \in 1 .. 10 /\ Format(g).payload \in Nat
         /\ Format(g).children \in Nat
    <3>1. Walks(g) /\ g[0] \in Byte
      BY <2>9, Walk DEF Tagged
    <3> QED
      BY <3>1, FormatLengths DEF Walks
  <2>11. ASSUME NEW b, Begins(b, h)
         PROVE  Stands(k, b)
    <3>1. \A n \in 0 .. Format(g).length - 1 : b[n] = g[n]
      <4>1. ASSUME NEW n \in 0 .. Format(g).length - 1
            PROVE  b[n] = g[n]
        <5>1. n \in 0 .. 17 /\ n < Len(h) /\ n + 1 \in 1 .. Len(h) /\ (n + 1) - 1 = n
          BY <2>2, <2>10
        <5>2. b[n] = h[n + 1]
          BY <2>11, <5>1 DEF Begins
        <5> QED
          BY <2>7, <5>1, <5>2
      <4> QED
        BY <4>1
    <3>2. Tagged(b) /\ Format(b) = Format(g)
      BY <2>9, <3>1, SameFormat
    <3>3. Size(wire[k]) = Format(g).length + Format(g).payload
      BY <2>2, <2>3 DEF Size
    <3> QED
      BY <2>2, <2>5, <3>2, <3>3, Zenon DEF Stands
  <2> QED
    BY <1>1, <2>2, <2>3, <2>5, <2>10, <2>11
<1> QED
  BY <1>2, <1>3

-------------------------------------------------------------------------------
(* Where the items are.                                                    *)

Last == Len(wire) + 1

\* The items follow each other from the beginning of the buffer on.
LEMMA Starts ==
    ASSUME WireSound
    PROVE  /\ \A k \in 1 .. Last : Start(k) \in Nat
           /\ Start(1) = 0
           /\ \A k \in 1 .. Len(wire) :
                 /\ Size(wire[k]) \in Nat \ {0}
                 /\ Start(k + 1) = Start(k) + Size(wire[k])
<1> DEFINE n == Len(wire)
           s == [j \in DOMAIN wire |-> Size(wire[j])]
<1>1. n \in Nat /\ DOMAIN wire = 1 .. n
  BY DEF WireSound
<1>2. \A k \in 1 .. n : Size(wire[k]) \in Nat \ {0}
  BY WireItem DEF WireSound
<1>3. s \in [1 .. n -> Nat] /\ \A k \in 1 .. n : s[k] = Size(wire[k])
  BY <1>1, <1>2
<1>4. \A k : Start(k) = Sums(s)[k - 1]
  BY DEF Start
<1> HIDE DEF s, n
<1>5. Len(s) = n
  BY <1>1, <1>3, BytesAreSequence
<1>6. /\ Sums(s) \in [0 .. n -> Nat] /\ Sums(s)[0] = 0
      /\ \A k \in 1 .. n : Sums(s)[k] = Sums(s)[k - 1] + s[k]
  BY <1>1, <1>3, <1>5, SumsDef
<1>7. ASSUME NEW k \in 1 .. Last PROVE Start(k) \in Nat
  <2>1. k - 1 \in 0 .. n
    BY <1>1 DEF Last, n
  <2> QED
    BY <1>4, <1>6, <2>1
<1>8. Start(1) = 0
  BY <1>4, <1>6
<1>9. ASSUME NEW k \in 1 .. n PROVE Start(k + 1) = Start(k) + Size(wire[k])
  <2>1. k + 1 - 1 = k
    BY <1>1
  <2> QED
    BY <1>3, <1>4, <1>6, <2>1
<1> QED
  BY <1>2, <1>7, <1>8, <1>9 DEF n

\* No two items begin at the same place, and later ones further on.
LEMMA StartsGrow ==
    ASSUME WireSound
    PROVE  \A k \in 1 .. Last : \A j \in k .. Last :
              Start(k) <= Start(j) /\ (k < j => Start(k) < Start(j))
<1>1. Len(wire) \in Nat
  BY DEF WireSound
<1> SUFFICES ASSUME NEW k \in 1 .. Last
             PROVE  \A j \in k .. Last :
                        Start(k) <= Start(j) /\ (k < j => Start(k) < Start(j))
  OBVIOUS
<1> DEFINE Bad == {j \in k .. Last :
                     ~(Start(k) <= Start(j) /\ (k < j => Start(k) < Start(j)))}
<1>2. CASE Bad = {}
  BY <1>2
<1>3. CASE Bad # {}
  <2>1. Bad \subseteq Nat
    BY <1>1 DEF Last
  <2>2. PICK m \in Bad : \A j \in Bad : m <= j
    <3> HIDE DEF Bad
    <3> QED
      BY <1>3, <2>1, SmallestMember
  <2>3. m \in k .. Last /\ m # k
    <3>1. m \in k .. Last /\ ~(Start(k) <= Start(m) /\ (k < m => Start(k) < Start(m)))
      BY <2>2
    <3>2. Start(k) \in Nat
      BY Starts
    <3> QED
      BY <3>1, <3>2
  <2>4. m - 1 \in k .. Last /\ m - 1 \in 1 .. Len(wire) /\ m - 1 + 1 = m
        /\ ~(m <= m - 1)
    BY <1>1, <2>3 DEF Last
  <2>5. Start(k) <= Start(m - 1)
    BY <2>2, <2>4
  <2>6. Start(m - 1 + 1) = Start(m - 1) + Size(wire[m - 1])
        /\ Size(wire[m - 1]) \in Nat \ {0}
    BY <2>4, Starts
  <2>7. Start(k) \in Nat /\ Start(m - 1) \in Nat /\ m - 1 \in 1 .. Last
    BY <1>1, <2>4, Starts DEF Last
  <2>8. Start(k) < Start(m)
    BY <2>4, <2>5, <2>6, <2>7
  <2>9. Start(m) \in Nat
    BY <1>1, <2>3, Starts
  <2> QED
    BY <2>2, <2>7, <2>8, <2>9
<1> QED
  BY <1>2, <1>3

\* The bytes of an item's header are where the item begins.
LEMMA HeaderBytes ==
    ASSUME WireSound, NEW k \in 1 .. Len(wire),
           NEW i \in 1 .. Len(wire[k].header)
    PROVE  ByteAt(Start(k) + (i - 1)) = wire[k].header[i]
<1> DEFINE offset == Start(k) + (i - 1)
           size == Size(wire[k])
           Holds(j) == Start(j) <= offset /\ offset < Start(j + 1)
<1>1. /\ Len(wire) \in Nat /\ DOMAIN wire = 1 .. Len(wire)
      /\ k \in 1 .. Last /\ k + 1 \in 1 .. Last /\ Last \in 1 .. Last /\ Last \in k + 1 .. Last
  BY DEF WireSound, Last
<1>2. /\ Start(k) \in Nat /\ Start(k + 1) = Start(k) + size
      /\ size \in Nat \ {0} /\ Start(Last) \in Nat /\ Start(k + 1) <= Start(Last)
  BY <1>1, Starts, StartsGrow
<1>3. /\ Len(wire[k].header) \in 1 .. 18 /\ wire[k].payload \in Nat
      /\ size = Len(wire[k].header) + wire[k].payload
  BY WireItem DEF WireSound, Size
<1> HIDE DEF size
<1>4. i \in 1 .. 18 /\ i <= size /\ i <= Len(wire[k].header)
  <2>1. \A n, p : n \in 1 .. 18 /\ p \in Nat /\ i \in 1 .. n =>
                    i \in 1 .. 18 /\ i <= n + p /\ i <= n
    BY SMT
  <2> QED
    BY <1>3, <2>1, Zenon
<1>5. offset \in Nat /\ Holds(k) /\ ~(offset >= Start(Last))
  BY <1>2, <1>4
<1>6. ASSUME NEW j \in DOMAIN wire, Holds(j)
      PROVE  j = k
  <2>1. /\ j \in 1 .. Last /\ j + 1 \in 1 .. Last /\ j \in Nat /\ k \in Nat
        /\ Start(j) \in Nat /\ Start(j + 1) \in Nat
    BY <1>1, Starts DEF Last
  <2>2. ~(j < k)
    <3>1. CASE j < k
      <4>1. k \in j + 1 .. Last
        BY <1>1, <2>1, <3>1
      <4>2. Start(j + 1) <= Start(k)
        BY <2>1, <4>1, StartsGrow
      <4> QED
        BY <1>2, <1>6, <2>1, <4>2, <1>5, <1>4
    <3> QED
      BY <3>1
  <2>3. ~(k < j)
    <3>1. CASE k < j
      <4>1. j \in k + 1 .. Last
        BY <1>1, <2>1, <3>1
      <4>2. Start(k + 1) <= Start(j)
        BY <1>1, <4>1, StartsGrow
      <4> QED
        BY <1>2, <1>5, <1>6, <2>1, <4>2
    <3> QED
      BY <3>1
  <2> QED
    BY <2>1, <2>2, <2>3
<1>7. (CHOOSE j \in DOMAIN wire : Start(j) <= offset /\ offset < Start(j + 1)) = k
  BY <1>1, <1>5, <1>6
<1>8. offset - Start(k) < Len(wire[k].header) /\ offset - Start(k) + 1 = i
  BY <1>2, <1>3, <1>4, SMTT(30)
<1>9. ByteAt(offset) =
        IF offset - Start(k) < Len(wire[k].header)
        THEN wire[k].header[offset - Start(k) + 1] ELSE PayloadByte
  <2> DEFINE x == CHOOSE j \in DOMAIN wire : Start(j) <= offset /\ offset < Start(j + 1)
  <2>1. x = k
    BY <1>7
  <2>2. ~(offset >= Start(Len(wire) + 1))
    BY <1>5 DEF Last
  <2> HIDE DEF offset
  <2>3. ByteAt(offset) =
          IF offset >= Start(Len(wire) + 1) THEN 0
          ELSE IF offset - Start(x) < Len(wire[x].header)
               THEN wire[x].header[offset - Start(x) + 1] ELSE PayloadByte
    BY DEF ByteAt
  <2> HIDE DEF x
  <2> QED
    BY <2>1, <2>2, <2>3, Zenon
<1> QED
  BY <1>8, <1>9

-------------------------------------------------------------------------------
(* What lies behind whole items.                                           *)

\* Induction from the end of the buffer down.
LEMMA Downward ==
    ASSUME NEW last \in Nat \ {0}, NEW S, last \in S,
           \A k \in 1 .. last - 1 : (\A j \in k + 1 .. last : j \in S) => k \in S
    PROVE  \A k \in 1 .. last : k \in S
<1> DEFINE T == {i \in 0 .. last - 1 : last - i \notin S}
<1>1. CASE T = {}
  <2> SUFFICES ASSUME NEW k \in 1 .. last PROVE k \in S
    OBVIOUS
  <2>1. last - k \in 0 .. last - 1 /\ last - (last - k) = k
    OBVIOUS
  <2>2. last - k \notin T
    BY <1>1
  <2>3. last - (last - k) \in S
    BY <2>1, <2>2
  <2> QED
    BY <2>1, <2>3
<1>2. CASE T # {}
  <2>1. PICK i \in T : \A j \in T : i <= j
    <3> HIDE DEF T
    <3>1. T \subseteq Nat
      BY DEF T
    <3> QED
      BY <1>2, <3>1, SmallestMember
  <2>2. i \in 0 .. last - 1 /\ last - i \notin S
    BY <2>1
  <2>3. last - i \in 1 .. last - 1
    BY <2>2
  <2>4. ASSUME NEW j \in last - i + 1 .. last PROVE j \in S
    <3>1. last - j \in 0 .. last - 1 /\ last - (last - j) = j /\ ~(i <= last - j)
      BY <2>2
    <3>2. last - j \notin T
      BY <2>1, <3>1
    <3> QED
      BY <3>1, <3>2
  <2> QED
    BY <2>2, <2>3, <2>4
<1> QED
  BY <1>1, <1>2

\* f tells, for the items from m on, which item is behind n whole ones.
Tells(f, children, m, last) ==
    /\ f = [k \in m .. last |-> f[k]]
    /\ \A k \in m .. last : \A n \in Nat : f[k][n] \in k .. last
    /\ \A k \in m .. last :
          f[k] = [n \in Nat |-> IF n = 0 \/ k = last THEN k
                                ELSE f[f[k + 1][children[k]]][n - 1]]

LEMMA TellsExists ==
    ASSUME NEW last \in Nat \ {0}, NEW children,
           \A k \in 1 .. last - 1 : children[k] \in Nat
    PROVE  \A m \in 1 .. last : \E f : Tells(f, children, m, last)
<1> DEFINE S == {m \in 1 .. last : \E f : Tells(f, children, m, last)}
<1>1. last \in S
  <2> DEFINE f == [k \in last .. last |-> [n \in Nat |-> last]]
  <2>1. \A k \in last .. last : k = last /\ f[k] = [n \in Nat |-> last]
    OBVIOUS
  <2>2. f = [k \in last .. last |-> f[k]]
    OBVIOUS
  <2> HIDE DEF f
  <2>3. ASSUME NEW k \in last .. last
        PROVE  /\ \A n \in Nat : f[k][n] \in k .. last
               /\ f[k] = [n \in Nat |-> IF n = 0 \/ k = last THEN k
                                        ELSE f[f[k + 1][children[k]]][n - 1]]
    <3>1. k = last /\ f[k] = [n \in Nat |-> last]
      BY <2>1
    <3>2. [n \in Nat |-> last] = [n \in Nat |-> IF n = 0 \/ k = last THEN k
                                        ELSE f[f[k + 1][children[k]]][n - 1]]
      BY <3>1
    <3> QED
      BY <3>1, <3>2
  <2>4. Tells(f, children, last, last)
    BY <2>2, <2>3 DEF Tells
  <2> QED
    BY <2>4
<1>2. ASSUME NEW m \in 1 .. last - 1, \A j \in m + 1 .. last : j \in S
      PROVE  m \in S
  <2>1. m + 1 \in m + 1 .. last /\ m \in 1 .. last /\ m # last
    OBVIOUS
  <2>2. PICK f : Tells(f, children, m + 1, last)
    BY <1>2, <2>1
  <2> DEFINE c == children[m]
             g == [n \in Nat |-> IF n = 0 \/ m = last THEN m
                                 ELSE f[f[m + 1][c]][n - 1]]
             h == [k \in m .. last |-> IF k = m THEN g ELSE f[k]]
  <2>3. c \in Nat
    OBVIOUS
  <2>4. f[m + 1][c] \in m + 1 .. last
    BY <2>1, <2>2, <2>3 DEF Tells
  <2>5. h[m] = g /\ \A k \in m + 1 .. last : k \in m .. last /\ h[k] = f[k]
    OBVIOUS
  <2> HIDE DEF h
  <2>6. h[h[m + 1][c]] = f[f[m + 1][c]]
    BY <2>1, <2>4, <2>5
  <2>7. \A n \in Nat : h[m][n] \in m .. last
    <3>1. ASSUME NEW n \in Nat, n # 0 PROVE f[f[m + 1][c]][n - 1] \in m .. last
      <4>1. n - 1 \in Nat
        BY <3>1
      <4>2. f[f[m + 1][c]][n - 1] \in f[m + 1][c] .. last
        BY <2>2, <2>4, <4>1 DEF Tells
      <4> QED
        BY <2>4, <4>2
    <3> QED
      BY <2>1, <2>5, <3>1
  <2>8. h[m] = [n \in Nat |-> IF n = 0 \/ m = last THEN m
                              ELSE h[h[m + 1][children[m]]][n - 1]]
    BY <2>5, <2>6
  <2>9. ASSUME NEW k \in m + 1 .. last
        PROVE  /\ \A n \in Nat : h[k][n] \in k .. last
               /\ h[k] = [n \in Nat |-> IF n = 0 \/ k = last THEN k
                                        ELSE h[h[k + 1][children[k]]][n - 1]]
    <3>1. h[k] = f[k]
      BY <2>5
    <3>2. f[k] = [n \in Nat |-> IF n = 0 \/ k = last THEN k
                                ELSE f[f[k + 1][children[k]]][n - 1]]
      BY <2>2 DEF Tells
    <3>3. \A n \in Nat : h[k][n] \in k .. last
      BY <2>2, <3>1 DEF Tells
    <3>4. CASE k = last
      BY <3>1, <3>2, <3>3, <3>4
    <3>5. CASE k # last
      <4>1. k + 1 \in m + 1 .. last /\ k \in 1 .. last - 1
        BY <3>5
      <4>2. children[k] \in Nat
        BY <4>1
      <4>3. f[k + 1][children[k]] \in k + 1 .. last
        BY <2>2, <4>1, <4>2 DEF Tells
      <4>4. f[k + 1][children[k]] \in m + 1 .. last
        BY <4>3
      <4>5. h[h[k + 1][children[k]]] = f[f[k + 1][children[k]]]
        BY <2>5, <4>1, <4>4
      <4> QED
        BY <3>1, <3>2, <3>3, <4>5
    <3> QED
      BY <3>4, <3>5
  <2>10. \A k \in m .. last : k = m \/ k \in m + 1 .. last
    OBVIOUS
  <2>11. h = [k \in m .. last |-> h[k]]
    BY DEF h
  <2>12. Tells(h, children, m, last)
    BY <2>7, <2>8, <2>9, <2>10, <2>11 DEF Tells
  <2> QED
    BY <2>1, <2>12
<1> HIDE DEF S
<1>3. \A k \in 1 .. last : k \in S
  BY <1>1, <1>2, Downward
<1> QED
  BY <1>3 DEF S

\* The item behind n whole ones that begin with item k, one after the other.
LEMMA BehindSteps ==
    ASSUME WireSound
    PROVE  /\ \A k \in 1 .. Last : \A n \in Nat : Behind[k][n] \in k .. Last
           /\ \A k \in 1 .. Last : Behind[k][0] = k
           /\ \A n \in Nat : Behind[Last][n] = Last
           /\ \A k \in 1 .. Len(wire) : \A n \in Nat \ {0} :
                 Behind[k][n] = Behind[Behind[k + 1][ChildrenSent(sent[k].call)]][n - 1]
<1> DEFINE last == Len(wire) + 1
           c == [k \in 1 .. Len(wire) |-> ChildrenSent(sent[k].call)]
<1>1. last \in Nat \ {0} /\ last - 1 = Len(wire) /\ last = Last
  BY DEF WireSound, Last
<1>2. \A k \in 1 .. last - 1 : c[k] = ChildrenSent(sent[k].call) /\ c[k] \in Nat
  BY <1>1, WireItem DEF WireSound
<1> HIDE DEF c
<1>3. PICK f : Tells(f, c, 1, last)
  <2>1. 1 \in 1 .. last
    BY <1>1
  <2> QED
    BY <1>1, <1>2, <2>1, TellsExists
<1> DEFINE B == Behind
<1>4. B = [k \in 1 .. last |->
             [n \in Nat |->
                IF n = 0 \/ k = last THEN k
                ELSE B[B[k + 1][ChildrenSent(sent[k].call)]][n - 1]]]
  <2> HIDE DEF last
  <2>1. f = [k \in 1 .. last |->
               [n \in Nat |->
                  IF n = 0 \/ k = last THEN k
                  ELSE f[f[k + 1][ChildrenSent(sent[k].call)]][n - 1]]]
    <3>1. ASSUME NEW k \in 1 .. last
          PROVE  f[k] = [n \in Nat |->
                           IF n = 0 \/ k = last THEN k
                           ELSE f[f[k + 1][ChildrenSent(sent[k].call)]][n - 1]]
      <4>1. f[k] = [n \in Nat |-> IF n = 0 \/ k = last THEN k
                                  ELSE f[f[k + 1][c[k]]][n - 1]]
        BY <1>3 DEF Tells
      <4>2. k # last => c[k] = ChildrenSent(sent[k].call)
        BY <1>1, <1>2
      <4> QED
        BY <4>1, <4>2
    <3>2. f = [k \in 1 .. last |-> f[k]]
      BY <1>3 DEF Tells
    <3>3. [k \in 1 .. last |-> f[k]]
            = [k \in 1 .. last |->
                 [n \in Nat |->
                    IF n = 0 \/ k = last THEN k
                    ELSE f[f[k + 1][ChildrenSent(sent[k].call)]][n - 1]]]
      BY <3>1
    <3> QED
      BY <3>2, <3>3, Zenon
  <2>2. \E g : g = [k \in 1 .. last |->
               [n \in Nat |->
                  IF n = 0 \/ k = last THEN k
                  ELSE g[g[k + 1][ChildrenSent(sent[k].call)]][n - 1]]]
    BY <2>1
  <2> QED
    BY <2>2 DEF Behind, last
<1> HIDE DEF B, last
<1>5. /\ \A k \in 1 .. last : B[k][0] = k
      /\ \A n \in Nat : B[last][n] = last
      /\ \A k \in 1 .. last - 1 : \A n \in Nat \ {0} :
            B[k][n] = B[B[k + 1][c[k]]][n - 1]
  <2>1. ASSUME NEW k \in 1 .. last
        PROVE  B[k] = [n \in Nat |->
                         IF n = 0 \/ k = last THEN k
                         ELSE B[B[k + 1][ChildrenSent(sent[k].call)]][n - 1]]
    BY <1>4
  <2>2. ASSUME NEW k \in 1 .. last PROVE B[k][0] = k
    BY <2>1
  <2>3. ASSUME NEW n \in Nat PROVE B[last][n] = last
    <3>1. last \in 1 .. last
      BY <1>1
    <3> QED
      BY <2>1, <3>1
  <2>4. ASSUME NEW k \in 1 .. last - 1, NEW n \in Nat \ {0}
        PROVE  B[k][n] = B[B[k + 1][c[k]]][n - 1]
    <3>1. k \in 1 .. last /\ k # last /\ n \in Nat /\ n # 0
      BY <1>1
    <3>2. B[k] = [i \in Nat |->
                    IF i = 0 \/ k = last THEN k
                    ELSE B[B[k + 1][ChildrenSent(sent[k].call)]][i - 1]]
      BY <2>1, <3>1
    <3>3. B[k][n] = B[B[k + 1][ChildrenSent(sent[k].call)]][n - 1]
      BY <3>1, <3>2
    <3>4. c[k] = ChildrenSent(sent[k].call)
      BY <1>2
    <3> QED
      BY <3>3, <3>4
  <2> QED
    BY <2>2, <2>3, <2>4
<1> DEFINE S == {k \in 1 .. last : \A n \in Nat : B[k][n] \in k .. last}
<1>6. last \in S
  BY <1>1, <1>5
<1>7. ASSUME NEW k \in 1 .. last - 1, \A j \in k + 1 .. last : j \in S
      PROVE  k \in S
  <2>1. k \in 1 .. last /\ k + 1 \in k + 1 .. last
    BY <1>1
  <2>2. ASSUME NEW n \in Nat PROVE B[k][n] \in k .. last
    <3>1. CASE n = 0
      BY <1>5, <2>1, <3>1
    <3>2. CASE n # 0
      <4>1. B[k + 1][c[k]] \in k + 1 .. last
        BY <1>2, <1>7, <2>1
      <4>2. n - 1 \in Nat /\ n \in Nat \ {0}
        BY <3>2
      <4>3. B[B[k + 1][c[k]]][n - 1] \in B[k + 1][c[k]] .. last
        BY <1>7, <4>1, <4>2
      <4>4. B[k][n] = B[B[k + 1][c[k]]][n - 1]
        BY <1>5, <4>2
      <4> QED
        BY <2>1, <4>1, <4>3, <4>4
    <3> QED
      BY <3>1, <3>2
  <2> QED
    BY <2>1, <2>2
<1> HIDE DEF S
<1>8. \A k \in 1 .. last : k \in S
  BY <1>1, <1>6, <1>7, Downward
<1>9. \A k \in 1 .. last : \A n \in Nat : B[k][n] \in k .. last
  BY <1>8 DEF S
<1>10. ASSUME NEW k \in 1 .. Len(wire), NEW n \in Nat \ {0}
       PROVE  B[k][n] = B[B[k + 1][ChildrenSent(sent[k].call)]][n - 1]
  <2>1. k \in 1 .. last - 1
    BY <1>1
  <2>2. B[k][n] = B[B[k + 1][c[k]]][n - 1] /\ c[k] = ChildrenSent(sent[k].call)
    BY <1>2, <1>5, <2>1
  <2> QED
    BY <2>2
<1>11. /\ \A k \in 1 .. Last : \A n \in Nat : B[k][n] \in k .. Last
       /\ \A k \in 1 .. Last : B[k][0] = k
       /\ \A n \in Nat : B[Last][n] = Last
  BY <1>1, <1>5, <1>9
<1> QED
  BY <1>10, <1>11, Zenon DEF B

\* Going on from where one has got to.
LEMMA BehindComposes ==
    ASSUME WireSound
    PROVE  \A k \in 1 .. Last : \A a, b \in Nat : Behind[k][a + b] = Behind[Behind[k][a]][b]
<1> DEFINE S == {k \in 1 .. Last : \A a, b \in Nat :
                     Behind[k][a + b] = Behind[Behind[k][a]][b]}
           c(k) == ChildrenSent(sent[k].call)
<1>1. Last \in Nat \ {0} /\ Last - 1 = Len(wire) /\ Last \in 1 .. Last
  BY DEF WireSound, Last
<1>2. Last \in S
  BY <1>1, BehindSteps
<1>3. ASSUME NEW k \in 1 .. Last - 1, \A j \in k + 1 .. Last : j \in S
      PROVE  k \in S
  <2>1. k \in 1 .. Len(wire) /\ k \in 1 .. Last /\ k + 1 \in 1 .. Last
        /\ Behind[k][0] = k
    BY <1>1, BehindSteps
  <2>2. c(k) \in Nat
    BY <2>1, WireItem DEF WireSound
  <2> DEFINE m == Behind[k + 1][c(k)]
  <2>3. m \in k + 1 .. Last
    BY <2>1, <2>2, BehindSteps
  <2>4. \A n \in Nat \ {0} : Behind[k][n] = Behind[m][n - 1]
    BY <2>1, BehindSteps
  <2> HIDE DEF m, c
  <2>5. ASSUME NEW a \in Nat, NEW b \in Nat
        PROVE  Behind[k][a + b] = Behind[Behind[k][a]][b]
    <3>1. CASE a = 0
      BY <2>1, <3>1
    <3>2. CASE a # 0
      <4>1. a \in Nat \ {0} /\ a + b \in Nat \ {0} /\ a - 1 \in Nat
            /\ a + b - 1 = (a - 1) + b
        BY <3>2
      <4>2. Behind[k][a + b] = Behind[m][(a - 1) + b] /\ Behind[k][a] = Behind[m][a - 1]
        BY <2>4, <4>1
      <4>3. Behind[m][(a - 1) + b] = Behind[Behind[m][a - 1]][b]
        BY <1>3, <2>3, <4>1
      <4> QED
        BY <4>2, <4>3
    <3> QED
      BY <3>1, <3>2
  <2> QED
    BY <2>1, <2>5
<1> HIDE DEF S
<1>4. \A k \in 1 .. Last : k \in S
  BY <1>1, <1>2, <1>3, Downward
<1> QED
  BY <1>4 DEF S

-------------------------------------------------------------------------------
(* What the reader does with the item it stands in front of.               *)

Boundaries == {Start(k) : k \in 1 .. Len(wire) + 1}

\* In front of an item the view begins with its header.
LEMMA SeenHeader ==
    ASSUME WireSound, NEW k \in 1 .. Len(wire), reader.pos = Start(k)
    PROVE  Begins(View, wire[k].header)
<1> DEFINE h == wire[k].header
<1>1. \A i \in 0 .. 17 : View[i] = ByteAt(Start(k) + i)
  BY DEF View
<1>2. Len(h) \in 1 .. 18
  BY WireItem DEF WireSound
<1>3. ASSUME NEW i \in 1 .. Len(h)
      PROVE  View[i - 1] = h[i]
  <2>1. i - 1 \in 0 .. 17
    <3>1. \A n : n \in 1 .. 18 /\ i \in 1 .. n => i - 1 \in 0 .. 17
      BY SMT
    <3> QED
      BY <1>2, <3>1, Zenon
  <2>2. ByteAt(Start(k) + (i - 1)) = h[i]
    BY HeaderBytes
  <2> QED
    BY <1>1, <2>1, <2>2
<1> QED
  BY <1>3, Zenon DEF Begins

\* A reader at the beginning of an item sees the item, one behind the last
\* item a byte.
LEMMA Seen ==
    ASSUME WireSound, NEW k \in 1 .. Last, reader.pos = Start(k)
    PROVE  Tagged(View) /\ (k \in 1 .. Len(wire) => Stands(k, View))
<1>1. /\ Start(k) \in Nat /\ Len(wire) \in Nat
      /\ k \in 1 .. Len(wire) \/ k = Len(wire) + 1
  BY Starts DEF WireSound, Last
<1>2. \A i \in 0 .. 17 : View[i] = ByteAt(Start(k) + i)
  BY DEF View
<1>3. CASE k \in 1 .. Len(wire)
  <2> DEFINE h == wire[k].header
  <2>1. \A b : Begins(b, h) => Stands(k, b)
    BY <1>3, WireItem DEF WireSound
  <2>2. Begins(View, h)
    BY <1>3, SeenHeader
  <2>3. Stands(k, View)
    BY <2>1, <2>2, Zenon
  <2> QED
    BY <2>3, Zenon DEF Stands
<1>4. CASE k = Len(wire) + 1
  <2>1. ByteAt(Start(k) + 0) = 0
    <3> DEFINE offset == Start(k) + 0
    <3>1. offset >= Start(Len(wire) + 1)
      BY <1>1, <1>4
    <3> HIDE DEF offset
    <3>2. ByteAt(offset) = 0
      BY <3>1, Zenon DEF ByteAt
    <3> QED
      BY <3>2 DEF offset
  <2>2. View[0] = 0
    BY <1>2, <2>1
  <2>3. 0 \in Byte
    BY SMT DEF Byte
  <2>4. 0 \notin DOMAIN Width
    BY Widths, SMT
  <2>5. k \notin 1 .. Len(wire)
    BY <1>1, <1>4
  <2> QED
    BY <2>2, <2>3, <2>4, <2>5, Zenon DEF Tagged
<1> QED
  BY <1>1, <1>3, <1>4

\* What ends within an item does not end between two.
LEMMA Within ==
    ASSUME WireSound, NEW k \in 1 .. Len(wire), NEW n \in Nat,
           Start(k) < n, n < Start(k + 1)
    PROVE  n \notin Boundaries
<1> SUFFICES ASSUME NEW j \in 1 .. Last, n = Start(j) PROVE FALSE
  BY DEF Boundaries, Last
<1>1. /\ Len(wire) \in Nat /\ k \in 1 .. Last /\ k + 1 \in 1 .. Last
      /\ Start(k) \in Nat /\ Start(k + 1) \in Nat /\ Start(j) \in Nat
      /\ j \in k + 1 .. Last \/ k \in j .. Last
  <2>1. Len(wire) \in Nat
    BY DEF WireSound
  <2>2. k \in 1 .. Last /\ k + 1 \in 1 .. Last
    BY <2>1 DEF Last
  <2>3. j \in k + 1 .. Last \/ k \in j .. Last
    BY <2>1 DEF Last
  <2> QED
    BY <2>1, <2>2, <2>3, Starts
<1>2. CASE j \in k + 1 .. Last
  <2>1. Start(k + 1) <= Start(j)
    BY <1>1, <1>2, StartsGrow
  <2> QED
    BY <1>1, <2>1
<1>3. CASE k \in j .. Last
  <2>1. Start(j) <= Start(k)
    BY <1>1, <1>3, StartsGrow
  <2> QED
    BY <1>1, <2>1
<1> QED
  BY <1>1, <1>2, <1>3

\* Looking ahead tells the type that unpacking finds, unless that is
\* a positive integer in a signed format.
LEMMA AheadIsType ==
    ASSUME NEW b, b[0] \in Byte
    PROVE  \/ UnpackItem(b).type = AheadType(b)
           \/ /\ AheadType(b) = CWP_ITEM_NEGATIVE_INTEGER
              /\ UnpackItem(b).type = CWP_ITEM_POSITIVE_INTEGER
<1> DEFINE c == b[0]
<1>1. CASE c \in Ext \cup FixExt
  <2>1. UnpackItem(b).type = ExtType(b) /\ AheadType(b) = Signed8(b[Peek(b) - 1])
    BY <1>1, Zenon DEF UnpackItem, AheadType
  <2>2. Peek(b) - 1 = IF c \in FixExt THEN 1 ELSE 1 + Width[c]
    <3>1. CASE c \in FixExt
      <4>1. c \notin {199, 200, 201}
        BY <3>1 DEF FixExt
      <4>2. Peek(b) = 2
        BY <3>1, <4>1 DEF Peek
      <4> QED
        BY <3>1, <4>2
    <3>2. CASE c \in Ext
      <4>1. c \in {199, 200, 201} /\ c \notin FixExt
        BY <3>2 DEF Ext, FixExt
      <4>2. Peek(b) = 2 + Width[c] /\ Width[c] \in {1, 2, 4}
        BY <3>2, Widths DEF Peek, Ext, FixExt
      <4> QED
        BY <4>1, <4>2
    <3> QED
      BY <1>1, <3>1, <3>2
  <2>3. ExtType(b) = Signed8(b[Peek(b) - 1])
    BY <2>2, Zenon DEF ExtType
  <2> QED
    BY <2>1, <2>3
<1>2. CASE c \notin Ext \cup FixExt
  <2>1. AheadType(b) = TagType(c)
    BY <1>2, Zenon DEF AheadType
  <2>2. UnpackItem(b).type = IF c \in 208 .. 211 /\ ~Negative(Integer(b))
                             THEN CWP_ITEM_POSITIVE_INTEGER ELSE TagType(c)
    <3> HIDE DEF c
    <3>1. UnpackItem(b).type = IF b[0] \in Ext \cup FixExt THEN ExtType(b)
                               ELSE IF b[0] \in 208 .. 211 /\ ~Negative(Integer(b))
                               THEN CWP_ITEM_POSITIVE_INTEGER ELSE TagType(b[0])
      BY SMT DEF UnpackItem
    <3> QED
      BY <1>2, <3>1 DEF c
  <2>3. c \in 208 .. 211 => TagType(c) = CWP_ITEM_NEGATIVE_INTEGER
    BY TagTypes, SMT
  <2> QED
    BY <2>1, <2>2, <2>3
<1> QED
  BY <1>1, <1>2

ReaderFields == {"pos", "return_code", "item", "left", "ahead", "answer",
                 "expected", "last", "read"}

\* What the reader's position and buffer are when it runs.
Inside(k) ==
    /\ DOMAIN reader = ReaderFields
    /\ k \in 1 .. Last /\ reader.pos = Start(k)
    /\ limit \in Nat /\ Start(k) <= limit /\ limit <= Start(Last)

\* How asking for item k may come out: the buffer ends before it, or within
\* it, or all of it is there.
Outcome(k, code, consumed, error) ==
    \/ /\ code = CWP_RC_END_OF_INPUT /\ limit = Start(k) /\ consumed = 0
    \/ /\ code = CWP_RC_BUFFER_UNDERFLOW /\ limit \notin Boundaries
    \/ /\ code = error /\ k \in 1 .. Len(wire)
       /\ error = CWP_RC_OK => /\ Start(k) + consumed = Start(k + 1)
                               /\ Start(k + 1) <= limit

LEMMA AskingItem ==
    ASSUME WireSound, NEW k, Inside(k), NEW asks, Steps(asks), NEW error,
           k \in 1 .. Len(wire) => /\ Total(asks) <= Size(wire[k])
                                   /\ error = CWP_RC_OK => Total(asks) = Size(wire[k])
    PROVE  Outcome(k, AskCode(asks, Available, error), Consumed(asks, Available), error)
<1> DEFINE code == AskCode(asks, Available, error)
           consumed == Consumed(asks, Available)
           total == Total(asks)
<1>1. /\ Len(wire) \in Nat /\ k \in 1 .. Last /\ Start(k) \in Nat
      /\ Available = limit - Start(k) /\ limit \in Nat
      /\ Start(k) <= limit /\ limit <= Start(Last)
  BY Starts DEF WireSound, Inside, Available
<1> SUFFICES Outcome(k, code, consumed, error)
  OBVIOUS
<1>2. Available \in Nat
  BY <1>1
<1>3. /\ total \in Nat \ {0}
      /\ \/ /\ Available = 0
            /\ code = CWP_RC_END_OF_INPUT /\ consumed = 0
         \/ /\ 0 < Available /\ Available < total
            /\ code = CWP_RC_BUFFER_UNDERFLOW
         \/ /\ total <= Available
            /\ code = error /\ consumed = total
  BY <1>2, Asked
<1> HIDE DEF code, consumed, total
<1>4. CASE k \in 1 .. Len(wire)
  <2>1. Start(k + 1) = Start(k) + Size(wire[k]) /\ Size(wire[k]) \in Nat
        /\ total <= Size(wire[k]) /\ (error = CWP_RC_OK => total = Size(wire[k]))
    BY <1>4, Starts DEF total
  <2>2. CASE Available = 0 /\ code = CWP_RC_END_OF_INPUT /\ consumed = 0
    BY <1>1, <2>2 DEF Outcome
  <2>3. CASE 0 < Available /\ Available < total /\ code = CWP_RC_BUFFER_UNDERFLOW
    <3>1. Start(k) < limit /\ limit < Start(k + 1)
      BY <1>1, <1>3, <2>1, <2>3
    <3>2. limit \notin Boundaries
      BY <1>1, <1>4, <3>1, Within
    <3> QED
      BY <2>3, <3>2 DEF Outcome
  <2>4. CASE total <= Available /\ code = error /\ consumed = total
    <3>1. error = CWP_RC_OK => Start(k) + consumed = Start(k + 1) /\ Start(k + 1) <= limit
      BY <1>1, <1>3, <2>1, <2>4
    <3> QED
      BY <1>4, <2>4, <3>1 DEF Outcome
  <2> QED
    BY <1>3, <2>2, <2>3, <2>4
<1>5. CASE k \notin 1 .. Len(wire)
  <2>1. k = Last
    BY <1>1, <1>5 DEF Last
  <2>2. Available = 0 /\ limit = Start(k)
    BY <1>1, <2>1
  <2>3. code = CWP_RC_END_OF_INPUT /\ consumed = 0
    BY <1>3, <2>2
  <2> QED
    BY <2>2, <2>3 DEF Outcome
<1> QED
  BY <1>4, <1>5

\* Unpacking the item the reader stands in front of.
LEMMA NextItem ==
    ASSUME WireSound, NEW k, Inside(k)
    PROVE  LET r == Next_Item(reader)
           IN  /\ DOMAIN r = ReaderFields
               /\ r.left = reader.left /\ r.ahead = NOT_AHEAD /\ r.read = reader.read + 1
               /\ \/ /\ r.return_code = CWP_RC_END_OF_INPUT
                     /\ limit = Start(k) /\ r.pos = Start(k)
                  \/ /\ r.return_code = CWP_RC_BUFFER_UNDERFLOW
                     /\ limit \notin Boundaries
                  \/ /\ r.return_code \in {CWP_RC_MALFORMED_INPUT,
                                           CWP_RC_WRONG_TIMESTAMP_LENGTH}
                     /\ k \in 1 .. Len(wire) /\ ~Packed(k)
                  \/ /\ r.return_code = CWP_RC_OK /\ k \in 1 .. Len(wire)
                     /\ Stands(k, View) /\ ItemError(View) = CWP_RC_OK
                     /\ r.item = UnpackItem(View)
                     /\ r.pos = Start(k + 1) /\ Start(k + 1) <= limit
<1> DEFINE r == Next_Item(reader)
           asks == UnpackAsks(View)
           error == ItemError(View)
           code == AskCode(asks, Available, error)
           consumed == Consumed(asks, Available)
<1>1. /\ DOMAIN r = ReaderFields
      /\ r.left = reader.left /\ r.ahead = NOT_AHEAD /\ r.read = reader.read + 1
      /\ r.return_code = code /\ r.pos = reader.pos + consumed
      /\ r.item = IF code = CWP_RC_OK THEN UnpackItem(View) ELSE NotAnItem
  <2> HIDE DEF code, consumed
  <2>1. r = [reader EXCEPT !.pos         = @ + consumed,
                           !.return_code = code,
                           !.item        = IF code = CWP_RC_OK THEN UnpackItem(View)
                                                               ELSE NotAnItem,
                           !.ahead       = NOT_AHEAD,
                           !.read        = @ + 1]
    BY Zenon DEF Next_Item, code, consumed
  <2> HIDE DEF r
  <2> QED
    BY <2>1 DEF Inside, ReaderFields
<1>2. /\ reader.pos = Start(k) /\ k \in 1 .. Last
      /\ Tagged(View) /\ (k \in 1 .. Len(wire) => Stands(k, View))
  BY Seen DEF Inside
<1>3. /\ Steps(asks) /\ Total(asks) <= Format(View).length + Format(View).payload
      /\ error = CWP_RC_OK => Total(asks) = Format(View).length + Format(View).payload
  BY <1>2, Walk DEF Walks
<1>4. k \in 1 .. Len(wire) =>
        /\ Format(View).length + Format(View).payload = Size(wire[k])
        /\ Packed(k) => error = CWP_RC_OK
  BY <1>2, Zenon DEF Stands
<1>5. error \in {CWP_RC_OK, CWP_RC_MALFORMED_INPUT, CWP_RC_WRONG_TIMESTAMP_LENGTH}
  BY Zenon DEF ItemError
<1> HIDE DEF r, asks, error
<1>6. Outcome(k, code, consumed, error)
  <2>1. k \in 1 .. Len(wire) => /\ Total(asks) <= Size(wire[k])
                                /\ error = CWP_RC_OK => Total(asks) = Size(wire[k])
    BY <1>3, <1>4
  <2> QED
    BY <1>3, <2>1, AskingItem
<1> HIDE DEF code, consumed
<1>7. CASE code = CWP_RC_END_OF_INPUT /\ limit = Start(k) /\ consumed = 0
  <2>1. Start(k) + 0 = Start(k)
    BY <1>2, Starts
  <2> QED
    BY <1>1, <1>2, <1>7, <2>1 DEF r
<1>8. CASE code = CWP_RC_BUFFER_UNDERFLOW /\ limit \notin Boundaries
  BY <1>1, <1>8 DEF r
<1>9. CASE /\ code = error /\ k \in 1 .. Len(wire)
           /\ error = CWP_RC_OK => /\ Start(k) + consumed = Start(k + 1)
                                   /\ Start(k + 1) <= limit
  <2>1. CASE error = CWP_RC_OK
    BY <1>1, <1>2, <1>9, <2>1 DEF r, error
  <2>2. CASE error # CWP_RC_OK
    BY <1>1, <1>4, <1>5, <1>9, <2>2 DEF r
  <2> QED
    BY <2>1, <2>2
<1> QED
  BY <1>6, <1>7, <1>8, <1>9 DEF Outcome

-------------------------------------------------------------------------------
(* The inductive invariant.                                                *)

IsSequence(s) == \E S : s \in Seq(S)

PackerSound ==
    /\ DOMAIN packer = {"be_compatible", "return_code", "client"}
    /\ packer.client \in DOMAIN Clients /\ packer.be_compatible \in BOOLEAN
    /\ IsSequence(wire) /\ IsSequence(sent)

\* A running reader stands in front of an item, the one behind those its
\* calls stand for once what it has still to skip is skipped.
At(k) == Inside(k) /\ Behind[k][reader.left] = reader.read + 1

\* How a reader has stopped.
Stopped ==
    /\ reader.return_code = CWP_RC_END_OF_INPUT =>
          limit \in Boundaries /\ reader.pos = limit
    /\ reader.return_code = CWP_RC_BUFFER_UNDERFLOW => limit \notin Boundaries
    /\ reader.return_code \in {CWP_RC_MALFORMED_INPUT, CWP_RC_WRONG_TIMESTAMP_LENGTH} =>
          \E k \in DOMAIN sent : ~Packed(k)
    /\ reader.return_code \notin {CWP_RC_OK, CWP_RC_END_OF_INPUT,
                                  CWP_RC_BUFFER_UNDERFLOW, CWP_RC_MALFORMED_INPUT,
                                  CWP_RC_WRONG_TIMESTAMP_LENGTH} => reader.last = "expect"

ReaderSound ==
    /\ DOMAIN reader = ReaderFields
    /\ reader.left \in Nat /\ reader.read \in Nat
    /\ reader.left > 0 => reader.last = "skip" /\ reader.return_code = CWP_RC_OK
    /\ reader.ahead # NOT_AHEAD => reader.last = "ahead"
    /\ limit = NULL => reader = NewReader
    /\ reader.return_code = CWP_RC_OK =>
          /\ limit # NULL => \E k \in 1 .. Last : At(k)
          /\ reader.ahead # NOT_AHEAD => reader.ahead = AheadType(View)
          /\ reader.last = "next" =>
                /\ reader.read \in 1 .. Len(wire)
                /\ Packed(reader.read) => reader.item \in Meant(reader.read)

\* What the packer has put in the buffer stays.
LEMMA SameBuffer ==
    ASSUME wire' = wire, sent' = sent
    PROVE  /\ Last' = Last /\ Behind' = Behind /\ Boundaries' = Boundaries
           /\ \A k : /\ Start(k)' = Start(k)
                     /\ Packed(k)' = Packed(k)
                     /\ Meant(k)' = Meant(k)
           /\ reader'.pos = reader.pos => View' = View
           /\ WireSound => WireSound'
<1>1. Last' = Last
  BY DEF Last
<1>2. Behind' = Behind
  BY DEF Behind
<1>3. \A k : Start(k)' = Start(k)
  BY DEF Start, Size, Sums
<1>4. Boundaries' = Boundaries
  BY <1>3 DEF Boundaries
<1>5. \A k : Packed(k)' = Packed(k)
  BY DEF Packed
<1>6. \A k : Meant(k)' = Meant(k)
  BY DEF Meant, Optimised, Meaning, Blobbed, Size, NumericExtension
<1>7. ASSUME reader'.pos = reader.pos PROVE View' = View
  BY <1>7, SMT DEF View, ByteAt, Start, Size, Sums
<1>8. ASSUME WireSound PROVE WireSound'
  BY <1>8 DEF WireSound, PackedItem, ForeignItem
<1> QED
  BY <1>1, <1>2, <1>3, <1>4, <1>5, <1>6, <1>7, <1>8

\* The items of the buffer stay what they are when one more is put behind them.
LEMMA WireGrows ==
    ASSUME WireSound, IsSequence(wire), IsSequence(sent), NEW x, NEW y,
           wire' = Append(wire, x), sent' = Append(sent, y),
           \/ \E call \in PackingCalls : \E b \in BOOLEAN :
                 LET e == EncodeAny(call, b)
                 IN  /\ y = [call |-> call, be_compatible |-> b]
                     /\ e.rc = CWP_RC_OK
                     /\ x = [header |-> e.header, payload |-> e.payload]
           \/ \E item :
                 /\ IsItem(item)
                 /\ y = [call |-> [op |-> "foreign", children |-> item.children],
                         be_compatible |-> FALSE]
                 /\ x = [header |-> item.header, payload |-> item.payload]
    PROVE  WireSound' /\ IsSequence(wire)' /\ IsSequence(sent)'
<1>1. ASSUME NEW s, IsSequence(s), NEW z
      PROVE  /\ IsSequence(Append(s, z)) /\ Len(s) \in Nat
             /\ Len(Append(s, z)) = Len(s) + 1
             /\ DOMAIN Append(s, z) = 1 .. Len(s) + 1
             /\ \A k \in 1 .. Len(s) : Append(s, z)[k] = s[k]
             /\ Append(s, z)[Len(s) + 1] = z
  <2>1. PICK S : s \in Seq(S)
    BY <1>1 DEF IsSequence
  <2>2. s \in Seq(S \cup {z}) /\ z \in S \cup {z}
    BY <2>1
  <2>3. /\ Append(s, z) \in Seq(S \cup {z}) /\ Len(s) \in Nat
        /\ Len(Append(s, z)) = Len(s) + 1
        /\ \A k \in 1 .. Len(s) : Append(s, z)[k] = s[k]
        /\ Append(s, z)[Len(s) + 1] = z
    BY <2>2, AppendProperties, LenProperties
  <2>4. DOMAIN Append(s, z) = 1 .. Len(Append(s, z))
    BY <2>3, LenProperties
  <2> QED
    BY <2>3, <2>4 DEF IsSequence
<1>2. /\ IsSequence(wire') /\ Len(wire') = Len(wire) + 1
      /\ DOMAIN wire' = 1 .. Len(wire) + 1
      /\ \A k \in 1 .. Len(wire) : wire'[k] = wire[k]
      /\ wire'[Len(wire) + 1] = x
  BY <1>1
<1>3. /\ IsSequence(sent') /\ Len(sent') = Len(sent) + 1
      /\ DOMAIN sent' = 1 .. Len(sent) + 1
      /\ \A k \in 1 .. Len(sent) : sent'[k] = sent[k]
      /\ sent'[Len(sent) + 1] = y
  BY <1>1
<1>4. Len(wire) \in Nat /\ Len(sent) = Len(wire)
  BY DEF WireSound
<1>5. ASSUME NEW k \in 1 .. Len(wire) + 1
      PROVE  (PackedItem(k) \/ ForeignItem(k))'
  <2>1. CASE k \in 1 .. Len(wire)
    <3>1. PackedItem(k) \/ ForeignItem(k)
      BY <2>1 DEF WireSound
    <3>2. wire'[k] = wire[k] /\ sent'[k] = sent[k]
      BY <1>2, <1>3, <1>4, <2>1
    <3> QED
      BY <3>1, <3>2 DEF PackedItem, ForeignItem
  <2>2. CASE k = Len(wire) + 1
    <3>1. wire'[k] = x /\ sent'[k] = y
      BY <1>2, <1>3, <1>4, <2>2
    <3> QED
      BY <3>1, Zenon DEF PackedItem, ForeignItem
  <2> QED
    BY <1>4, <2>1, <2>2
<1> QED
  BY <1>2, <1>3, <1>4, <1>5 DEF WireSound

\* A buffer cut anywhere is no longer than what was packed.
LEMMA CutsInside ==
    ASSUME WireSound, NEW n \in {0} \cup Cuts
    PROVE  n \in Nat /\ n <= Start(Last)
<1>1. Len(wire) \in Nat /\ 1 \in 1 .. Last /\ Last \in 1 .. Last /\ DOMAIN wire = 1 .. Len(wire)
  BY DEF WireSound, Last
<1>2. Start(Last) \in Nat
  BY <1>1, Starts
<1>3. CASE n = 0
  BY <1>2, <1>3
<1>4. CASE n \in Cuts
  <2>1. PICK k \in 1 .. Len(wire) :
            n \in {Start(k) + d : d \in 0 .. Len(wire[k].header)} \cup
                  {Start(k + 1) - 1, Start(k + 1)}
    BY <1>1, <1>4 DEF Cuts
  <2>2. /\ Start(k) \in Nat /\ Start(k + 1) = Start(k) + Size(wire[k])
        /\ Size(wire[k]) \in Nat \ {0} /\ Start(k + 1) <= Start(Last)
    <3>1. k \in 1 .. Last /\ k + 1 \in 1 .. Last /\ Last \in k + 1 .. Last
      BY <1>1 DEF Last
    <3> QED
      BY <3>1, Starts, StartsGrow
  <2>3. /\ Size(wire[k]) = Len(wire[k].header) + wire[k].payload
        /\ Len(wire[k].header) \in 1 .. 18 /\ wire[k].payload \in Nat
    BY WireItem DEF WireSound, Size
  <2>4. CASE n \in {Start(k + 1) - 1, Start(k + 1)}
    BY <1>2, <2>2, <2>4
  <2>5. CASE n \in {Start(k) + d : d \in 0 .. Len(wire[k].header)}
    <3>1. PICK d \in 0 .. Len(wire[k].header) : n = Start(k) + d
      BY <2>5
    <3>2. \A a, h, p, z : a \in Nat /\ h \in 1 .. 18 /\ p \in Nat /\ z \in Nat
              /\ a + (h + p) <= z /\ d \in 0 .. h => a + d \in Nat /\ a + d <= z
      BY SMT
    <3> QED
      BY <1>2, <2>2, <2>3, <3>1, <3>2, Zenon
  <2> QED
    BY <2>1, <2>4, <2>5
<1> QED
  BY <1>3, <1>4

IInv == WireSound /\ PackerSound /\ ReaderSound /\ Stopped

\* Where a reader stands that has done with the item it stood in front of.
LEMMA BehindNext ==
    ASSUME WireSound, NEW k \in 1 .. Len(wire), NEW n \in Nat \ {0},
           NEW children, children = ChildrenSent(sent[k].call)
    PROVE  Behind[k][n] = Behind[k + 1][n - 1 + children] /\ n - 1 + children \in Nat
<1>1. k + 1 \in 1 .. Last /\ n - 1 \in Nat /\ children \in Nat
  BY WireItem DEF WireSound, Last
<1>2. Behind[k][n] = Behind[Behind[k + 1][children]][n - 1]
  BY BehindSteps
<1>3. Behind[k + 1][children + (n - 1)] = Behind[Behind[k + 1][children]][n - 1]
  BY <1>1, BehindComposes
<1>4. children + (n - 1) = n - 1 + children
  BY <1>1
<1> QED
  BY <1>1, <1>2, <1>3, <1>4

\* What is true of a reader stays while reader and buffer stay.
LEMMA ReaderStays ==
    ASSUME IInv, UNCHANGED <<wire, sent, limit, reader>>
    PROVE  WireSound' /\ ReaderSound' /\ Stopped'
<1> USE DEF IInv
<1>1. /\ Last' = Last /\ Behind' = Behind /\ Boundaries' = Boundaries
      /\ \A k : Start(k)' = Start(k) /\ Packed(k)' = Packed(k) /\ Meant(k)' = Meant(k)
      /\ View' = View /\ WireSound'
  BY SameBuffer
<1>2. \A k : At(k) => At(k)'
  BY <1>1 DEF At, Inside
<1>3. ReaderSound'
  BY <1>1, <1>2 DEF ReaderSound
<1>4. Stopped'
  BY <1>1 DEF Stopped
<1> QED
  BY <1>1, <1>3, <1>4

\* What is true of a reader that has not read yet.
LEMMA ReaderBegins ==
    ASSUME reader' = NewReader, limit' = NULL
    PROVE  ReaderSound' /\ Stopped'
<1>1. /\ DOMAIN reader' = ReaderFields /\ reader'.left = 0 /\ reader'.read = 0
      /\ reader'.return_code = CWP_RC_OK /\ reader'.ahead = NOT_AHEAD
      /\ reader'.last = "none"
  BY DEF NewReader, ReaderFields
<1>2. Stopped'
  BY <1>1 DEF Stopped, CWP_RC_OK, CWP_RC_END_OF_INPUT, CWP_RC_BUFFER_UNDERFLOW,
          CWP_RC_MALFORMED_INPUT, CWP_RC_WRONG_TIMESTAMP_LENGTH
<1>3. ReaderSound'
  BY <1>1 DEF ReaderSound
<1> QED
  BY <1>2, <1>3

LEMMA InitInvariant == Init => IInv
<1> SUFFICES ASSUME Init PROVE IInv
  OBVIOUS
<1>1. PICK name \in DOMAIN Clients :
          packer = [be_compatible |-> FALSE, return_code |-> CWP_RC_OK, client |-> name]
  BY DEF Init
<1>2. wire = <<>> /\ sent = <<>> /\ limit = NULL /\ reader = NewReader
  BY DEF Init
<1>3. IsSequence(wire) /\ IsSequence(sent)
  BY <1>2 DEF IsSequence
<1>4. PackerSound
  BY <1>1, <1>3 DEF PackerSound
<1>5. WireSound
  <2>1. Len(wire) = 0 /\ Len(sent) = 0 /\ DOMAIN wire = 1 .. 0 /\ DOMAIN sent = 1 .. 0
    BY <1>2
  <2> QED
    BY <2>1 DEF WireSound
<1>6. /\ DOMAIN reader = ReaderFields /\ reader.left = 0 /\ reader.read = 0
      /\ reader.return_code = CWP_RC_OK /\ reader.ahead = NOT_AHEAD
      /\ reader.last = "none"
  BY <1>2 DEF NewReader, ReaderFields
<1>7. Stopped
  BY <1>6 DEF Stopped, CWP_RC_OK, CWP_RC_END_OF_INPUT, CWP_RC_BUFFER_UNDERFLOW,
          CWP_RC_MALFORMED_INPUT, CWP_RC_WRONG_TIMESTAMP_LENGTH
<1>8. ReaderSound
  BY <1>2, <1>6 DEF ReaderSound
<1> QED
  BY <1>4, <1>5, <1>7, <1>8 DEF IInv

LEMMA PackingInvariant ==
    ASSUME IInv, SetCompatibility \/ Pack \/ ForeignPack
    PROVE  IInv'
<1>1. Client = Clients[packer.client] /\ packer.client \in DOMAIN Clients
  BY DEF IInv, PackerSound, Client
<1>2. CASE SetCompatibility
  <2>1. PICK b \in Client.modes : packer' = [packer EXCEPT !.be_compatible = b]
    BY <1>2 DEF SetCompatibility
  <2>2. b \in BOOLEAN
    BY <1>1, ClientsAssumption
  <2>3. UNCHANGED <<wire, sent, limit, reader>>
    BY <1>2 DEF SetCompatibility
  <2>4. PackerSound'
    BY <2>1, <2>2, <2>3 DEF IInv, PackerSound, IsSequence
  <2> QED
    BY <2>3, <2>4, ReaderStays DEF IInv
<1>3. CASE Pack
  <2>1. PICK call \in Client.calls :
          LET e == EncodeAny(call, packer.be_compatible)
          IN  /\ packer' = [packer EXCEPT !.return_code = e.rc]
              /\ IF e.rc = CWP_RC_OK
                 THEN /\ wire' = Append(wire, [header |-> e.header, payload |-> e.payload])
                      /\ sent' = Append(sent, [call |-> call,
                                               be_compatible |-> packer.be_compatible])
                 ELSE UNCHANGED <<wire, sent>>
    BY <1>3, Zenon DEF Pack
  <2> DEFINE e == EncodeAny(call, packer.be_compatible)
  <2>2. /\ packer' = [packer EXCEPT !.return_code = e.rc]
        /\ e.rc = CWP_RC_OK =>
              /\ wire' = Append(wire, [header |-> e.header, payload |-> e.payload])
              /\ sent' = Append(sent, [call |-> call,
                                       be_compatible |-> packer.be_compatible])
        /\ e.rc # CWP_RC_OK => UNCHANGED <<wire, sent>>
    BY <2>1, Zenon
  <2>3. e = EncodeAny(call, packer.be_compatible)
    OBVIOUS
  <2> HIDE DEF e
  <2>4. limit = NULL /\ UNCHANGED <<limit, reader>>
    BY <1>3 DEF Pack, Packing
  <2>5. call \in PackingCalls /\ packer.be_compatible \in BOOLEAN
    BY <1>1, ClientsAssumption DEF IInv, PackerSound
  <2>6. DOMAIN packer' = {"be_compatible", "return_code", "client"}
        /\ packer'.client = packer.client /\ packer'.be_compatible = packer.be_compatible
    BY <2>2 DEF IInv, PackerSound
  <2>7. CASE e.rc = CWP_RC_OK
    <3> DEFINE x == [header |-> e.header, payload |-> e.payload]
               y == [call |-> call, be_compatible |-> packer.be_compatible]
    <3>1. \E c \in PackingCalls : \E b \in BOOLEAN :
             LET f == EncodeAny(c, b)
             IN  /\ y = [call |-> c, be_compatible |-> b]
                 /\ f.rc = CWP_RC_OK
                 /\ x = [header |-> f.header, payload |-> f.payload]
      BY <2>3, <2>5, <2>7, Zenon
    <3>2. wire' = Append(wire, x) /\ sent' = Append(sent, y)
      BY <2>2, <2>7
    <3> HIDE DEF x, y
    <3>3. WireSound' /\ IsSequence(wire)' /\ IsSequence(sent)'
      BY <3>1, <3>2, WireGrows DEF IInv, PackerSound
    <3>4. reader' = NewReader /\ limit' = NULL
      BY <2>4 DEF IInv, ReaderSound
    <3>5. ReaderSound' /\ Stopped'
      BY <3>4, ReaderBegins
    <3>6. PackerSound'
      BY <2>6, <3>3 DEF IInv, PackerSound
    <3> QED
      BY <3>3, <3>5, <3>6 DEF IInv
  <2>8. CASE e.rc # CWP_RC_OK
    <3>1. UNCHANGED <<wire, sent, limit, reader>>
      BY <2>2, <2>4, <2>8
    <3>2. PackerSound'
      BY <2>6, <3>1 DEF IInv, PackerSound, IsSequence
    <3> QED
      BY <3>1, <3>2, ReaderStays DEF IInv
  <2> QED
    BY <2>7, <2>8
<1>4. CASE ForeignPack
  <2>1. PICK item \in Client.foreign :
          /\ wire' = Append(wire, [header |-> item.header, payload |-> item.payload])
          /\ sent' = Append(sent, [call |-> [op |-> "foreign", children |-> item.children],
                                   be_compatible |-> FALSE])
    BY <1>4 DEF ForeignPack
  <2>2. IsItem(item)
    BY <1>1, ClientsAssumption
  <2> DEFINE x == [header |-> item.header, payload |-> item.payload]
             y == [call |-> [op |-> "foreign", children |-> item.children],
                   be_compatible |-> FALSE]
  <2>3. wire' = Append(wire, x) /\ sent' = Append(sent, y)
    BY <2>1
  <2>4. \E i :
           /\ IsItem(i)
           /\ y = [call |-> [op |-> "foreign", children |-> i.children],
                   be_compatible |-> FALSE]
           /\ x = [header |-> i.header, payload |-> i.payload]
    BY <2>2, Zenon
  <2> HIDE DEF x, y
  <2>5. WireSound' /\ IsSequence(wire)' /\ IsSequence(sent)'
    BY <2>3, <2>4, WireGrows DEF IInv, PackerSound
  <2>6. limit = NULL /\ UNCHANGED <<packer, limit, reader>>
    BY <1>4 DEF ForeignPack, Packing
  <2>7. reader' = NewReader /\ limit' = NULL
    BY <2>6 DEF IInv, ReaderSound
  <2>8. ReaderSound' /\ Stopped'
    BY <2>7, ReaderBegins
  <2>9. PackerSound'
    BY <2>5, <2>6 DEF IInv, PackerSound
  <2> QED
    BY <2>5, <2>8, <2>9 DEF IInv
<1> QED
  BY <1>2, <1>3, <1>4

\* A reader ready for a call stands in front of the item behind those read.
LEMMA ReadyReader ==
    ASSUME IInv, limit # NULL, reader.return_code = CWP_RC_OK, reader.left = 0
    PROVE  Inside(reader.read + 1) /\ reader.read + 1 \in 1 .. Last
<1>1. PICK k \in 1 .. Last : At(k)
  BY DEF IInv, ReaderSound
<1>2. Behind[k][0] = k
  BY BehindSteps DEF IInv
<1>3. k = reader.read + 1
  BY <1>1, <1>2 DEF At
<1> QED
  BY <1>1, <1>3 DEF At

\* What reading leaves alone.
LEMMA ReadingFrame ==
    ASSUME IInv, UNCHANGED <<packer, wire, sent, limit>>
    PROVE  /\ Last' = Last /\ Behind' = Behind /\ Boundaries' = Boundaries
           /\ \A k : Start(k)' = Start(k) /\ Packed(k)' = Packed(k) /\ Meant(k)' = Meant(k)
           /\ WireSound' /\ PackerSound'
<1>1. PackerSound'
  BY DEF IInv, PackerSound, IsSequence
<1> QED
  BY <1>1, SameBuffer DEF IInv

\* A reader in front of item k, whose calls stand for what begins there.
LEMMA NowAt ==
    ASSUME IInv, UNCHANGED <<packer, wire, sent, limit>>, DOMAIN reader' = ReaderFields,
           NEW k \in 1 .. Last, reader'.pos = Start(k),
           limit \in Nat, Start(k) <= limit, limit <= Start(Last),
           Behind[k][reader'.left] = reader'.read + 1
    PROVE  At(k)'
BY ReadingFrame DEF At, Inside

LEMMA BeginReading ==
    ASSUME IInv, cw_unpack_context_init
    PROVE  IInv'
<1>1. limit = NULL /\ limit' \in {0} \cup Cuts /\ UNCHANGED <<packer, wire, sent, reader>>
  BY DEF cw_unpack_context_init
<1>2. limit' \in Nat /\ limit' <= Start(Last)
  BY <1>1, CutsInside DEF IInv
<1>3. reader' = NewReader
  BY <1>1 DEF IInv, ReaderSound
<1>4. /\ DOMAIN reader' = ReaderFields /\ reader'.left = 0 /\ reader'.read = 0
      /\ reader'.return_code = CWP_RC_OK /\ reader'.ahead = NOT_AHEAD
      /\ reader'.last = "none" /\ reader'.pos = 0
  BY <1>3 DEF NewReader, ReaderFields
<1>5. /\ Last' = Last /\ Behind' = Behind
      /\ \A k : Start(k)' = Start(k)
      /\ WireSound'
  BY <1>1, SameBuffer DEF IInv
<1>6. PackerSound'
  BY <1>1 DEF IInv, PackerSound, IsSequence
<1>7. 1 \in 1 .. Last /\ Start(1) = 0 /\ Behind[1][0] = 1
  <2>1. 1 \in 1 .. Last
    BY DEF IInv, WireSound, Last
  <2> QED
    BY <2>1, Starts, BehindSteps DEF IInv
<1>8. At(1)'
  BY <1>2, <1>4, <1>5, <1>7 DEF At, Inside
<1>9. ReaderSound'
  <2>1. limit' # NULL
    BY <1>2 DEF NULL
  <2>2. \E k \in 1 .. Last' : At(k)'
    BY <1>5, <1>7, <1>8
  <2> QED
    BY <1>4, <2>1, <2>2 DEF ReaderSound
<1>10. Stopped'
  BY <1>4 DEF Stopped, CWP_RC_OK, CWP_RC_END_OF_INPUT, CWP_RC_BUFFER_UNDERFLOW,
          CWP_RC_MALFORMED_INPUT, CWP_RC_WRONG_TIMESTAMP_LENGTH
<1> QED
  BY <1>5, <1>6, <1>9, <1>10 DEF IInv

LEMMA CodesDiffer ==
    /\ CWP_RC_OK # CWP_RC_END_OF_INPUT /\ CWP_RC_OK # CWP_RC_BUFFER_UNDERFLOW
    /\ CWP_RC_OK # CWP_RC_MALFORMED_INPUT /\ CWP_RC_OK # CWP_RC_WRONG_TIMESTAMP_LENGTH
    /\ CWP_RC_END_OF_INPUT # CWP_RC_BUFFER_UNDERFLOW
    /\ CWP_RC_END_OF_INPUT \notin {CWP_RC_MALFORMED_INPUT, CWP_RC_WRONG_TIMESTAMP_LENGTH}
    /\ CWP_RC_BUFFER_UNDERFLOW \notin {CWP_RC_MALFORMED_INPUT, CWP_RC_WRONG_TIMESTAMP_LENGTH}
    /\ {CWP_RC_TYPE_ERROR, CWP_RC_VALUE_ERROR} \cap
         {CWP_RC_OK, CWP_RC_END_OF_INPUT, CWP_RC_BUFFER_UNDERFLOW, CWP_RC_MALFORMED_INPUT,
          CWP_RC_WRONG_TIMESTAMP_LENGTH} = {}
BY DEF CWP_RC_OK, CWP_RC_END_OF_INPUT, CWP_RC_BUFFER_UNDERFLOW, CWP_RC_MALFORMED_INPUT,
       CWP_RC_WRONG_TIMESTAMP_LENGTH, CWP_RC_TYPE_ERROR, CWP_RC_VALUE_ERROR

\* A reader that has unpacked an item and then, perhaps, found it not to be the
\* one expected.
LEMMA AfterNext ==
    ASSUME IInv, Ready, UNCHANGED <<packer, wire, sent, limit>>,
           NEW r, r = Next_Item(reader), DOMAIN reader' = ReaderFields,
           reader'.pos = r.pos, reader'.item = r.item, reader'.left = r.left,
           reader'.ahead = r.ahead, reader'.read = r.read,
           \/ reader'.last = "next" /\ reader'.return_code = r.return_code
           \/ /\ reader'.last = "expect"
              /\ \/ reader'.return_code = r.return_code
                 \/ /\ r.return_code = CWP_RC_OK
                    /\ reader'.return_code \in {CWP_RC_TYPE_ERROR, CWP_RC_VALUE_ERROR}
    PROVE  IInv'
<1>0. PICK k : k = reader.read + 1
  OBVIOUS
<1>1. limit # NULL /\ reader.return_code = CWP_RC_OK /\ reader.left = 0
  BY DEF Ready
<1>2. Inside(k) /\ k \in 1 .. Last /\ reader.read \in Nat /\ WireSound
  BY <1>0, <1>1, ReadyReader DEF IInv, ReaderSound
<1>3. /\ DOMAIN r = ReaderFields
      /\ r.left = 0 /\ r.ahead = NOT_AHEAD /\ r.read = k
      /\ \/ /\ r.return_code = CWP_RC_END_OF_INPUT
            /\ limit = Start(k) /\ r.pos = Start(k)
         \/ /\ r.return_code = CWP_RC_BUFFER_UNDERFLOW
            /\ limit \notin Boundaries
         \/ /\ r.return_code \in {CWP_RC_MALFORMED_INPUT,
                                  CWP_RC_WRONG_TIMESTAMP_LENGTH}
            /\ k \in 1 .. Len(wire) /\ ~Packed(k)
         \/ /\ r.return_code = CWP_RC_OK /\ k \in 1 .. Len(wire)
            /\ Stands(k, View) /\ r.item = UnpackItem(View)
            /\ r.pos = Start(k + 1) /\ Start(k + 1) <= limit
  BY <1>0, <1>1, <1>2, NextItem, Zenon
<1>4. /\ Last' = Last /\ Behind' = Behind /\ Boundaries' = Boundaries
      /\ \A j : Start(j)' = Start(j) /\ Packed(j)' = Packed(j) /\ Meant(j)' = Meant(j)
      /\ WireSound' /\ PackerSound'
  BY ReadingFrame
<1>5. limit \in Nat /\ limit <= Start(Last) /\ k \in Nat
  BY <1>0, <1>2 DEF Inside
<1>6. /\ reader'.left = 0 /\ reader'.ahead = NOT_AHEAD /\ reader'.read = k
      /\ reader'.pos = r.pos
  BY <1>3
<1>7. CASE r.return_code = CWP_RC_END_OF_INPUT /\ limit = Start(k) /\ r.pos = Start(k)
  <2>1. reader'.return_code = CWP_RC_END_OF_INPUT
    BY <1>7, CodesDiffer
  <2>2. limit' \in Boundaries' /\ reader'.pos = limit'
    <3>1. Start(k) \in Boundaries
      BY <1>2 DEF Boundaries, Last
    <3> QED
      BY <1>4, <1>6, <1>7, <3>1
  <2>3. Stopped'
    BY <2>1, <2>2, CodesDiffer DEF Stopped
  <2>4. ReaderSound'
    BY <1>1, <1>5, <1>6, <2>1, CodesDiffer DEF ReaderSound
  <2> QED
    BY <1>4, <2>3, <2>4 DEF IInv
<1>8. CASE r.return_code = CWP_RC_BUFFER_UNDERFLOW /\ limit \notin Boundaries
  <2>1. reader'.return_code = CWP_RC_BUFFER_UNDERFLOW
    BY <1>8, CodesDiffer
  <2>2. limit' \notin Boundaries'
    BY <1>4, <1>8
  <2>3. Stopped'
    BY <2>1, <2>2, CodesDiffer DEF Stopped
  <2>4. ReaderSound'
    BY <1>1, <1>5, <1>6, <2>1, CodesDiffer DEF ReaderSound
  <2> QED
    BY <1>4, <2>3, <2>4 DEF IInv
<1>9. CASE /\ r.return_code \in {CWP_RC_MALFORMED_INPUT, CWP_RC_WRONG_TIMESTAMP_LENGTH}
           /\ k \in 1 .. Len(wire) /\ ~Packed(k)
  <2>1. reader'.return_code = r.return_code
    BY <1>9, CodesDiffer
  <2>2. k \in DOMAIN sent' /\ ~Packed(k)'
    BY <1>2, <1>4, <1>9 DEF WireSound
  <2>3. Stopped'
    BY <1>9, <2>1, <2>2, CodesDiffer DEF Stopped
  <2>4. ReaderSound'
    BY <1>1, <1>5, <1>6, <1>9, <2>1, CodesDiffer DEF ReaderSound
  <2> QED
    BY <1>4, <2>3, <2>4 DEF IInv
<1>10. CASE /\ r.return_code = CWP_RC_OK /\ k \in 1 .. Len(wire)
            /\ Stands(k, View) /\ r.item = UnpackItem(View)
            /\ r.pos = Start(k + 1) /\ Start(k + 1) <= limit
  <2>1. Stopped'
    <3>1. \/ reader'.return_code = CWP_RC_OK
          \/ /\ reader'.return_code \in {CWP_RC_TYPE_ERROR, CWP_RC_VALUE_ERROR}
             /\ reader'.last = "expect"
      BY <1>10
    <3> QED
      BY <3>1, CodesDiffer DEF Stopped
  <2>2. k + 1 \in 1 .. Last /\ Behind[k + 1][0] = k + 1
    <3>1. k + 1 \in 1 .. Last
      BY <1>2, <1>5, <1>10 DEF Last, WireSound
    <3> QED
      BY <1>2, <3>1, BehindSteps
  <2>3. At(k + 1)'
    BY <1>5, <1>6, <1>10, <2>2, NowAt
  <2>4. \E j \in 1 .. Last' : At(j)'
    BY <1>4, <2>2, <2>3
  <2>5. Packed(k) => reader'.item \in Meant(k)
    BY <1>10 DEF Stands
  <2>6. reader'.last # "skip" /\ reader'.read \in 1 .. Len(wire')
    BY <1>6, <1>10
  <2>7. ReaderSound'
    BY <1>1, <1>4, <1>5, <1>6, <2>4, <2>5, <2>6 DEF ReaderSound
  <2> QED
    BY <1>4, <2>1, <2>7 DEF IInv
<1> QED
  BY <1>3, <1>7, <1>8, <1>9, <1>10

LEMMA UnpackingInvariant ==
    ASSUME IInv, cw_unpack_next
    PROVE  IInv'
<1>0. PICK r : r = Next_Item(reader)
  OBVIOUS
<1>1. Ready /\ UNCHANGED <<packer, wire, sent, limit>>
      /\ reader' = [r EXCEPT !.last = "next"]
  BY <1>0 DEF cw_unpack_next
<1>2. Inside(reader.read + 1)
  BY <1>1, ReadyReader DEF Ready
<1>3. DOMAIN r = ReaderFields
  BY <1>0, <1>2, NextItem DEF IInv
<1>4. /\ DOMAIN reader' = ReaderFields
      /\ reader'.pos = r.pos /\ reader'.item = r.item /\ reader'.left = r.left
      /\ reader'.ahead = r.ahead /\ reader'.read = r.read
      /\ reader'.last = "next" /\ reader'.return_code = r.return_code
  BY <1>1, <1>3 DEF ReaderFields
<1> QED
  BY <1>0, <1>1, <1>4, AfterNext

\* The three ways in which an expectation comes out.
LEMMA ExpectCodes ==
    ASSUME NEW expected, NEW item, NEW content
    PROVE  Expect(expected, item, content).rc
              \in {CWP_RC_OK, CWP_RC_TYPE_ERROR, CWP_RC_VALUE_ERROR}
<1> DEFINE R == {CWP_RC_OK, CWP_RC_TYPE_ERROR, CWP_RC_VALUE_ERROR}
<1>1. /\ \A v : Answer(v).rc \in R
      /\ TypeError.rc \in R /\ ValueError.rc \in R
  BY DEF Answer, TypeError, ValueError, NoAnswer
<1> HIDE DEF R
<1>2. ASSUME NEW w PROVE Signed(item, w).rc \in R /\ Unsigned(item, w).rc \in R
  <2>1. Signed(item, w).rc \in R
    BY <1>1, Zenon DEF Signed
  <2>2. Unsigned(item, w).rc \in R
    BY <1>1, Zenon DEF Unsigned
  <2> QED
    BY <2>1, <2>2
<1>3. get_ext_integer(item, content).rc \in R
  BY <1>1, Zenon DEF get_ext_integer
<1>4. ASSUME NEW w PROVE get_ext_real(item, content, w).rc \in R
  BY <1>1, Zenon DEF get_ext_real
<1>5. Expect(expected, item, content).rc \in R
  BY <1>1, <1>2, <1>3, <1>4, Zenon DEF Expect
<1> QED
  BY <1>5 DEF R

LEMMA ExpectingInvariant ==
    ASSUME IInv, cw_unpack_next_expected
    PROVE  IInv'
<1>0. PICK r : r = Next_Item(reader)
  OBVIOUS
<1>1. Ready /\ UNCHANGED <<packer, wire, sent, limit>>
  BY DEF cw_unpack_next_expected
<1>2. PICK expected, content, a :
        /\ a = IF r.return_code # CWP_RC_OK THEN NoAnswer(r.return_code)
               ELSE Expect(expected, r.item, content)
        /\ reader' = [r EXCEPT !.return_code = a.rc, !.answer = a,
                               !.expected = expected, !.last = "expect"]
  BY <1>0, Zenon DEF cw_unpack_next_expected
<1>3. Inside(reader.read + 1)
  BY <1>1, ReadyReader DEF Ready
<1>4. DOMAIN r = ReaderFields
  BY <1>0, <1>3, NextItem DEF IInv
<1>5. /\ DOMAIN reader' = ReaderFields
      /\ reader'.pos = r.pos /\ reader'.item = r.item /\ reader'.left = r.left
      /\ reader'.ahead = r.ahead /\ reader'.read = r.read
      /\ reader'.last = "expect" /\ reader'.return_code = a.rc
  BY <1>2, <1>4 DEF ReaderFields
<1>6. \/ a.rc = r.return_code
      \/ r.return_code = CWP_RC_OK /\ a.rc \in {CWP_RC_TYPE_ERROR, CWP_RC_VALUE_ERROR}
  <2>1. CASE r.return_code # CWP_RC_OK
    BY <1>2, <2>1 DEF NoAnswer
  <2>2. CASE r.return_code = CWP_RC_OK
    BY <1>2, <2>2, ExpectCodes
  <2> QED
    BY <2>1, <2>2
<1> QED
  BY <1>0, <1>1, <1>5, <1>6, AfterNext

LEMMA SkippingInvariant ==
    ASSUME IInv, cw_skip_items
    PROVE  IInv'
<1>1. limit # NULL /\ reader.return_code = CWP_RC_OK /\ reader.left = 0
      /\ UNCHANGED <<packer, wire, sent, limit>>
  BY DEF cw_skip_items, Ready
<1>2. PICK n \in Client.skips :
        reader' = [reader EXCEPT !.left = n, !.last = "skip", !.ahead = NOT_AHEAD,
                                 !.read = Behind[@ + 1][n] - 1]
  BY DEF cw_skip_items
<1>3. n \in Nat
  BY ClientsAssumption DEF IInv, PackerSound, Client
<1>0. PICK k : k = reader.read + 1
  OBVIOUS
<1>4. Inside(k) /\ k \in 1 .. Last
  BY <1>0, <1>1, ReadyReader
<1>5. Behind[k][n] \in k .. Last
  BY <1>3, <1>4, BehindSteps DEF IInv
<1>6. /\ DOMAIN reader' = ReaderFields /\ reader'.left = n /\ reader'.last = "skip"
      /\ reader'.ahead = NOT_AHEAD /\ reader'.read = Behind[k][n] - 1
      /\ reader'.pos = reader.pos /\ reader'.return_code = CWP_RC_OK
  BY <1>0, <1>1, <1>2 DEF IInv, ReaderSound, ReaderFields
<1>7. reader'.read \in Nat /\ Behind[k][reader'.left] = reader'.read + 1
  BY <1>0, <1>4, <1>5, <1>6 DEF IInv, ReaderSound
<1>8. At(k)'
  BY <1>1, <1>4, <1>6, <1>7, NowAt DEF Inside
<1>9. Last' = Last /\ WireSound' /\ PackerSound'
  BY <1>1, ReadingFrame
<1>10. ReaderSound'
  <2>1. \E j \in 1 .. Last' : At(j)'
    BY <1>4, <1>8, <1>9
  <2> QED
    BY <1>1, <1>3, <1>6, <1>7, <2>1 DEF ReaderSound
<1>11. Stopped'
  BY <1>6, CodesDiffer DEF Stopped
<1> QED
  BY <1>9, <1>10, <1>11 DEF IInv

LEMMA SkipItemInvariant ==
    ASSUME IInv, SkipItem
    PROVE  IInv'
<1> DEFINE asks == SkipAsks(View)
           error == IF TagType(View[0]) = CWP_NOT_AN_ITEM
                    THEN CWP_RC_MALFORMED_INPUT ELSE CWP_RC_OK
<1>0. PICK code, consumed, children :
        /\ code = AskCode(asks, Available, error)
        /\ consumed = Consumed(asks, Available)
        /\ children = Children(View)
  OBVIOUS
<1>1. reader.left > 0 /\ UNCHANGED <<packer, wire, sent, limit>>
  BY DEF SkipItem
<1>2. reader' = LET r == [reader EXCEPT !.pos = @ + consumed, !.return_code = code]
                IN  IF code = CWP_RC_OK
                    THEN [r EXCEPT !.left = @ - 1 + children]
                    ELSE [r EXCEPT !.left = 0, !.item = NotAnItem]
  BY <1>0, Zenon DEF SkipItem
<1>3. /\ reader.left \in Nat \ {0} /\ reader.return_code = CWP_RC_OK
      /\ reader.last = "skip" /\ reader.ahead = NOT_AHEAD /\ limit # NULL
      /\ reader.read \in Nat /\ DOMAIN reader = ReaderFields
  <2>1. limit # NULL
    BY <1>1 DEF IInv, ReaderSound, NewReader
  <2> QED
    BY <1>1, <2>1 DEF IInv, ReaderSound
<1>4. PICK k \in 1 .. Last : At(k)
  BY <1>3 DEF IInv, ReaderSound
<1>5. /\ Inside(k) /\ reader.pos = Start(k) /\ WireSound
      /\ Behind[k][reader.left] = reader.read + 1
      /\ limit \in Nat /\ limit <= Start(Last)
  BY <1>4 DEF At, Inside, IInv
<1>6. Tagged(View) /\ (k \in 1 .. Len(wire) => Stands(k, View))
  BY <1>5, Seen
<1>7. /\ Steps(asks) /\ Total(asks) = Format(View).length + Format(View).payload
      /\ children = Format(View).children
  BY <1>0, <1>6, Walk DEF Walks
<1>8. k \in 1 .. Len(wire) =>
        /\ Format(View).length + Format(View).payload = Size(wire[k])
        /\ Format(View).children = ChildrenSent(sent[k].call)
        /\ Packed(k) => error = CWP_RC_OK
  <2>1. TagType(View[0]) = CWP_NOT_AN_ITEM => ItemError(View) = CWP_RC_MALFORMED_INPUT
    BY Zenon DEF ItemError
  <2>2. Packed(k) /\ k \in 1 .. Len(wire) => ItemError(View) = CWP_RC_OK
    BY <1>6, Zenon DEF Stands
  <2>3. Packed(k) /\ k \in 1 .. Len(wire) => error = CWP_RC_OK
    BY <2>1, <2>2, CodesDiffer
  <2>4. k \in 1 .. Len(wire) =>
          /\ Format(View).length + Format(View).payload = Size(wire[k])
          /\ Format(View).children = ChildrenSent(sent[k].call)
    BY <1>6, Zenon DEF Stands
  <2> QED
    BY <2>3, <2>4
<1>9. error \in {CWP_RC_OK, CWP_RC_MALFORMED_INPUT}
  OBVIOUS
<1>10. PICK e : e = error
  OBVIOUS
<1> HIDE DEF asks, error
<1>11. Outcome(k, code, consumed, e)
  <2>1. k \in 1 .. Len(wire) => /\ Total(asks) <= Size(wire[k])
                                /\ error = CWP_RC_OK => Total(asks) = Size(wire[k])
    <3>1. k \in 1 .. Len(wire) => Size(wire[k]) \in Nat
      BY <1>5, Starts
    <3> QED
      BY <1>7, <1>8, <3>1
  <2>2. Outcome(k, AskCode(asks, Available, error), Consumed(asks, Available), error)
    BY <1>5, <1>7, <2>1, AskingItem
  <2> QED
    BY <1>0, <1>10, <2>2, Zenon
<1>12. /\ Last' = Last /\ Boundaries' = Boundaries
       /\ \A j : Packed(j)' = Packed(j)
       /\ WireSound' /\ PackerSound'
  BY <1>1, ReadingFrame
<1>13. /\ DOMAIN reader' = ReaderFields /\ reader'.pos = Start(k) + consumed
       /\ reader'.return_code = code /\ reader'.last = "skip"
       /\ reader'.ahead = NOT_AHEAD /\ reader'.read = reader.read
       /\ code = CWP_RC_OK => reader'.left = reader.left - 1 + children
       /\ code # CWP_RC_OK => reader'.left = 0
  BY <1>2, <1>3, <1>5 DEF ReaderFields
<1>14. ASSUME code # CWP_RC_OK
       PROVE  ReaderSound'
  BY <1>1, <1>3, <1>5, <1>13, <1>14 DEF ReaderSound
<1>15. CASE code = CWP_RC_END_OF_INPUT /\ limit = Start(k) /\ consumed = 0
  <2>1. Start(k) \in Boundaries
    BY <1>4 DEF Boundaries, Last
  <2>2. Start(k) + 0 = Start(k)
    BY <1>4, <1>5, Starts
  <2>3. reader'.pos = limit' /\ limit' \in Boundaries'
    BY <1>1, <1>12, <1>13, <1>15, <2>1, <2>2
  <2>4. Stopped'
    BY <1>13, <1>15, <2>3, CodesDiffer DEF Stopped
  <2> QED
    BY <1>12, <1>14, <1>15, <2>4, CodesDiffer DEF IInv
<1>16. CASE code = CWP_RC_BUFFER_UNDERFLOW /\ limit \notin Boundaries
  <2>1. Stopped'
    BY <1>1, <1>12, <1>13, <1>16, CodesDiffer DEF Stopped
  <2> QED
    BY <1>12, <1>14, <1>16, <2>1, CodesDiffer DEF IInv
<1>17. CASE /\ code = e /\ k \in 1 .. Len(wire)
            /\ e = CWP_RC_OK => /\ Start(k) + consumed = Start(k + 1)
                                /\ Start(k + 1) <= limit
  <2>1. CASE e = CWP_RC_OK
    <3>1. children = ChildrenSent(sent[k].call)
      BY <1>7, <1>8, <1>17
    <3>2. Behind[k][reader.left] = Behind[k + 1][reader.left - 1 + children]
          /\ reader.left - 1 + children \in Nat
      BY <1>3, <1>5, <1>17, <3>1, BehindNext
    <3>3. k + 1 \in 1 .. Last
      BY <1>5, <1>17 DEF Last, WireSound
    <3>4. Behind[k + 1][reader'.left] = reader'.read + 1 /\ reader'.left \in Nat
      BY <1>5, <1>13, <1>17, <2>1, <3>2
    <3>5. At(k + 1)'
      BY <1>1, <1>5, <1>13, <1>17, <2>1, <3>3, <3>4, NowAt
    <3>6. \E j \in 1 .. Last' : At(j)'
      BY <1>12, <3>3, <3>5
    <3>7. reader'.return_code = CWP_RC_OK
      BY <1>13, <1>17, <2>1
    <3>8. ReaderSound'
      BY <1>1, <1>3, <1>13, <3>4, <3>6, <3>7 DEF ReaderSound
    <3>9. Stopped'
      BY <3>7, CodesDiffer DEF Stopped
    <3> QED
      BY <1>12, <3>8, <3>9 DEF IInv
  <2>2. CASE e # CWP_RC_OK
    <3>1. code = CWP_RC_MALFORMED_INPUT /\ ~Packed(k)
      BY <1>8, <1>9, <1>10, <1>17, <2>2
    <3>2. k \in DOMAIN sent' /\ ~Packed(k)'
      BY <1>1, <1>5, <1>12, <1>17, <3>1 DEF WireSound
    <3>3. Stopped'
      BY <1>13, <3>1, <3>2, CodesDiffer DEF Stopped
    <3> QED
      BY <1>12, <1>14, <1>17, <2>2, <3>3 DEF IInv
  <2> QED
    BY <2>1, <2>2
<1> QED
  BY <1>11, <1>15, <1>16, <1>17 DEF Outcome

LEMMA LookingAheadInvariant ==
    ASSUME IInv, cw_look_ahead
    PROVE  IInv'
<1>0. PICK k : k = reader.read + 1
  OBVIOUS
<1>1. limit # NULL /\ reader.return_code = CWP_RC_OK /\ reader.left = 0
      /\ UNCHANGED <<packer, wire, sent, limit>>
  BY DEF cw_look_ahead, Ready
<1>2. PICK code :
        /\ code = IF Available < 1 THEN CWP_RC_END_OF_INPUT
                  ELSE IF Available < Peek(View) THEN CWP_RC_BUFFER_UNDERFLOW
                  ELSE CWP_RC_OK
        /\ reader' = IF code = CWP_RC_OK
                     THEN [reader EXCEPT !.ahead = AheadType(View), !.last = "ahead"]
                     ELSE [reader EXCEPT !.return_code = code, !.item = NotAnItem,
                                         !.ahead = CWP_NOT_AN_ITEM, !.last = "ahead"]
  BY Zenon DEF cw_look_ahead
<1>3. /\ Inside(k) /\ k \in 1 .. Last /\ WireSound /\ reader.read \in Nat
      /\ DOMAIN reader = ReaderFields
  BY <1>0, <1>1, ReadyReader DEF IInv, ReaderSound
<1>4. /\ reader.pos = Start(k) /\ Start(k) \in Nat /\ Len(wire) \in Nat
      /\ limit \in Nat /\ Start(k) <= limit /\ limit <= Start(Last)
      /\ Available = limit - Start(k)
  BY <1>3, Starts DEF Inside, Available, WireSound
<1>5. Tagged(View) /\ (k \in 1 .. Len(wire) => Stands(k, View))
  BY <1>3, <1>4, Seen
<1>6. /\ DOMAIN reader' = ReaderFields /\ reader'.pos = reader.pos
      /\ reader'.left = 0 /\ reader'.read = reader.read /\ reader'.last = "ahead"
      /\ reader'.return_code = code
      /\ code = CWP_RC_OK => reader'.ahead = AheadType(View)
  BY <1>1, <1>2, <1>3 DEF ReaderFields
<1>7. /\ Last' = Last /\ Behind' = Behind /\ Boundaries' = Boundaries
      /\ View' = View /\ WireSound' /\ PackerSound'
  BY <1>1, <1>6, ReadingFrame, SameBuffer
<1>8. CASE code = CWP_RC_OK
  <2>1. Behind[k][0] = k
    BY <1>3, BehindSteps
  <2>2. At(k)'
    BY <1>0, <1>1, <1>3, <1>4, <1>6, <2>1, NowAt
  <2>3. \E j \in 1 .. Last' : At(j)'
    BY <1>3, <1>7, <2>2
  <2>4. AheadType(View)' = AheadType(View)
    BY <1>7
  <2>5. ReaderSound'
    BY <1>1, <1>3, <1>6, <1>8, <2>3, <2>4 DEF ReaderSound
  <2>6. Stopped'
    BY <1>6, <1>8, CodesDiffer DEF Stopped
  <2> QED
    BY <1>7, <2>5, <2>6 DEF IInv
<1>9. CASE code # CWP_RC_OK
  <2>1. ReaderSound'
    BY <1>1, <1>3, <1>6, <1>9 DEF ReaderSound
  <2>2. CASE Available < 1
    <3>1. limit = Start(k)
      BY <1>4, <2>2
    <3>2. limit' \in Boundaries' /\ reader'.pos = limit'
      BY <1>1, <1>3, <1>4, <1>6, <1>7, <3>1 DEF Boundaries, Last
    <3>3. code = CWP_RC_END_OF_INPUT
      BY <1>2, <2>2
    <3>4. Stopped'
      BY <1>6, <3>2, <3>3, CodesDiffer DEF Stopped
    <3> QED
      BY <1>7, <2>1, <3>4 DEF IInv
  <2>3. CASE ~(Available < 1)
    <3>1. code = CWP_RC_BUFFER_UNDERFLOW /\ Available < Peek(View)
      BY <1>2, <1>9, <2>3
    <3>2. k \in 1 .. Len(wire)
      <4>1. CASE k = Last
        BY <1>4, <2>3, <4>1
      <4>2. CASE k # Last
        BY <1>3, <1>4, <4>2 DEF Last
      <4> QED
        BY <4>1, <4>2
    <3>3. /\ Peek(View) \in Nat /\ Peek(View) <= Format(View).length
          /\ Format(View).length \in Nat /\ Format(View).payload \in Nat
      BY <1>5, Walk DEF Walks
    <3>4. Format(View).length + Format(View).payload = Size(wire[k])
      BY <1>5, <3>2 DEF Stands
    <3>5. Start(k + 1) = Start(k) + Size(wire[k]) /\ Size(wire[k]) \in Nat
      BY <1>3, <3>2, Starts
    <3>6. Start(k) < limit /\ limit < Start(k + 1)
      <4>1. \A l, p, q, z, s : l \in Nat /\ p \in Nat /\ q \in Nat /\ s \in Nat
                /\ z = s + (l + p) /\ q <= l /\ ~(limit - s < 1) /\ limit - s < q
                => s < limit /\ limit < z
        BY <1>4, SMT
      <4> QED
        BY <1>4, <2>3, <3>1, <3>3, <3>4, <3>5, <4>1, Zenon
    <3>7. limit \notin Boundaries
      BY <1>3, <1>4, <3>2, <3>6, Within
    <3>8. Stopped'
      BY <1>1, <1>6, <1>7, <3>1, <3>7, CodesDiffer DEF Stopped
    <3> QED
      BY <1>7, <2>1, <3>8 DEF IInv
  <2> QED
    BY <2>2, <2>3
<1> QED
  BY <1>8, <1>9

LEMMA NextInvariant == IInv /\ [Next]_vars => IInv'
<1> SUFFICES ASSUME IInv, [Next]_vars PROVE IInv'
  OBVIOUS
<1>1. CASE SetCompatibility \/ Pack \/ ForeignPack
  BY <1>1, PackingInvariant
<1>2. CASE cw_unpack_context_init
  BY <1>2, BeginReading
<1>3. CASE cw_unpack_next
  BY <1>3, UnpackingInvariant
<1>4. CASE cw_unpack_next_expected
  BY <1>4, ExpectingInvariant
<1>5. CASE cw_skip_items
  BY <1>5, SkippingInvariant
<1>6. CASE SkipItem
  BY <1>6, SkipItemInvariant
<1>7. CASE cw_look_ahead
  BY <1>7, LookingAheadInvariant
<1>8. CASE UNCHANGED vars
  <2>1. UNCHANGED <<packer, wire, sent, limit, reader>>
    BY <1>8 DEF vars
  <2>2. PackerSound'
    BY <2>1, ReadingFrame
  <2> QED
    BY <2>1, <2>2, ReaderStays DEF IInv
<1>9. CASE StoppedCall
  BY <1>8, <1>9 DEF StoppedCall
<1> QED
  BY <1>1, <1>2, <1>3, <1>4, <1>5, <1>6, <1>7, <1>8, <1>9 DEF Next

\* The invariant holds of every reachable state.
THEOREM CodecInvariant == Spec => []IInv
BY InitInvariant, NextInvariant, PTL DEF Spec

-------------------------------------------------------------------------------
(* What follows.                                                           *)

\* A running reader between two calls stands in front of the item behind those
\* its calls stand for: every unpacking routine takes exactly one item, and
\* cw_skip_items takes as many as it is told to, with all they contain.
THEOREM CodecOnBoundary == Spec => []OnBoundary
<1>1. IInv => OnBoundary
  <2> SUFFICES ASSUME IInv, limit # NULL, reader.return_code = CWP_RC_OK, reader.left = 0
               PROVE  reader.pos = Start(reader.read + 1)
    BY DEF OnBoundary
  <2> QED
    BY ReadyReader DEF Inside
<1> QED
  BY <1>1, CodecInvariant, PTL

\* Whatever was packed, in whatever format the packer chose for it, cw_unpack_next
\* finds its type and value.
THEOREM CodecRoundTrip == Spec => []RoundTrip
<1>1. IInv => RoundTrip
  <2> SUFFICES ASSUME IInv, reader.last = "next", reader.return_code = CWP_RC_OK,
                      Packed(reader.read)
               PROVE  IF Optimised(reader.read)
                      THEN \E m \in Forms(sent[reader.read].call.d) :
                              reader.item.type = m.type /\ reader.item.as = m.as
                      ELSE /\ reader.item.type = Meaning(reader.read).type
                           /\ reader.item.as = Meaning(reader.read).as
    BY DEF RoundTrip
  <2>1. reader.item \in Meant(reader.read)
    BY DEF IInv, ReaderSound
  <2>2. CASE Optimised(reader.read)
    <3>1. reader.item \in Forms(sent[reader.read].call.d)
      BY <2>1, <2>2 DEF Meant
    <3> QED
      BY <2>2, <3>1
  <2>3. CASE ~Optimised(reader.read)
    <3>1. reader.item = Meaning(reader.read)
      BY <2>1, <2>3 DEF Meant
    <3> QED
      BY <2>3, <3>1
  <2> QED
    BY <2>2, <2>3
<1> QED
  BY <1>1, CodecInvariant, PTL

\* END_OF_INPUT says that the buffer ends between two items, BUFFER_UNDERFLOW
\* that it ends within one, and what the library packed is never malformed.
THEOREM CodecTruncationIsTold == Spec => []TruncationIsTold
<1>1. IInv => TruncationIsTold
  <2> SUFFICES ASSUME IInv PROVE TruncationIsTold
    OBVIOUS
  <2> DEFINE code == reader.return_code
  <2>1. Stopped /\ Boundaries = {Start(k) : k \in 1 .. Len(wire) + 1}
    BY DEF IInv, Boundaries
  <2>2. CASE code = CWP_RC_END_OF_INPUT
    <3>1. code # CWP_RC_BUFFER_UNDERFLOW
          /\ code \notin {CWP_RC_MALFORMED_INPUT, CWP_RC_WRONG_TIMESTAMP_LENGTH}
      BY <2>2, CodesDiffer
    <3> QED
      BY <2>1, <2>2, <3>1, Zenon DEF TruncationIsTold, Stopped
  <2>3. CASE code = CWP_RC_BUFFER_UNDERFLOW
    <3>1. code # CWP_RC_END_OF_INPUT
          /\ code \notin {CWP_RC_MALFORMED_INPUT, CWP_RC_WRONG_TIMESTAMP_LENGTH}
      BY <2>3, CodesDiffer
    <3> QED
      BY <2>1, <2>3, <3>1, Zenon DEF TruncationIsTold, Stopped
  <2>4. CASE code \in {CWP_RC_MALFORMED_INPUT, CWP_RC_WRONG_TIMESTAMP_LENGTH}
    <3>1. code # CWP_RC_END_OF_INPUT /\ code # CWP_RC_BUFFER_UNDERFLOW
      BY <2>4, CodesDiffer
    <3> QED
      BY <2>1, <2>4, <3>1, Zenon DEF TruncationIsTold, Stopped
  <2>5. CASE code \notin {CWP_RC_END_OF_INPUT, CWP_RC_BUFFER_UNDERFLOW,
                          CWP_RC_MALFORMED_INPUT, CWP_RC_WRONG_TIMESTAMP_LENGTH}
    <3>1. code # CWP_RC_OK => reader.last = "expect"
      BY <2>1, <2>5 DEF Stopped
    <3> QED
      BY <2>5, <3>1, Zenon DEF TruncationIsTold
  <2> QED
    BY <2>2, <2>3, <2>4, <2>5
<1> QED
  BY <1>1, CodecInvariant, PTL

\* The type looked ahead at is that of the item then unpacked, but for
\* a positive integer some other writer has put in a signed format.
THEOREM CodecLookAheadAgrees == Spec => LookAheadAgrees
<1> DEFINE Agrees ==
        reader.ahead # NOT_AHEAD /\ reader'.last = "next"
          /\ reader'.return_code = CWP_RC_OK =>
        \/ reader'.item.type = reader.ahead
        \/ /\ reader.ahead = CWP_ITEM_NEGATIVE_INTEGER
           /\ reader'.item.type = CWP_ITEM_POSITIVE_INTEGER
           /\ ~Packed(reader'.read)
<1>1. IInv /\ [Next]_vars => Agrees
  <2> SUFFICES ASSUME IInv, [Next]_vars, reader.ahead # NOT_AHEAD,
                      reader'.last = "next", reader'.return_code = CWP_RC_OK
               PROVE  Agrees
    OBVIOUS
  <2>1. reader.last = "ahead" /\ reader.left = 0 /\ reader.read \in Nat
        /\ DOMAIN reader = ReaderFields
    BY DEF IInv, ReaderSound
  <2>2. reader' # reader
    BY <2>1
  <2>3. cw_unpack_next
    <3>1. CASE SetCompatibility \/ Pack \/ ForeignPack \/ cw_unpack_context_init
               \/ StoppedCall \/ UNCHANGED vars
      BY <2>2, <3>1 DEF SetCompatibility, Pack, ForeignPack, cw_unpack_context_init,
                        StoppedCall, vars
    <3>2. CASE cw_unpack_next_expected
      <4>1. PICK r : r = Next_Item(reader)
        OBVIOUS
      <4>2. PICK expected, a :
              reader' = [r EXCEPT !.return_code = a.rc, !.answer = a,
                                  !.expected = expected, !.last = "expect"]
        BY <3>2, <4>1, Zenon DEF cw_unpack_next_expected
      <4>3. Inside(reader.read + 1)
        BY <3>2, ReadyReader DEF cw_unpack_next_expected, Ready
      <4>4. DOMAIN r = ReaderFields
        BY <4>1, <4>3, NextItem DEF IInv
      <4>5. reader'.last = "expect"
        BY <4>2, <4>4 DEF ReaderFields
      <4> QED
        BY <4>5
    <3>3. CASE cw_skip_items
      <4>1. reader'.last = "skip"
        BY <2>1, <3>3 DEF cw_skip_items, ReaderFields
      <4> QED
        BY <4>1
    <3>4. CASE SkipItem
      BY <2>1, <3>4 DEF SkipItem
    <3>5. CASE cw_look_ahead
      <4>1. reader'.last = "ahead"
        BY <2>1, <3>5 DEF cw_look_ahead, ReaderFields
      <4> QED
        BY <4>1
    <3> QED
      BY <3>1, <3>2, <3>3, <3>4, <3>5 DEF Next
  <2>4. /\ Ready /\ UNCHANGED <<packer, wire, sent, limit>>
        /\ reader' = [Next_Item(reader) EXCEPT !.last = "next"]
    BY <2>3 DEF cw_unpack_next
  <2>5. PICK k : k = reader.read + 1
    OBVIOUS
  <2>6. Inside(k)
    BY <2>4, <2>5, ReadyReader DEF Ready
  <2>7. PICK r : r = Next_Item(reader)
    OBVIOUS
  <2>8. /\ DOMAIN r = ReaderFields /\ r.read = k
        /\ \/ r.return_code = CWP_RC_END_OF_INPUT
           \/ r.return_code = CWP_RC_BUFFER_UNDERFLOW
           \/ r.return_code \in {CWP_RC_MALFORMED_INPUT, CWP_RC_WRONG_TIMESTAMP_LENGTH}
           \/ /\ r.return_code = CWP_RC_OK /\ Stands(k, View)
              /\ r.item = UnpackItem(View)
    BY <2>5, <2>6, <2>7, NextItem, Zenon DEF IInv
  <2>9. /\ reader'.return_code = r.return_code /\ reader'.item = r.item
        /\ reader'.read = k
    BY <2>4, <2>7, <2>8 DEF ReaderFields
  <2>10. Stands(k, View) /\ reader'.item = UnpackItem(View)
    BY <2>8, <2>9, CodesDiffer
  <2>11. reader.ahead = AheadType(View)
    BY <2>4 DEF Ready, IInv, ReaderSound
  <2>12. View[0] \in Byte /\ (Packed(k) => AheadType(View) = UnpackItem(View).type)
    BY <2>10, Zenon DEF Stands, Tagged
  <2>13. \/ UnpackItem(View).type = AheadType(View)
         \/ /\ AheadType(View) = CWP_ITEM_NEGATIVE_INTEGER
            /\ UnpackItem(View).type = CWP_ITEM_POSITIVE_INTEGER
    BY <2>12, AheadIsType
  <2>14. Packed(reader'.read) => Packed(k)
    BY <2>9 DEF Packed
  <2> QED
    BY <2>10, <2>11, <2>12, <2>13, <2>14
<1>2. IInv /\ [Next]_vars => [Agrees]_vars
  BY <1>1
<1> QED
  BY <1>2, CodecInvariant, PTL DEF Spec, LookAheadAgrees

\* The tags that the old MessagePack has not.
NewTags == {217} \cup 196 .. 201 \cup FixExt

LEMMA OldTags ==
    \A x : x \in 0 .. 195 \/ x \in 202 .. 211 \/ x \in 218 .. 255 =>
              x \in Byte /\ x \notin NewTags
BY SMT DEF NewTags, FixExt, Byte

LEMMA OldNumbers ==
    ASSUME NEW v \in Word64
    PROVE  cw_pack_unsigned(v).header[1] \notin NewTags
           /\ cw_pack_signed(v).header[1] \notin NewTags
<1>1. \A k \in 1 .. 8 : v[k] \in 0 .. 255
  BY DEF Word64, Byte
<1>2. Low(v, 1)[1] = v[8]
  BY LowBytes
<1>3. ASSUME NEW tag \in 202 .. 211, NEW w \in {1, 2, 4, 8}
      PROVE  Encoded(<<tag>> \o Low(v, w), 0).header[1] \notin NewTags
  <2>1. tag \in Byte /\ tag \notin NewTags
    BY OldTags
  <2>2. w \in 0 .. 8
    BY <1>3
  <2>3. Low(v, w) \in [1 .. w -> Byte]
    BY <2>2, LowBytes
  <2>4. Encoded(<<tag>> \o Low(v, w), 0).header[1] = tag
    BY <2>1, <2>2, <2>3, TagAndField DEF Encoded
  <2> QED
    BY <2>1, <2>4
<1>4. cw_pack_unsigned(v).header[1] \notin NewTags
  <2>1. CASE FitsUnsigned(v, 1) /\ v[8] < 128
    <3>1. cw_pack_unsigned(v).header = Low(v, 1)
      BY <2>1 DEF cw_pack_unsigned, Encoded
    <3>2. v[8] \in 0 .. 195
      BY <1>1, <2>1
    <3> QED
      BY <1>2, <3>1, <3>2, OldTags
  <2>2. CASE ~(FitsUnsigned(v, 1) /\ v[8] < 128)
    <3> DEFINE S == {k \in {1, 2, 4, 8} : FitsUnsigned(v, k)}
               w == Min(S)
    <3>1. 8 \in S
      BY DEF FitsUnsigned
    <3>2. w \in {1, 2, 4, 8}
      BY <3>1, MinOfWidths
    <3>3. cw_pack_unsigned(v) = Encoded(<<UnsignedTag[w]>> \o Low(v, w), 0)
      BY <2>2 DEF cw_pack_unsigned
    <3> HIDE DEF w, S
    <3>4. UnsignedTag[w] \in 202 .. 211
      <4>1. UnsignedTag[w] \in 204 .. 207
        BY <3>2, Tags
      <4> QED
        BY <4>1
    <3> QED
      BY <1>3, <3>2, <3>3, <3>4
  <2> QED
    BY <2>1, <2>2
<1>5. cw_pack_signed(v).header[1] \notin NewTags
  <2>1. CASE ~Negative(v)
    BY <1>4, <2>1 DEF cw_pack_signed
  <2>2. CASE Negative(v) /\ FitsNegative(v, 1) /\ v[8] >= 224
    <3>1. cw_pack_signed(v).header = Low(v, 1)
      BY <2>2 DEF cw_pack_signed, Encoded
    <3>2. v[8] \in 218 .. 255
      BY <1>1, <2>2
    <3> QED
      BY <1>2, <3>1, <3>2, OldTags
  <2>3. CASE Negative(v) /\ ~(FitsNegative(v, 1) /\ v[8] >= 224)
    <3> DEFINE S == {k \in {1, 2, 4, 8} : FitsNegative(v, k)}
               w == Min(S)
    <3>1. 8 \in S
      BY <2>3 DEF FitsNegative, Negative
    <3>2. w \in {1, 2, 4, 8}
      BY <3>1, MinOfWidths
    <3>3. cw_pack_signed(v) = Encoded(<<SignedTag[w]>> \o Low(v, w), 0)
      BY <2>3 DEF cw_pack_signed
    <3> HIDE DEF w, S
    <3>4. SignedTag[w] \in 202 .. 211
      <4>1. SignedTag[w] \in 208 .. 211
        BY <3>2, Tags
      <4> QED
        BY <4>1
    <3> QED
      BY <1>3, <3>2, <3>3, <3>4
  <2> QED
    BY <2>1, <2>2, <2>3
<1> QED
  BY <1>4, <1>5

LEMMA OldSizes ==
    ASSUME NEW n \in Lengths31
    PROVE  /\ cw_pack_array_size(n).header[1] \notin NewTags
           /\ cw_pack_map_size(n).header[1] \notin NewTags
           /\ cw_pack_str(n, TRUE).header[1] \notin NewTags
<1>0. n \in Nat
  BY SMT DEF Lengths31
<1>1. ASSUME NEW tags, DOMAIN tags \subseteq {1, 2, 4}, 4 \in DOMAIN tags,
             \A w \in DOMAIN tags : tags[w] \in 218 .. 255
      PROVE  SizedHeader(tags, n)[1] \notin NewTags
  <2>1. PICK w \in DOMAIN tags : \E f \in [1 .. w -> Byte] :
            SizedHeader(tags, n) = <<tags[w]>> \o f /\ Number(f) = n
    BY <1>1, Sized
  <2>2. PICK f \in [1 .. w -> Byte] : SizedHeader(tags, n) = <<tags[w]>> \o f
    BY <2>1
  <2>3. w \in 0 .. 8 /\ tags[w] \in 218 .. 255
    BY <1>1
  <2>4. tags[w] \in Byte /\ tags[w] \notin NewTags
    BY <2>3, OldTags
  <2>5. (<<tags[w]>> \o f)[1] = tags[w]
    BY <2>3, <2>4, TagAndField
  <2> QED
    BY <2>2, <2>4, <2>5
<1>2. ASSUME NEW x \in 0 .. 195, NEW k PROVE Encoded(<<x>>, k).header[1] \notin NewTags
  BY <1>2, OldTags DEF Encoded
<1>3. cw_pack_array_size(n).header[1] \notin NewTags
  <2>1. CASE n < 16
    <3>1. 144 + n \in 0 .. 195 /\ cw_pack_array_size(n) = Encoded(<<144 + n>>, 0)
      BY <1>0, <2>1 DEF cw_pack_array_size
    <3> QED
      BY <1>2, <3>1
  <2>2. CASE ~(n < 16)
    <3>1. cw_pack_array_size(n).header = SizedHeader(ArrayTag, n)
      BY <2>2 DEF cw_pack_array_size, Encoded
    <3>2. /\ DOMAIN ArrayTag \subseteq {1, 2, 4} /\ 4 \in DOMAIN ArrayTag
          /\ \A w \in DOMAIN ArrayTag : ArrayTag[w] \in 218 .. 255
      BY DEF ArrayTag
    <3> QED
      BY <1>1, <3>1, <3>2
  <2> QED
    BY <2>1, <2>2
<1>4. cw_pack_map_size(n).header[1] \notin NewTags
  <2>1. CASE n < 16
    <3>1. 128 + n \in 0 .. 195 /\ cw_pack_map_size(n) = Encoded(<<128 + n>>, 0)
      BY <1>0, <2>1 DEF cw_pack_map_size
    <3> QED
      BY <1>2, <3>1
  <2>2. CASE ~(n < 16)
    <3>1. cw_pack_map_size(n).header = SizedHeader(MapTag, n)
      BY <2>2 DEF cw_pack_map_size, Encoded
    <3>2. /\ DOMAIN MapTag \subseteq {1, 2, 4} /\ 4 \in DOMAIN MapTag
          /\ \A w \in DOMAIN MapTag : MapTag[w] \in 218 .. 255
      BY DEF MapTag
    <3> QED
      BY <1>1, <3>1, <3>2
  <2> QED
    BY <2>1, <2>2
<1>5. cw_pack_str(n, TRUE).header[1] \notin NewTags
  <2>1. CASE n < 32
    <3>1. 160 + n \in 0 .. 195 /\ cw_pack_str(n, TRUE) = Encoded(<<160 + n>>, n)
      BY <1>0, <2>1 DEF cw_pack_str
    <3> QED
      BY <1>2, <3>1
  <2>2. CASE ~(n < 32)
    <3> DEFINE tags == [w \in DOMAIN StrTag \ (IF TRUE THEN {1} ELSE {}) |-> StrTag[w]]
    <3>1. cw_pack_str(n, TRUE).header = SizedHeader(tags, n)
      BY <2>2 DEF cw_pack_str, Encoded
    <3>2. /\ DOMAIN tags \subseteq {1, 2, 4} /\ 4 \in DOMAIN tags
          /\ \A w \in DOMAIN tags : tags[w] \in 218 .. 255
      BY DEF StrTag
    <3> HIDE DEF tags
    <3> QED
      BY <1>1, <3>1, <3>2
  <2> QED
    BY <2>1, <2>2
<1> QED
  BY <1>3, <1>4, <1>5

LEMMA OldCalls ==
    ASSUME NEW call \in PackingCalls, ~NumericExtension(call),
           NEW e, e = EncodeAny(call, TRUE), e.rc = CWP_RC_OK
    PROVE  e.header[1] \notin NewTags
<1>0. e # Refused(CWP_RC_ILLEGAL_CALL)
  <2>1. Refused(CWP_RC_ILLEGAL_CALL).rc = CWP_RC_ILLEGAL_CALL
    BY DEF Refused
  <2>2. CWP_RC_ILLEGAL_CALL # CWP_RC_OK
    BY DEF CWP_RC_ILLEGAL_CALL, CWP_RC_OK
  <2> QED
    BY <2>1, <2>2
<1>1. ASSUME NEW tag \in 202 .. 211, NEW w \in {4, 8}, NEW f \in [1 .. w -> Byte]
      PROVE  Encoded(<<tag>> \o f, 0).header[1] \notin NewTags
  <2>1. tag \in Byte /\ tag \notin NewTags
    BY OldTags
  <2>2. w \in 0 .. 8
    BY <1>1
  <2>3. f \in [1 .. w -> Byte] /\ 0 \in Nat
    BY <1>1

  <2>4. Encoded(<<tag>> \o f, 0).header[1] = tag
    BY <2>1, <2>2, <2>3, TagAndField DEF Encoded
  <2> QED
    BY <2>1, <2>4
<1>2. \A f \in Bits32 : Encoded(<<202>> \o f, 0).header[1] \notin NewTags
  <2>1. 202 \in 202 .. 211 /\ 4 \in {4, 8}
    BY SMT
  <2> QED
    BY <1>1, <2>1 DEF Bits32
<1>3. \A f \in Word64 : Encoded(<<203>> \o f, 0).header[1] \notin NewTags
  <2>1. 203 \in 202 .. 211 /\ 8 \in {4, 8}
    BY SMT
  <2> QED
    BY <1>1, <2>1 DEF Word64
<1>4. CASE call.op \in {"nil", "boolean"}
  <2>1. ASSUME NEW x \in 0 .. 195 PROVE Encoded(<<x>>, 0).header[1] \notin NewTags
    BY OldTags DEF Encoded
  <2>2. CASE call.op = "nil"
    <3> DEFINE x == 192
    <3>1. e = Encoded(<<x>>, 0)
      BY <2>2 DEF EncodeAny, Encode
    <3>2. x \in 0 .. 195
      BY SMT
    <3> HIDE DEF x
    <3> QED
      BY <2>1, <3>1, <3>2
  <2>3. CASE call.op = "boolean"
    <3> DEFINE x == IF call.b THEN 195 ELSE 194
    <3>1. e = Encoded(<<x>>, 0)
      BY <2>3 DEF EncodeAny, Encode
    <3>2. x \in 0 .. 195
      BY SMT
    <3> HIDE DEF x
    <3> QED
      BY <2>1, <3>1, <3>2
  <2> QED
    BY <1>4, <2>2, <2>3
<1>5. CASE call.op \in {"unsigned", "signed"}
  <2>1. e = cw_pack_unsigned(call.v) \/ e = cw_pack_signed(call.v)
    BY <1>5 DEF EncodeAny, Encode
  <2> QED
    BY <1>5, <2>1, CallArguments, OldNumbers
<1>6. CASE call.op = "float"
  <2>1. e = Encoded(<<202>> \o call.bits, 0)
    BY <1>6 DEF EncodeAny, Encode
  <2> QED
    BY <1>2, <1>6, <2>1, CallArguments
<1>7. CASE call.op = "double"
  <2>1. e = Encoded(<<203>> \o call.bits, 0)
    BY <1>7 DEF EncodeAny, Encode
  <2> QED
    BY <1>3, <1>7, <2>1, CallArguments
<1>8. CASE call.op \in {"array_size", "map_size"}
  <2>1. e = cw_pack_array_size(call.n) \/ e = cw_pack_map_size(call.n)
    BY <1>8 DEF EncodeAny, Encode
  <2> QED
    BY <1>8, <2>1, CallArguments, OldSizes
<1>9. CASE call.op \in {"str", "bin"}
  <2>1. e = cw_pack_str(call.l, TRUE)
    BY <1>9 DEF EncodeAny, Encode, cw_pack_bin
  <2> QED
    BY <1>9, <2>1, CallArguments, OldSizes
<1>10. CASE call.op = "ext"
  <2>1. e = Refused(CWP_RC_ILLEGAL_CALL)
    BY <1>10 DEF EncodeAny, Encode, cw_pack_ext
  <2> QED
    BY <1>0, <2>1
<1>11. CASE call.op \in {"time", "time_interval"}
  <2>1. \/ e = cw_pack_time(call.sec, call.nsec, TRUE)
        \/ e = cw_pack_time(call.ti.floor, call.ti.product, TRUE)
    BY <1>11 DEF EncodeAny, Encode, cw_pack_time_interval
  <2>2. e = Refused(CWP_RC_ILLEGAL_CALL)
    BY <2>1, Zenon DEF cw_pack_time
  <2> QED
    BY <1>0, <2>2
<1>12. CASE call.op = "double_opt"
  <2>1. e = cw_pack_double_opt(call.d) /\ call.d \in Doubles
    BY <1>12, CallArguments DEF EncodeAny
  <2>2. /\ call.d.double \in Word64
        /\ call.d.int # <<>> => call.d.int \in Word64
        /\ call.d.float # <<>> => call.d.float \in Bits32
    BY <2>1 DEF Doubles
  <2>3. CASE IsInt32(call.d)
    <3>1. call.d.int # <<>> /\ e = cw_pack_signed(call.d.int)
      BY <2>1, <2>3 DEF IsInt32, cw_pack_double_opt
    <3> QED
      BY <2>2, <3>1, OldNumbers
  <2>4. CASE ~IsInt32(call.d) /\ call.d.float # <<>>
    <3>1. e = Encoded(<<202>> \o call.d.float, 0)
      BY <2>1, <2>4 DEF cw_pack_double_opt
    <3> QED
      BY <1>2, <2>2, <2>4, <3>1
  <2>5. CASE ~IsInt32(call.d) /\ call.d.float = <<>>
    <3>1. e = Encoded(<<203>> \o call.d.double, 0)
      BY <2>1, <2>5 DEF cw_pack_double_opt
    <3> QED
      BY <1>3, <2>2, <3>1
  <2> QED
    BY <2>3, <2>4, <2>5
<1>13. CASE call.op = "float_opt"
  <2>1. e = cw_pack_float_opt(call.d) /\ call.d \in Floats
    BY <1>13, CallArguments DEF EncodeAny
  <2>2. /\ call.d.int # <<>> => call.d.int \in Word64
        /\ call.d.float \in Bits32
    BY <2>1 DEF Floats
  <2>3. CASE IsInt32(call.d) /\ InShortRange(call.d.int)
    <3>1. call.d.int # <<>> /\ e = cw_pack_signed(call.d.int)
      BY <2>1, <2>3 DEF IsInt32, cw_pack_float_opt
    <3> QED
      BY <2>2, <3>1, OldNumbers
  <2>4. CASE ~(IsInt32(call.d) /\ InShortRange(call.d.int))
    <3>1. e = Encoded(<<202>> \o call.d.float, 0)
      BY <2>1, <2>4 DEF cw_pack_float_opt
    <3> QED
      BY <1>2, <2>2, <3>1
  <2> QED
    BY <2>3, <2>4
<1>14. call.op \notin {"ext_integer", "ext_float", "ext_double"}
  BY DEF NumericExtension
<1> QED
  BY CallArguments, <1>4, <1>5, <1>6, <1>7, <1>8, <1>9, <1>10, <1>11, <1>12, <1>13, <1>14

\* In compatibility mode no routine of cwpack.c chooses a format that the old
\* MessagePack has not.
THEOREM CodecCompatIsOldFormat == Spec => []CompatIsOldFormat
<1>1. IInv => CompatIsOldFormat
  <2> SUFFICES ASSUME WireSound, NEW k \in DOMAIN sent, sent[k].be_compatible,
                      ~NumericExtension(sent[k].call)
               PROVE  wire[k].header[1] \notin NewTags
    BY DEF IInv, CompatIsOldFormat, NewTags
  <2>1. k \in 1 .. Len(wire) /\ (PackedItem(k) \/ ForeignItem(k))
    BY DEF WireSound
  <2>2. ~ForeignItem(k)
    <3>1. ASSUME ForeignItem(k) PROVE FALSE
      <4>1. PICK item : sent[k] = [call |-> [op |-> "foreign", children |-> item.children],
                                   be_compatible |-> FALSE]
        BY <3>1 DEF ForeignItem
      <4>2. sent[k].be_compatible = FALSE
        BY <4>1
      <4> QED
        BY <4>2
    <3> QED
      BY <3>1
  <2>3. PICK call \in PackingCalls, b \in BOOLEAN :
          LET e == EncodeAny(call, b)
          IN  /\ sent[k] = [call |-> call, be_compatible |-> b]
              /\ e.rc = CWP_RC_OK
              /\ wire[k] = [header |-> e.header, payload |-> e.payload]
    BY <2>1, <2>2 DEF PackedItem
  <2>4. PICK e : e = EncodeAny(call, b)
    OBVIOUS
  <2>5. /\ sent[k] = [call |-> call, be_compatible |-> b]
        /\ e.rc = CWP_RC_OK
        /\ wire[k] = [header |-> e.header, payload |-> e.payload]
    BY <2>3, <2>4, Zenon
  <2>6. /\ sent[k].call = call /\ b = TRUE /\ wire[k].header = e.header
        /\ e = EncodeAny(call, TRUE)
    <3>1. sent[k].call = call /\ b = TRUE /\ wire[k].header = e.header
      BY <2>5
    <3> QED
      BY <2>4, <3>1, Zenon
  <2> QED
    BY <2>5, <2>6, OldCalls
<1> QED
  BY <1>1, CodecInvariant, PTL

\* The integers an item may be asked as are those whose width it has.
LEMMA ExpectInteger ==
    ASSUME NEW m, NEW w \in {1, 2, 4, 8},
           m.type \in Integers => m.as \in Word64,
           m.type = CWP_ITEM_NEGATIVE_INTEGER => Negative(m.as)
    PROVE  /\ Signed(m, w) = IF m.type \notin Integers THEN TypeError
                             ELSE IF HasWidth(m, "signed", w) THEN Answer(m.as)
                             ELSE ValueError
           /\ Unsigned(m, w) = IF m.type \notin Integers
                                  \/ m.type = CWP_ITEM_NEGATIVE_INTEGER THEN TypeError
                               ELSE IF HasWidth(m, "unsigned", w) THEN Answer(m.as)
                               ELSE ValueError
<1> DEFINE v == m.as
<1>1. /\ Integers = {CWP_ITEM_POSITIVE_INTEGER, CWP_ITEM_NEGATIVE_INTEGER}
      /\ CWP_ITEM_POSITIVE_INTEGER # CWP_ITEM_NEGATIVE_INTEGER
  BY DEF Integers, CWP_ITEM_POSITIVE_INTEGER, CWP_ITEM_NEGATIVE_INTEGER
<1>2. w \in 1 .. 8 /\ w \in 0 .. 8
  OBVIOUS
<1>3. CASE m.type = CWP_ITEM_POSITIVE_INTEGER
  <2>1. v \in Word64 /\ m.type # CWP_ITEM_NEGATIVE_INTEGER /\ m.type \in Integers
    BY <1>1, <1>3
  <2>2. HasWidth(m, "signed", w) <=> UpToSignedMax(v, w)
    <3>1. /\ SignExtended(Low(v, w)) = v <=>
                FitsNegative(v, w) \/ (FitsUnsigned(v, w) /\ v[9 - w] < 128)
          /\ FitsNegative(v, w) => Negative(v)
          /\ FitsUnsigned(v, w) /\ v[9 - w] < 128 => ~Negative(v)
      BY <1>2, <2>1, SignExtendedLow, Zenon
    <3>2. HasWidth(m, "signed", w) <=> SignExtended(Low(v, w)) = v /\ ~Negative(v)
      BY <1>3, Zenon DEF HasWidth
    <3>3. UpToSignedMax(v, w) <=> FitsUnsigned(v, w) /\ v[9 - w] < 128
      BY Zenon DEF UpToSignedMax
    <3> QED
      BY <3>1, <3>2, <3>3, Zenon
  <2>3. HasWidth(m, "unsigned", w) <=> UpToUnsignedMax(v, w)
    <3>1. FitsUnsigned(v, w) <=> ZeroExtended(Low(v, w)) = v
      BY <1>2, <2>1, ZeroExtendedLow, Zenon
    <3>2. HasWidth(m, "unsigned", w) <=> ZeroExtended(Low(v, w)) = v
      <4>1. "unsigned" # "signed"
        BY SMT
      <4> QED
        BY <4>1, Zenon DEF HasWidth
    <3> QED
      BY <3>1, <3>2, Zenon DEF UpToUnsignedMax
  <2>4. Signed(m, w) = IF UpToSignedMax(v, w) THEN Answer(v) ELSE ValueError
    BY <1>1, <1>3, Zenon DEF Signed
  <2>5. Unsigned(m, w) = IF UpToUnsignedMax(v, w) THEN Answer(v) ELSE ValueError
    BY <1>3, Zenon DEF Unsigned
  <2> QED
    BY <2>1, <2>2, <2>3, <2>4, <2>5, Zenon
<1>4. CASE m.type = CWP_ITEM_NEGATIVE_INTEGER
  <2>1. v \in Word64 /\ Negative(v) /\ m.type # CWP_ITEM_POSITIVE_INTEGER
        /\ m.type \in Integers
    BY <1>1, <1>4
  <2>2. HasWidth(m, "signed", w) <=> w = 8 \/ DownToSignedMin(v, w)
    <3>1. /\ SignExtended(Low(v, w)) = v <=>
                FitsNegative(v, w) \/ (FitsUnsigned(v, w) /\ v[9 - w] < 128)
          /\ FitsUnsigned(v, w) /\ v[9 - w] < 128 => ~Negative(v)
      BY <1>2, <2>1, SignExtendedLow, Zenon
    <3>2. HasWidth(m, "signed", w) <=> SignExtended(Low(v, w)) = v
      BY <2>1, Zenon DEF HasWidth
    <3>3. w = 8 => FitsNegative(v, w)
      BY <2>1, SMT DEF FitsNegative, Negative
    <3> QED
      BY <2>1, <3>1, <3>2, <3>3, Zenon DEF DownToSignedMin
  <2>3. Signed(m, w) = IF w = 8 \/ DownToSignedMin(v, w) THEN Answer(v) ELSE ValueError
    BY <1>1, <1>4, Zenon DEF Signed
  <2>4. Unsigned(m, w) = TypeError
    BY <2>1, Zenon DEF Unsigned
  <2> QED
    BY <1>4, <2>1, <2>2, <2>3, <2>4, Zenon
<1>5. CASE m.type \notin Integers
  <2>1. m.type # CWP_ITEM_POSITIVE_INTEGER /\ m.type # CWP_ITEM_NEGATIVE_INTEGER
    BY <1>1, <1>5
  <2>2. Signed(m, w) = TypeError /\ Unsigned(m, w) = TypeError
    BY <2>1, Zenon DEF Signed, Unsigned
  <2> QED
    BY <1>5, <2>2, Zenon
<1> QED
  BY <1>1, <1>3, <1>4, <1>5

\* The arms of RightAnswer, one fact for each.
LEMMA Right ==
    ASSUME NEW a, NEW expected \in Expectations, NEW m, NEW packed,
           NEW call, call = packed.call, NEW kind, kind = expected.kind,
           kind \in {"signed", "unsigned"} =>
                a = IF m.type \notin Integers
                       \/ (kind = "unsigned" /\ m.type = CWP_ITEM_NEGATIVE_INTEGER)
                    THEN TypeError
                    ELSE IF HasWidth(m, kind, expected.w) THEN Answer(m.as)
                    ELSE ValueError,
           kind \in DOMAIN Accepted =>
                a = IF call.op \in Expecting(kind, packed.be_compatible)
                    THEN Answer(Given(call)) ELSE TypeError,
           kind \in NumericKinds =>
                IF ~NumericExtension(call) /\ call.op # "ext" THEN a = TypeError
                ELSE IF call.op = kind
                THEN a = Answer(IF kind = "ext_integer" THEN call.v ELSE call.bits)
                ELSE IF m.as.length \in ReadableLengths[kind] THEN a.rc = CWP_RC_OK
                ELSE a = ValueError
    PROVE  RightAnswer(a, expected, m, packed)
<1>1. kind \in {"signed", "unsigned"} \cup DOMAIN Accepted \cup NumericKinds
  BY DEF Expectations
<1> QED
  BY <1>1, Zenon DEF RightAnswer

\* The type of the item that an operation packs, and what it holds.
LEMMA MeaningType ==
    ASSUME NEW k, NEW call \in PackingCalls, sent[k].call = call, ~Optimised(k),
           NEW m, m = Meaning(k)
    PROVE  /\ call.op = "nil" => m.type = CWP_ITEM_NIL
           /\ call.op = "boolean" => m.type = CWP_ITEM_BOOLEAN /\ m.as = call.b
           /\ call.op = "unsigned" => m.type = CWP_ITEM_POSITIVE_INTEGER
           /\ call.op = "signed" => m.type \in Integers
           /\ call.op = "float" => m.type = CWP_ITEM_FLOAT
           /\ call.op = "double" => m.type = CWP_ITEM_DOUBLE
           /\ call.op = "array_size" => m.type = CWP_ITEM_ARRAY /\ m.as = call.n
           /\ call.op = "map_size" => m.type = CWP_ITEM_MAP /\ m.as = call.n
           /\ call.op = "str" => m.type = CWP_ITEM_STR /\ m.as.length = call.l
           /\ call.op = "bin" =>
                 /\ m.type = IF sent[k].be_compatible THEN CWP_ITEM_STR ELSE CWP_ITEM_BIN
                 /\ m.as.length = call.l
           /\ call.op \in {"time", "time_interval"} => m.type = CWP_ITEM_TIMESTAMP
           /\ NumericExtension(call) \/ call.op = "ext" => m.type \in ExtTypes
<1>1. /\ call.op = "nil" => m.type = CWP_ITEM_NIL
      /\ call.op = "boolean" => m.type = CWP_ITEM_BOOLEAN /\ m.as = call.b
      /\ call.op = "unsigned" => m.type = CWP_ITEM_POSITIVE_INTEGER
      /\ call.op = "float" => m.type = CWP_ITEM_FLOAT
      /\ call.op = "double" => m.type = CWP_ITEM_DOUBLE
      /\ call.op = "array_size" => m.type = CWP_ITEM_ARRAY /\ m.as = call.n
      /\ call.op = "map_size" => m.type = CWP_ITEM_MAP /\ m.as = call.n
      /\ call.op \in {"time", "time_interval"} => m.type = CWP_ITEM_TIMESTAMP
  BY SMT DEF Meaning, NumericExtension
<1>2. call.op = "signed" => m.type \in Integers
  BY SMT DEF Meaning, NumericExtension, Integers
<1>3. call.op = "str" => m.type = CWP_ITEM_STR /\ m.as.length = call.l
  <2>1. call.op = "str" => m = Blobbed(CWP_ITEM_STR, k, call.l)
    BY Zenon DEF Meaning, NumericExtension
  <2> QED
    BY <2>1 DEF Blobbed
<1>4. call.op = "bin" =>
         /\ m.type = IF sent[k].be_compatible THEN CWP_ITEM_STR ELSE CWP_ITEM_BIN
         /\ m.as.length = call.l
  <2>1. call.op = "bin" => m = Blobbed(IF sent[k].be_compatible THEN CWP_ITEM_STR
                                       ELSE CWP_ITEM_BIN, k, call.l)
    BY Zenon DEF Meaning, NumericExtension
  <2> QED
    BY <2>1 DEF Blobbed
<1>5. NumericExtension(call) \/ call.op = "ext" => m.type \in ExtTypes
  <2>1. NumericExtension(call) \/ call.op = "ext" => call.type \in ExtTypes
    BY CallArguments DEF NumericExtension
  <2>2. call.op = "ext" => m = Blobbed(call.type, k, call.l)
    BY Zenon DEF Meaning, NumericExtension
  <2>3. NumericExtension(call) => m = Blobbed(call.type, k, Size(wire[k]) - 2)
    BY Zenon DEF Meaning, NumericExtension
  <2> QED
    BY <2>1, <2>2, <2>3 DEF Blobbed
<1> QED
  BY <1>1, <1>2, <1>3, <1>4, <1>5

\* What the expect API and the readers of numeric extensions are given to read.
LEMMA MeaningOf ==
    ASSUME NEW k, NEW call \in PackingCalls, sent[k].call = call, ~Optimised(k),
           NEW m, m = Meaning(k)
    PROVE  /\ m.type \in Integers => m.as \in Word64
           /\ m.type = CWP_ITEM_NEGATIVE_INTEGER => Negative(m.as)
           /\ NumericExtension(call) =>
                 m = Blobbed(call.type, k, Size(wire[k]) - 2)
<1>0. /\ CWP_ITEM_NEGATIVE_INTEGER # CWP_ITEM_POSITIVE_INTEGER
      /\ \A t \in {CWP_ITEM_NIL, CWP_ITEM_BOOLEAN, CWP_ITEM_FLOAT, CWP_ITEM_DOUBLE,
                   CWP_ITEM_BIN, CWP_ITEM_ARRAY, CWP_ITEM_MAP, CWP_ITEM_TIMESTAMP}
                  \cup ExtTypes :
            t \notin Integers /\ t # CWP_ITEM_NEGATIVE_INTEGER /\ t # CWP_ITEM_STR
      /\ CWP_ITEM_STR \notin Integers /\ CWP_ITEM_STR # CWP_ITEM_NEGATIVE_INTEGER
      /\ CWP_ITEM_POSITIVE_INTEGER # CWP_ITEM_STR
      /\ CWP_ITEM_NEGATIVE_INTEGER # CWP_ITEM_STR
  BY SMT DEF Integers, ExtTypes, CWP_ITEM_NIL, CWP_ITEM_BOOLEAN, CWP_ITEM_FLOAT,
             CWP_ITEM_DOUBLE, CWP_ITEM_STR, CWP_ITEM_BIN, CWP_ITEM_ARRAY, CWP_ITEM_MAP,
             CWP_ITEM_TIMESTAMP, CWP_ITEM_POSITIVE_INTEGER, CWP_ITEM_NEGATIVE_INTEGER
<1> DEFINE Other == {CWP_ITEM_NIL, CWP_ITEM_BOOLEAN, CWP_ITEM_FLOAT, CWP_ITEM_DOUBLE,
                     CWP_ITEM_BIN, CWP_ITEM_ARRAY, CWP_ITEM_MAP, CWP_ITEM_TIMESTAMP}
                    \cup ExtTypes
<1>1. /\ call.op \in {"unsigned", "signed"} => call.v \in Word64
      /\ call.op \in {"ext", "ext_integer", "ext_float", "ext_double"} =>
            call.type \in ExtTypes
      /\ call.op \in {"nil", "boolean", "unsigned", "signed", "float", "double",
                      "array_size", "map_size", "str", "bin", "ext", "time",
                      "ext_integer", "ext_float", "ext_double", "time_interval"}
  BY CallArguments DEF Optimised
<1>2. CASE call.op = "unsigned"
  <2>1. m = [type |-> CWP_ITEM_POSITIVE_INTEGER, as |-> call.v]
    BY <1>2, Zenon DEF Meaning, NumericExtension
  <2> QED
    BY <1>0, <1>1, <1>2, <2>1 DEF NumericExtension
<1>3. CASE call.op = "signed"
  <2>1. m = [type |-> IF Negative(call.v) THEN CWP_ITEM_NEGATIVE_INTEGER
                      ELSE CWP_ITEM_POSITIVE_INTEGER, as |-> call.v]
    BY <1>3, Zenon DEF Meaning, NumericExtension
  <2>2. m.as = call.v /\ (m.type = CWP_ITEM_NEGATIVE_INTEGER => Negative(call.v))
        /\ m.type # CWP_ITEM_STR
    BY <1>0, <2>1
  <2> QED
    BY <1>1, <1>3, <2>2 DEF NumericExtension
<1>4. CASE call.op \in {"str", "bin"}
  <2>1. PICK t \in {CWP_ITEM_STR, CWP_ITEM_BIN} : m = Blobbed(t, k, call.l)
    <3>1. CASE call.op = "str"
      BY <3>1, Zenon DEF Meaning, NumericExtension
    <3>2. CASE call.op = "bin"
      BY <3>2, Zenon DEF Meaning, NumericExtension
    <3> QED
      BY <1>4, <3>1, <3>2
  <2>2. m.type = t
    BY <2>1 DEF Blobbed
  <2> QED
    BY <1>0, <1>4, <2>2 DEF NumericExtension
<1>5. CASE NumericExtension(call)
  <2>1. m = Blobbed(call.type, k, Size(wire[k]) - 2)
    BY <1>5, Zenon DEF Meaning, NumericExtension
  <2>2. m.type = call.type /\ call.type \in ExtTypes
    BY <1>1, <1>5, <2>1 DEF Blobbed, NumericExtension
  <2> QED
    BY <1>0, <1>5, <2>1, <2>2 DEF NumericExtension
<1>6. CASE call.op \in {"nil", "boolean", "float", "double", "array_size", "map_size",
                        "ext", "time", "time_interval"}
  <2>1. m.type \in Other
    BY <1>6, MeaningType
  <2>2. ~NumericExtension(call)
    BY <1>6 DEF NumericExtension
  <2> QED
    BY <1>0, <2>1, <2>2, Zenon
<1> QED
  BY <1>1, <1>2, <1>3, <1>4, <1>5, <1>6 DEF NumericExtension

\* No two types are one number, and those of ext items are the small ones.
LEMMA TypesDiffer ==
    ASSUME NEW t \in {CWP_ITEM_NIL, CWP_ITEM_BOOLEAN, CWP_ITEM_POSITIVE_INTEGER,
                      CWP_ITEM_NEGATIVE_INTEGER, CWP_ITEM_FLOAT, CWP_ITEM_DOUBLE,
                      CWP_ITEM_STR, CWP_ITEM_BIN, CWP_ITEM_ARRAY, CWP_ITEM_MAP,
                      CWP_ITEM_TIMESTAMP} \cup ExtTypes
    PROVE  /\ t \in ExtTypes =>
                 /\ t <= CWP_ITEM_MAX_USER_EXT /\ ~(t > CWP_ITEM_MAX_USER_EXT)
                 /\ t \notin {CWP_ITEM_NIL, CWP_ITEM_BOOLEAN, CWP_ITEM_POSITIVE_INTEGER,
                              CWP_ITEM_NEGATIVE_INTEGER, CWP_ITEM_FLOAT, CWP_ITEM_DOUBLE,
                              CWP_ITEM_STR, CWP_ITEM_BIN, CWP_ITEM_ARRAY, CWP_ITEM_MAP,
                              CWP_ITEM_TIMESTAMP}
           /\ t \notin ExtTypes \cup {CWP_ITEM_TIMESTAMP} => t > CWP_ITEM_MAX_USER_EXT
           /\ t = CWP_ITEM_NIL =>
                 t \notin {CWP_ITEM_BOOLEAN, CWP_ITEM_POSITIVE_INTEGER,
                           CWP_ITEM_NEGATIVE_INTEGER, CWP_ITEM_FLOAT, CWP_ITEM_DOUBLE,
                           CWP_ITEM_STR, CWP_ITEM_BIN, CWP_ITEM_ARRAY, CWP_ITEM_MAP,
                           CWP_ITEM_TIMESTAMP}
           /\ t = CWP_ITEM_BOOLEAN =>
                 t \notin {CWP_ITEM_POSITIVE_INTEGER,
                           CWP_ITEM_NEGATIVE_INTEGER, CWP_ITEM_FLOAT, CWP_ITEM_DOUBLE,
                           CWP_ITEM_STR, CWP_ITEM_BIN, CWP_ITEM_ARRAY, CWP_ITEM_MAP,
                           CWP_ITEM_TIMESTAMP}
           /\ t \in {CWP_ITEM_POSITIVE_INTEGER, CWP_ITEM_NEGATIVE_INTEGER,
                     CWP_ITEM_FLOAT, CWP_ITEM_DOUBLE} =>
                 t \notin {CWP_ITEM_STR, CWP_ITEM_BIN, CWP_ITEM_ARRAY, CWP_ITEM_MAP,
                           CWP_ITEM_TIMESTAMP}
           /\ t = CWP_ITEM_STR =>
                 t \notin {CWP_ITEM_BIN, CWP_ITEM_ARRAY, CWP_ITEM_MAP,
                           CWP_ITEM_TIMESTAMP}
           /\ t = CWP_ITEM_BIN =>
                 t \notin {CWP_ITEM_ARRAY, CWP_ITEM_MAP, CWP_ITEM_TIMESTAMP}
           /\ t = CWP_ITEM_ARRAY => t \notin {CWP_ITEM_MAP, CWP_ITEM_TIMESTAMP}
           /\ t = CWP_ITEM_MAP => t # CWP_ITEM_TIMESTAMP
BY SMT DEF ExtTypes, CWP_ITEM_MAX_USER_EXT, CWP_ITEM_NIL, CWP_ITEM_BOOLEAN,
           CWP_ITEM_FLOAT, CWP_ITEM_DOUBLE, CWP_ITEM_STR, CWP_ITEM_BIN, CWP_ITEM_ARRAY,
           CWP_ITEM_MAP, CWP_ITEM_TIMESTAMP, CWP_ITEM_POSITIVE_INTEGER,
           CWP_ITEM_NEGATIVE_INTEGER

\* A routine of the expect API accepts the items of just those operations it
\* expects, and tells what was given to them.
LEMMA KindTaken ==
    ASSUME NEW k, NEW call \in PackingCalls, sent[k].call = call, ~Optimised(k),
           NEW m, m = Meaning(k), NEW kind \in DOMAIN Accepted,
           NEW c, c = sent[k].be_compatible
    PROVE  /\ m.type \in Accepted[kind] <=> call.op \in Expecting(kind, c)
           /\ m.type \in Accepted[kind] => Told(kind, m) = Given(call)
<1>1. call.op \in {"nil", "boolean", "unsigned", "signed", "float", "double",
                   "array_size", "map_size", "str", "bin", "ext", "time",
                   "ext_integer", "ext_float", "ext_double", "time_interval"}
  BY CallArguments DEF Optimised
<1>2. kind \in {"nil", "boolean", "real", "time_interval", "str_length", "bin_length",
                "array_size", "map_size"}
  BY DEF Accepted
<1>3. /\ call.op = "nil" => m.type = CWP_ITEM_NIL
      /\ call.op = "boolean" => m.type = CWP_ITEM_BOOLEAN /\ m.as = call.b
      /\ call.op \in {"unsigned", "signed"} =>
            m.type \in {CWP_ITEM_POSITIVE_INTEGER, CWP_ITEM_NEGATIVE_INTEGER}
      /\ call.op = "float" => m.type = CWP_ITEM_FLOAT
      /\ call.op = "double" => m.type = CWP_ITEM_DOUBLE
      /\ call.op = "array_size" => m.type = CWP_ITEM_ARRAY /\ m.as = call.n
      /\ call.op = "map_size" => m.type = CWP_ITEM_MAP /\ m.as = call.n
      /\ call.op = "str" => m.type = CWP_ITEM_STR /\ m.as.length = call.l
      /\ call.op = "bin" => /\ m.type = IF c THEN CWP_ITEM_STR ELSE CWP_ITEM_BIN
                            /\ m.as.length = call.l
      /\ call.op \in {"time", "time_interval"} => m.type = CWP_ITEM_TIMESTAMP
      /\ call.op \in {"ext", "ext_integer", "ext_float", "ext_double"} =>
            m.type \in ExtTypes
  <2>1. call.op = "unsigned" => m.type \in {CWP_ITEM_POSITIVE_INTEGER,
                                            CWP_ITEM_NEGATIVE_INTEGER}
    BY MeaningType, SMT
  <2>2. call.op = "signed" => m.type \in {CWP_ITEM_POSITIVE_INTEGER,
                                          CWP_ITEM_NEGATIVE_INTEGER}
    BY MeaningType, SMT DEF Integers
  <2> QED
    BY <2>1, <2>2, MeaningType, SMT DEF NumericExtension
<1>4. m.type \in {CWP_ITEM_NIL, CWP_ITEM_BOOLEAN, CWP_ITEM_POSITIVE_INTEGER,
                  CWP_ITEM_NEGATIVE_INTEGER, CWP_ITEM_FLOAT, CWP_ITEM_DOUBLE,
                  CWP_ITEM_STR, CWP_ITEM_BIN, CWP_ITEM_ARRAY, CWP_ITEM_MAP,
                  CWP_ITEM_TIMESTAMP} \cup ExtTypes
  BY <1>1, <1>3, SMT
<1> DEFINE t == m.type
<1>5. /\ t \in ExtTypes =>
            t \notin {CWP_ITEM_NIL, CWP_ITEM_BOOLEAN, CWP_ITEM_POSITIVE_INTEGER,
                      CWP_ITEM_NEGATIVE_INTEGER, CWP_ITEM_FLOAT, CWP_ITEM_DOUBLE,
                      CWP_ITEM_STR, CWP_ITEM_BIN, CWP_ITEM_ARRAY, CWP_ITEM_MAP,
                      CWP_ITEM_TIMESTAMP}
      /\ t = CWP_ITEM_NIL =>
            t \notin {CWP_ITEM_BOOLEAN, CWP_ITEM_POSITIVE_INTEGER,
                      CWP_ITEM_NEGATIVE_INTEGER, CWP_ITEM_FLOAT, CWP_ITEM_DOUBLE,
                      CWP_ITEM_STR, CWP_ITEM_BIN, CWP_ITEM_ARRAY, CWP_ITEM_MAP,
                      CWP_ITEM_TIMESTAMP}
      /\ t = CWP_ITEM_BOOLEAN =>
            t \notin {CWP_ITEM_POSITIVE_INTEGER,
                      CWP_ITEM_NEGATIVE_INTEGER, CWP_ITEM_FLOAT, CWP_ITEM_DOUBLE,
                      CWP_ITEM_STR, CWP_ITEM_BIN, CWP_ITEM_ARRAY, CWP_ITEM_MAP,
                      CWP_ITEM_TIMESTAMP}
      /\ t \in {CWP_ITEM_POSITIVE_INTEGER, CWP_ITEM_NEGATIVE_INTEGER,
                CWP_ITEM_FLOAT, CWP_ITEM_DOUBLE} =>
            t \notin {CWP_ITEM_STR, CWP_ITEM_BIN, CWP_ITEM_ARRAY, CWP_ITEM_MAP,
                      CWP_ITEM_TIMESTAMP}
      /\ t = CWP_ITEM_STR =>
            t \notin {CWP_ITEM_BIN, CWP_ITEM_ARRAY, CWP_ITEM_MAP, CWP_ITEM_TIMESTAMP}
      /\ t = CWP_ITEM_BIN => t \notin {CWP_ITEM_ARRAY, CWP_ITEM_MAP, CWP_ITEM_TIMESTAMP}
      /\ t = CWP_ITEM_ARRAY => t \notin {CWP_ITEM_MAP, CWP_ITEM_TIMESTAMP}
      /\ t = CWP_ITEM_MAP => t # CWP_ITEM_TIMESTAMP
  BY <1>4, TypesDiffer, Zenon
<1>6. /\ Accepted["nil"] = {CWP_ITEM_NIL} /\ Accepted["boolean"] = {CWP_ITEM_BOOLEAN}
      /\ Accepted["real"] = {CWP_ITEM_POSITIVE_INTEGER, CWP_ITEM_NEGATIVE_INTEGER,
                             CWP_ITEM_FLOAT, CWP_ITEM_DOUBLE}
      /\ Accepted["time_interval"] = {CWP_ITEM_TIMESTAMP}
      /\ Accepted["str_length"] = {CWP_ITEM_STR}
      /\ Accepted["bin_length"] = {CWP_ITEM_BIN}
      /\ Accepted["array_size"] = {CWP_ITEM_ARRAY}
      /\ Accepted["map_size"] = {CWP_ITEM_MAP}
  BY DEF Accepted
<1> HIDE DEF t
<1>7. CASE kind = "nil"
  BY <1>1, <1>3, <1>5, <1>6, <1>7, SMT DEF t, Expecting, Told, Given
<1>8. CASE kind = "boolean"
  BY <1>1, <1>3, <1>5, <1>6, <1>8, SMT DEF t, Expecting, Told, Given
<1>9. CASE kind = "real"
  BY <1>1, <1>3, <1>5, <1>6, <1>9, SMT DEF t, Expecting, Told, Given
<1>10. CASE kind = "time_interval"
  BY <1>1, <1>3, <1>5, <1>6, <1>10, SMT DEF t, Expecting, Told, Given
<1>11. CASE kind = "str_length"
  BY <1>1, <1>3, <1>5, <1>6, <1>11, SMT DEF t, Expecting, Told, Given
<1>12. CASE kind = "bin_length"
  BY <1>1, <1>3, <1>5, <1>6, <1>12, SMT DEF t, Expecting, Told, Given
<1>13. CASE kind = "array_size"
  BY <1>1, <1>3, <1>5, <1>6, <1>13, SMT DEF t, Expecting, Told, Given
<1>14. CASE kind = "map_size"
  BY <1>1, <1>3, <1>5, <1>6, <1>14, SMT DEF t, Expecting, Told, Given
<1> QED
  BY <1>2, <1>7, <1>8, <1>9, <1>10, <1>11, <1>12, <1>13, <1>14

\* What the routine for an expectation makes of a packed item is what that item
\* is.  The content of an ext item lies where the item says.
LEMMA PackedExpect ==
    ASSUME NEW k, PackedItem(k), ~Optimised(k), NEW b, Begins(b, wire[k].header),
           NEW expected \in Expectations, NEW m, m = Meaning(k), NEW content,
           m.type <= CWP_ITEM_MAX_USER_EXT =>
               content = Field(b, m.as.start, m.as.length),
           expected.kind \in NumericKinds => m.type # CWP_ITEM_TIMESTAMP
    PROVE  RightAnswer(Expect(expected, m, content), expected, m, sent[k])
<1>1. PICK call \in PackingCalls, c \in BOOLEAN :
        LET e == EncodeAny(call, c)
        IN  /\ sent[k] = [call |-> call, be_compatible |-> c]
            /\ e.rc = CWP_RC_OK
            /\ wire[k] = [header |-> e.header, payload |-> e.payload]
  BY DEF PackedItem
<1>2. PICK e : e = EncodeAny(call, c)
  OBVIOUS
<1>3. /\ sent[k] = [call |-> call, be_compatible |-> c]
      /\ wire[k] = [header |-> e.header, payload |-> e.payload]
  BY <1>1, <1>2, Zenon
<1>4. sent[k].call = call /\ wire[k].header = e.header /\ wire[k].payload = e.payload
  BY <1>3
<1>5. /\ m.type \in Integers => m.as \in Word64
      /\ m.type = CWP_ITEM_NEGATIVE_INTEGER => Negative(m.as)
      /\ NumericExtension(call) => m = Blobbed(call.type, k, Size(wire[k]) - 2)
  BY <1>4, MeaningOf
<1> DEFINE kind == expected.kind
           a == Expect(expected, m, content)
<1>6. kind \in {"signed", "unsigned"} => expected.w \in {1, 2, 4, 8}
  BY DEF Expectations, Accepted, NumericKinds
<1>7. ASSUME kind \in {"signed", "unsigned"}
      PROVE  a = IF m.type \notin Integers
                    \/ (kind = "unsigned" /\ m.type = CWP_ITEM_NEGATIVE_INTEGER)
                 THEN TypeError
                 ELSE IF HasWidth(m, kind, expected.w) THEN Answer(m.as)
                 ELSE ValueError
  <2> DEFINE w == expected.w
  <2>1. w \in {1, 2, 4, 8}
    BY <1>6, <1>7
  <2> HIDE DEF w
  <2>2. /\ Signed(m, w) = IF m.type \notin Integers THEN TypeError
                          ELSE IF HasWidth(m, "signed", w) THEN Answer(m.as)
                          ELSE ValueError
        /\ Unsigned(m, w) = IF m.type \notin Integers
                               \/ m.type = CWP_ITEM_NEGATIVE_INTEGER THEN TypeError
                            ELSE IF HasWidth(m, "unsigned", w) THEN Answer(m.as)
                            ELSE ValueError
    BY <1>5, <2>1, ExpectInteger, Zenon
  <2>3. CASE kind = "signed"
    <3>1. a = Signed(m, w)
      BY <2>3, Zenon DEF Expect, w
    <3>2. "signed" # "unsigned"
      BY SMT
    <3> QED
      BY <2>2, <2>3, <3>1, <3>2, Zenon DEF w
  <2>4. CASE kind = "unsigned"
    <3>1. a = Unsigned(m, w)
      BY <2>4, Zenon DEF Expect, w
    <3> QED
      BY <2>2, <2>4, <3>1, Zenon DEF w
  <2> QED
    BY <1>7, <2>3, <2>4, Zenon
<1>8. ASSUME NumericExtension(call), NEW n \in {1, 2, 4, 8},
             Len(e.header) = 2 + n, e.payload = 0
      PROVE  /\ m.type \in ExtTypes /\ m.as.length = n /\ content = Field(b, 2, n)
             /\ ~(m.type > CWP_ITEM_MAX_USER_EXT)
  <2>1. Size(wire[k]) = 2 + n
    BY <1>4, <1>8 DEF Size
  <2>2. m = Blobbed(call.type, k, Size(wire[k]) - 2)
    BY <1>5, <1>8
  <2>3. m = [type |-> call.type, as |-> [length |-> n, start |-> 2]]
    <3>1. Size(wire[k]) - 2 = n /\ Size(wire[k]) - n = 2
      BY <2>1, SMT
    <3> QED
      BY <2>2, <3>1, Zenon DEF Blobbed
  <2>4. m.type = call.type /\ m.as.length = n /\ m.as.start = 2
    BY <2>3
  <2>5. call.type \in ExtTypes
    BY <1>8, CallArguments DEF NumericExtension
  <2>6. \A t \in ExtTypes : t <= CWP_ITEM_MAX_USER_EXT /\ ~(t > CWP_ITEM_MAX_USER_EXT)
    BY SMT DEF ExtTypes, CWP_ITEM_MAX_USER_EXT
  <2> QED
    BY <2>4, <2>5, <2>6, Zenon
<1>9. ASSUME kind = "ext_integer", call.op = kind
      PROVE  a = Answer(call.v)
  <2>1. NumericExtension(call) /\ call.type \in ExtTypes /\ call.v \in Word64
    BY <1>9, CallArguments DEF NumericExtension
  <2>2. e = cw_pack_ext_integer(call.type, call.v)
    BY <1>2, <1>9 DEF EncodeAny, Encode
  <2>3. PICK n \in {1, 2, 4, 8} :
           /\ Len(e.header) = 2 + n /\ e.payload = 0
           /\ \A x : Begins(x, e.header) => SignExtended(Field(x, 2, n)) = call.v
    BY <2>1, <2>2, PackExtInteger, Zenon
  <2>4. m.as.length = n /\ content = Field(b, 2, n) /\ ~(m.type > CWP_ITEM_MAX_USER_EXT)
    BY <1>8, <2>1, <2>3
  <2>5. SignExtended(content) = call.v
    BY <1>4, <2>3, <2>4, Zenon
  <2>6. n # 0
    BY <2>3
  <2>7. get_ext_integer(m, content) = Answer(SignExtended(content))
    BY <2>3, <2>4, <2>6, Zenon DEF get_ext_integer
  <2>8. a = get_ext_integer(m, content)
    BY <1>9, Zenon DEF Expect
  <2> QED
    BY <2>5, <2>7, <2>8, Zenon
<1>10. ASSUME kind \in {"ext_float", "ext_double"}, call.op = kind
       PROVE  a = Answer(call.bits)
  <2>1. NumericExtension(call) /\ call.type \in ExtTypes
        /\ (kind = "ext_float" => call.bits \in Bits32)
        /\ (kind = "ext_double" => call.bits \in Word64)
    BY <1>10, CallArguments DEF NumericExtension
  <2>2. ASSUME NEW n \in {4, 8}, FixExtOf(e, call.type, n, call.bits), e.payload = 0,
               a = get_ext_real(m, content, n)
        PROVE  a = Answer(call.bits)
    <3>1. Len(e.header) = 2 + n /\ Field(b, 2, n) = call.bits
      BY <1>4, <2>2 DEF FixExtOf
    <3>2. m.as.length = n /\ content = Field(b, 2, n)
          /\ ~(m.type > CWP_ITEM_MAX_USER_EXT)
      BY <1>8, <2>1, <2>2, <3>1
    <3>3. get_ext_real(m, content, n) = Answer(content)
      BY <3>2, Zenon DEF get_ext_real
    <3> QED
      BY <2>2, <3>1, <3>2, <3>3, Zenon
  <2>3. CASE kind = "ext_float"
    <3> DEFINE z == Encoded(<<214, call.type % 256>> \o call.bits, 0)
    <3>1. e = z
      BY <1>2, <1>10, <2>3 DEF EncodeAny, Encode
    <3>2. FixExtOf(z, call.type, 4, call.bits)
      BY <2>1, <2>3, PackExtReals
    <3>3. z.payload = 0
      BY DEF Encoded
    <3>4. a = get_ext_real(m, content, 4)
      BY <2>3, Zenon DEF Expect
    <3> HIDE DEF z, a
    <3>5. FixExtOf(e, call.type, 4, call.bits) /\ e.payload = 0 /\ 4 \in {4, 8}
      BY <3>1, <3>2, <3>3
    <3> QED
      BY <2>2, <3>4, <3>5
  <2>4. CASE kind = "ext_double"
    <3> DEFINE z == Encoded(<<215, call.type % 256>> \o call.bits, 0)
    <3>1. e = z
      BY <1>2, <1>10, <2>4 DEF EncodeAny, Encode
    <3>2. FixExtOf(z, call.type, 8, call.bits)
      BY <2>1, <2>4, PackExtReals
    <3>3. z.payload = 0
      BY DEF Encoded
    <3>4. a = get_ext_real(m, content, 8)
      BY <2>4, Zenon DEF Expect
    <3> HIDE DEF z, a
    <3>5. FixExtOf(e, call.type, 8, call.bits) /\ e.payload = 0 /\ 8 \in {4, 8}
      BY <3>1, <3>2, <3>3
    <3> QED
      BY <2>2, <3>4, <3>5
  <2> QED
    BY <1>10, <2>3, <2>4
<1>11. ASSUME kind \in DOMAIN Accepted
       PROVE  a = IF call.op \in Expecting(kind, c) THEN Answer(Given(call)) ELSE TypeError
  <2>1. /\ kind # "signed" /\ kind # "unsigned" /\ kind # "ext_integer"
        /\ kind # "ext_float" /\ kind # "ext_double"
    BY <1>11 DEF Accepted
  <2>2. a = IF m.type \in Accepted[kind] THEN Answer(Told(kind, m)) ELSE TypeError
    BY <2>1, Zenon DEF Expect
  <2>3. sent[k].be_compatible = c
    BY <1>3
  <2>4. /\ m.type \in Accepted[kind] <=> call.op \in Expecting(kind, c)
        /\ m.type \in Accepted[kind] => Told(kind, m) = Given(call)
    BY <1>4, <1>11, <2>3, KindTaken
  <2> QED
    BY <2>2, <2>4, Zenon
<1>12. ASSUME kind \in NumericKinds, ~NumericExtension(call), call.op # "ext"
       PROVE  a = TypeError
  <2>1. m.type > CWP_ITEM_MAX_USER_EXT
    <3>1. m.type \in {CWP_ITEM_NIL, CWP_ITEM_BOOLEAN, CWP_ITEM_POSITIVE_INTEGER,
                      CWP_ITEM_NEGATIVE_INTEGER, CWP_ITEM_FLOAT, CWP_ITEM_DOUBLE,
                      CWP_ITEM_STR, CWP_ITEM_BIN, CWP_ITEM_ARRAY, CWP_ITEM_MAP,
                      CWP_ITEM_TIMESTAMP}
      <4>1. /\ call.op = "signed" => m.type \in Integers
            /\ call.op = "bin" =>
                  m.type = IF sent[k].be_compatible THEN CWP_ITEM_STR ELSE CWP_ITEM_BIN
        BY <1>4, MeaningType
      <4>2. /\ call.op = "signed" =>
                  m.type \in {CWP_ITEM_POSITIVE_INTEGER, CWP_ITEM_NEGATIVE_INTEGER}
            /\ call.op = "bin" => m.type \in {CWP_ITEM_STR, CWP_ITEM_BIN}
        BY <4>1 DEF Integers
      <4>3. call.op \in {"nil", "boolean", "unsigned", "signed", "float", "double",
                         "array_size", "map_size", "str", "bin", "time",
                         "time_interval"}
        BY <1>4, <1>12, CallArguments DEF Optimised, NumericExtension
      <4> QED
        BY <1>4, <4>2, <4>3, MeaningType
    <3>2. m.type # CWP_ITEM_TIMESTAMP
      BY <1>12
    <3>3. m.type \notin ExtTypes
      BY <3>1, TypesDiffer
    <3> QED
      BY <3>1, <3>2, <3>3, TypesDiffer
  <2>2. get_ext_integer(m, content) = TypeError
    BY <2>1, Zenon DEF get_ext_integer
  <2>3. \A n : get_ext_real(m, content, n) = TypeError
    BY <2>1, Zenon DEF get_ext_real
  <2>4. \/ a = get_ext_integer(m, content)
        \/ \E n : a = get_ext_real(m, content, n)
    <3>1. kind = "ext_integer" \/ kind = "ext_float" \/ kind = "ext_double"
      BY <1>12 DEF NumericKinds
    <3> QED
      BY <3>1, Zenon DEF Expect
  <2> QED
    BY <2>2, <2>3, <2>4, Zenon
<1>13. ASSUME kind \in NumericKinds, NumericExtension(call) \/ call.op = "ext"
       PROVE  IF m.as.length \in ReadableLengths[kind] THEN a.rc = CWP_RC_OK
              ELSE a = ValueError
  <2>1. ~(m.type > CWP_ITEM_MAX_USER_EXT)
    BY <1>4, <1>13, MeaningType, TypesDiffer
  <2>2. \A v : Answer(v).rc = CWP_RC_OK
    BY DEF Answer
  <2> DEFINE l == m.as.length
  <2>3. CASE kind = "ext_integer"
    <3>1. a = get_ext_integer(m, content)
      BY <2>3, Zenon DEF Expect
    <3>2. ReadableLengths[kind] = {0, 1, 2, 4, 8}
      BY <2>3 DEF ReadableLengths
    <3>3. CASE l = 0
      <4>1. get_ext_integer(m, content).rc = CWP_RC_OK
        <5>1. 0 \notin {1, 2, 4, 8}
          OBVIOUS
        <5> QED
          BY <2>1, <2>2, <3>3, <5>1, Zenon DEF get_ext_integer
      <4>2. l \in ReadableLengths[kind]
        BY <3>2, <3>3
      <4> QED
        BY <3>1, <4>1, <4>2, Zenon
    <3>4. CASE l \in {1, 2, 4, 8}
      <4>1. get_ext_integer(m, content).rc = CWP_RC_OK
        <5>1. l # 0
          BY <3>4
        <5> QED
          BY <2>1, <2>2, <3>4, <5>1, Zenon DEF get_ext_integer
      <4>2. l \in ReadableLengths[kind]
        BY <3>2, <3>4
      <4> QED
        BY <3>1, <4>1, <4>2, Zenon
    <3>5. CASE l # 0 /\ l \notin {1, 2, 4, 8}
      <4>1. get_ext_integer(m, content) = ValueError
        BY <2>1, <3>5, Zenon DEF get_ext_integer
      <4>2. l \notin ReadableLengths[kind]
        BY <3>2, <3>5
      <4> QED
        BY <3>1, <4>1, <4>2, Zenon
    <3> QED
      BY <3>3, <3>4, <3>5
  <2>4. ASSUME NEW n, ReadableLengths[kind] = {n}, a = get_ext_real(m, content, n)
        PROVE  IF l \in ReadableLengths[kind] THEN a.rc = CWP_RC_OK ELSE a = ValueError
    BY <2>1, <2>2, <2>4, Zenon DEF get_ext_real
  <2>5. CASE kind = "ext_float"
    <3>1. a = get_ext_real(m, content, 4)
      BY <2>5, Zenon DEF Expect
    <3>2. ReadableLengths[kind] = {4}
      BY <2>5 DEF ReadableLengths
    <3> QED
      BY <2>4, <3>1, <3>2, Zenon
  <2>6. CASE kind = "ext_double"
    <3>1. a = get_ext_real(m, content, 8)
      BY <2>6, Zenon DEF Expect
    <3>2. ReadableLengths[kind] = {8}
      BY <2>6 DEF ReadableLengths
    <3> QED
      BY <2>4, <3>1, <3>2, Zenon
  <2> QED
    BY <1>13, <2>3, <2>5, <2>6, Zenon DEF NumericKinds
<1>14. kind = expected.kind /\ sent[k].call = call /\ sent[k].be_compatible = c
  BY <1>3
<1> HIDE DEF a, kind
<1>15. ASSUME kind \in NumericKinds
       PROVE  IF ~NumericExtension(call) /\ call.op # "ext" THEN a = TypeError
              ELSE IF call.op = kind
              THEN a = Answer(IF kind = "ext_integer" THEN call.v ELSE call.bits)
              ELSE IF m.as.length \in ReadableLengths[kind] THEN a.rc = CWP_RC_OK
              ELSE a = ValueError
  <2>1. kind # "ext_integer" => kind \in {"ext_float", "ext_double"}
    BY <1>15 DEF NumericKinds
  <2> QED
    BY <1>9, <1>10, <1>12, <1>13, <1>15, <2>1, Zenon
<1>16. RightAnswer(a, expected, m, sent[k])
  BY <1>7, <1>11, <1>14, <1>15, Right
<1> QED
  BY <1>16, Zenon DEF a

\* No other step disturbs what an answer tells.
LEMMA AnswerStays ==
    ASSUME ExpectTells, UNCHANGED <<wire, sent, reader>>
    PROVE  ExpectTells'
BY ZenonT(30) DEF ExpectTells, RightAnswer, HasWidth, Packed, Optimised, Meaning,
                  Blobbed, Size, NumericExtension

LEMMA ExpectingTells ==
    ASSUME IInv, cw_unpack_next_expected
    PROVE  ExpectTells'
<1> SUFFICES ASSUME reader'.last = "expect",
                    reader'.return_code \notin {CWP_RC_END_OF_INPUT,
                                                CWP_RC_BUFFER_UNDERFLOW},
                    Packed(reader.read)', ~Optimised(reader.read)'
             PROVE  /\ reader'.return_code = reader'.answer.rc
                    /\ RightAnswer(reader.answer, reader.expected, Meaning(reader.read),
                                   sent[reader.read])'
  BY DEF ExpectTells
<1>0. PICK r : r = Next_Item(reader)
  OBVIOUS
<1>1. Ready /\ UNCHANGED <<packer, wire, sent, limit>>
  BY DEF cw_unpack_next_expected
<1>2. PICK expected, content, a :
        /\ expected \in Client.expected
        /\ expected.kind \in NumericKinds => r.item.type # CWP_ITEM_TIMESTAMP
        /\ content = IF r.item.type <= CWP_ITEM_MAX_USER_EXT
                     THEN Field(View, r.item.as.start, r.item.as.length) ELSE <<>>
        /\ a = IF r.return_code # CWP_RC_OK THEN NoAnswer(r.return_code)
               ELSE Expect(expected, r.item, content)
        /\ reader' = [r EXCEPT !.return_code = a.rc, !.answer = a,
                               !.expected = expected, !.last = "expect"]
  BY <1>0, Zenon DEF cw_unpack_next_expected
<1>3. expected \in Expectations
  <2>1. packer.client \in DOMAIN Clients
    BY DEF IInv, PackerSound
  <2> QED
    BY <1>2, <2>1, ClientsAssumption DEF Client
<1>4. PICK k : k = reader.read + 1
  OBVIOUS
<1>5. Inside(k) /\ k \in 1 .. Last
  BY <1>1, <1>4, ReadyReader DEF Ready
<1>6. /\ DOMAIN r = ReaderFields /\ r.read = k
      /\ \/ r.return_code = CWP_RC_END_OF_INPUT
         \/ r.return_code = CWP_RC_BUFFER_UNDERFLOW
         \/ ~Packed(k)
         \/ /\ r.return_code = CWP_RC_OK /\ k \in 1 .. Len(wire)
            /\ Stands(k, View) /\ r.item = UnpackItem(View)
  BY <1>0, <1>4, <1>5, NextItem DEF IInv
<1>7. /\ reader'.return_code = a.rc /\ reader'.answer = a /\ reader'.read = k
      /\ reader'.expected = expected
  BY <1>2, <1>6 DEF ReaderFields
<1>8. wire' = wire /\ sent' = sent
  BY <1>1
<1>9. Packed(k) /\ ~Optimised(k)
  BY <1>7, <1>8 DEF Packed, Optimised
<1>10. r.return_code \notin {CWP_RC_END_OF_INPUT, CWP_RC_BUFFER_UNDERFLOW}
  BY <1>2, <1>7, CodesDiffer DEF NoAnswer
<1>11. /\ r.return_code = CWP_RC_OK /\ k \in 1 .. Len(wire)
       /\ Stands(k, View) /\ r.item = UnpackItem(View)
  BY <1>6, <1>9, <1>10
<1>12. PICK m : m = Meaning(k)
  OBVIOUS
<1>13. r.item = m
  BY <1>9, <1>11, <1>12 DEF Stands, Meant
<1>14. PackedItem(k)
  BY <1>9, <1>11 DEF IInv, WireSound, ForeignItem, Packed
<1>15. Begins(View, wire[k].header)
  BY <1>5, <1>11, SeenHeader DEF IInv, Inside
<1>16. RightAnswer(a, expected, m, sent[k])
  <2>1. a = Expect(expected, m, content)
    BY <1>2, <1>11, <1>13
  <2>2. m.type <= CWP_ITEM_MAX_USER_EXT => content = Field(View, m.as.start, m.as.length)
    BY <1>2, <1>13, Zenon
  <2>3. expected.kind \in NumericKinds => m.type # CWP_ITEM_TIMESTAMP
    BY <1>2, <1>13, Zenon
  <2>4. RightAnswer(Expect(expected, m, content), expected, m, sent[k])
    BY <1>3, <1>9, <1>12, <1>14, <1>15, <2>2, <2>3, PackedExpect
  <2> QED
    BY <2>1, <2>4, Zenon
<1>17. Meaning(k)' = m
  BY <1>8, <1>12 DEF Meaning, Blobbed, Size, NumericExtension
<1> QED
  BY <1>7, <1>8, <1>16, <1>17 DEF RightAnswer, HasWidth

\* What the expect API and the readers of the numeric extensions answer is the
\* truth value, the integer, the size, the length or the number that was packed,
\* or else the error that tells why not, for every routine and every item the
\* library packs but an optimised real.
THEOREM CodecExpectTells == Spec => []ExpectTells
<1>1. Init => ExpectTells
  BY DEF Init, NewReader, ExpectTells
<1>2. ASSUME IInv, ExpectTells, [Next]_vars
      PROVE  ExpectTells'
  <2>1. CASE cw_unpack_next_expected
    BY <1>2, <2>1, ExpectingTells
  <2>2. CASE UNCHANGED vars \/ StoppedCall
    BY <1>2, <2>2, AnswerStays DEF vars, StoppedCall
  <2>3. CASE SetCompatibility \/ Pack \/ ForeignPack \/ cw_unpack_context_init
    <3>1. limit = NULL /\ reader' = reader
      BY <2>3 DEF SetCompatibility, Pack, ForeignPack, cw_unpack_context_init, Packing
    <3>2. reader'.last = "none"
      BY <1>2, <3>1 DEF IInv, ReaderSound, NewReader
    <3> QED
      BY <3>2 DEF ExpectTells
  <2>4. CASE cw_unpack_next
    <3>1. PICK r : r = Next_Item(reader)
      OBVIOUS
    <3>2. Ready /\ reader' = [r EXCEPT !.last = "next"]
      BY <2>4, <3>1 DEF cw_unpack_next
    <3>3. DOMAIN r = ReaderFields
      BY <1>2, <3>1, <3>2, ReadyReader, NextItem DEF Ready, IInv
    <3>4. reader'.last = "next"
      BY <3>2, <3>3 DEF ReaderFields
    <3> QED
      BY <3>4 DEF ExpectTells
  <2>5. CASE cw_skip_items \/ SkipItem \/ cw_look_ahead
    <3>1. DOMAIN reader = ReaderFields /\ (reader.left > 0 => reader.last = "skip")
      BY <1>2 DEF IInv, ReaderSound
    <3>2. reader'.last \in {"skip", "ahead"}
      <4>1. CASE cw_skip_items
        BY <3>1, <4>1 DEF cw_skip_items, ReaderFields
      <4>2. CASE cw_look_ahead
        BY <3>1, <4>2 DEF cw_look_ahead, ReaderFields
      <4>3. CASE SkipItem
        BY <3>1, <4>3 DEF SkipItem, ReaderFields
      <4> QED
        BY <2>5, <4>1, <4>2, <4>3
    <3> QED
      BY <3>2 DEF ExpectTells
  <2> QED
    BY <1>2, <2>1, <2>2, <2>3, <2>4, <2>5 DEF Next
<1>3. IInv /\ ExpectTells /\ [Next]_vars => ExpectTells'
  BY <1>2
<1> QED
  BY <1>1, <1>3, CodecInvariant, PTL DEF Spec

-------------------------------------------------------------------------------
(* No shorter form.                                                        *)

LEMMA EncodedHeader == \A h, n : Encoded(h, n).header = h
BY DEF Encoded

LEMMA HeaderLengths ==
    ASSUME NEW tag \in Byte, NEW w \in 0 .. 8, NEW f \in [1 .. w -> Byte], NEW n
    PROVE  Len(Encoded(<<tag>> \o f, n).header) = 1 + w
<1>1. Len(<<tag>> \o f) = 1 + w
  BY TagAndField
<1>2. Encoded(<<tag>> \o f, n).header = <<tag>> \o f
  BY EncodedHeader, Zenon
<1> QED
  BY <1>1, <1>2, Zenon

LEMMA IntegerTags ==
    \A w \in {1, 2, 4, 8} : UnsignedTag[w] \in Byte /\ SignedTag[w] \in Byte
BY SMT DEF UnsignedTag, SignedTag, Byte

\* A header longer than w + 1 bytes: the digits do not go into w bytes.
LEMMA LongUnsigned ==
    ASSUME NEW v \in Word64, NEW w \in {0, 1, 2, 4},
           w + 1 < Len(cw_pack_unsigned(v).header)
    PROVE  /\ ~(FitsUnsigned(v, 1) /\ v[8] < 128)
           /\ w # 0 => ~FitsUnsigned(v, w)
<1> DEFINE e == cw_pack_unsigned(v)
<1>1. CASE FitsUnsigned(v, 1) /\ v[8] < 128
  <2>1. e.header = Low(v, 1)
    BY <1>1, EncodedHeader DEF cw_pack_unsigned
  <2>2. Len(Low(v, 1)) = 1
    BY LowBytes
  <2>3. Len(e.header) = 1
    BY <2>1, <2>2, Zenon
  <2> HIDE DEF e
  <2>4. w + 1 < 1
    BY <2>3 DEF e
  <2> QED
    BY <2>4
<1>2. CASE ~(FitsUnsigned(v, 1) /\ v[8] < 128)
  <2> DEFINE S == {k \in {1, 2, 4, 8} : FitsUnsigned(v, k)}
             u == Min(S)
             f == Low(v, u)
             tag == UnsignedTag[u]
  <2>1. 8 \in S
    BY DEF FitsUnsigned
  <2>2. u \in {1, 2, 4, 8} /\ \A k \in S : u <= k
    <3>1. S \in SUBSET {1, 2, 4, 8} /\ S # {}
      BY <2>1
    <3>2. u \in S /\ \A k \in S : u <= k
      BY <3>1, MinOfWidths, Zenon
    <3> QED
      BY <3>2
  <2>3. e = Encoded(<<tag>> \o f, 0)
    BY <1>2 DEF cw_pack_unsigned
  <2>4. tag \in Byte
    <3> HIDE DEF u
    <3> QED
      BY <2>2, IntegerTags
  <2>5. u \in 0 .. 8 /\ f \in [1 .. u -> Byte]
    <3>1. u \in 0 .. 8
      BY <2>2
    <3> QED
      BY <3>1, LowBytes
  <2>6. Len(e.header) = 1 + u
    <3> HIDE DEF u, f, tag
    <3>1. Len(Encoded(<<tag>> \o f, 0).header) = 1 + u
      BY <2>4, <2>5, HeaderLengths
    <3> QED
      BY <2>3, <3>1
  <2>7. w < u
    BY <2>2, <2>6
  <2>8. w \notin S
    BY <2>2, <2>7
  <2>9. w # 0 => ~FitsUnsigned(v, w)
    BY <2>8
  <2> QED
    BY <1>2, <2>9
<1> QED
  BY <1>1, <1>2

LEMMA LongSigned ==
    ASSUME NEW v \in Word64, Negative(v), NEW w \in {0, 1, 2, 4},
           w + 1 < Len(cw_pack_signed(v).header)
    PROVE  /\ ~(FitsNegative(v, 1) /\ v[8] >= 224)
           /\ w # 0 => ~FitsNegative(v, w)
<1> DEFINE e == cw_pack_signed(v)
<1>1. CASE FitsNegative(v, 1) /\ v[8] >= 224
  <2>1. e.header = Low(v, 1)
    BY <1>1, EncodedHeader DEF cw_pack_signed
  <2>2. Len(Low(v, 1)) = 1
    BY LowBytes
  <2>3. Len(e.header) = 1
    BY <2>1, <2>2, Zenon
  <2> HIDE DEF e
  <2>4. w + 1 < 1
    BY <2>3 DEF e
  <2> QED
    BY <2>4
<1>2. CASE ~(FitsNegative(v, 1) /\ v[8] >= 224)
  <2> DEFINE S == {k \in {1, 2, 4, 8} : FitsNegative(v, k)}
             u == Min(S)
             f == Low(v, u)
             tag == SignedTag[u]
  <2>1. 8 \in S
    BY DEF FitsNegative, Negative
  <2>2. u \in {1, 2, 4, 8} /\ \A k \in S : u <= k
    <3>1. S \in SUBSET {1, 2, 4, 8} /\ S # {}
      BY <2>1
    <3>2. u \in S /\ \A k \in S : u <= k
      BY <3>1, MinOfWidths, Zenon
    <3> QED
      BY <3>2
  <2>3. e = Encoded(<<tag>> \o f, 0)
    BY <1>2 DEF cw_pack_signed
  <2>4. tag \in Byte
    <3> HIDE DEF u
    <3> QED
      BY <2>2, IntegerTags
  <2>5. u \in 0 .. 8 /\ f \in [1 .. u -> Byte]
    <3>1. u \in 0 .. 8
      BY <2>2
    <3> QED
      BY <3>1, LowBytes
  <2>6. Len(e.header) = 1 + u
    <3> HIDE DEF u, f, tag
    <3>1. Len(Encoded(<<tag>> \o f, 0).header) = 1 + u
      BY <2>4, <2>5, HeaderLengths
    <3> QED
      BY <2>3, <3>1
  <2>7. w < u
    BY <2>2, <2>6
  <2>8. w \notin S
    BY <2>2, <2>7
  <2>9. w # 0 => ~FitsNegative(v, w)
    BY <2>8
  <2> QED
    BY <1>2, <2>9
<1> QED
  BY <1>1, <1>2

LEMMA LongSized ==
    ASSUME NEW tags, DOMAIN tags \subseteq {1, 2, 4}, 4 \in DOMAIN tags,
           \A k \in DOMAIN tags : tags[k] \in Byte, NEW n \in Lengths31,
           NEW w \in {0, 1, 2, 4}, w + 1 < Len(SizedHeader(tags, n))
    PROVE  /\ w # 4
           /\ w \in DOMAIN tags => n >= Place[w]
<1> DEFINE S == {k \in DOMAIN tags : k = 4 \/ n < Place[k]}
           u == Min(S)
           f == BigEndian(n, u)
           tag == tags[u]
<1>1. S \in SUBSET {1, 2, 4, 8} /\ S # {}
  OBVIOUS
<1>2. u \in S /\ \A k \in S : u <= k
  BY <1>1, MinOfWidths, Zenon
<1>3. u \in DOMAIN tags /\ u \in {1, 2, 4}
  BY <1>2
<1>4. SizedHeader(tags, n) = <<tag>> \o f
  BY DEF SizedHeader
<1>5. \A k \in S : u <= k
  BY <1>2
<1>6. w \in S => u <= w
  BY <1>5
<1>7. w \in DOMAIN tags /\ n < Place[w] => w \in S
  OBVIOUS
<1> HIDE DEF S, u
<1>8. f \in [1 .. u -> Byte]
  BY <1>3, BigEndianBytes
<1>9. tag \in Byte /\ u \in 0 .. 8
  BY <1>3
<1> HIDE DEF f, tag
<1>10. Len(<<tag>> \o f) = 1 + u
  BY <1>8, <1>9, TagAndField
<1>11. w < u
  BY <1>3, <1>4, <1>10
<1>12. w # 4
  BY <1>3, <1>11
<1>13. n \in Nat /\ Place[1] \in Nat /\ Place[2] \in Nat
  BY Places, SMT DEF Lengths31
<1>14. ~(w \in DOMAIN tags /\ n < Place[w])
  BY <1>3, <1>6, <1>7, <1>11
<1>15. ASSUME w \in DOMAIN tags PROVE n >= Place[w]
  <2>1. w \in {1, 2}
    BY <1>12, <1>15
  <2>2. ~(n < Place[w])
    BY <1>14, <1>15
  <2> QED
    BY <1>13, <2>1, <2>2
<1> QED
  BY <1>12, <1>15

\* A number of w bytes is below 256^w.
LEMMA NumberBound ==
    ASSUME NEW w \in {1, 2}, NEW f \in [1 .. w -> Byte]
    PROVE  Number(f) \in Nat /\ Number(f) < Place[w]
<1>1. \A k \in 1 .. w : f[k] \in Nat /\ f[k] <= 255
  BY BytesAreNumbers
<1>2. CASE w = 1
  BY <1>1, <1>2, NumberOfBytes, Places
<1>3. CASE w = 2
  <2>1. Number(f) = 256 * f[1] + f[2]
    BY <1>3, NumberOfBytes
  <2>2. f[1] \in Nat /\ f[1] <= 255 /\ f[2] \in Nat /\ f[2] <= 255
    BY <1>1, <1>3
  <2>3. Place[w] = 65536
    BY <1>3, Places
  <2> QED
    BY <2>1, <2>2, <2>3, SMT
<1> QED
  BY <1>2, <1>3

LEMMA BegunField ==
    ASSUME NEW tag \in Byte, NEW w \in 0 .. 8, NEW f \in [1 .. w -> Byte]
    PROVE  LET b == Begun(<<tag>> \o f) IN b[0] = tag /\ Field(b, 1, w) = f
<1> DEFINE h == <<tag>> \o f
           b == Begun(h)
<1>1. /\ Len(h) = 1 + w
      /\ \A x : Begins(x, h) => x[0] = tag /\ Field(x, 1, w) = f
  BY TagAndField
<1> HIDE DEF h
<1>3. \A k \in 0 .. 17 : b[k] = IF k < Len(h) THEN h[k + 1] ELSE 0
  BY DEF Begun
<1> HIDE DEF b
<1>4. ASSUME NEW k \in 1 .. Len(h) PROVE b[k - 1] = h[k]
  <2>1. k - 1 \in 0 .. 17 /\ k - 1 < Len(h) /\ k - 1 + 1 = k
    BY <1>1
  <2> QED
    BY <1>3, <2>1
<1>5. Begins(b, h)
  BY <1>4, Zenon DEF Begins
<1> QED
  BY <1>1, <1>5 DEF b, h

\* What the tag of a decoded header says of its width.
LEMMA TagWidth ==
    ASSUME NEW tag \in Byte, NEW w \in {0, 1, 2, 4}, HeaderLength(tag) = w + 1
    PROVE  /\ tag \in DOMAIN Width => w # 0 /\ Width[tag] = w
           /\ tag \notin DOMAIN Width => w = 0
<1>1. /\ tag \in DOMAIN Width => Width[tag] \in {1, 2, 4, 8} /\ w + 1 = 1 + Width[tag]
      /\ tag \notin DOMAIN Width => w + 1 = 1
  BY Widths DEF HeaderLength
<1> QED
  BY <1>1

\* The tags of a kind of item.
LEMMA KindTags ==
    ASSUME NEW c \in Byte
    PROVE  /\ TagType(c) \in Integers =>
                c \in 0 .. 127 \/ c \in 224 .. 255 \/ c \in 204 .. 207 \/ c \in 208 .. 211
           /\ TagType(c) = CWP_ITEM_ARRAY => c \in FixArray \/ c \in ArrayTags
           /\ TagType(c) = CWP_ITEM_MAP => c \in FixMap \/ c \in MapTags
           /\ TagType(c) = CWP_ITEM_STR => c \in FixStr \/ c \in StrTags
           /\ TagType(c) = CWP_ITEM_BIN => c \in BinTags
<1>1. \/ c \in 0 .. 127 \/ c \in 224 .. 255 \/ c \in 204 .. 207 \/ c \in 208 .. 211
      \/ c \in FixMap \/ c \in MapTags \/ c \in FixArray \/ c \in ArrayTags
      \/ c \in FixStr \/ c \in StrTags \/ c \in BinTags
      \/ c \in Ext \cup FixExt \/ c \in {202, 203, 192, 194, 195, 193}
  BY SMT DEF Byte, FixStr, FixMap, FixArray, Ext, FixExt, MapTags, ArrayTags, StrTags,
             BinTags
<1>2. /\ c \in Ext \cup FixExt => TagType(c) = CWP_ITEM_EXT
      /\ c \in {202, 203, 192, 194, 195, 193} =>
            TagType(c) \in {CWP_ITEM_FLOAT, CWP_ITEM_DOUBLE, CWP_ITEM_NIL,
                            CWP_ITEM_BOOLEAN, CWP_NOT_AN_ITEM}
      /\ c \in 0 .. 127 \/ c \in 204 .. 207 => TagType(c) = CWP_ITEM_POSITIVE_INTEGER
      /\ c \in 224 .. 255 \/ c \in 208 .. 211 => TagType(c) = CWP_ITEM_NEGATIVE_INTEGER
      /\ c \in FixMap \/ c \in MapTags => TagType(c) = CWP_ITEM_MAP
      /\ c \in FixArray \/ c \in ArrayTags => TagType(c) = CWP_ITEM_ARRAY
      /\ c \in FixStr \/ c \in StrTags => TagType(c) = CWP_ITEM_STR
      /\ c \in BinTags => TagType(c) = CWP_ITEM_BIN
  BY TagTypes DEF MapTags, ArrayTags, StrTags, BinTags
<1> QED
  BY <1>1, <1>2 DEF Integers, CWP_ITEM_EXT, CWP_ITEM_FLOAT, CWP_ITEM_DOUBLE, CWP_ITEM_NIL,
     CWP_ITEM_BOOLEAN, CWP_NOT_AN_ITEM, CWP_ITEM_POSITIVE_INTEGER, CWP_ITEM_BIN,
     CWP_ITEM_NEGATIVE_INTEGER, CWP_ITEM_MAP, CWP_ITEM_ARRAY, CWP_ITEM_STR

\* One byte that is a number.
LEMMA OneByte ==
    ASSUME NEW c \in Byte, NEW v \in Word64
    PROVE  /\ c < 128 /\ ZeroExtended(<<c>>) = v =>
                FitsUnsigned(v, 1) /\ v[8] < 128 /\ ~Negative(v)
           /\ c >= 224 /\ SignExtended(<<c>>) = v =>
                FitsNegative(v, 1) /\ v[8] >= 224
<1> DEFINE f == <<c>>
<1>1. f \in [1 .. 1 -> Byte] /\ f[1] = c
  OBVIOUS
<1>2. Len(f) = 1
  OBVIOUS
<1>3. c \in Nat
  BY BytesAreNumbers
<1> HIDE DEF f
<1>4. 1 \in 0 .. 8 /\ 1 \in 1 .. 8 /\ 0 \in Byte
  BY SMT DEF Byte
<1>5. ASSUME c < 128, ZeroExtended(f) = v
      PROVE  FitsUnsigned(v, 1) /\ v[8] < 128 /\ ~Negative(v)
  <2>1. \A k \in 1 .. 8 : ZeroExtended(f)[k] = IF k <= 8 - 1 THEN 0 ELSE f[k - (8 - 1)]
    BY <1>1, <1>4, Extended DEF ZeroExtended
  <2>2. v[8] = c /\ \A k \in 1 .. 7 : v[k] = 0
    BY <1>1, <1>5, <2>1
  <2> QED
    BY <1>5, <2>2 DEF FitsUnsigned, Negative
<1>6. ASSUME c >= 224, SignExtended(f) = v
      PROVE  FitsNegative(v, 1) /\ v[8] >= 224
  <2>1. \A k \in 1 .. 8 : SignExtended(f)[k] =
            IF k <= 8 - 1 THEN (IF f[1] >= 128 THEN 255 ELSE 0) ELSE f[k - (8 - 1)]
    BY <1>1, <1>4, SignExtendedBytes
  <2>2. f[1] >= 128
    BY <1>1, <1>3, <1>6
  <2>3. v[8] = c /\ \A k \in 1 .. 7 : v[k] = 255
    BY <1>1, <1>6, <2>1, <2>2
  <2> QED
    BY <1>3, <1>6, <2>3 DEF FitsNegative
<1> QED
  BY <1>5, <1>6 DEF f

\* A header of an integer with the low bytes of v behind the tag: when it is v
\* to its reader, v goes into these bytes.
LEMMA DecodedInteger ==
    ASSUME NEW tag \in Byte, NEW w \in {0, 1, 2, 4}, HeaderLength(tag) = w + 1,
           TagType(tag) \in Integers, NEW v \in Word64,
           NEW i, i = Decoded(<<tag>> \o Low(v, w)), i.as = v
    PROVE  \/ w = 0 /\ FitsUnsigned(v, 1) /\ v[8] < 128 /\ ~Negative(v)
           \/ /\ i.type = CWP_ITEM_NEGATIVE_INTEGER
              /\ w = 0 /\ FitsNegative(v, 1) /\ v[8] >= 224
           \/ w # 0 /\ FitsUnsigned(v, w)
           \/ /\ i.type = CWP_ITEM_NEGATIVE_INTEGER
              /\ w # 0 /\ FitsNegative(v, w) /\ Negative(v)
<1> DEFINE f == Low(v, w)
           b == Begun(<<tag>> \o f)
<1>1. w \in 0 .. 8 /\ (w # 0 => w \in 1 .. 8)
  OBVIOUS
<1>2. f \in [1 .. w -> Byte]
  BY <1>1, LowBytes
<1>3. i = UnpackItem(b)
  BY DEF Decoded
<1>4. b[0] = tag /\ Field(b, 1, w) = f
  <2> HIDE DEF f
  <2> QED
    BY <1>1, <1>2, BegunField, ZenonT(30)
<1>5. /\ tag \in DOMAIN Width => w # 0 /\ Width[tag] = w
      /\ tag \notin DOMAIN Width => w = 0
  BY TagWidth
<1> HIDE DEF b
<1>6. /\ tag \in 0 .. 127 \/ tag \in 224 .. 255 => tag \notin DOMAIN Width
      /\ tag \in 204 .. 207 \/ tag \in 208 .. 211 => tag \in DOMAIN Width
  BY Widths, SMT
<1>7. CASE tag \in 0 .. 127
  <2>1. Reads(b, 1, 0, [type |-> CWP_ITEM_POSITIVE_INTEGER,
                        as |-> ZeroExtended(<<b[0]>>)])
    BY <1>4, <1>7, ReadSmall
  <2>2. ZeroExtended(<<tag>>) = v
    BY <1>3, <1>4, <2>1 DEF Reads
  <2>3. tag < 128
    BY <1>7
  <2> QED
    BY <1>5, <1>6, <1>7, <2>2, <2>3, OneByte
<1>8. CASE tag \in 224 .. 255
  <2>1. Reads(b, 1, 0, [type |-> CWP_ITEM_NEGATIVE_INTEGER,
                        as |-> SignExtended(<<b[0]>>)])
    BY <1>4, <1>8, ReadSmall
  <2>2. SignExtended(<<tag>>) = v /\ i.type = CWP_ITEM_NEGATIVE_INTEGER
    BY <1>3, <1>4, <2>1 DEF Reads
  <2>3. tag >= 224
    BY <1>8
  <2> QED
    BY <1>5, <1>6, <1>8, <2>2, <2>3, OneByte
<1>9. CASE tag \in 204 .. 207
  <2>0. b[0] \in Byte /\ b[0] \in DOMAIN Width /\ Width[b[0]] = w /\ w # 0
    BY <1>4, <1>5, <1>6, <1>9
  <2> HIDE DEF f
  <2>1. Reads(b, 1 + w, 0, [type |-> CWP_ITEM_POSITIVE_INTEGER, as |-> ZeroExtended(f)])
    BY <1>2, <1>4, <1>9, <2>0, ReadWide
  <2>2. ZeroExtended(f) = v
    BY <1>3, <2>1 DEF Reads
  <2>3. FitsUnsigned(v, w)
    BY <1>1, <2>2, ZeroExtendedLow DEF f
  <2> QED
    BY <2>0, <2>3
<1>10. CASE tag \in 208 .. 211
  <2>0. b[0] \in Byte /\ b[0] \in DOMAIN Width /\ Width[b[0]] = w /\ w # 0
    BY <1>4, <1>5, <1>6, <1>10
  <2> HIDE DEF f
  <2>1. UnpackItem(b).as = SignExtended(f)
    <3>1. Integer(b) = SignExtended(f)
      BY <1>4, <1>10, <2>0, SMT DEF Integer
    <3>2. TagType(b[0]) = CWP_ITEM_NEGATIVE_INTEGER
      BY <1>4, <1>10, TagTypes
    <3>3. /\ b[0] \notin FixStr \cup StrOrBin \cup Ext \cup FixExt \cup FixMap
          /\ b[0] \notin FixArray \cup Container \cup {194, 195, 202, 203}
      BY <1>4, <1>10 DEF FixStr, StrOrBin, Ext, FixExt, FixMap, FixArray, Container
    <3>4. UnpackItem(b).as = Integer(b)
      BY <3>2, <3>3 DEF UnpackItem
    <3> QED
      BY <3>1, <3>4
  <2>2. SignExtended(f) = v
    BY <1>3, <2>1
  <2>3. (FitsNegative(v, w) /\ Negative(v)) \/ FitsUnsigned(v, w)
    BY <1>1, <2>0, <2>2, SignExtendedLow DEF f
  <2>4. ASSUME Negative(v) PROVE i.type = CWP_ITEM_NEGATIVE_INTEGER
    <3>1. Reads(b, 1 + w, 0, [type |-> CWP_ITEM_NEGATIVE_INTEGER,
                              as |-> SignExtended(f)])
      BY <1>2, <1>4, <1>10, <2>0, <2>2, <2>4, ReadWide
    <3> QED
      BY <1>3, <3>1 DEF Reads
  <2> QED
    BY <2>0, <2>3, <2>4
<1> QED
  BY <1>7, <1>8, <1>9, <1>10, KindTags

LEMMA SizeTags ==
    /\ \A c \in FixArray \cup FixMap \cup FixStr : c \notin DOMAIN Width
    /\ \A c \in ArrayTags \cup MapTags \cup StrTags \cup BinTags : c \in DOMAIN Width
    /\ \A c \in ArrayTags \cup MapTags : Width[c] # 1
<1>1. /\ DOMAIN Width = 196 .. 211 \cup 217 .. 223
      /\ Width[220] = 2 /\ Width[222] = 2 /\ Width[221] = 4 /\ Width[223] = 4
  BY Widths
<1> QED
  BY <1>1, SMT DEF FixArray, FixMap, FixStr, ArrayTags, MapTags, StrTags, BinTags

\* The same for a size or length: it is below 256^w.
LEMMA DecodedSize ==
    ASSUME NEW tag \in Byte, NEW w \in {0, 1, 2}, HeaderLength(tag) = w + 1,
           NEW f \in [1 .. w -> Byte], NEW i, i = Decoded(<<tag>> \o f)
    PROVE  /\ TagType(tag) = CWP_ITEM_ARRAY =>
                (w = 0 /\ i.as < 16) \/ (w = 2 /\ i.as < Place[2])
           /\ TagType(tag) = CWP_ITEM_MAP =>
                (w = 0 /\ i.as < 16) \/ (w = 2 /\ i.as < Place[2])
           /\ TagType(tag) = CWP_ITEM_STR =>
                (w = 0 /\ i.as.length < 32) \/ (w \in {1, 2} /\ i.as.length < Place[w])
           /\ TagType(tag) = CWP_ITEM_BIN => w \in {1, 2} /\ i.as.length < Place[w]
<1> DEFINE b == Begun(<<tag>> \o f)
<1>1. w \in 0 .. 8 /\ w \in {0, 1, 2, 4}
  OBVIOUS
<1>3. i = UnpackItem(b)
  BY DEF Decoded
<1>4. b[0] = tag /\ Field(b, 1, w) = f
  BY <1>1, BegunField
<1>5. /\ tag \in DOMAIN Width => w # 0 /\ Width[tag] = w
      /\ tag \notin DOMAIN Width => w = 0
  BY <1>1, TagWidth
<1> HIDE DEF b
<1>6. /\ tag \in FixArray \/ tag \in FixMap \/ tag \in FixStr => tag \notin DOMAIN Width
      /\ tag \in ArrayTags \/ tag \in MapTags \/ tag \in StrTags \/ tag \in BinTags =>
            tag \in DOMAIN Width
  BY SizeTags
<1>7. tag \in ArrayTags \/ tag \in MapTags => Width[tag] # 1
  BY SizeTags
<1>8. tag \in DOMAIN Width => Number(f) < Place[w] /\ w \in {1, 2}
  BY <1>5, NumberBound
<1>9. ASSUME tag \in DOMAIN Width
      PROVE  b[0] \in Byte /\ b[0] \in DOMAIN Width /\ Width[b[0]] = w
  BY <1>4, <1>5, <1>9
<1>10. CASE tag \in FixArray
  <2>1. Reads(b, 1, b[0] - 144, [type |-> CWP_ITEM_ARRAY, as |-> b[0] - 144])
    BY <1>4, <1>10, ReadSmall
  <2>2. i.as = tag - 144
    BY <1>3, <1>4, <2>1 DEF Reads
  <2>3. tag - 144 < 16
    BY <1>10 DEF FixArray
  <2>4. TagType(tag) = CWP_ITEM_ARRAY
    BY <1>10, TagTypes
  <2> QED
    BY <1>5, <1>6, <1>10, <2>2, <2>3, <2>4
       DEF CWP_ITEM_ARRAY, CWP_ITEM_MAP, CWP_ITEM_STR, CWP_ITEM_BIN
<1>11. CASE tag \in FixMap
  <2>1. Reads(b, 1, 2 * (b[0] - 128), [type |-> CWP_ITEM_MAP, as |-> b[0] - 128])
    BY <1>4, <1>11, ReadSmall
  <2>2. i.as = tag - 128
    BY <1>3, <1>4, <2>1 DEF Reads
  <2>3. tag - 128 < 16
    BY <1>11 DEF FixMap
  <2>4. TagType(tag) = CWP_ITEM_MAP
    BY <1>11, TagTypes
  <2> QED
    BY <1>5, <1>6, <1>11, <2>2, <2>3, <2>4
       DEF CWP_ITEM_ARRAY, CWP_ITEM_MAP, CWP_ITEM_STR, CWP_ITEM_BIN
<1>12. CASE tag \in FixStr
  <2>1. Reads(b, 1 + (b[0] - 160), 0,
              [type |-> CWP_ITEM_STR, as |-> [length |-> b[0] - 160, start |-> 1]])
    BY <1>4, <1>12, ReadSmall
  <2>2. i.as.length = tag - 160
    BY <1>3, <1>4, <2>1 DEF Reads
  <2>3. tag - 160 < 32
    BY <1>12 DEF FixStr
  <2>4. TagType(tag) = CWP_ITEM_STR
    BY <1>12, TagTypes
  <2> QED
    BY <1>5, <1>6, <1>12, <2>2, <2>3, <2>4
       DEF CWP_ITEM_ARRAY, CWP_ITEM_MAP, CWP_ITEM_STR, CWP_ITEM_BIN
<1>13. CASE tag \in ArrayTags \/ tag \in MapTags
  <2>1. i.as = Number(f)
    <3>1. CASE tag \in ArrayTags
      <4>1. Reads(b, 1 + w, Number(f), [type |-> CWP_ITEM_ARRAY, as |-> Number(f)])
        BY <1>4, <1>6, <1>9, <3>1, ReadWide
      <4> QED
        BY <1>3, <4>1 DEF Reads
    <3>2. CASE tag \in MapTags
      <4>1. Reads(b, 1 + w, 2 * Number(f), [type |-> CWP_ITEM_MAP, as |-> Number(f)])
        BY <1>4, <1>6, <1>9, <3>2, ReadWide
      <4> QED
        BY <1>3, <4>1 DEF Reads
    <3> QED
      BY <1>13, <3>1, <3>2
  <2>2. w = 2 /\ i.as < Place[2]
    BY <1>5, <1>6, <1>7, <1>8, <1>13, <2>1
  <2>3. TagType(tag) = CWP_ITEM_ARRAY \/ TagType(tag) = CWP_ITEM_MAP
    BY <1>13, TagTypes DEF ArrayTags, MapTags
  <2> QED
    BY <2>2, <2>3 DEF CWP_ITEM_ARRAY, CWP_ITEM_MAP, CWP_ITEM_STR, CWP_ITEM_BIN
<1>14. CASE tag \in StrTags \/ tag \in BinTags
  <2>1. i.as.length = Number(f)
    <3>1. CASE tag \in StrTags
      <4>1. Reads(b, 1 + w + Number(f), 0,
                  [type |-> CWP_ITEM_STR,
                   as |-> [length |-> Number(f), start |-> 1 + w]])
        BY <1>4, <1>6, <1>9, <3>1, ReadWide
      <4> QED
        BY <1>3, <4>1 DEF Reads
    <3>2. CASE tag \in BinTags
      <4>1. Reads(b, 1 + w + Number(f), 0,
                  [type |-> CWP_ITEM_BIN,
                   as |-> [length |-> Number(f), start |-> 1 + w]])
        BY <1>4, <1>6, <1>9, <3>2, ReadWide
      <4> QED
        BY <1>3, <4>1 DEF Reads
    <3> QED
      BY <1>14, <3>1, <3>2
  <2>2. w \in {1, 2} /\ i.as.length < Place[w]
    BY <1>6, <1>8, <1>14, <2>1
  <2>3. TagType(tag) = CWP_ITEM_STR \/ TagType(tag) = CWP_ITEM_BIN
    BY <1>14, TagTypes DEF StrTags, BinTags
  <2> QED
    BY <2>2, <2>3 DEF CWP_ITEM_ARRAY, CWP_ITEM_MAP, CWP_ITEM_STR, CWP_ITEM_BIN
<1> QED
  BY <1>10, <1>11, <1>12, <1>13, <1>14, KindTags

\* What the items whose digits a header spells out are.
LEMMA SpeltOut ==
    ASSUME NEW k, NEW call \in PackingCalls, sent[k].call = call, ~sent[k].be_compatible,
           NEW m, m = Meaning(k)
    PROVE  /\ call.op = "unsigned" => m = [type |-> CWP_ITEM_POSITIVE_INTEGER, as |-> call.v]
           /\ call.op = "signed" =>
                m = [type |-> IF Negative(call.v) THEN CWP_ITEM_NEGATIVE_INTEGER
                                                  ELSE CWP_ITEM_POSITIVE_INTEGER,
                     as |-> call.v]
           /\ call.op = "array_size" => m = [type |-> CWP_ITEM_ARRAY, as |-> call.n]
           /\ call.op = "map_size" => m = [type |-> CWP_ITEM_MAP, as |-> call.n]
           /\ call.op = "str" => m.type = CWP_ITEM_STR /\ m.as.length = call.l
           /\ call.op = "bin" => m.type = CWP_ITEM_BIN /\ m.as.length = call.l
<1>1. sent[k].call = call /\ m = Meaning(k)
  OBVIOUS
<1>2. call.op = "unsigned" => m = [type |-> CWP_ITEM_POSITIVE_INTEGER, as |-> call.v]
  BY <1>1, Zenon DEF Meaning, NumericExtension
<1>3. call.op = "signed" =>
         m = [type |-> IF Negative(call.v) THEN CWP_ITEM_NEGATIVE_INTEGER
                                           ELSE CWP_ITEM_POSITIVE_INTEGER,
              as |-> call.v]
  BY <1>1, Zenon DEF Meaning, NumericExtension
<1>4. call.op = "array_size" => m = [type |-> CWP_ITEM_ARRAY, as |-> call.n]
  BY <1>1, Zenon DEF Meaning, NumericExtension
<1>5. call.op = "map_size" => m = [type |-> CWP_ITEM_MAP, as |-> call.n]
  BY <1>1, Zenon DEF Meaning, NumericExtension
<1>6. call.op = "str" => m = Blobbed(CWP_ITEM_STR, k, call.l)
  BY <1>1, Zenon DEF Meaning, NumericExtension
<1>7. call.op = "bin" => m = Blobbed(CWP_ITEM_BIN, k, call.l)
  BY <1>1, SMT DEF Meaning, NumericExtension
<1>8. call.op = "str" => m.type = CWP_ITEM_STR /\ m.as.length = call.l
  BY <1>6 DEF Blobbed
<1>9. call.op = "bin" => m.type = CWP_ITEM_BIN /\ m.as.length = call.l
  BY <1>7 DEF Blobbed
<1> QED
  BY <1>2, <1>3, <1>4, <1>5, <1>8, <1>9

\* An integer in fewer bytes is another one.
LEMMA NoShorterInteger ==
    ASSUME NEW v \in Word64, NEW header,
           NEW m, m.as = v,
           \/ m.type = CWP_ITEM_POSITIVE_INTEGER /\ header = cw_pack_unsigned(v).header
           \/ /\ m.type = CWP_ITEM_NEGATIVE_INTEGER /\ Negative(v)
              /\ header = cw_pack_signed(v).header,
           NEW w \in {0, 1, 2, 4}, w + 1 < Len(header),
           NEW tag \in Byte, TagType(tag) \in Integers, HeaderLength(tag) = w + 1
    PROVE  ~Same(Decoded(<<tag>> \o Low(v, w)), m)
<1> SUFFICES ASSUME NEW i, i = Decoded(<<tag>> \o Low(v, w)), Same(i, m)
             PROVE  FALSE
  OBVIOUS
<1>1. CWP_ITEM_POSITIVE_INTEGER # CWP_ITEM_NEGATIVE_INTEGER
      /\ m.type \notin {CWP_ITEM_STR, CWP_ITEM_BIN}
  BY DEF CWP_ITEM_POSITIVE_INTEGER, CWP_ITEM_NEGATIVE_INTEGER, CWP_ITEM_STR, CWP_ITEM_BIN
<1>2. i.type = m.type /\ i.as = v
  BY <1>1 DEF Same
<1>3. \/ w = 0 /\ FitsUnsigned(v, 1) /\ v[8] < 128 /\ ~Negative(v)
      \/ /\ i.type = CWP_ITEM_NEGATIVE_INTEGER
         /\ w = 0 /\ FitsNegative(v, 1) /\ v[8] >= 224
      \/ w # 0 /\ FitsUnsigned(v, w)
      \/ /\ i.type = CWP_ITEM_NEGATIVE_INTEGER
         /\ w # 0 /\ FitsNegative(v, w) /\ Negative(v)
  BY <1>2, DecodedInteger
<1>4. CASE m.type = CWP_ITEM_POSITIVE_INTEGER /\ header = cw_pack_unsigned(v).header
  <2>1. /\ ~(FitsUnsigned(v, 1) /\ v[8] < 128)
        /\ w # 0 => ~FitsUnsigned(v, w)
    BY <1>4, LongUnsigned
  <2> QED
    BY <1>1, <1>2, <1>3, <1>4, <2>1, Zenon
<1>5. CASE /\ m.type = CWP_ITEM_NEGATIVE_INTEGER /\ Negative(v)
           /\ header = cw_pack_signed(v).header
  <2>1. /\ ~(FitsNegative(v, 1) /\ v[8] >= 224)
        /\ w # 0 => ~FitsNegative(v, w)
    BY <1>5, LongSigned
  <2>2. ~FitsUnsigned(v, w)
    <3>1. 1 \in 1 .. 8 - w /\ ~(0 >= 128)
      OBVIOUS
    <3> QED
      BY <1>5, <3>1 DEF FitsUnsigned, Negative
  <2> QED
    BY <1>3, <1>5, <2>1, <2>2, Zenon
<1> QED
  BY <1>4, <1>5

\* A size or a length in fewer bytes is another one.
LEMMA NoShorterSize ==
    ASSUME NEW n \in Lengths31, NEW size, NEW header, NEW least \in {0, 16, 32},
           NEW tags, DOMAIN tags \subseteq {1, 2, 4}, 4 \in DOMAIN tags,
           \A k \in DOMAIN tags : tags[k] \in Byte,
           n < least => Len(header) = 1,
           ~(n < least) => header = SizedHeader(tags, n),
           NEW w \in {0, 1, 2, 4}, w + 1 < Len(header),
           w # 4 => \/ w = 0 /\ size < least
                    \/ w \in DOMAIN tags /\ w \in {1, 2} /\ size < Place[w]
    PROVE  size # n
<1>1. n \in Nat
  BY DEF Lengths31
<1>2. ~(n < least)
  <2>1. ASSUME n < least PROVE FALSE
    <3>1. Len(header) = 1
      BY <2>1
    <3>2. w + 1 < 1
      BY <3>1, Zenon
    <3> QED
      BY <3>2
  <2> QED
    BY <2>1
<1>3. w + 1 < Len(SizedHeader(tags, n))
  BY <1>2
<1>4. w # 4 /\ (w \in DOMAIN tags => n >= Place[w])
  BY <1>3, LongSized
<1>5. CASE w = 0 /\ size < least
  BY <1>2, <1>5
<1>6. CASE w \in DOMAIN tags /\ w \in {1, 2} /\ size < Place[w]
  <2>1. Place[w] \in Nat
    BY <1>6, Places
  <2>2. n >= Place[w]
    BY <1>4, <1>6
  <2>3. ~(n < Place[w])
    BY <1>1, <2>1, <2>2
  <2> QED
    BY <1>6, <2>3
<1> QED
  BY <1>4, <1>5, <1>6

LEMMA SizeHeaders ==
    ASSUME NEW n \in Lengths31
    PROVE  /\ LET h == cw_pack_array_size(n).header
              IN  /\ n < 16 => Len(h) = 1
                  /\ ~(n < 16) => h = SizedHeader(ArrayTag, n)
           /\ LET h == cw_pack_map_size(n).header
              IN  /\ n < 16 => Len(h) = 1
                  /\ ~(n < 16) => h = SizedHeader(MapTag, n)
           /\ LET h == cw_pack_str(n, FALSE).header
              IN  /\ n < 32 => Len(h) = 1
                  /\ ~(n < 32) => h = SizedHeader(StrTag, n)
           /\ cw_pack_bin(n, FALSE).header = SizedHeader(BinTag, n)
<1>1. \A x : Len(<<x>>) = 1
  OBVIOUS
<1>2. LET h == cw_pack_array_size(n).header
      IN  (n < 16 => Len(h) = 1) /\ (~(n < 16) => h = SizedHeader(ArrayTag, n))
  BY <1>1, EncodedHeader, ZenonT(30) DEF cw_pack_array_size
<1>3. LET h == cw_pack_map_size(n).header
      IN  (n < 16 => Len(h) = 1) /\ (~(n < 16) => h = SizedHeader(MapTag, n))
  BY <1>1, EncodedHeader, ZenonT(30) DEF cw_pack_map_size
<1>4. LET h == cw_pack_str(n, FALSE).header
      IN  (n < 32 => Len(h) = 1) /\ (~(n < 32) => h = SizedHeader(StrTag, n))
  <2> DEFINE tags == [w \in DOMAIN StrTag \ (IF FALSE THEN {1} ELSE {}) |-> StrTag[w]]
  <2>1. tags = StrTag
    BY DEF StrTag
  <2>2. cw_pack_str(n, FALSE) =
           Encoded(IF n < 32 THEN <<160 + n>> ELSE SizedHeader(tags, n), n)
    BY DEF cw_pack_str
  <2> HIDE DEF tags
  <2>3. cw_pack_str(n, FALSE).header =
           IF n < 32 THEN <<160 + n>> ELSE SizedHeader(tags, n)
    BY <2>2, EncodedHeader, Zenon
  <2>4. n < 32 => Len(cw_pack_str(n, FALSE).header) = 1
    BY <1>1, <2>3, Zenon
  <2>5. ~(n < 32) => cw_pack_str(n, FALSE).header = SizedHeader(StrTag, n)
    BY <2>1, <2>3, Zenon
  <2> QED
    BY <2>4, <2>5, Zenon
<1>5. cw_pack_bin(n, FALSE).header = SizedHeader(BinTag, n)
  BY EncodedHeader, Zenon DEF cw_pack_bin
<1> QED
  BY <1>2, <1>3, <1>4, <1>5

LEMMA SizingTags ==
    /\ DOMAIN ArrayTag = {2, 4} /\ \A k \in DOMAIN ArrayTag : ArrayTag[k] \in Byte
    /\ DOMAIN MapTag = {2, 4} /\ \A k \in DOMAIN MapTag : MapTag[k] \in Byte
    /\ DOMAIN StrTag = {1, 2, 4} /\ \A k \in DOMAIN StrTag : StrTag[k] \in Byte
    /\ DOMAIN BinTag = {1, 2, 4} /\ \A k \in DOMAIN BinTag : BinTag[k] \in Byte
BY SMT DEF ArrayTag, MapTag, StrTag, BinTag, Byte

\* No shorter header than the one packed is the same item to a reader.
LEMMA NoShorter ==
    ASSUME NEW k, PackedItem(k), ~sent[k].be_compatible,
           sent[k].call.op \in {"unsigned", "signed", "array_size", "map_size",
                                "str", "bin"},
           NEW w \in {0, 1, 2, 4}, w + 1 < Len(wire[k].header),
           NEW tag \in Byte, SameKind(TagType(tag), Meaning(k).type),
           HeaderLength(tag) = w + 1
    PROVE  ~Same(Decoded(<<tag>> \o Low(Digits(sent[k].call), w)), Meaning(k))
<1>1. PICK call \in PackingCalls, c \in BOOLEAN :
        LET e == EncodeAny(call, c)
        IN  /\ sent[k] = [call |-> call, be_compatible |-> c]
            /\ e.rc = CWP_RC_OK
            /\ wire[k] = [header |-> e.header, payload |-> e.payload]
  BY DEF PackedItem
<1>2. /\ sent[k].call = call /\ c = FALSE
      /\ wire[k].header = EncodeAny(call, FALSE).header
  <2>1. /\ sent[k] = [call |-> call, be_compatible |-> c]
        /\ wire[k] = [header |-> EncodeAny(call, c).header,
                      payload |-> EncodeAny(call, c).payload]
    BY <1>1, Zenon
  <2>2. sent[k].call = call /\ sent[k].be_compatible = c
    BY <2>1
  <2>3. c = FALSE
    BY <2>2, Zenon
  <2>4. wire[k].header = EncodeAny(call, c).header
    BY <2>1
  <2> QED
    BY <2>2, <2>3, <2>4, Zenon
<1>3. PICK m : m = Meaning(k)
  OBVIOUS
<1>4. /\ call.op = "unsigned" => m = [type |-> CWP_ITEM_POSITIVE_INTEGER, as |-> call.v]
      /\ call.op = "signed" =>
            m = [type |-> IF Negative(call.v) THEN CWP_ITEM_NEGATIVE_INTEGER
                                              ELSE CWP_ITEM_POSITIVE_INTEGER,
                 as |-> call.v]
      /\ call.op = "array_size" => m = [type |-> CWP_ITEM_ARRAY, as |-> call.n]
      /\ call.op = "map_size" => m = [type |-> CWP_ITEM_MAP, as |-> call.n]
      /\ call.op = "str" => m.type = CWP_ITEM_STR /\ m.as.length = call.l
      /\ call.op = "bin" => m.type = CWP_ITEM_BIN /\ m.as.length = call.l
  BY <1>2, <1>3, SpeltOut
<1>5. PICK h : h = wire[k].header
  OBVIOUS
<1>6. w + 1 < Len(h)
  BY <1>5
<1>7. m.type \in Integers => TagType(tag) \in Integers
  BY <1>3 DEF SameKind
<1>8. m.type \notin Integers => TagType(tag) = m.type
  BY <1>3 DEF SameKind
<1>9. CASE call.op \in {"unsigned", "signed"}
  <2>1. call.v \in Word64
    BY <1>9, CallArguments
  <2>2. Digits(call) = call.v
    BY <1>9, Zenon DEF Digits
  <2>3. \/ m.type = CWP_ITEM_POSITIVE_INTEGER /\ h = cw_pack_unsigned(call.v).header
        \/ /\ m.type = CWP_ITEM_NEGATIVE_INTEGER /\ Negative(call.v)
           /\ h = cw_pack_signed(call.v).header
    <3>1. CASE call.op = "unsigned"
      <4>1. EncodeAny(call, FALSE) = cw_pack_unsigned(call.v)
        BY <3>1 DEF EncodeAny, Encode
      <4>2. h = cw_pack_unsigned(call.v).header
        BY <1>2, <1>5, <4>1, Zenon
      <4>3. m.type = CWP_ITEM_POSITIVE_INTEGER
        BY <1>4, <3>1
      <4> QED
        BY <4>2, <4>3, Zenon
    <3>2. CASE call.op = "signed"
      <4>1. EncodeAny(call, FALSE) = cw_pack_signed(call.v)
        BY <3>2 DEF EncodeAny, Encode
      <4>2. CASE Negative(call.v)
        <5>1. h = cw_pack_signed(call.v).header
          BY <1>2, <1>5, <4>1, Zenon
        <5>2. m.type = CWP_ITEM_NEGATIVE_INTEGER
          BY <1>4, <3>2, <4>2
        <5> QED
          BY <4>2, <5>1, <5>2, Zenon
      <4>3. CASE ~Negative(call.v)
        <5>1. cw_pack_signed(call.v) = cw_pack_unsigned(call.v)
          BY <4>3 DEF cw_pack_signed
        <5>2. h = cw_pack_unsigned(call.v).header
          BY <1>2, <1>5, <4>1, <5>1, Zenon
        <5>3. m.type = CWP_ITEM_POSITIVE_INTEGER
          BY <1>4, <3>2, <4>3
        <5> QED
          BY <5>2, <5>3, Zenon
      <4> QED
        BY <4>2, <4>3
    <3> QED
      BY <1>9, <3>1, <3>2
  <2>4. m.as = call.v /\ m.type \in Integers
    <3>1. m.as = call.v
      BY <1>4, <1>9
    <3> QED
      BY <2>3, <3>1 DEF Integers
  <2>5. TagType(tag) \in Integers
    BY <1>7, <2>4
  <2>6. ~Same(Decoded(<<tag>> \o Low(call.v, w)), m)
    BY <1>6, <2>1, <2>3, <2>4, <2>5, NoShorterInteger
  <2> QED
    BY <1>2, <1>3, <2>2, <2>6, Zenon
<1>10. CASE call.op \in {"array_size", "map_size", "str", "bin"}
  <2> DEFINE n == IF call.op \in {"array_size", "map_size"} THEN call.n ELSE call.l
             f == Low(Digits(call), w)
             i == Decoded(<<tag>> \o f)
             size == IF call.op \in {"array_size", "map_size"} THEN i.as ELSE i.as.length
  <2>1. n \in Lengths31
    BY <1>10, CallArguments
  <2>2. Digits(call) = ZeroExtended(BigEndian(n, 4))
    <3>1. CASE call.op \in {"array_size", "map_size"}
      BY <3>1, Zenon DEF Digits
    <3>2. CASE call.op \in {"str", "bin"}
      <4>1. call.op \notin {"array_size", "map_size"}
        BY <3>2
      <4> QED
        BY <3>2, <4>1, Zenon DEF Digits
    <3> QED
      BY <1>10, <3>1, <3>2
  <2>3. f \in [1 .. w -> Byte]
    <3> HIDE DEF n
    <3>1. BigEndian(n, 4) \in [1 .. 4 -> Byte]
      BY <2>1, BigEndianBytes
    <3>2. 4 \in 0 .. 8 /\ 0 \in Byte /\ w \in 0 .. 8
      BY SMT DEF Byte
    <3>3. ZeroExtended(BigEndian(n, 4)) \in Word64
      BY <3>1, <3>2, Extended DEF ZeroExtended
    <3> QED
      BY <2>2, <3>2, <3>3, LowBytes
  <2>4. Same(i, m) => size = n
    <3>1. CASE call.op \in {"array_size", "map_size"}
      BY <1>4, <3>1 DEF Same, CWP_ITEM_ARRAY, CWP_ITEM_MAP, CWP_ITEM_STR, CWP_ITEM_BIN
    <3>2. CASE call.op \in {"str", "bin"}
      BY <1>4, <3>2 DEF Same
    <3> QED
      BY <1>10, <3>1, <3>2
  <2>5. TagType(tag) = m.type
    BY <1>4, <1>8, <1>10 DEF Integers, CWP_ITEM_POSITIVE_INTEGER,
       CWP_ITEM_NEGATIVE_INTEGER, CWP_ITEM_ARRAY, CWP_ITEM_MAP, CWP_ITEM_STR, CWP_ITEM_BIN
  <2>6. PICK j : j = i
    OBVIOUS
  <2>7. w # 4 =>
          /\ TagType(tag) = CWP_ITEM_ARRAY =>
               (w = 0 /\ j.as < 16) \/ (w = 2 /\ j.as < Place[2])
          /\ TagType(tag) = CWP_ITEM_MAP =>
               (w = 0 /\ j.as < 16) \/ (w = 2 /\ j.as < Place[2])
          /\ TagType(tag) = CWP_ITEM_STR =>
               (w = 0 /\ j.as.length < 32) \/ (w \in {1, 2} /\ j.as.length < Place[w])
          /\ TagType(tag) = CWP_ITEM_BIN => w \in {1, 2} /\ j.as.length < Place[w]
    <3> SUFFICES ASSUME w # 4
                 PROVE  /\ TagType(tag) = CWP_ITEM_ARRAY =>
                             (w = 0 /\ j.as < 16) \/ (w = 2 /\ j.as < Place[2])
                        /\ TagType(tag) = CWP_ITEM_MAP =>
                             (w = 0 /\ j.as < 16) \/ (w = 2 /\ j.as < Place[2])
                        /\ TagType(tag) = CWP_ITEM_STR =>
                             \/ w = 0 /\ j.as.length < 32
                             \/ w \in {1, 2} /\ j.as.length < Place[w]
                        /\ TagType(tag) = CWP_ITEM_BIN =>
                             w \in {1, 2} /\ j.as.length < Place[w]
      OBVIOUS
    <3>1. w \in {0, 1, 2}
      OBVIOUS
    <3>2. j = Decoded(<<tag>> \o f)
      BY <2>6
    <3> HIDE DEF f, i
    <3> QED
      BY <2>3, <3>1, <3>2, DecodedSize
  <2> HIDE DEF f, i
  <2>8. size # n
    <3>1. CASE call.op = "array_size"
      <4>1. EncodeAny(call, FALSE) = cw_pack_array_size(call.n)
        BY <3>1 DEF EncodeAny, Encode
      <4>2. n = call.n /\ size = j.as /\ m.type = CWP_ITEM_ARRAY
        BY <1>4, <2>6, <3>1
      <4>3. h = cw_pack_array_size(n).header
        BY <1>2, <1>5, <4>1, <4>2, Zenon
      <4> HIDE DEF n, size
      <4>4. (n < 16 => Len(h) = 1) /\ (~(n < 16) => h = SizedHeader(ArrayTag, n))
        BY <2>1, <4>3, SizeHeaders
      <4>5. w # 4 => \/ w = 0 /\ size < 16
                     \/ w \in DOMAIN ArrayTag /\ w \in {1, 2} /\ size < Place[w]
        BY <2>5, <2>7, <4>2, SizingTags
      <4>6. /\ 16 \in {0, 16, 32} /\ DOMAIN ArrayTag \subseteq {1, 2, 4}
            /\ 4 \in DOMAIN ArrayTag /\ \A x \in DOMAIN ArrayTag : ArrayTag[x] \in Byte
        BY SizingTags
      <4> QED
        BY <1>6, <2>1, <4>4, <4>5, <4>6, NoShorterSize
    <3>2. CASE call.op = "map_size"
      <4>1. EncodeAny(call, FALSE) = cw_pack_map_size(call.n)
        BY <3>2 DEF EncodeAny, Encode
      <4>2. n = call.n /\ size = j.as /\ m.type = CWP_ITEM_MAP
        BY <1>4, <2>6, <3>2
      <4>3. h = cw_pack_map_size(n).header
        BY <1>2, <1>5, <4>1, <4>2, Zenon
      <4> HIDE DEF n, size
      <4>4. (n < 16 => Len(h) = 1) /\ (~(n < 16) => h = SizedHeader(MapTag, n))
        BY <2>1, <4>3, SizeHeaders
      <4>5. w # 4 => \/ w = 0 /\ size < 16
                     \/ w \in DOMAIN MapTag /\ w \in {1, 2} /\ size < Place[w]
        BY <2>5, <2>7, <4>2, SizingTags
      <4>6. /\ 16 \in {0, 16, 32} /\ DOMAIN MapTag \subseteq {1, 2, 4}
            /\ 4 \in DOMAIN MapTag /\ \A x \in DOMAIN MapTag : MapTag[x] \in Byte
        BY SizingTags
      <4> QED
        BY <1>6, <2>1, <4>4, <4>5, <4>6, NoShorterSize
    <3>3. CASE call.op = "str"
      <4>1. EncodeAny(call, FALSE) = cw_pack_str(call.l, FALSE)
        BY <3>3 DEF EncodeAny, Encode
      <4>2. n = call.l /\ size = j.as.length /\ m.type = CWP_ITEM_STR
        BY <1>4, <2>6, <3>3
      <4>3. h = cw_pack_str(n, FALSE).header
        BY <1>2, <1>5, <4>1, <4>2, Zenon
      <4> HIDE DEF n, size
      <4>4. (n < 32 => Len(h) = 1) /\ (~(n < 32) => h = SizedHeader(StrTag, n))
        BY <2>1, <4>3, SizeHeaders
      <4>5. w # 4 => \/ w = 0 /\ size < 32
                     \/ w \in DOMAIN StrTag /\ w \in {1, 2} /\ size < Place[w]
        BY <2>5, <2>7, <4>2, SizingTags
      <4>6. /\ 32 \in {0, 16, 32} /\ DOMAIN StrTag \subseteq {1, 2, 4}
            /\ 4 \in DOMAIN StrTag /\ \A x \in DOMAIN StrTag : StrTag[x] \in Byte
        BY SizingTags
      <4> QED
        BY <1>6, <2>1, <4>4, <4>5, <4>6, NoShorterSize
    <3>4. CASE call.op = "bin"
      <4>1. EncodeAny(call, FALSE) = cw_pack_bin(call.l, FALSE)
        BY <3>4 DEF EncodeAny, Encode
      <4>2. n = call.l /\ size = j.as.length /\ m.type = CWP_ITEM_BIN
        BY <1>4, <2>6, <3>4
      <4>3. h = cw_pack_bin(n, FALSE).header
        BY <1>2, <1>5, <4>1, <4>2, Zenon
      <4> HIDE DEF n, size
      <4>4. h = SizedHeader(BinTag, n) /\ ~(n < 0)
        <5>1. ~(n < 0)
          BY <2>1 DEF Lengths31
        <5> QED
          BY <2>1, <4>3, <5>1, SizeHeaders
      <4>5. w # 4 => w \in DOMAIN BinTag /\ w \in {1, 2} /\ size < Place[w]
        BY <2>5, <2>7, <4>2, SizingTags
      <4>6. /\ 0 \in {0, 16, 32} /\ DOMAIN BinTag \subseteq {1, 2, 4}
            /\ 4 \in DOMAIN BinTag /\ \A x \in DOMAIN BinTag : BinTag[x] \in Byte
        BY SizingTags
      <4> QED
        BY <1>6, <2>1, <4>4, <4>5, <4>6, NoShorterSize, SMTT(30)
    <3> QED
      BY <1>10, <3>1, <3>2, <3>3, <3>4
  <2>9. ~Same(i, m)
    BY <2>4, <2>8
  <2> QED
    BY <1>2, <1>3, <2>9, Zenon DEF i, f
<1> QED
  BY <1>2, <1>9, <1>10

\* What the library packs, outside compatibility mode, it packs in the shortest
\* of the formats MessagePack has for it.
THEOREM CodecNoShorterForm == Spec => []NoShorterForm
<1>1. IInv => NoShorterForm
  <2> SUFFICES ASSUME IInv, NEW k \in DOMAIN sent, ~sent[k].be_compatible,
                      sent[k].call.op \in {"unsigned", "signed", "array_size",
                                           "map_size", "str", "bin"},
                      NEW w \in {0, 1, 2, 4}, w + 1 < Len(wire[k].header),
                      NEW tag \in Byte, SameKind(TagType(tag), Meaning(k).type),
                      HeaderLength(tag) = w + 1
               PROVE  ~Same(Decoded(<<tag>> \o Low(Digits(sent[k].call), w)), Meaning(k))
    BY DEF NoShorterForm
  <2>1. PackedItem(k) \/ ForeignItem(k)
    BY DEF IInv, WireSound
  <2>2. ~ForeignItem(k)
    <3>1. ForeignItem(k) => sent[k].call.op = "foreign"
      BY DEF ForeignItem
    <3> QED
      BY <3>1
  <2> QED
    BY <2>1, <2>2, NoShorter
<1> QED
  BY <1>1, CodecInvariant, PTL
===============================================================================
