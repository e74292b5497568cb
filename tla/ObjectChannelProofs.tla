-------------------------- MODULE ObjectChannelProofs ---------------------------
(***************************************************************************)
(* Proofs about the labels and the announced sizes in a stream of objects, *)
(* for every set of objects and heaps, whatever the client packs and in    *)
(* whichever order it switches labels on and off; and that the unpacker    *)
(* reads what was packed and nothing else.                                 *)
(***************************************************************************)
EXTENDS ObjectChannel, BufferProofs, FiniteSetTheorems

\* The provers do not know which strings are in STRING.
Names == STRING \cup {"NSSet"}

Items ==
    {CWP_ITEM_ARRAY(n) : n \in Nat} \cup {CWP_ITEM_MAP(n) : n \in Nat} \cup
    {CWP_ITEM_OBJECT_MARKER(l) : l \in Int} \cup
    {CWP_ITEM_STR(name) : name \in Names} \cup
    {CWP_ITEM_VALUE(v) : v \in Objects \cup {Raw, "NO"}} \cup {CWP_ITEM_NIL}

Marks(s) == {k \in 2 .. Len(s) : s[k].type = "MARKER" /\ s[k].label # 0}
Refs(s)  == {k \in Marks(s) : s[k - 1] = CWP_ITEM_ARRAY(1)}
Defs(s)  == Marks(s) \ Refs(s)

\* The definitions with a label of one sign, and those of them before place k.
Signed(s, l)    == {j \in Defs(s) : SameSign(s[j].label, l)}
Before(s, k, l) == {j \in Signed(s, l) : j < k}

Magnitude(l) == IF l < 0 THEN -l ELSE l

\* LabelsInOrder, of a stream.
Ordered(s) ==
    /\ \A k \in Defs(s) :
          Magnitude(s[k].label) = 1 + Cardinality(Before(s, k, s[k].label))
    /\ \A k \in Refs(s) : \E j \in Defs(s) : j < k /\ s[j] = s[k]

Packers ==
    [useLabels : BOOLEAN, labelMap : [Objects -> Int],
     userLabelGenerator : Nat, packerLabelGenerator : Int,
     todo : Seq(Objects \cup {Nil, Raw}),
     packed : Seq([object : Objects, labelled : BOOLEAN])]

\* The two generators count the definitions in the stream, and an object has
\* a label only when its definition is there.
Counted(p, s) ==
    /\ p.userLabelGenerator = Cardinality(Signed(s, 1))
    /\ -p.packerLabelGenerator = Cardinality(Signed(s, -1))
    /\ \A o \in Objects : p.labelMap[o] # 0 =>
          \E j \in Defs(s) : s[j] = CWP_ITEM_OBJECT_MARKER(p.labelMap[o])

Sound(h, p, s) ==
    /\ h \in Heaps /\ p \in Packers /\ s \in Seq(Items)
    /\ Ordered(s)
    /\ Counted(p, s)

\* The inductive invariant.
IInv == ~foreign => Sound(heap, packer, stream)

-------------------------------------------------------------------------------
(* The stream grows.                                                       *)

\* What is known of an item of a stream.
LEMMA ItemFacts ==
    ASSUME NEW s \in Seq(Items)
    PROVE  /\ Len(s) \in Nat
           /\ \A k \in 1 .. Len(s) : s[k] \in Items
           /\ \A k \in Marks(s) : k \in 1 .. Len(s) /\ k - 1 \in 1 .. Len(s)
           /\ \A k \in Marks(s) : s[k].label \in Int \ {0}
           /\ IsFiniteSet(Defs(s)) /\ Defs(s) \subseteq Marks(s)
<1>1. Len(s) \in Nat /\ \A k \in 1 .. Len(s) : s[k] \in Items
  BY LenProperties, ElementOfSeq
<1>2. \A k \in Marks(s) : k \in 1 .. Len(s) /\ k - 1 \in 1 .. Len(s)
  BY <1>1 DEF Marks
<1>3. ASSUME NEW k \in Marks(s) PROVE s[k].label \in Int \ {0}
  <2>1. s[k] \in Items /\ s[k].type = "MARKER" /\ s[k].label # 0
    BY <1>1, <1>2 DEF Marks
  <2>2. \E l \in Int : s[k] = CWP_ITEM_OBJECT_MARKER(l)
    BY <2>1 DEF Items, CWP_ITEM_ARRAY, CWP_ITEM_MAP, CWP_ITEM_OBJECT_MARKER,
                CWP_ITEM_STR, CWP_ITEM_VALUE, CWP_ITEM_NIL
  <2> QED
    BY <2>1, <2>2 DEF CWP_ITEM_OBJECT_MARKER
<1>4. Defs(s) \subseteq 1 .. Len(s)
  BY <1>2 DEF Defs
<1>5. IsFiniteSet(Defs(s))
  <2>1. IsFiniteSet(1 .. Len(s)) /\ Defs(s) \in SUBSET (1 .. Len(s))
    BY <1>1, <1>4, FS_Interval
  <2> QED
    BY <2>1, FS_Subset
<1> QED
  BY <1>1, <1>2, <1>3, <1>5 DEF Defs

\* Items with no label among them change nothing.
LEMMA UnlabelledGrow ==
    ASSUME NEW s \in Seq(Items), NEW t \in Seq(Items),
           \A k \in 1 .. Len(t) : t[k].type = "MARKER" => t[k].label = 0
    PROVE  LET u == s \o t
           IN  /\ u \in Seq(Items)
               /\ \A k \in 1 .. Len(s) : u[k] = s[k]
               /\ Marks(u) = Marks(s) /\ Refs(u) = Refs(s) /\ Defs(u) = Defs(s)
<1> DEFINE u == s \o t
<1>1. /\ Len(s) \in Nat /\ Len(t) \in Nat /\ u \in Seq(Items)
      /\ Len(u) = Len(s) + Len(t)
      /\ \A k \in 1 .. Len(s) + Len(t) :
            u[k] = IF k <= Len(s) THEN s[k] ELSE t[k - Len(s)]
  BY ConcatProperties, LenProperties
<1> HIDE DEF u
<1>2. \A k \in 1 .. Len(s) : u[k] = s[k]
  BY <1>1
<1>3. Marks(u) = Marks(s)
  <2>1. ASSUME NEW k \in Marks(u) PROVE k \in Marks(s)
    <3>1. k \in 2 .. Len(u) /\ u[k].type = "MARKER" /\ u[k].label # 0
      BY DEF Marks
    <3>2. CASE k <= Len(s)
      BY <1>1, <1>2, <3>1, <3>2 DEF Marks
    <3>3. CASE ~(k <= Len(s))
      <4>1. k - Len(s) \in 1 .. Len(t) /\ u[k] = t[k - Len(s)]
        BY <1>1, <3>1, <3>3
      <4> QED
        BY <3>1, <4>1
    <3> QED
      BY <3>2, <3>3
  <2>2. ASSUME NEW k \in Marks(s) PROVE k \in Marks(u)
    BY <1>1, <1>2 DEF Marks
  <2> QED
    BY <2>1, <2>2
<1>4. \A k \in Marks(s) : u[k - 1] = s[k - 1]
  BY <1>2, ItemFacts
<1>5. Refs(u) = Refs(s)
  BY <1>3, <1>4 DEF Refs
<1> QED
  BY <1>1, <1>2, <1>3, <1>5 DEF u, Defs

\* An array's header with a labelled marker behind it is a reference when the
\* array has no other part, and a definition when it has.
LEMMA LabelledGrow ==
    ASSUME NEW s \in Seq(Items), NEW t \in Seq(Items),
           NEW n \in Nat, NEW l \in Int \ {0},
           Len(t) >= 2, t[1] = CWP_ITEM_ARRAY(n), t[2] = CWP_ITEM_OBJECT_MARKER(l),
           \A k \in 3 .. Len(t) : t[k].type # "MARKER"
    PROVE  LET u   == s \o t
               new == Len(s) + 2
           IN  /\ u \in Seq(Items)
               /\ \A k \in 1 .. Len(s) : u[k] = s[k]
               /\ u[new] = CWP_ITEM_OBJECT_MARKER(l)
               /\ Refs(u) = IF n = 1 THEN Refs(s) \cup {new} ELSE Refs(s)
               /\ Defs(u) = IF n = 1 THEN Defs(s) ELSE Defs(s) \cup {new}
<1> DEFINE u   == s \o t
           new == Len(s) + 2
<1>1. /\ Len(s) \in Nat /\ Len(t) \in Nat /\ u \in Seq(Items)
      /\ Len(u) = Len(s) + Len(t)
      /\ \A k \in 1 .. Len(s) + Len(t) :
            u[k] = IF k <= Len(s) THEN s[k] ELSE t[k - Len(s)]
  BY ConcatProperties, LenProperties
<1> HIDE DEF u
<1>2. \A k \in 1 .. Len(s) : u[k] = s[k]
  BY <1>1
<1>3. /\ u[new] = CWP_ITEM_OBJECT_MARKER(l) /\ u[new - 1] = CWP_ITEM_ARRAY(n)
      /\ new \in 2 .. Len(u) /\ new \notin Marks(s)
  <2>1. new - Len(s) = 2 /\ (new - 1) - Len(s) = 1
    BY <1>1
  <2>2. new \in 1 .. Len(s) + Len(t) /\ new - 1 \in 1 .. Len(s) + Len(t)
    BY <1>1
  <2>3. u[new] = t[2] /\ u[new - 1] = t[1]
    BY <1>1, <2>1, <2>2
  <2> QED
    BY <1>1, <2>2, <2>3 DEF Marks
<1> HIDE DEF new
<1>4. Marks(u) = Marks(s) \cup {new}
  <2>1. ASSUME NEW k \in Marks(u) PROVE k \in Marks(s) \cup {new}
    <3>1. k \in 2 .. Len(u) /\ u[k].type = "MARKER" /\ u[k].label # 0
      BY DEF Marks
    <3>2. CASE k <= Len(s)
      BY <1>1, <1>2, <3>1, <3>2 DEF Marks
    <3>3. CASE k = Len(s) + 1
      <4>1. k - Len(s) = 1 /\ k \in 1 .. Len(s) + Len(t)
        BY <1>1, <3>1, <3>3
      <4>2. u[k] = t[1]
        BY <1>1, <3>3, <4>1
      <4> QED
        BY <3>1, <4>2 DEF CWP_ITEM_ARRAY
    <3>4. CASE k = new
      BY <3>4
    <3>5. CASE k > Len(s) + 2
      <4>1. k - Len(s) \in 3 .. Len(t) /\ u[k] = t[k - Len(s)]
        BY <1>1, <3>1, <3>5
      <4> QED
        BY <3>1, <4>1
    <3> QED
      BY <1>1, <3>1, <3>2, <3>3, <3>4, <3>5 DEF new
  <2>2. ASSUME NEW k \in Marks(s) PROVE k \in Marks(u)
    BY <1>1, <1>2 DEF Marks
  <2>3. new \in Marks(u)
    BY <1>3 DEF Marks, CWP_ITEM_OBJECT_MARKER
  <2> QED
    BY <2>1, <2>2, <2>3
<1>5. \A k \in Marks(s) : u[k - 1] = s[k - 1]
  BY <1>2, ItemFacts
<1>6. (CWP_ITEM_ARRAY(n) = CWP_ITEM_ARRAY(1)) <=> n = 1
  BY DEF CWP_ITEM_ARRAY
<1>7. Refs(u) = IF n = 1 THEN Refs(s) \cup {new} ELSE Refs(s)
  BY <1>3, <1>4, <1>5, <1>6 DEF Refs
<1>8. Defs(u) = IF n = 1 THEN Defs(s) ELSE Defs(s) \cup {new}
  BY <1>3, <1>4, <1>7 DEF Defs, Refs
<1> QED
  BY <1>1, <1>2, <1>3, <1>7, <1>8 DEF u, new

\* The definitions that stay are counted as before.
LEMMA DefsKept ==
    ASSUME NEW s \in Seq(Items), NEW u \in Seq(Items),
           \A k \in 1 .. Len(s) : u[k] = s[k],
           Defs(u) = Defs(s)
    PROVE  \A l : /\ Signed(u, l) = Signed(s, l)
                  /\ \A k : Before(u, k, l) = Before(s, k, l)
<1>1. \A k \in Defs(s) : u[k] = s[k]
  BY ItemFacts
<1> QED
  BY <1>1 DEF Signed, Before

\* One more, behind all the others, counts for its sign and for none of them.
LEMMA DefsAdded ==
    ASSUME NEW s \in Seq(Items), NEW u \in Seq(Items),
           \A k \in 1 .. Len(s) : u[k] = s[k],
           NEW new, new = Len(s) + 2, Defs(u) = Defs(s) \cup {new},
           NEW l
    PROVE  /\ Signed(u, l) = IF SameSign(u[new].label, l)
                             THEN Signed(s, l) \cup {new}
                             ELSE Signed(s, l)
           /\ \A k \in 1 .. new : Before(u, k, l) = Before(s, k, l)
<1>1. \A k \in Defs(s) : u[k] = s[k]
  BY ItemFacts
<1>2. Signed(u, l) = IF SameSign(u[new].label, l)
                     THEN Signed(s, l) \cup {new}
                     ELSE Signed(s, l)
  BY <1>1 DEF Signed
<1>3. ASSUME NEW k \in 1 .. new PROVE Before(u, k, l) = Before(s, k, l)
  <2>1. ~(new < k)
    BY ItemFacts
  <2> QED
    BY <1>2, <2>1 DEF Before
<1> QED
  BY <1>2, <1>3

\* Items with no label among them keep the order and the counts.
LEMMA UnlabelledSound ==
    ASSUME NEW s \in Seq(Items), NEW t \in Seq(Items), NEW p,
           \A k \in 1 .. Len(t) : t[k].type = "MARKER" => t[k].label = 0,
           Ordered(s), Counted(p, s)
    PROVE  Ordered(s \o t) /\ Counted(p, s \o t)
<1> DEFINE u == s \o t
<1>1. /\ u \in Seq(Items) /\ \A k \in 1 .. Len(s) : u[k] = s[k]
      /\ Refs(u) = Refs(s) /\ Defs(u) = Defs(s)
  BY UnlabelledGrow
<1> HIDE DEF u
<1>2. \A k \in Defs(s) \cup Refs(s) : u[k] = s[k]
  BY <1>1, ItemFacts DEF Refs
<1>3. \A l : Signed(u, l) = Signed(s, l) /\ \A k : Before(u, k, l) = Before(s, k, l)
  BY <1>1, DefsKept
<1>4. Ordered(u)
  BY <1>1, <1>2, <1>3 DEF Ordered
<1>5. Counted(p, u)
  BY <1>1, <1>2, <1>3 DEF Counted
<1> QED
  BY <1>4, <1>5 DEF u

\* So does a reference to an object whose definition is there.
LEMMA ReferenceSound ==
    ASSUME NEW s \in Seq(Items), NEW t \in Seq(Items), NEW p, NEW l \in Int \ {0},
           Len(t) = 2, t[1] = CWP_ITEM_ARRAY(1), t[2] = CWP_ITEM_OBJECT_MARKER(l),
           \E j \in Defs(s) : s[j] = CWP_ITEM_OBJECT_MARKER(l),
           Ordered(s), Counted(p, s)
    PROVE  Ordered(s \o t) /\ Counted(p, s \o t)
<1> DEFINE u   == s \o t
           new == Len(s) + 2
<1>1. /\ u \in Seq(Items) /\ \A k \in 1 .. Len(s) : u[k] = s[k]
      /\ u[new] = CWP_ITEM_OBJECT_MARKER(l)
      /\ Refs(u) = Refs(s) \cup {new} /\ Defs(u) = Defs(s)
  <2>1. 1 \in Nat /\ Len(t) >= 2 /\ \A k \in 3 .. Len(t) : t[k].type # "MARKER"
    OBVIOUS
  <2> QED
    BY <2>1, LabelledGrow, ZenonT(30)
<1>2. Len(s) \in Nat /\ \A k \in Defs(s) : k < new
  BY ItemFacts
<1> HIDE DEF u, new
<1>3. \A k \in Defs(s) \cup Refs(s) : u[k] = s[k]
  BY <1>1, ItemFacts DEF Refs
<1>4. \A m : Signed(u, m) = Signed(s, m) /\ \A k : Before(u, k, m) = Before(s, k, m)
  BY <1>1, DefsKept
<1>5. PICK j \in Defs(s) : s[j] = CWP_ITEM_OBJECT_MARKER(l)
  OBVIOUS
<1>6. \A k \in Refs(u) : \E i \in Defs(u) : i < k /\ u[i] = u[k]
  <2>1. j \in Defs(u) /\ j < new /\ u[j] = u[new]
    BY <1>1, <1>2, <1>3, <1>5
  <2> QED
    BY <1>1, <1>3, <2>1 DEF Ordered
<1>7. \A k \in Defs(u) : Magnitude(u[k].label) = 1 + Cardinality(Before(u, k, u[k].label))
  BY <1>1, <1>3, <1>4 DEF Ordered
<1>8. Ordered(u)
  BY <1>6, <1>7 DEF Ordered
<1>9. Counted(p, u)
  BY <1>1, <1>3, <1>4 DEF Counted
<1> QED
  BY <1>8, <1>9 DEF u

\* An object with its first label, which the generator of its sign gives.
LEMMA DefinitionSound ==
    ASSUME NEW s \in Seq(Items), NEW t \in Seq(Items),
           NEW p \in Packers, NEW q \in Packers,
           NEW o \in Objects, NEW n \in Nat \ {1}, NEW l,
           Len(t) >= 2, t[1] = CWP_ITEM_ARRAY(n), t[2] = CWP_ITEM_OBJECT_MARKER(l),
           \A k \in 3 .. Len(t) : t[k].type # "MARKER",
           Ordered(s), Counted(p, s),
           q.labelMap = [p.labelMap EXCEPT ![o] = l],
           \/ /\ l = p.userLabelGenerator + 1
              /\ q.userLabelGenerator = l
              /\ q.packerLabelGenerator = p.packerLabelGenerator
           \/ /\ l = p.packerLabelGenerator - 1
              /\ q.packerLabelGenerator = l
              /\ q.userLabelGenerator = p.userLabelGenerator
    PROVE  Ordered(s \o t) /\ Counted(q, s \o t)
<1> DEFINE u   == s \o t
           new == Len(s) + 2
<1>1. /\ IsFiniteSet(Signed(s, 1)) /\ IsFiniteSet(Signed(s, -1))
      /\ Cardinality(Signed(s, 1)) \in Nat /\ Cardinality(Signed(s, -1)) \in Nat
  <2>1. \A m : Signed(s, m) \in SUBSET Defs(s)
    BY DEF Signed
  <2>2. IsFiniteSet(Defs(s))
    BY ItemFacts
  <2>3. IsFiniteSet(Signed(s, 1)) /\ IsFiniteSet(Signed(s, -1))
    BY <2>1, <2>2, FS_Subset
  <2> QED
    BY <2>3, FS_CardinalityType
<1>2. /\ p.userLabelGenerator \in Nat /\ p.packerLabelGenerator \in Int
      /\ -p.packerLabelGenerator \in Nat
      /\ p.labelMap \in [Objects -> Int] /\ q.labelMap \in [Objects -> Int]
  BY <1>1 DEF Counted, Packers
<1>3. l \in Int \ {0}
  BY <1>2
<1>4. /\ u \in Seq(Items) /\ \A k \in 1 .. Len(s) : u[k] = s[k]
      /\ u[new] = CWP_ITEM_OBJECT_MARKER(l)
      /\ Refs(u) = Refs(s) /\ Defs(u) = Defs(s) \cup {new}
  BY <1>3, LabelledGrow
<1>5. /\ Len(s) \in Nat /\ new \notin Defs(s)
      /\ \A k \in Defs(s) \cup Refs(s) : k \in 1 .. Len(s)
  BY ItemFacts DEF Refs
<1>6. \A k \in Defs(s) \cup Refs(s) : k < new /\ k \in 1 .. new
  BY <1>5
<1>7. new = Len(s) + 2 /\ new \in 1 .. new
  BY <1>5
<1> HIDE DEF u, new
<1>8. \A m : /\ Signed(u, m) = IF SameSign(u[new].label, m)
                                THEN Signed(s, m) \cup {new}
                                ELSE Signed(s, m)
             /\ \A k \in 1 .. new : Before(u, k, m) = Before(s, k, m)
  BY <1>4, <1>7, DefsAdded, SMTT(30)
<1>9. \A k \in Defs(s) \cup Refs(s) : u[k] = s[k]
  BY <1>4, <1>5
<1>10. u[new].label = l
  BY <1>4 DEF CWP_ITEM_OBJECT_MARKER
<1>11. Before(u, new, l) = Signed(s, l)
  <2>1. Before(s, new, l) = Signed(s, l)
    BY <1>6 DEF Before, Signed
  <2> QED
    BY <1>8, <1>7, <2>1
<1>12. Signed(s, l) = IF l < 0 THEN Signed(s, -1) ELSE Signed(s, 1)
  BY <1>3 DEF Signed, SameSign
<1>13. Magnitude(l) = 1 + Cardinality(Signed(s, l))
  BY <1>1, <1>2, <1>12, SMTT(30) DEF Counted, Magnitude
<1>14. Ordered(u)
  <2>1. ASSUME NEW k \in Defs(u)
        PROVE  Magnitude(u[k].label) = 1 + Cardinality(Before(u, k, u[k].label))
    <3>1. CASE k = new
      BY <1>10, <1>11, <1>13, <3>1
    <3>2. CASE k \in Defs(s)
      BY <1>6, <1>8, <1>9, <3>2 DEF Ordered
    <3> QED
      BY <1>4, <3>1, <3>2
  <2>2. ASSUME NEW k \in Refs(u)
        PROVE  \E j \in Defs(u) : j < k /\ u[j] = u[k]
    BY <1>4, <1>9 DEF Ordered
  <2> QED
    BY <2>1, <2>2 DEF Ordered
<1>15. \A m \in {1, -1} :
          Cardinality(Signed(u, m)) = IF (l < 0) = (m < 0) THEN Cardinality(Signed(s, m)) + 1
                                      ELSE Cardinality(Signed(s, m))
  <2> SUFFICES ASSUME NEW m \in {1, -1}
               PROVE  Cardinality(Signed(u, m)) =
                         IF (l < 0) = (m < 0) THEN Cardinality(Signed(s, m)) + 1
                         ELSE Cardinality(Signed(s, m))
    OBVIOUS
  <2>1. new \notin Signed(s, m) /\ IsFiniteSet(Signed(s, m))
    BY <1>1, <1>5 DEF Signed
  <2>2. Cardinality(Signed(s, m) \cup {new}) = Cardinality(Signed(s, m)) + 1
    BY <2>1, FS_AddElement
  <2>3. Signed(u, m) = IF (l < 0) = (m < 0) THEN Signed(s, m) \cup {new} ELSE Signed(s, m)
    BY <1>8, <1>10 DEF SameSign
  <2> QED
    BY <2>2, <2>3
<1>16. \A x \in Objects : q.labelMap[x] # 0 =>
          \E j \in Defs(u) : u[j] = CWP_ITEM_OBJECT_MARKER(q.labelMap[x])
  <2> SUFFICES ASSUME NEW x \in Objects, q.labelMap[x] # 0
               PROVE  \E j \in Defs(u) : u[j] = CWP_ITEM_OBJECT_MARKER(q.labelMap[x])
    OBVIOUS
  <2>1. CASE x = o
    BY <1>2, <1>4, <2>1
  <2>2. CASE x # o
    <3>1. q.labelMap[x] = p.labelMap[x]
      BY <1>2, <2>2
    <3>2. PICK j \in Defs(s) : s[j] = CWP_ITEM_OBJECT_MARKER(p.labelMap[x])
      BY <3>1 DEF Counted
    <3> QED
      BY <1>4, <1>9, <3>1, <3>2
  <2> QED
    BY <2>1, <2>2
<1>17. Counted(q, u)
  <2>1. /\ q.userLabelGenerator = Cardinality(Signed(u, 1))
        /\ -q.packerLabelGenerator = Cardinality(Signed(u, -1))
    BY <1>1, <1>2, <1>15, SMTT(30) DEF Counted
  <2> QED
    BY <1>16, <2>1 DEF Counted
<1> QED
  BY <1>14, <1>17 DEF u

-------------------------------------------------------------------------------
(* The steps of the packer.                                                *)

\* What is packed ahead of an object's parts holds no marker.
LEMMA HeadFacts ==
    ASSUME heap \in Heaps, NEW o \in Objects
    PROVE  /\ heap[o].parts \in Seq(Objects \cup {Nil, Raw})
           /\ persistentAttributeCount(o) \in Nat
           /\ Head_Items(o) \in Seq(Items)
           /\ \A k \in 1 .. Len(Head_Items(o)) : Head_Items(o)[k].type # "MARKER"
<1>1. heap[o].class \in STRING /\ heap[o].parts \in Seq(Objects \cup {Nil, Raw})
  BY ObjectsAssumption
<1>2. Len(heap[o].parts) \in Nat
  BY <1>1, LenProperties
<1>3. Len(heap[o].parts) \div 2 \in Nat
  <2>1. \A n \in Nat : n \div 2 \in Nat
    OBVIOUS
  <2> QED
    BY <1>2, <2>1
<1>4. persistentAttributeCount(o) \in Nat
  <2> DEFINE length == Len(heap[o].parts)
             half   == length \div 2
  <2>1. length \in Nat /\ half \in Nat
    BY <1>2, <1>3
  <2> HIDE DEF half
  <2>2. length + half \in Nat /\ length + 0 \in Nat
    BY <2>1
  <2> QED
    BY <2>2 DEF persistentAttributeCount, half
<1>5. packerClassName(o) \in Names
  BY <1>1 DEF packerClassName, Names
<1> DEFINE NoMark(i) == i \in Items /\ i.type # "MARKER"
<1>6. /\ \A n \in Nat : NoMark(CWP_ITEM_ARRAY(n)) /\ NoMark(CWP_ITEM_MAP(n))
      /\ \A v \in Objects \cup {Raw, "NO"} : NoMark(CWP_ITEM_VALUE(v))
      /\ NoMark(CWP_ITEM_NIL)
      /\ \A name \in Names : NoMark(CWP_ITEM_STR(name))
  BY DEF Items, CWP_ITEM_ARRAY, CWP_ITEM_MAP, CWP_ITEM_VALUE, CWP_ITEM_NIL, CWP_ITEM_STR
<1> HIDE DEF NoMark
<1>7. \/ \E i : NoMark(i) /\ Head_Items(o) = <<i>>
      \/ \E i, j : NoMark(i) /\ NoMark(j) /\ Head_Items(o) = <<i, j>>
  BY <1>2, <1>3, <1>5, <1>6 DEF Head_Items
<1>8. /\ Head_Items(o) \in Seq(Items)
      /\ \A k \in 1 .. Len(Head_Items(o)) : Head_Items(o)[k].type # "MARKER"
  <2>1. ASSUME NEW i, NoMark(i), Head_Items(o) = <<i>>
        PROVE  /\ Head_Items(o) \in Seq(Items)
               /\ \A k \in 1 .. Len(Head_Items(o)) : Head_Items(o)[k].type # "MARKER"
    BY <2>1 DEF NoMark
  <2>2. ASSUME NEW i, NEW j, NoMark(i), NoMark(j), Head_Items(o) = <<i, j>>
        PROVE  /\ Head_Items(o) \in Seq(Items)
               /\ \A k \in 1 .. Len(Head_Items(o)) : Head_Items(o)[k].type # "MARKER"
    BY <2>2 DEF NoMark
  <2> QED
    BY <1>7, <2>1, <2>2
<1> QED
  BY <1>1, <1>4, <1>8

\* A header, a marker and what is packed ahead of the parts, together.
LEMMA MarkedFacts ==
    ASSUME heap \in Heaps, NEW o \in Objects, NEW l \in Int
    PROVE  LET t == Marked(o, l) \o Head_Items(o)
           IN  /\ t \in Seq(Items) /\ Len(t) >= 2
               /\ 2 + persistentAttributeCount(o) \in Nat \ {1}
               /\ t[1] = CWP_ITEM_ARRAY(2 + persistentAttributeCount(o))
               /\ t[2] = CWP_ITEM_OBJECT_MARKER(l)
               /\ \A k \in 3 .. Len(t) : t[k].type # "MARKER"
<1> DEFINE m == Marked(o, l)
           h == Head_Items(o)
           n == 2 + persistentAttributeCount(o)
           t == m \o h
<1>1. /\ h \in Seq(Items) /\ persistentAttributeCount(o) \in Nat
      /\ \A k \in 1 .. Len(h) : h[k].type # "MARKER"
  BY HeadFacts
<1>2. n \in Nat \ {1}
  BY <1>1
<1>3. /\ m \in Seq(Items) /\ Len(m) = 2
      /\ m[1] = CWP_ITEM_ARRAY(n) /\ m[2] = CWP_ITEM_OBJECT_MARKER(l)
  <2>1. CWP_ITEM_ARRAY(n) \in Items /\ CWP_ITEM_OBJECT_MARKER(l) \in Items
    BY <1>2 DEF Items
  <2> QED
    BY <2>1 DEF Marked
<1> HIDE DEF m, h, n
<1>4. /\ t \in Seq(Items) /\ Len(t) = Len(m) + Len(h) /\ Len(h) \in Nat
      /\ \A k \in 1 .. Len(m) + Len(h) :
            t[k] = IF k <= Len(m) THEN m[k] ELSE h[k - Len(m)]
  BY <1>1, <1>3, ConcatProperties, LenProperties
<1> HIDE DEF t
<1>5. Len(t) >= 2 /\ t[1] = CWP_ITEM_ARRAY(n) /\ t[2] = CWP_ITEM_OBJECT_MARKER(l)
  BY <1>3, <1>4
<1>6. ASSUME NEW k \in 3 .. Len(t) PROVE t[k].type # "MARKER"
  <2>1. k - 2 \in 1 .. Len(h) /\ t[k] = h[k - 2]
    BY <1>3, <1>4
  <2> QED
    BY <1>1, <2>1
<1> QED
  BY <1>2, <1>4, <1>5, <1>6 DEF t, m, h, n

\* What is left to pack changes, and nothing else that Sound is about.
LEMMA PacksFacts ==
    ASSUME packer \in Packers, packer.todo # <<>>,
           NEW ctx \in Packers, ctx.todo = packer.todo,
           NEW items, NEW parts \in Seq(Objects \cup {Nil, Raw}),
           Packs(ctx, items, parts)
    PROVE  /\ packer' \in Packers /\ heap' = heap /\ stream' = stream \o items
           /\ \A s : Counted(ctx, s) => Counted(packer', s)
<1> DEFINE todo == parts \o Tail(ctx.todo)
<1>1. todo \in Seq(Objects \cup {Nil, Raw})
  <2>1. ctx.todo \in Seq(Objects \cup {Nil, Raw}) /\ ctx.todo # <<>>
    BY DEF Packers
  <2>2. Tail(ctx.todo) \in Seq(Objects \cup {Nil, Raw})
    BY <2>1, HeadTailProperties
  <2> QED
    BY <2>2, ConcatProperties
<1>2. packer' = [ctx EXCEPT !.todo = todo]
  BY DEF Packs
<1> HIDE DEF todo
<1>3. /\ packer' \in Packers
      /\ packer'.labelMap = ctx.labelMap
      /\ packer'.userLabelGenerator = ctx.userLabelGenerator
      /\ packer'.packerLabelGenerator = ctx.packerLabelGenerator
  BY <1>1, <1>2 DEF Packers
<1>4. \A s : Counted(ctx, s) => Counted(packer', s)
  BY <1>3 DEF Counted
<1> QED
  BY <1>3, <1>4 DEF Packs

\* An item with no label in it is packed.
LEMMA PlainPacked ==
    ASSUME Sound(heap, packer, stream), packer.todo # <<>>,
           NEW items \in Seq(Items), NEW parts \in Seq(Objects \cup {Nil, Raw}),
           \A k \in 1 .. Len(items) : items[k].type = "MARKER" => items[k].label = 0,
           Packs(packer, items, parts)
    PROVE  Sound(heap', packer', stream')
<1>1. /\ packer' \in Packers /\ heap' = heap /\ stream' = stream \o items
      /\ \A s : Counted(packer, s) => Counted(packer', s)
  BY PacksFacts DEF Sound
<1>2. Ordered(stream \o items) /\ Counted(packer, stream \o items)
  BY UnlabelledSound DEF Sound
<1>3. stream \o items \in Seq(Items)
  BY ConcatProperties DEF Sound
<1> QED
  BY <1>1, <1>2, <1>3 DEF Sound

LEMMA PartStep ==
    ASSUME Sound(heap, packer, stream), PackPart
    PROVE  Sound(heap', packer', stream')
<1>1. packer.todo # <<>> /\ <<>> \in Seq(Objects \cup {Nil, Raw})
  BY DEF PackPart, Packing
<1>2. PICK i \in Items : i.type # "MARKER" /\ Packs(packer, <<i>>, <<>>)
  <2>1. /\ CWP_ITEM_NIL \in Items /\ CWP_ITEM_NIL.type # "MARKER"
        /\ CWP_ITEM_VALUE(Raw) \in Items /\ CWP_ITEM_VALUE(Raw).type # "MARKER"
    BY DEF Items, CWP_ITEM_NIL, CWP_ITEM_VALUE
  <2> QED
    BY <2>1 DEF PackPart
<1>3. <<i>> \in Seq(Items) /\ \A k \in 1 .. Len(<<i>>) : <<i>>[k].type # "MARKER"
  BY <1>2
<1> QED
  BY <1>1, <1>2, <1>3, PlainPacked

LEMMA PlainStep ==
    ASSUME Sound(heap, packer, stream), PackPlain
    PROVE  Sound(heap', packer', stream')
<1> DEFINE o     == Next_Object
           items == IF isMsgpackObject(o) THEN Head_Items(o)
                                          ELSE Marked(o, 0) \o Head_Items(o)
<1>1. /\ packer.todo # <<>> /\ o \in Objects /\ heap \in Heaps
      /\ Packs(packer, items, heap[o].parts)
  BY DEF PackPlain, Packing, Sound
<1>2. heap[o].parts \in Seq(Objects \cup {Nil, Raw})
  BY <1>1, HeadFacts
<1>3. /\ items \in Seq(Items)
      /\ \A k \in 1 .. Len(items) : items[k].type = "MARKER" => items[k].label = 0
  <2>1. CASE isMsgpackObject(o)
    BY <1>1, <2>1, HeadFacts
  <2>2. CASE ~isMsgpackObject(o)
    <3> DEFINE t == Marked(o, 0) \o Head_Items(o)
               n == 2 + persistentAttributeCount(o)
    <3>1. /\ t \in Seq(Items) /\ Len(t) \in Nat /\ Len(t) >= 2
          /\ t[1] = CWP_ITEM_ARRAY(n)
          /\ t[2] = CWP_ITEM_OBJECT_MARKER(0)
          /\ \A k \in 3 .. Len(t) : t[k].type # "MARKER"
      <4>1. 0 \in Int /\ t \in Seq(Items)
        BY <1>1, MarkedFacts
      <4> QED
        BY <1>1, <4>1, MarkedFacts, LenProperties
    <3> HIDE DEF t, n
    <3>2. ASSUME NEW k \in 1 .. Len(t), t[k].type = "MARKER" PROVE t[k].label = 0
      <4>1. k = 1 \/ k = 2
        BY <3>1, <3>2
      <4> QED
        BY <3>1, <3>2, <4>1 DEF CWP_ITEM_ARRAY, CWP_ITEM_OBJECT_MARKER
    <3> QED
      BY <2>2, <3>1, <3>2 DEF t
  <2> QED
    BY <2>1, <2>2
<1> HIDE DEF items, o
<1> QED
  BY <1>1, <1>2, <1>3, PlainPacked

LEMMA ReferenceStep ==
    ASSUME Sound(heap, packer, stream), PackReference
    PROVE  Sound(heap', packer', stream')
<1> DEFINE l     == labelForObject(Next_Object)
           items == <<CWP_ITEM_ARRAY(1), CWP_ITEM_OBJECT_MARKER(l)>>
<1>1. /\ packer.todo # <<>> /\ Next_Object \in Objects /\ l # 0
      /\ Packs(packer, items, <<>>) /\ <<>> \in Seq(Objects \cup {Nil, Raw})
      /\ packer \in Packers
  BY DEF PackReference, Packing, Sound
<1>2. l \in Int \ {0} /\ \E j \in Defs(stream) : stream[j] = CWP_ITEM_OBJECT_MARKER(l)
  BY <1>1 DEF Sound, Counted, Packers, labelForObject
<1> HIDE DEF l
<1>3. /\ items \in Seq(Items) /\ Len(items) = 2
      /\ items[1] = CWP_ITEM_ARRAY(1) /\ items[2] = CWP_ITEM_OBJECT_MARKER(l)
  <2>1. CWP_ITEM_ARRAY(1) \in Items /\ CWP_ITEM_OBJECT_MARKER(l) \in Items
    BY <1>2 DEF Items
  <2> QED
    BY <2>1
<1> HIDE DEF items
<1>4. Ordered(stream \o items) /\ Counted(packer, stream \o items)
  BY <1>2, <1>3, ReferenceSound DEF Sound
<1>5. /\ packer' \in Packers /\ heap' = heap /\ stream' = stream \o items
      /\ \A s : Counted(packer, s) => Counted(packer', s)
  BY <1>1, PacksFacts
<1>6. stream \o items \in Seq(Items)
  BY <1>3, ConcatProperties DEF Sound
<1> QED
  BY <1>4, <1>5, <1>6 DEF Sound

\* The label an object is given, and what else becomes of the packer.
Assigned(ctx, o) ==
    LET l == ctx.labelMap[o]
    IN  /\ ctx \in Packers /\ ctx.todo = packer.todo /\ ctx.packed = packer.packed
        /\ l \in Int /\ ctx.labelMap = [packer.labelMap EXCEPT ![o] = l]
        /\ \/ /\ l = packer.userLabelGenerator + 1
              /\ ctx.userLabelGenerator = l
              /\ ctx.packerLabelGenerator = packer.packerLabelGenerator
           \/ /\ l = packer.packerLabelGenerator - 1
              /\ ctx.packerLabelGenerator = l
              /\ ctx.userLabelGenerator = packer.userLabelGenerator

LEMMA LabelAssigned ==
    ASSUME packer \in Packers, NEW o \in Objects
    PROVE  Assigned(assignLabelForObject(o), o)
<1>1. ASSUME NEW m \in Int, m = packer.packerLabelGenerator - 1
      PROVE  Assigned([packer EXCEPT !.packerLabelGenerator = m, !.labelMap[o] = m], o)
  BY <1>1 DEF Packers, Assigned
<1>2. ASSUME NEW m \in Int, m \in Nat, m = packer.userLabelGenerator + 1
      PROVE  Assigned([packer EXCEPT !.userLabelGenerator = m, !.labelMap[o] = m], o)
  BY <1>2 DEF Packers, Assigned
<1>3. /\ packer.packerLabelGenerator - 1 \in Int
      /\ packer.userLabelGenerator + 1 \in Nat /\ packer.userLabelGenerator + 1 \in Int
  BY DEF Packers
<1>4. CASE isMsgpackObject(o)
  BY <1>1, <1>3, <1>4 DEF assignLabelForObject
<1>5. CASE ~isMsgpackObject(o)
  BY <1>2, <1>3, <1>5 DEF assignLabelForObject
<1> QED
  BY <1>4, <1>5

LEMMA LabelledStep ==
    ASSUME Sound(heap, packer, stream), PackLabelled
    PROVE  Sound(heap', packer', stream')
<1> DEFINE o     == Next_Object
           ctx   == assignLabelForObject(o)
           l     == ctx.labelMap[o]
           n     == 2 + persistentAttributeCount(o)
           items == Marked(o, l) \o Head_Items(o)
<1>1. /\ packer.todo # <<>> /\ o \in Objects /\ heap \in Heaps
      /\ Packs(ctx, items, heap[o].parts) /\ packer \in Packers
      /\ Ordered(stream) /\ Counted(packer, stream) /\ stream \in Seq(Items)
  BY DEF PackLabelled, Packing, Sound
<1>2. /\ ctx \in Packers /\ ctx.todo = packer.todo /\ l \in Int
      /\ ctx.labelMap = [packer.labelMap EXCEPT ![o] = l]
      /\ \/ /\ l = packer.userLabelGenerator + 1
            /\ ctx.userLabelGenerator = l
            /\ ctx.packerLabelGenerator = packer.packerLabelGenerator
         \/ /\ l = packer.packerLabelGenerator - 1
            /\ ctx.packerLabelGenerator = l
            /\ ctx.userLabelGenerator = packer.userLabelGenerator
  BY <1>1, LabelAssigned DEF Assigned
<1> HIDE DEF ctx, l
<1>3. /\ items \in Seq(Items) /\ Len(items) >= 2 /\ n \in Nat \ {1}
      /\ items[1] = CWP_ITEM_ARRAY(n) /\ items[2] = CWP_ITEM_OBJECT_MARKER(l)
      /\ \A k \in 3 .. Len(items) : items[k].type # "MARKER"
  BY <1>1, <1>2, MarkedFacts
<1>4. heap[o].parts \in Seq(Objects \cup {Nil, Raw})
  BY <1>1, HeadFacts
<1> HIDE DEF items, n, o
<1>5. Ordered(stream \o items) /\ Counted(ctx, stream \o items)
  BY <1>1, <1>2, <1>3, DefinitionSound
<1>6. /\ packer' \in Packers /\ heap' = heap /\ stream' = stream \o items
      /\ \A s : Counted(ctx, s) => Counted(packer', s)
  BY <1>1, <1>2, <1>4, PacksFacts
<1>7. stream \o items \in Seq(Items)
  BY <1>1, <1>3, ConcatProperties
<1> QED
  BY <1>1, <1>5, <1>6, <1>7 DEF Sound

\* The client's calls only say what to pack, and whether with labels.
LEMMA ClientStep ==
    ASSUME Sound(heap, packer, stream), packObject \/ setUseLabels
    PROVE  Sound(heap', packer', stream')
<1>1. packer \in Packers /\ Counted(packer, stream)
  BY DEF Sound
<1>2. packer' \in Packers /\ packer'.labelMap = packer.labelMap
      /\ packer'.userLabelGenerator = packer.userLabelGenerator
      /\ packer'.packerLabelGenerator = packer.packerLabelGenerator
  <2>1. CASE packObject
    <3>1. PICK o \in Objects :
             packer' = [packer EXCEPT !.todo = <<o>>,
                                      !.packed = Append(@, [object |-> o,
                                                   labelled |-> packer.useLabels])]
      BY <2>1 DEF packObject
    <3> DEFINE call   == [object |-> o, labelled |-> packer.useLabels]
               todo   == <<o>>
               packed == Append(packer.packed, call)
    <3>2. call \in [object : Objects, labelled : BOOLEAN]
      BY <1>1 DEF Packers
    <3> HIDE DEF call
    <3>3. /\ todo \in Seq(Objects \cup {Nil, Raw})
          /\ packed \in Seq([object : Objects, labelled : BOOLEAN])
      BY <1>1, <3>2, AppendProperties DEF Packers
    <3>4. packer' = [packer EXCEPT !.todo = todo, !.packed = packed]
      BY <3>1 DEF call
    <3> HIDE DEF todo, packed
    <3> QED
      BY <1>1, <3>3, <3>4 DEF Packers
  <2>2. CASE setUseLabels
    <3>1. packer' = [packer EXCEPT !.useLabels = ~packer.useLabels]
      BY <2>2 DEF setUseLabels
    <3>2. (~packer.useLabels) \in BOOLEAN
      OBVIOUS
    <3> QED
      BY <1>1, <3>1, <3>2 DEF Packers
  <2> QED
    BY <2>1, <2>2
<1>3. heap' = heap /\ stream' = stream
  BY DEF packObject, setUseLabels
<1>4. Counted(packer', stream)
  BY <1>1, <1>2 DEF Counted
<1> QED
  BY <1>2, <1>3, <1>4 DEF Sound

-------------------------------------------------------------------------------
(* The theorem.                                                            *)

\* A packer that has packed nothing has given no label.
LEMMA InitInvariant == Init => IInv
<1> SUFFICES ASSUME Init, ~foreign PROVE Sound(heap, packer, stream)
  BY DEF IInv
<1>1. stream = <<>> /\ heap \in Heaps /\ packer = NewPacker
  BY DEF Init, PackInit
<1>2. /\ stream \in Seq(Items) /\ Len(stream) = 0
      /\ <<>> \in Seq(Objects \cup {Nil, Raw})
      /\ <<>> \in Seq([object : Objects, labelled : BOOLEAN])
  BY <1>1
<1>3. packer \in Packers
  BY <1>1, <1>2 DEF Packers, NewPacker
<1>4. Marks(stream) = {} /\ Refs(stream) = {} /\ Defs(stream) = {}
  BY <1>2 DEF Marks, Refs, Defs
<1>5. Signed(stream, 1) = {} /\ Signed(stream, -1) = {}
  BY <1>4 DEF Signed
<1>6. Counted(packer, stream)
  <2>1. Cardinality({}) = 0
    BY FS_EmptySet
  <2>2. /\ packer.userLabelGenerator = 0 /\ packer.packerLabelGenerator = 0
        /\ \A o \in Objects : packer.labelMap[o] = 0
    BY <1>1 DEF NewPacker
  <2> QED
    BY <1>5, <2>1, <2>2 DEF Counted
<1> QED
  BY <1>1, <1>2, <1>3, <1>4, <1>6 DEF Sound, Ordered

LEMMA NextInvariant == IInv /\ [Next]_vars => IInv'
<1> SUFFICES ASSUME IInv, [Next]_vars, ~foreign'
             PROVE  Sound(heap', packer', stream')
  BY DEF IInv
<1>1. CASE Pack
  <2>1. Sound(heap, packer, stream)
    BY <1>1 DEF IInv, Pack
  <2>2. CASE packObject \/ setUseLabels
    BY <2>1, <2>2, ClientStep
  <2>3. CASE PackPart
    BY <2>1, <2>3, PartStep
  <2>4. CASE PackReference
    BY <2>1, <2>4, ReferenceStep
  <2>5. CASE PackLabelled
    BY <2>1, <2>5, LabelledStep
  <2>6. CASE PackPlain
    BY <2>1, <2>6, PlainStep
  <2> QED
    BY <1>1, <2>2, <2>3, <2>4, <2>5, <2>6 DEF Pack, PackObjectStep
<1>2. CASE UNCHANGED <<stream, packVars, foreign>>
  BY <1>2 DEF IInv, packVars
<1>3. \/ Pack \/ UNCHANGED <<stream, packVars, foreign>>
  BY DEF Next, vars, packVars, HandOver, UnpackerAtWork, UnpackerCalled, DumpStart,
         DumperAtWork, Done
<1> QED
  BY <1>1, <1>2, <1>3

\* LabelsInOrder counts the definitions up to the place before each marker.
LEMMA InvariantOrders == IInv => LabelsInOrder
<1> SUFFICES ASSUME ~foreign, stream \in Seq(Items), Ordered(stream)
             PROVE  LabelsInOrder
  BY DEF IInv, Sound, LabelsInOrder
<1>1. Len(stream) \in Nat /\ \A k \in Marks(stream) : k \in 2 .. Len(stream)
  BY LenProperties DEF Marks
<1>2. ASSUME NEW n \in 0 .. Len(stream)
      PROVE  /\ References(n) = {k \in Refs(stream) : k <= n}
             /\ Definitions(n) = {k \in Defs(stream) : k <= n}
  <2>1. Markers(n) = {k \in Marks(stream) : k <= n}
    BY <1>1 DEF Markers, Marks
  <2> QED
    BY <2>1 DEF References, Refs, Definitions, Defs
<1>3. References(Len(stream)) = Refs(stream) /\ Definitions(Len(stream)) = Defs(stream)
  BY <1>1, <1>2 DEF Refs, Defs
<1>4. ASSUME NEW k \in Marks(stream)
      PROVE  Definitions(k - 1) = {j \in Defs(stream) : j < k}
  <2>1. k - 1 \in 0 .. Len(stream)
    BY <1>1
  <2>2. \A j \in Defs(stream) : j <= k - 1 <=> j < k
    BY <1>1 DEF Defs
  <2> QED
    BY <1>2, <2>1, <2>2
<1>5. ASSUME NEW k \in Defs(stream), NEW l
      PROVE  {j \in Definitions(k - 1) : SameSign(stream[j].label, l)} = Before(stream, k, l)
  BY <1>4 DEF Before, Signed, Defs
<1>6. \A k \in Refs(stream) : \E j \in Definitions(k - 1) : stream[j] = stream[k]
  BY <1>4 DEF Ordered, Refs
<1>7. ASSUME NEW k \in Defs(stream)
      PROVE  LET l == stream[k].label
             IN  (IF l < 0 THEN -l ELSE l) =
                 1 + Cardinality({j \in Definitions(k - 1) : SameSign(stream[j].label, l)})
  <2> DEFINE l == stream[k].label
  <2>1. Magnitude(l) = 1 + Cardinality(Before(stream, k, l))
    BY DEF Ordered
  <2>2. {j \in Definitions(k - 1) : SameSign(stream[j].label, l)} = Before(stream, k, l)
    BY <1>5
  <2> QED
    BY <2>1, <2>2 DEF Magnitude
<1> QED
  BY <1>3, <1>6, <1>7 DEF LabelsInOrder

\* In a stream of the packer the labels are 1, 2, ... for the objects that get
\* theirs from the user and -1, -2, ... for those the packer labels, in the
\* order in which they appear, once each, and no reference is packed before
\* the object it refers to: labelForObject and the two generators of
\* assignLabelForObject, through all nesting and all sharing.
THEOREM LabelsAlwaysInOrder == Spec => []LabelsInOrder
<1>1. Init => IInv
  BY InitInvariant
<1>2. IInv /\ [Next]_vars => IInv'
  BY NextInvariant
<1>3. IInv => LabelsInOrder
  BY InvariantOrders
<1> QED
  BY <1>1, <1>2, <1>3, PTL DEF Spec

-------------------------------------------------------------------------------
(* One item for each call.                                                 *)

\* d[k]: the parts the first k items announce, less these items themselves.
Balance(d, s) ==
    /\ d \in [0 .. Len(s) -> Int]
    /\ d[0] = 0
    /\ \A k \in 1 .. Len(s) : d[k] = (d[k - 1] + PartsOf(s[k])) - 1

\* Items that begin one item, m parts of which are still to come.
Begins(t, m) ==
    \E f : /\ Balance(f, t)
           /\ f[Len(t)] = m - 1
           /\ \A k \in 0 .. Len(t) - 1 : f[k] >= 0

\* What is still to pack are the parts announced that are not there yet; and
\* no call of packObject is complete before the stream's last item.
Accounted(p, s) ==
    \E d : /\ Balance(d, s)
           /\ d[Len(s)] = Len(p.todo) - Len(p.packed)
           /\ \A k \in 0 .. Len(s) - 1 : d[k] > -Len(p.packed)

\* The inductive invariant, together with IInv.
AInv == ~foreign => Accounted(packer, stream)

LEMMA PartsOfItems ==
    /\ \A n : PartsOf(CWP_ITEM_ARRAY(n)) = n /\ PartsOf(CWP_ITEM_MAP(n)) = 2 * n
    /\ \A l : PartsOf(CWP_ITEM_OBJECT_MARKER(l)) = 0
    /\ \A v : PartsOf(CWP_ITEM_STR(v)) = 0 /\ PartsOf(CWP_ITEM_VALUE(v)) = 0
    /\ PartsOf(CWP_ITEM_NIL) = 0
    /\ \A i \in Items : PartsOf(i) \in Nat
<1>1. /\ \A n : PartsOf(CWP_ITEM_ARRAY(n)) = n /\ PartsOf(CWP_ITEM_MAP(n)) = 2 * n
      /\ \A l : PartsOf(CWP_ITEM_OBJECT_MARKER(l)) = 0
      /\ \A v : PartsOf(CWP_ITEM_STR(v)) = 0 /\ PartsOf(CWP_ITEM_VALUE(v)) = 0
      /\ PartsOf(CWP_ITEM_NIL) = 0
  BY DEF PartsOf, CWP_ITEM_ARRAY, CWP_ITEM_MAP, CWP_ITEM_OBJECT_MARKER, CWP_ITEM_STR,
         CWP_ITEM_VALUE, CWP_ITEM_NIL
<1>2. ASSUME NEW i \in Items PROVE PartsOf(i) \in Nat
  <2>1. 0 \in Nat /\ \A n \in Nat : 2 * n \in Nat
    OBVIOUS
  <2> QED
    BY <1>1, <2>1 DEF Items
<1> QED
  BY <1>1, <1>2

\* The beginning of an item behind a stream whose balance is known.
LEMMA BalanceGrows ==
    ASSUME NEW s \in Seq(Items), NEW t \in Seq(Items), NEW d, Balance(d, s),
           NEW m \in Nat, Begins(t, m)
    PROVE  \E e : /\ Balance(e, s \o t)
                  /\ \A k \in 0 .. Len(s) : e[k] = d[k]
                  /\ \A k \in Len(s) .. (Len(s) + Len(t)) - 1 : e[k] >= d[Len(s)]
                  /\ e[Len(s) + Len(t)] = (d[Len(s)] + m) - 1
<1> DEFINE u == s \o t
           a == Len(s)
           b == Len(t)
<1>1. /\ a \in Nat /\ b \in Nat /\ u \in Seq(Items) /\ Len(u) = a + b
      /\ \A k \in 1 .. a + b : u[k] = IF k <= a THEN s[k] ELSE t[k - a]
  BY ConcatProperties, LenProperties
<1>2. PICK f : /\ Balance(f, t) /\ f[b] = m - 1
               /\ \A k \in 0 .. b - 1 : f[k] >= 0
  BY DEF Begins
<1>3. /\ d \in [0 .. a -> Int] /\ d[0] = 0
      /\ \A k \in 1 .. a : d[k] = (d[k - 1] + PartsOf(s[k])) - 1
      /\ f \in [0 .. b -> Int] /\ f[0] = 0
      /\ \A k \in 1 .. b : f[k] = (f[k - 1] + PartsOf(t[k])) - 1
  BY <1>2 DEF Balance
<1> HIDE DEF u, a, b
<1> DEFINE e == [k \in 0 .. a + b |-> IF k <= a THEN d[k] ELSE d[a] + f[k - a]]
<1>4. e \in [0 .. a + b -> Int]
  <2>1. ASSUME NEW k \in 0 .. a + b
        PROVE  (IF k <= a THEN d[k] ELSE d[a] + f[k - a]) \in Int
    <3>1. CASE k <= a
      BY <1>1, <1>3, <3>1
    <3>2. CASE ~(k <= a)
      <4>1. k - a \in 0 .. b /\ a \in 0 .. a
        BY <1>1, <3>2
      <4>2. d[a] \in Int /\ f[k - a] \in Int
        BY <1>3, <4>1
      <4> QED
        BY <3>2, <4>2
    <3> QED
      BY <3>1, <3>2
  <2> QED
    BY <2>1
<1>5. /\ \A k \in 0 .. a : e[k] = d[k]
      /\ \A k \in a .. a + b : e[k] = d[a] + f[k - a]
  <2>1. ASSUME NEW k \in 0 .. a PROVE e[k] = d[k]
    BY <1>1
  <2>2. ASSUME NEW k \in a .. a + b PROVE e[k] = d[a] + f[k - a]
    <3>1. CASE k = a
      <4>1. d[a] \in Int /\ k - a = 0
        BY <1>1, <1>3, <3>1
      <4> QED
        BY <1>1, <1>3, <3>1, <4>1
    <3>2. CASE k # a
      BY <1>1, <3>2
    <3> QED
      BY <3>1, <3>2
  <2> QED
    BY <2>1, <2>2
<1> HIDE DEF e
<1>6. ASSUME NEW k \in 1 .. a + b
      PROVE  e[k] = (e[k - 1] + PartsOf(u[k])) - 1
  <2>1. CASE k <= a
    <3>1. k \in 1 .. a /\ k - 1 \in 0 .. a /\ k \in 0 .. a
      BY <1>1, <2>1
    <3>2. u[k] = s[k] /\ e[k] = d[k] /\ e[k - 1] = d[k - 1]
      BY <1>1, <1>5, <2>1, <3>1
    <3> QED
      BY <1>3, <3>1, <3>2
  <2>2. CASE ~(k <= a)
    <3> DEFINE j == k - a
    <3>1. /\ j \in 1 .. b /\ j - 1 \in 0 .. b /\ j \in 0 .. b
          /\ k \in a .. a + b /\ k - 1 \in a .. a + b /\ (k - 1) - a = j - 1
      BY <1>1, <2>2
    <3>2. u[k] = t[j] /\ e[k] = d[a] + f[j] /\ e[k - 1] = d[a] + f[j - 1]
      BY <1>1, <1>5, <2>2, <3>1
    <3>3. f[j] = (f[j - 1] + PartsOf(t[j])) - 1
      BY <1>3, <3>1
    <3>4. f[j - 1] \in Int /\ d[a] \in Int /\ PartsOf(t[j]) \in Nat
      <4>1. t[j] \in Items
        BY <3>1, ElementOfSeq DEF b
      <4>2. a \in 0 .. a
        BY <1>1
      <4> QED
        BY <1>3, <3>1, <4>1, <4>2, PartsOfItems
    <3> HIDE DEF j
    <3> QED
      BY <3>2, <3>3, <3>4
  <2> QED
    BY <2>1, <2>2
<1>7. \A k \in a .. (a + b) - 1 : e[k] >= d[a]
  <2> SUFFICES ASSUME NEW k \in a .. (a + b) - 1 PROVE e[k] >= d[a]
    OBVIOUS
  <2>1. k - a \in 0 .. b - 1 /\ k - a \in 0 .. b /\ k \in a .. a + b /\ a \in 0 .. a
    BY <1>1
  <2>2. e[k] = d[a] + f[k - a] /\ f[k - a] >= 0 /\ f[k - a] \in Int /\ d[a] \in Int
    BY <1>2, <1>3, <1>5, <2>1
  <2> QED
    BY <2>2
<1>8. e[a + b] = (d[a] + m) - 1
  <2>1. a + b \in a .. a + b /\ (a + b) - a = b /\ a \in 0 .. a
    BY <1>1
  <2>2. e[a + b] = d[a] + f[b] /\ d[a] \in Int
    BY <1>3, <1>5, <2>1
  <2> QED
    BY <1>2, <2>2, SMTT(30)
<1>9. Balance(e, u)
  <2>1. e[0] = 0
    BY <1>1, <1>3, <1>5
  <2> QED
    BY <1>1, <1>4, <1>6, <2>1 DEF Balance
<1> QED
  BY <1>5, <1>7, <1>8, <1>9 DEF u, a, b

\* The beginnings the packer packs: an item alone, a reference, and a header
\* with a marker and an item.
LEMMA BeginsAlone ==
    ASSUME NEW i \in Items
    PROVE  Begins(<<i>>, PartsOf(i))
<1> DEFINE t == <<i>>
           n == PartsOf(i)
           f == [k \in 0 .. 1 |-> IF k = 0 THEN 0 ELSE n - 1]
<1>1. n \in Nat /\ Len(t) = 1 /\ t[1] = i
  BY PartsOfItems
<1>2. f \in [0 .. 1 -> Int] /\ f[0] = 0 /\ f[1] = n - 1
  BY <1>1
<1> HIDE DEF f
<1>3. \A k \in 1 .. 1 : f[k] = (f[k - 1] + PartsOf(t[k])) - 1
  BY <1>1, <1>2
<1>4. Balance(f, t) /\ \A k \in 0 .. Len(t) - 1 : f[k] >= 0
  BY <1>1, <1>2, <1>3 DEF Balance
<1> QED
  BY <1>1, <1>2, <1>4 DEF Begins

LEMMA BeginsReference ==
    ASSUME NEW t \in Seq(Items), NEW l,
           Len(t) = 2, t[1] = CWP_ITEM_ARRAY(1), t[2] = CWP_ITEM_OBJECT_MARKER(l)
    PROVE  Begins(t, 0)
<1> DEFINE f == [k \in 0 .. 2 |-> IF k = 2 THEN -1 ELSE 0]
<1>1. f \in [0 .. 2 -> Int] /\ f[0] = 0 /\ f[1] = 0 /\ f[2] = -1
  OBVIOUS
<1> HIDE DEF f
<1>2. PartsOf(t[1]) = 1 /\ PartsOf(t[2]) = 0
  BY PartsOfItems
<1>3. \A k \in 1 .. 2 : f[k] = (f[k - 1] + PartsOf(t[k])) - 1
  <2>1. f[1] = (f[0] + PartsOf(t[1])) - 1 /\ f[2] = (f[1] + PartsOf(t[2])) - 1
    BY <1>1, <1>2
  <2> QED
    BY <2>1
<1>4. Balance(f, t) /\ \A k \in 0 .. Len(t) - 1 : f[k] >= 0
  BY <1>1, <1>3 DEF Balance
<1> QED
  BY <1>1, <1>4 DEF Begins

LEMMA BeginsMarked ==
    ASSUME NEW t \in Seq(Items), NEW l, NEW n \in Nat, NEW i \in Items,
           Len(t) = 3, t[1] = CWP_ITEM_ARRAY(2 + n), t[2] = CWP_ITEM_OBJECT_MARKER(l),
           t[3] = i
    PROVE  Begins(t, n + PartsOf(i))
<1> DEFINE m == PartsOf(i)
           f == [k \in 0 .. 3 |-> CASE k = 0 -> 0 [] k = 1 -> 1 + n
                                    [] k = 2 -> n [] OTHER -> (n + m) - 1]
<1>1. /\ PartsOf(t[1]) = 2 + n /\ PartsOf(t[2]) = 0 /\ PartsOf(t[3]) = m
      /\ m \in Nat
  BY PartsOfItems
<1> HIDE DEF m
<1>2. /\ f \in [0 .. 3 -> Int]
      /\ f[0] = 0 /\ f[1] = 1 + n /\ f[2] = n /\ f[3] = (n + m) - 1
  BY <1>1
<1> HIDE DEF f
<1>3. \A k \in 1 .. 3 : f[k] = (f[k - 1] + PartsOf(t[k])) - 1
  <2>1. /\ f[1] = (f[0] + PartsOf(t[1])) - 1 /\ f[2] = (f[1] + PartsOf(t[2])) - 1
        /\ f[3] = (f[2] + PartsOf(t[3])) - 1
    BY <1>1, <1>2
  <2> QED
    BY <2>1
<1>4. Balance(f, t) /\ \A k \in 0 .. Len(t) - 1 : f[k] >= 0
  BY <1>2, <1>3 DEF Balance
<1> QED
  BY <1>2, <1>4 DEF Begins, m

\* What is packed ahead of an object's parts announces these parts.
LEMMA HeadBegins ==
    ASSUME heap \in Heaps, CountsRight(heap), NEW o \in Objects, NEW l \in Int
    PROVE  /\ isMsgpackObject(o) => Begins(Head_Items(o), Len(heap[o].parts))
           /\ Begins(Marked(o, l) \o Head_Items(o), Len(heap[o].parts))
<1> DEFINE n == Len(heap[o].parts)
<1>1. n \in Nat /\ heap[o].parts \in Seq(Objects \cup {Nil, Raw})
  BY HeadFacts, LenProperties
<1>2. /\ heap[o].class # "zero"
      /\ heap[o].class = "map" => n % 2 = 0
      /\ heap[o].class \in {"value", "null", "NSCountedSet"} => n = 0
  <2>1. LET parts == heap[o].parts
        IN  /\ heap[o].class # "zero"
            /\ heap[o].class = "map" => Len(parts) % 2 = 0
            /\ heap[o].class \in {"value", "null", "NSCountedSet"} => parts = <<>>
    BY Zenon DEF CountsRight
  <2>2. heap[o].parts = <<>> => n = 0
    BY EmptySeq
  <2> QED
    BY <2>1, <2>2
<1>3. PICK i \in Items :
         /\ Head_Items(o) = <<i>>
         /\ n = persistentAttributeCount(o) + PartsOf(i)
         /\ isMsgpackObject(o) => persistentAttributeCount(o) = 0
  <2> HIDE DEF n
  <2>1. CASE isMsgpackObject(o)
    <3>1. persistentAttributeCount(o) = 0
      BY <2>1 DEF persistentAttributeCount
    <3>2. CASE heap[o].class = "array"
      <4>1. CWP_ITEM_ARRAY(n) \in Items /\ PartsOf(CWP_ITEM_ARRAY(n)) = n
        BY <1>1, PartsOfItems DEF Items
      <4> QED
        BY <1>1, <2>1, <3>1, <3>2, <4>1 DEF Head_Items, n
    <3>3. CASE heap[o].class = "map"
      <4> DEFINE h == n \div 2
      <4>1. h \in Nat /\ 2 * h = n
        BY <1>1, <1>2, <3>3
      <4> HIDE DEF h
      <4>2. CWP_ITEM_MAP(h) \in Items /\ PartsOf(CWP_ITEM_MAP(h)) = 2 * h
        BY <4>1, PartsOfItems DEF Items
      <4>3. Head_Items(o) = <<CWP_ITEM_MAP(h)>>
        BY <3>3 DEF Head_Items, h, n
      <4> QED
        BY <1>1, <2>1, <3>1, <4>1, <4>2, <4>3
    <3>4. CASE heap[o].class = "value"
      <4>1. CWP_ITEM_VALUE(o) \in Items /\ PartsOf(CWP_ITEM_VALUE(o)) = 0
        BY PartsOfItems DEF Items
      <4>2. Head_Items(o) = <<CWP_ITEM_VALUE(o)>> /\ n = 0
        BY <1>2, <3>4 DEF Head_Items
      <4> QED
        BY <2>1, <3>1, <4>1, <4>2
    <3>5. CASE heap[o].class = "null"
      <4>1. CWP_ITEM_NIL \in Items /\ PartsOf(CWP_ITEM_NIL) = 0
        BY PartsOfItems DEF Items
      <4>2. Head_Items(o) = <<CWP_ITEM_NIL>> /\ n = 0
        BY <1>2, <3>5 DEF Head_Items
      <4> QED
        BY <2>1, <3>1, <4>1, <4>2
    <3> QED
      BY <1>2, <2>1, <3>2, <3>3, <3>4, <3>5 DEF isMsgpackObject, PackerClasses
  <2>2. CASE ~isMsgpackObject(o)
    <3> DEFINE i == CWP_ITEM_STR(packerClassName(o))
    <3>1. i \in Items /\ PartsOf(i) = 0
      <4>1. packerClassName(o) \in Names
        BY ObjectsAssumption DEF packerClassName, Names
      <4> QED
        BY <4>1, PartsOfItems DEF Items
    <3>2. Head_Items(o) = <<i>>
      BY <2>2 DEF Head_Items, isMsgpackObject, PackerClasses
    <3>3. persistentAttributeCount(o) = n
      <4>1. CASE heap[o].class = "NSCountedSet"
        <5>1. n = 0 /\ n \div 2 = 0
          BY <1>2, <4>1
        <5> QED
          BY <2>2, <4>1, <5>1 DEF persistentAttributeCount, n
      <4>2. CASE heap[o].class # "NSCountedSet"
        <5>1. n + 0 = n
          BY <1>1
        <5> QED
          BY <2>2, <4>2, <5>1 DEF persistentAttributeCount, n
      <4> QED
        BY <4>1, <4>2
    <3> HIDE DEF i
    <3> QED
      BY <1>1, <2>2, <3>1, <3>2, <3>3
  <2> QED
    BY <2>1, <2>2
<1>4. isMsgpackObject(o) => Begins(Head_Items(o), n)
  <2> SUFFICES ASSUME isMsgpackObject(o) PROVE Begins(Head_Items(o), n)
    OBVIOUS
  <2>1. PartsOf(i) \in Nat /\ n = PartsOf(i)
    BY <1>3, PartsOfItems
  <2> QED
    BY <1>3, <2>1, BeginsAlone
<1>5. Begins(Marked(o, l) \o Head_Items(o), n)
  <2> DEFINE h == Head_Items(o)
             k == Marked(o, l)
             t == k \o h
             a == persistentAttributeCount(o)
  <2>1. /\ a \in Nat /\ t \in Seq(Items) /\ h \in Seq(Items)
        /\ t[1] = CWP_ITEM_ARRAY(2 + a) /\ t[2] = CWP_ITEM_OBJECT_MARKER(l)
    BY HeadFacts, MarkedFacts
  <2>2. k \in Seq(Items) /\ Len(k) = 2
    <3>1. CWP_ITEM_ARRAY(2 + a) \in Items /\ CWP_ITEM_OBJECT_MARKER(l) \in Items
      BY <2>1 DEF Items
    <3> QED
      BY <3>1 DEF Marked
  <2>3. Len(h) = 1 /\ h[1] = i
    BY <1>3
  <2> HIDE DEF h, k, a
  <2>4. Len(t) = 3 /\ t[3] = i
    <3>1. /\ Len(t) = Len(k) + Len(h)
          /\ \A j \in 1 .. Len(k) + Len(h) :
                t[j] = IF j <= Len(k) THEN k[j] ELSE h[j - Len(k)]
      BY <2>1, <2>2, ConcatProperties
    <3> HIDE DEF t
    <3> QED
      BY <2>2, <2>3, <3>1
  <2> HIDE DEF t
  <2>5. Begins(t, a + PartsOf(i))
    BY <2>1, <2>4, BeginsMarked
  <2> QED
    BY <1>3, <2>5 DEF t, a, k, h
<1> QED
  BY <1>4, <1>5

\* A step of the packer packs such a beginning and goes on with those parts.
LEMMA PacksAccounted ==
    ASSUME Sound(heap, packer, stream), Accounted(packer, stream), packer.todo # <<>>,
           NEW ctx, ctx \in Packers, ctx.todo = packer.todo, ctx.packed = packer.packed,
           NEW items \in Seq(Items), NEW parts \in Seq(Objects \cup {Nil, Raw}),
           Packs(ctx, items, parts), Begins(items, Len(parts))
    PROVE  Accounted(packer', stream')
<1> DEFINE c == Len(packer.packed)
           n == Len(packer.todo)
           m == Len(parts)
           a == Len(stream)
           b == Len(items)
           u == stream \o items
<1>1. /\ stream \in Seq(Items) /\ packer.todo \in Seq(Objects \cup {Nil, Raw})
      /\ packer.packed \in Seq([object : Objects, labelled : BOOLEAN])
  BY DEF Sound, Packers
<1>2. c \in Nat /\ n \in Nat /\ m \in Nat /\ a \in Nat /\ b \in Nat /\ n # 0
  BY <1>1, LenProperties, EmptySeq
<1>3. Len(u) = a + b
  BY <1>1, ConcatProperties
<1>4. stream' = u /\ packer'.packed = packer.packed /\ Len(packer'.todo) = m + (n - 1)
  <2>1. /\ Tail(ctx.todo) \in Seq(Objects \cup {Nil, Raw})
        /\ Len(Tail(ctx.todo)) = n - 1
    BY <1>1, HeadTailProperties
  <2>2. Len(parts \o Tail(ctx.todo)) = m + (n - 1)
    BY <2>1, ConcatProperties
  <2>3. /\ packer'.todo = parts \o Tail(ctx.todo) /\ packer'.packed = ctx.packed
        /\ stream' = u
    BY DEF Packs, Packers
  <2> QED
    BY <2>2, <2>3
<1>5. PICK d : /\ Balance(d, stream) /\ d[a] = n - c
               /\ \A k \in 0 .. a - 1 : d[k] > -c
  BY DEF Accounted
<1>6. PICK e : /\ Balance(e, u)
               /\ \A k \in 0 .. a : e[k] = d[k]
               /\ \A k \in a .. (a + b) - 1 : e[k] >= d[a]
               /\ e[a + b] = (d[a] + m) - 1
  <2>1. /\ stream \in Seq(Items) /\ m \in Nat
        /\ Balance(d, stream) /\ Begins(items, m)
    BY <1>1, <1>2, <1>5
  <2> HIDE DEF m
  <2> QED
    BY <2>1, BalanceGrows
<1>7. e \in [0 .. a + b -> Int]
  BY <1>3, <1>6 DEF Balance
<1> HIDE DEF c, n, m, a, b, u
<1>8. ASSUME NEW k \in 0 .. (a + b) - 1 PROVE e[k] > -c
  <2>1. CASE k < a
    BY <1>2, <1>5, <1>6, <2>1
  <2>2. CASE ~(k < a)
    <3>1. k \in a .. (a + b) - 1 /\ k \in 0 .. a + b
      BY <1>2, <2>2
    <3>2. e[k] \in Int /\ e[k] >= n - c
      BY <1>5, <1>6, <1>7, <3>1
    <3> QED
      BY <1>2, <3>2
  <2> QED
    BY <2>1, <2>2
<1>9. e[a + b] = (m + (n - 1)) - c
  BY <1>2, <1>5, <1>6
<1> QED
  BY <1>3, <1>4, <1>6, <1>8, <1>9 DEF Accounted, c

LEMMA StepAccounted ==
    ASSUME Sound(heap, packer, stream), Accounted(packer, stream), CountsRight(heap),
           PackObjectStep
    PROVE  Accounted(packer', stream')
<1>1. packer.todo # <<>> /\ packer \in Packers /\ heap \in Heaps
  BY DEF PackObjectStep, PackPart, PackReference, PackLabelled, PackPlain, Packing, Sound
<1>2. CASE PackPart
  <2>1. PICK i \in Items : PartsOf(i) = 0 /\ Packs(packer, <<i>>, <<>>)
    <3>1. /\ CWP_ITEM_NIL \in Items /\ PartsOf(CWP_ITEM_NIL) = 0
          /\ CWP_ITEM_VALUE(Raw) \in Items /\ PartsOf(CWP_ITEM_VALUE(Raw)) = 0
      BY PartsOfItems DEF Items
    <3> QED
      BY <1>2, <3>1 DEF PackPart
  <2>2. /\ <<i>> \in Seq(Items) /\ Begins(<<i>>, 0)
        /\ <<>> \in Seq(Objects \cup {Nil, Raw}) /\ Len(<<>>) = 0
    BY <2>1, BeginsAlone
  <2> QED
    BY <1>1, <2>1, <2>2, PacksAccounted
<1>3. CASE PackReference
  <2> DEFINE l     == labelForObject(Next_Object)
             items == <<CWP_ITEM_ARRAY(1), CWP_ITEM_OBJECT_MARKER(l)>>
  <2>1. Packs(packer, items, <<>>) /\ l \in Int
    BY <1>1, <1>3 DEF PackReference, Packers, labelForObject
  <2> HIDE DEF l
  <2>2. items \in Seq(Items)
    <3>1. CWP_ITEM_ARRAY(1) \in Items /\ CWP_ITEM_OBJECT_MARKER(l) \in Items
      BY <2>1 DEF Items
    <3> QED
      BY <3>1
  <2>3. /\ Len(items) = 2 /\ items[1] = CWP_ITEM_ARRAY(1)
        /\ items[2] = CWP_ITEM_OBJECT_MARKER(l)
        /\ <<>> \in Seq(Objects \cup {Nil, Raw}) /\ Len(<<>>) = 0
    OBVIOUS
  <2> HIDE DEF items
  <2>4. Begins(items, 0)
    BY <2>2, <2>3, BeginsReference
  <2> QED
    BY <1>1, <2>1, <2>2, <2>3, <2>4, PacksAccounted
<1>4. CASE PackLabelled
  <2> DEFINE o     == Next_Object
             ctx   == assignLabelForObject(o)
             l     == ctx.labelMap[o]
             items == Marked(o, l) \o Head_Items(o)
             parts == heap[o].parts
  <2>1. o \in Objects /\ Packs(ctx, items, parts)
    BY <1>4 DEF PackLabelled
  <2>2. ctx \in Packers /\ ctx.todo = packer.todo /\ ctx.packed = packer.packed /\ l \in Int
    BY <1>1, <2>1, LabelAssigned DEF Assigned
  <2> HIDE DEF o, ctx, l
  <2>3. /\ items \in Seq(Items) /\ parts \in Seq(Objects \cup {Nil, Raw})
        /\ Begins(items, Len(parts))
    BY <1>1, <2>1, <2>2, HeadFacts, MarkedFacts, HeadBegins
  <2> HIDE DEF items, parts
  <2> QED
    BY <1>1, <2>1, <2>2, <2>3, PacksAccounted
<1>5. CASE PackPlain
  <2> DEFINE o     == Next_Object
             items == IF isMsgpackObject(o) THEN Head_Items(o)
                                            ELSE Marked(o, 0) \o Head_Items(o)
             parts == heap[o].parts
  <2>1. o \in Objects /\ Packs(packer, items, parts) /\ 0 \in Int
    BY <1>5 DEF PackPlain
  <2> HIDE DEF o
  <2>2. /\ items \in Seq(Items) /\ parts \in Seq(Objects \cup {Nil, Raw})
        /\ Begins(items, Len(parts))
    BY <1>1, <2>1, HeadFacts, MarkedFacts, HeadBegins
  <2> HIDE DEF items, parts
  <2> QED
    BY <1>1, <2>1, <2>2, PacksAccounted
<1> QED
  BY <1>2, <1>3, <1>4, <1>5 DEF PackObjectStep

LEMMA ClientAccounted ==
    ASSUME Sound(heap, packer, stream), Accounted(packer, stream),
           packObject \/ setUseLabels
    PROVE  Accounted(packer', stream')
<1> DEFINE c == Len(packer.packed)
           n == Len(packer.todo)
           a == Len(stream)
<1>1. packer \in Packers /\ stream \in Seq(Items)
  BY DEF Sound
<1>2. c \in Nat /\ n \in Nat /\ a \in Nat
  BY <1>1, LenProperties DEF Packers
<1>3. PICK d : /\ Balance(d, stream) /\ d[a] = n - c
               /\ \A k \in 0 .. a - 1 : d[k] > -c
  BY DEF Accounted
<1>4. \A k \in 0 .. a : d[k] \in Int
  BY <1>3 DEF Balance
<1>5. stream' = stream
  BY DEF packObject, setUseLabels
<1>6. CASE packObject
  <2>1. n = 0
    BY <1>6, EmptySeq DEF packObject
  <2>2. Len(packer'.todo) = 1 /\ Len(packer'.packed) = c + 1
    <3>1. PICK o \in Objects :
             packer' = [packer EXCEPT !.todo = <<o>>,
                                      !.packed = Append(@, [object |-> o,
                                                   labelled |-> packer.useLabels])]
      BY <1>6 DEF packObject
    <3> DEFINE call == [object |-> o, labelled |-> packer.useLabels]
    <3>2. call \in [object : Objects, labelled : BOOLEAN]
      BY <1>1 DEF Packers
    <3>3. packer'.todo = <<o>> /\ packer'.packed = Append(packer.packed, call)
      BY <1>1, <3>1 DEF Packers
    <3> HIDE DEF call
    <3> QED
      BY <1>1, <3>2, <3>3, AppendProperties DEF Packers
  <2> HIDE DEF a, c, n
  <2>3. d[a] = 1 - (c + 1) /\ \A k \in 0 .. a - 1 : d[k] > -(c + 1)
    <3>1. \A k \in 0 .. a - 1 : d[k] \in Int
      BY <1>2, <1>4
    <3> QED
      BY <1>2, <1>3, <2>1, <3>1
  <2> QED
    BY <1>3, <1>5, <2>2, <2>3 DEF Accounted, a
<1>7. CASE setUseLabels
  <2>1. packer'.todo = packer.todo /\ packer'.packed = packer.packed
    BY <1>1, <1>7 DEF setUseLabels, Packers
  <2> QED
    BY <1>5, <2>1 DEF Accounted
<1> QED
  BY <1>6, <1>7

LEMMA InitAccounted == Init => AInv
<1> SUFFICES ASSUME Init, ~foreign PROVE Accounted(packer, stream)
  BY DEF AInv
<1>1. stream = <<>> /\ packer.todo = <<>> /\ packer.packed = <<>>
  BY DEF Init, PackInit, NewPacker
<1> DEFINE d == [k \in 0 .. 0 |-> 0]
<1>2. Len(<<>>) = 0 /\ d \in [0 .. 0 -> Int] /\ d[0] = 0
  BY EmptySeq
<1> HIDE DEF d
<1>3. Balance(d, <<>>) /\ d[0] = 0 - 0 /\ \A k \in 0 .. 0 - 1 : d[k] > -0
  BY <1>2 DEF Balance
<1> QED
  BY <1>1, <1>2, <1>3 DEF Accounted

LEMMA NextAccounted ==
    ASSUME \A h \in Heaps : CountsRight(h), IInv, AInv, [Next]_vars
    PROVE  AInv'
<1> SUFFICES ASSUME ~foreign' PROVE Accounted(packer', stream')
  BY DEF AInv
<1>1. CASE Pack
  <2>1. Sound(heap, packer, stream) /\ Accounted(packer, stream)
    BY <1>1 DEF IInv, AInv, Pack
  <2>2. CountsRight(heap)
    BY <2>1 DEF Sound
  <2>3. CASE packObject \/ setUseLabels
    BY <2>1, <2>3, ClientAccounted
  <2>4. CASE PackObjectStep
    BY <2>1, <2>2, <2>4, StepAccounted
  <2> QED
    BY <1>1, <2>3, <2>4 DEF Pack
<1>2. CASE UNCHANGED <<stream, packVars, foreign>>
  BY <1>2 DEF AInv, packVars
<1>3. \/ Pack \/ UNCHANGED <<stream, packVars, foreign>>
  BY DEF Next, vars, packVars, HandOver, UnpackerAtWork, UnpackerCalled, DumpStart,
         DumperAtWork, Done
<1> QED
  BY <1>1, <1>2, <1>3

-------------------------------------------------------------------------------
(* Where an item ends: the recursion of Behind, from the balance.          *)

\* The places from j on, the one behind the stream included, ahead of which
\* the balance is at most v, and the first of them.
LowPlaces(d, j, v) == {p \in j .. Len(stream) + 1 : d[p - 1] <= v}

FirstLow(d, j, v) ==
    IF LowPlaces(d, j, v) = {} THEN Len(stream) + 2
    ELSE CHOOSE p \in LowPlaces(d, j, v) : \A q \in LowPlaces(d, j, v) : p <= q

\* The place behind the n items from place j on.
Reached(d, j, n) == FirstLow(d, j, d[j - 1] - n)

LEMMA FirstLowFacts ==
    ASSUME stream \in Seq(Items), NEW d, NEW v, NEW j \in 1 .. Len(stream) + 2
    PROVE  LET p == FirstLow(d, j, v)
           IN  /\ p \in j .. Len(stream) + 2
               /\ p # Len(stream) + 2 => d[p - 1] <= v
               /\ \A q \in j .. p - 1 : ~(d[q - 1] <= v)
<1> DEFINE S == LowPlaces(d, j, v)
           p == FirstLow(d, j, v)
           a == Len(stream)
<1>1. a \in Nat /\ S \subseteq Nat /\ S \subseteq j .. a + 1
  BY LenProperties DEF LowPlaces
<1>2. CASE S = {}
  <2>1. p = a + 2
    BY <1>2 DEF FirstLow
  <2>2. \A q \in j .. a + 1 : ~(d[q - 1] <= v)
    BY <1>2 DEF LowPlaces
  <2>3. (a + 2) - 1 = a + 1 /\ a + 2 \in j .. a + 2
    BY <1>1
  <2> QED
    BY <2>1, <2>2, <2>3
<1>3. CASE S # {}
  <2> HIDE DEF S
  <2>1. \E x \in S : \A y \in S : x <= y
    BY <1>1, <1>3, SmallestMember
  <2>2. p = CHOOSE x \in S : \A y \in S : x <= y
    BY <1>3 DEF S, FirstLow
  <2>3. p \in S /\ \A y \in S : p <= y
    BY <2>1, <2>2
  <2>4. p \in j .. a + 1 /\ d[p - 1] <= v
    BY <2>3 DEF S, LowPlaces
  <2>5. ASSUME NEW q \in j .. p - 1 PROVE ~(d[q - 1] <= v)
    <3>1. q \in j .. a + 1 /\ ~(p <= q)
      BY <1>1, <2>4
    <3> QED
      BY <2>3, <3>1 DEF S, LowPlaces
  <2> QED
    BY <1>1, <2>4, <2>5
<1> QED
  BY <1>2, <1>3

LEMMA FirstLowIs ==
    ASSUME stream \in Seq(Items), NEW d, NEW v, NEW j \in 1 .. Len(stream) + 2,
           NEW p \in j .. Len(stream) + 2,
           p # Len(stream) + 2 => d[p - 1] <= v,
           \A q \in j .. p - 1 : ~(d[q - 1] <= v)
    PROVE  FirstLow(d, j, v) = p
<1> DEFINE r == FirstLow(d, j, v)
           a == Len(stream)
<1>1. /\ r \in j .. a + 2
      /\ r # a + 2 => d[r - 1] <= v
      /\ \A q \in j .. r - 1 : ~(d[q - 1] <= v)
  BY FirstLowFacts
<1>2. a \in Nat
  BY LenProperties
<1> HIDE DEF r, a
<1>3. ~(r < p)
  <2> SUFFICES ASSUME r < p PROVE FALSE
    OBVIOUS
  <2>1. r \in j .. p - 1 /\ r # a + 2
    BY <1>1, <1>2 DEF a
  <2> QED
    BY <1>1, <2>1
<1>4. ~(p < r)
  <2> SUFFICES ASSUME p < r PROVE FALSE
    OBVIOUS
  <2>1. p \in j .. r - 1 /\ p # a + 2
    BY <1>1, <1>2 DEF a
  <2> QED
    BY <1>1, <2>1 DEF a
<1> QED
  BY <1>1, <1>2, <1>3, <1>4 DEF r, a

\* What is known of a balance.
LEMMA BalanceFacts ==
    ASSUME stream \in Seq(Items), NEW d, Balance(d, stream)
    PROVE  /\ Len(stream) \in Nat
           /\ \A k \in 0 .. Len(stream) : d[k] \in Int
           /\ \A k \in 1 .. Len(stream) : d[k] = (d[k - 1] + PartsOf(stream[k])) - 1
           /\ \A k \in 1 .. Len(stream) : PartsOf(stream[k]) \in Nat
<1>1. \A k \in 1 .. Len(stream) : stream[k] \in Items
  BY ElementOfSeq
<1> QED
  BY <1>1, PartsOfItems, LenProperties DEF Balance

\* From one place to the next the balance falls by one at most, so it passes
\* through all values on its way down.
LEMMA FirstLowExact ==
    ASSUME stream \in Seq(Items), NEW d, Balance(d, stream),
           NEW j \in 1 .. Len(stream) + 1, NEW v \in Int, v <= d[j - 1],
           FirstLow(d, j, v) # Len(stream) + 2
    PROVE  d[FirstLow(d, j, v) - 1] = v
<1> DEFINE a == Len(stream)
           q == FirstLow(d, j, v)
<1>1. /\ a \in Nat
      /\ \A k \in 0 .. a : d[k] \in Int
      /\ \A k \in 1 .. a : d[k] = (d[k - 1] + PartsOf(stream[k])) - 1
      /\ \A k \in 1 .. a : PartsOf(stream[k]) \in Nat
  BY BalanceFacts
<1>2. /\ q \in j .. a + 2 /\ q # a + 2 /\ d[q - 1] <= v
      /\ \A r \in j .. q - 1 : ~(d[r - 1] <= v)
  <2>1. j \in 1 .. a + 2
    BY <1>1
  <2> QED
    BY <2>1, FirstLowFacts
<1> HIDE DEF q, a
<1>3. q \in j .. a + 1
  BY <1>1, <1>2 DEF a
<1>4. q - 1 \in 0 .. a
  BY <1>1, <1>3 DEF a
<1>5. d[q - 1] \in Int
  BY <1>1, <1>4
<1>6. ASSUME q = j PROVE d[q - 1] = v
  BY <1>2, <1>5, <1>6
<1>7. ASSUME q # j PROVE d[q - 1] = v
  <2>1. q - 1 \in j .. q - 1 /\ q - 1 \in 1 .. a /\ (q - 1) - 1 = q - 2 /\ q - 2 \in 0 .. a
    BY <1>1, <1>3, <1>7 DEF a
  <2>2. ~(d[q - 2] <= v) /\ d[q - 2] \in Int
    BY <1>1, <1>2, <2>1
  <2>3. d[q - 1] = (d[q - 2] + PartsOf(stream[q - 1])) - 1 /\ PartsOf(stream[q - 1]) \in Nat
    BY <1>1, <2>1
  <2> QED
    BY <1>2, <1>5, <2>2, <2>3
<1> QED
  BY <1>6, <1>7 DEF q

\* The first place with a low balance is behind the first one with a higher.
LEMMA FirstLowFrom ==
    ASSUME stream \in Seq(Items), NEW d, Balance(d, stream),
           NEW j \in 1 .. Len(stream) + 2, NEW w \in Int, NEW v \in Int, v <= w
    PROVE  FirstLow(d, FirstLow(d, j, w), v) = FirstLow(d, j, v)
<1> DEFINE a == Len(stream)
           q == FirstLow(d, j, w)
           p == FirstLow(d, q, v)
<1>1. a \in Nat /\ \A k \in 0 .. a : d[k] \in Int
  BY BalanceFacts
<1>2. q \in j .. a + 2 /\ \A r \in j .. q - 1 : ~(d[r - 1] <= w)
  BY FirstLowFacts
<1>3. q \in 1 .. a + 2
  BY <1>1, <1>2
<1> HIDE DEF q
<1>4. /\ p \in q .. a + 2
      /\ p # a + 2 => d[p - 1] <= v
      /\ \A r \in q .. p - 1 : ~(d[r - 1] <= v)
  BY <1>3, FirstLowFacts
<1> HIDE DEF p
<1>5. ASSUME NEW r \in j .. p - 1 PROVE ~(d[r - 1] <= v)
  <2>1. CASE r \in q .. p - 1
    BY <1>4, <2>1
  <2>2. CASE r \in j .. q - 1
    <3>1. r - 1 \in 0 .. a /\ ~(d[r - 1] <= w)
      BY <1>1, <1>2, <2>2
    <3>2. d[r - 1] \in Int
      BY <1>1, <3>1
    <3> QED
      BY <3>1, <3>2
  <2>3. r \in j .. q - 1 \/ r \in q .. p - 1
    BY <1>1, <1>2, <1>4
  <2> QED
    BY <2>1, <2>2, <2>3
<1>6. p \in j .. a + 2
  BY <1>1, <1>2, <1>4
<1>7. FirstLow(d, j, v) = p
  BY <1>4, <1>5, <1>6, FirstLowIs
<1> QED
  BY <1>7 DEF p, q

\* Reached obeys the recursion of Behinds.
LEMMA ReachedStep ==
    ASSUME stream \in Seq(Items), NEW d, Balance(d, stream),
           NEW j \in 1 .. Len(stream) + 2, NEW n \in Nat
    PROVE  Reached(d, j, n) =
              IF n = 0 \/ j = Len(stream) + 2 THEN j
              ELSE IF j = (Len(stream) + 2) - 1 THEN Len(stream) + 2
              ELSE Reached(d, Reached(d, j + 1, PartsOf(stream[j])), n - 1)
<1> DEFINE a == Len(stream)
           v == d[j - 1] - n
<1>1. /\ a \in Nat
      /\ \A k \in 0 .. a : d[k] \in Int
      /\ \A k \in 1 .. a : d[k] = (d[k - 1] + PartsOf(stream[k])) - 1
      /\ \A k \in 1 .. a : PartsOf(stream[k]) \in Nat
  BY BalanceFacts
<1>2. CASE j = a + 2
  BY <1>1, <1>2, FirstLowFacts DEF Reached
<1>3. CASE n = 0 /\ j # a + 2
  <2>1. d[j - 1] \in Int /\ v = d[j - 1]
    BY <1>1, <1>3
  <2>2. d[j - 1] <= v /\ j \in j .. a + 2 /\ \A q \in j .. j - 1 : ~(d[q - 1] <= v)
    BY <1>1, <2>1
  <2>3. FirstLow(d, j, v) = j
    BY <2>2, FirstLowIs
  <2> QED
    BY <1>3, <2>3 DEF Reached
<1>4. CASE n # 0 /\ j = a + 1
  <2>1. d[j - 1] \in Int
    BY <1>1, <1>4
  <2>2. FirstLow(d, j, v) \in j .. a + 2 /\ FirstLow(d, j, v) # j
    <3>1. ~(d[j - 1] <= v)
      BY <1>4, <2>1
    <3>2. /\ FirstLow(d, j, v) \in j .. a + 2
          /\ FirstLow(d, j, v) # a + 2 => d[FirstLow(d, j, v) - 1] <= v
      BY FirstLowFacts
    <3> QED
      BY <1>1, <1>4, <3>1, <3>2
  <2>3. FirstLow(d, j, v) = a + 2
    BY <1>1, <1>4, <2>2
  <2> QED
    BY <1>1, <1>4, <2>3 DEF Reached
<1>5. CASE n # 0 /\ j \in 1 .. a
  <2> DEFINE w == d[j] - PartsOf(stream[j])
             q == FirstLow(d, j + 1, w)
  <2>1. /\ d[j - 1] \in Int /\ w = d[j - 1] - 1 /\ v <= w /\ v \in Int /\ w \in Int
        /\ ~(d[j - 1] <= w) /\ w <= d[j - 1]
        /\ j + 1 \in 1 .. a + 2 /\ j \in 1 .. a + 1 /\ j \in 1 .. a + 2
    BY <1>1, <1>5
  <2>2. /\ q \in j + 1 .. a + 2
        /\ q # a + 2 => d[q - 1] <= w
        /\ \A r \in j + 1 .. q - 1 : ~(d[r - 1] <= w)
    BY <2>1, FirstLowFacts
  <2>3. Reached(d, j + 1, PartsOf(stream[j])) = q
    BY <1>5 DEF Reached
  <2> HIDE DEF q, w, v
  <2>4. q = FirstLow(d, j, w)
    <3>1. \A r \in j .. q - 1 : r = j \/ r \in j + 1 .. q - 1
      BY <1>1, <2>2
    <3>2. q \in j .. a + 2 /\ \A r \in j .. q - 1 : ~(d[r - 1] <= w)
      BY <1>1, <2>1, <2>2, <3>1
    <3> QED
      BY <2>2, <3>2, FirstLowIs
  <2>5. FirstLow(d, q, v) = FirstLow(d, j, v)
    BY <2>1, <2>4, FirstLowFrom
  <2>6. Reached(d, q, n - 1) = FirstLow(d, q, v)
    <3>1. CASE q = a + 2
      <4>1. q \in 1 .. a + 2
        BY <1>1, <3>1
      <4>2. \A x : FirstLow(d, q, x) \in a + 2 .. a + 2
        BY <3>1, <4>1, FirstLowFacts
      <4>3. \A x : FirstLow(d, q, x) = a + 2
        BY <1>1, <4>2
      <4> QED
        BY <4>3 DEF Reached
    <3>2. CASE q # a + 2
      <4>1. d[q - 1] = w
        BY <2>1, <2>4, <3>2, FirstLowExact
      <4>2. d[q - 1] - (n - 1) = v
        BY <2>1, <4>1, SMTT(30) DEF v
      <4> QED
        BY <4>2 DEF Reached
    <3> QED
      BY <3>1, <3>2
  <2>7. Reached(d, j, n) = Reached(d, q, n - 1)
    BY <2>5, <2>6 DEF Reached, v
  <2> QED
    BY <1>1, <1>5, <2>3, <2>7
<1> QED
  BY <1>1, <1>2, <1>3, <1>4, <1>5

\* Behinds is what its recursion says, and that is Reached.
LEMMA BehindsDef ==
    ASSUME stream \in Seq(Items), NEW d, Balance(d, stream)
    PROVE  LET past == Len(stream) + 2
           IN  Behinds =
                  [j \in 1 .. past |->
                      [n \in Nat |->
                          IF n = 0 \/ j = past THEN j
                          ELSE IF j = past - 1 THEN past
                          ELSE Behinds[Behinds[j + 1][PartsOf(stream[j])]][n - 1]]]
<1> DEFINE past == Len(stream) + 2
           h == [j \in 1 .. past |-> [n \in Nat |-> Reached(d, j, n)]]
<1>1. \A j \in 1 .. past, n \in Nat : h[j][n] = Reached(d, j, n)
  OBVIOUS
<1>2. \A j \in 1 .. past, n \in Nat : Reached(d, j, n) \in j .. past
  BY FirstLowFacts DEF Reached
<1>3. /\ Len(stream) \in Nat
      /\ \A k \in 1 .. Len(stream) : PartsOf(stream[k]) \in Nat
  BY BalanceFacts
<1> HIDE DEF h
<1>4. ASSUME NEW j \in 1 .. past, NEW n \in Nat
      PROVE  Reached(d, j, n) =
                IF n = 0 \/ j = past THEN j
                ELSE IF j = past - 1 THEN past
                ELSE h[h[j + 1][PartsOf(stream[j])]][n - 1]
  <2>1. CASE n = 0 \/ j = past \/ j = past - 1
    BY <2>1, ReachedStep
  <2>2. CASE ~(n = 0 \/ j = past \/ j = past - 1)
    <3>1. j + 1 \in 1 .. past /\ PartsOf(stream[j]) \in Nat /\ n - 1 \in Nat
      BY <1>3, <2>2
    <3>2. h[j + 1][PartsOf(stream[j])] = Reached(d, j + 1, PartsOf(stream[j]))
      BY <1>1, <3>1
    <3>3. Reached(d, j + 1, PartsOf(stream[j])) \in 1 .. past
      BY <1>2, <1>3, <3>1, SMTT(30)
    <3>4. h[Reached(d, j + 1, PartsOf(stream[j]))][n - 1] =
             Reached(d, Reached(d, j + 1, PartsOf(stream[j])), n - 1)
      BY <1>1, <3>1, <3>3
    <3> QED
      BY <2>2, <3>2, <3>4, ReachedStep
  <2> QED
    BY <2>1, <2>2
<1>5. h = [j \in 1 .. past |->
              [n \in Nat |->
                  IF n = 0 \/ j = past THEN j
                  ELSE IF j = past - 1 THEN past
                  ELSE h[h[j + 1][PartsOf(stream[j])]][n - 1]]]
  BY <1>4, Zenon DEF h
<1> HIDE DEF past
<1>6. \E b : b = [j \in 1 .. past |->
              [n \in Nat |->
                  IF n = 0 \/ j = past THEN j
                  ELSE IF j = past - 1 THEN past
                  ELSE b[b[j + 1][PartsOf(stream[j])]][n - 1]]]
  BY <1>5, Zenon
<1> QED
  BY <1>6, Zenon DEF Behinds, past

LEMMA BehindsReached ==
    ASSUME stream \in Seq(Items), NEW d, Balance(d, stream)
    PROVE  \A j \in 1 .. Len(stream) + 2, n \in Nat : Behinds[j][n] = Reached(d, j, n)
<1> DEFINE past == Len(stream) + 2
           T    == {m \in Nat : \E j \in 1 .. past, n \in Nat :
                       j = past - m /\ Behinds[j][n] # Reached(d, j, n)}
<1>1. /\ Len(stream) \in Nat
      /\ \A k \in 1 .. Len(stream) : PartsOf(stream[k]) \in Nat
  BY BalanceFacts
<1>2. ASSUME NEW j \in 1 .. past, NEW n \in Nat, Behinds[j][n] # Reached(d, j, n)
      PROVE  past - j \in T
  <2>1. past - j \in Nat /\ past - (past - j) = j
    BY <1>1
  <2> QED
    BY <1>2, <2>1
<1>3. ASSUME NEW m \in T, \A k \in T : m <= k PROVE FALSE
  <2>1. PICK j \in 1 .. past, n \in Nat :
           j = past - m /\ Behinds[j][n] # Reached(d, j, n)
    OBVIOUS
  <2>2. ASSUME NEW i \in 1 .. past, NEW k \in Nat, i > j
        PROVE  Behinds[i][k] = Reached(d, i, k)
    <3>1. ~(m <= past - i)
      BY <1>1, <2>1, <2>2
    <3> HIDE DEF T
    <3> QED
      BY <1>2, <1>3, <3>1
  <2>3. Behinds[j][n] =
           IF n = 0 \/ j = past THEN j
           ELSE IF j = past - 1 THEN past
           ELSE Behinds[Behinds[j + 1][PartsOf(stream[j])]][n - 1]
    BY BehindsDef, SMTT(30)
  <2>4. Reached(d, j, n) =
           IF n = 0 \/ j = past THEN j
           ELSE IF j = past - 1 THEN past
           ELSE Reached(d, Reached(d, j + 1, PartsOf(stream[j])), n - 1)
    BY ReachedStep
  <2>5. CASE n = 0 \/ j = past \/ j = past - 1
    BY <2>1, <2>3, <2>4, <2>5
  <2>6. CASE ~(n = 0 \/ j = past \/ j = past - 1)
    <3> DEFINE p == PartsOf(stream[j])
               q == Reached(d, j + 1, p)
    <3>1. j + 1 \in 1 .. past /\ j + 1 > j /\ p \in Nat /\ n - 1 \in Nat
      BY <1>1, <2>6
    <3>2. q \in j + 1 .. past
      BY <3>1, FirstLowFacts DEF Reached
    <3>3. q \in 1 .. past /\ q > j
      BY <1>1, <3>2
    <3> HIDE DEF q, p
    <3>4. Behinds[j + 1][p] = q
      BY <2>2, <3>1 DEF q
    <3>5. Behinds[q][n - 1] = Reached(d, q, n - 1)
      BY <2>2, <3>1, <3>3
    <3> QED
      BY <2>1, <2>3, <2>4, <2>6, <3>4, <3>5 DEF p, q
  <2> QED
    BY <2>5, <2>6
<1>4. T = {}
  <2>1. T \subseteq Nat
    OBVIOUS
  <2> HIDE DEF T
  <2> QED
    BY <1>3, <2>1, SmallestMember
<1> QED
  BY <1>2, <1>4, Zenon

\* When nothing is left to pack, the top items end where the balance reaches
\* -1, -2, ..., and the last one with the stream.
LEMMA TopItemsReached ==
    ASSUME stream \in Seq(Items), NEW d, Balance(d, stream), NEW c \in Nat,
           d[Len(stream)] = -c, \A k \in 0 .. Len(stream) - 1 : d[k] > -c
    PROVE  \A j \in 0 .. c :
              /\ TopItem(j) = FirstLow(d, 1, -j)
              /\ TopItem(j) <= Len(stream) <=> j < c
              /\ j = c => TopItem(j) = Len(stream) + 1
<1> DEFINE a == Len(stream)
           f(j) == FirstLow(d, 1, -j)
           w == [j \in Nat |-> IF j <= c THEN f(j) ELSE a + 1]
<1>1. a \in Nat /\ \A k \in 0 .. a : d[k] \in Int
  BY BalanceFacts
<1>2. d[0] = 0 /\ 1 \in 1 .. a + 2 /\ 1 \in 1 .. a + 1
  BY <1>1 DEF Balance
<1>3. ASSUME NEW j \in 0 .. c
      PROVE  /\ f(j) \in 1 .. a + 1
             /\ d[f(j) - 1] = -j
             /\ f(j) <= a <=> j < c
             /\ j = c => f(j) = a + 1
  <2>1. /\ f(j) \in 1 .. a + 2
        /\ f(j) # a + 2 => d[f(j) - 1] <= -j
        /\ \A r \in 1 .. f(j) - 1 : ~(d[r - 1] <= -j)
    BY <1>2, FirstLowFacts
  <2>2. f(j) # a + 2
    <3> SUFFICES ASSUME f(j) = a + 2 PROVE FALSE
      OBVIOUS
    <3>1. a + 1 \in 1 .. f(j) - 1 /\ (a + 1) - 1 = a
      BY <1>1
    <3>2. ~(d[a] <= -j)
      BY <2>1, <3>1
    <3> QED
      BY <3>2
  <2>3. d[f(j) - 1] = -j
    <3>1. -j \in Int /\ -j <= d[1 - 1]
      BY <1>2
    <3> QED
      BY <1>2, <2>2, <3>1, FirstLowExact
  <2>4. f(j) \in 1 .. a + 1
    <3> HIDE DEF f, a
    <3> QED
      BY <1>1, <2>1, <2>2
  <2> HIDE DEF f
  <2>5. f(j) <= a => j < c
    <3> SUFFICES ASSUME f(j) <= a PROVE j < c
      OBVIOUS
    <3>1. f(j) - 1 \in 0 .. a - 1
      BY <1>1, <2>4
    <3>2. -j > -c
      BY <2>3, <3>1
    <3> QED
      BY <3>2
  <2>6. f(j) = a + 1 => j = c
    <3> SUFFICES ASSUME f(j) = a + 1 PROVE j = c
      OBVIOUS
    <3>1. f(j) - 1 = a
      BY <1>1
    <3>2. -j = -c
      BY <2>3, <3>1
    <3> QED
      BY <3>2
  <2> QED
    BY <1>1, <2>3, <2>4, <2>5, <2>6
<1> HIDE DEF a
<1>4. ASSUME NEW j \in 1 .. c
      PROVE  f(j - 1) <= a /\ Behind(f(j - 1)) = f(j)
  <2> DEFINE q == f(j - 1)
  <2>1. j - 1 \in 0 .. c /\ j - 1 < c
    OBVIOUS
  <2>2. q \in 1 .. a + 1 /\ d[q - 1] = -(j - 1) /\ q <= a
    BY <1>3, <2>1
  <2> HIDE DEF q
  <2>3. q \in 1 .. a + 2 /\ d[q - 1] - 1 = -j
    BY <1>1, <2>2
  <2>4. Behind(q) = FirstLow(d, q, -j)
    BY <2>3, BehindsReached DEF Behind, Reached, a
  <2>5. FirstLow(d, q, -j) = FirstLow(d, 1, -j)
    <3>1. -j <= -(j - 1) /\ -j \in Int /\ -(j - 1) \in Int
      OBVIOUS
    <3> QED
      BY <1>2, <3>1, FirstLowFrom DEF q, a
  <2> QED
    BY <2>2, <2>4, <2>5 DEF q
<1>5. ASSUME NEW j \in Nat
      PROVE  w[j] = IF j = 0 THEN 1
                    ELSE IF w[j - 1] > a THEN w[j - 1] ELSE Behind(w[j - 1])
  <2> HIDE DEF f
  <2>1. CASE j = 0
    <3>1. f(0) = 1
      <4>1. 1 \in 1 .. a + 2 /\ d[1 - 1] <= -0 /\ \A r \in 1 .. 1 - 1 : ~(d[r - 1] <= -0)
        BY <1>2
      <4> QED
        BY <1>2, <4>1, FirstLowIs DEF f, a
    <3> QED
      BY <2>1, <3>1
  <2>2. CASE j \in 1 .. c
    <3>1. w[j] = f(j) /\ w[j - 1] = f(j - 1)
      BY <2>2
    <3>2. ~(f(j - 1) > a)
      <4>1. f(j - 1) \in 1 .. a + 1 /\ f(j - 1) <= a
        <5>1. j - 1 \in 0 .. c
          BY <2>2
        <5> QED
          BY <1>3, <1>4, <2>2, <5>1
      <4> QED
        BY <1>1, <4>1
    <3> QED
      BY <1>4, <2>2, <3>1, <3>2
  <2>3. CASE j > c
    <3>1. w[j] = a + 1 /\ w[j - 1] = a + 1
      <4>1. CASE j - 1 = c
        <5>1. c \in 0 .. c
          OBVIOUS
        <5>2. f(c) = a + 1
          BY <1>3, <5>1
        <5> QED
          BY <2>3, <4>1, <5>2
      <4>2. CASE j - 1 # c
        BY <2>3, <4>2
      <4> QED
        BY <4>1, <4>2
    <3> QED
      BY <1>1, <2>3, <3>1
  <2> QED
    BY <2>1, <2>2, <2>3
<1>6. w \in [Nat -> Int] /\ \A j \in 0 .. c : w[j] = f(j)
  <2>1. \A j \in Nat : j <= c => f(j) \in Int
    BY <1>1, <1>3
  <2> HIDE DEF f
  <2> QED
    BY <1>1, <2>1
<1> HIDE DEF w
<1>7. w = [j \in Nat |-> IF j = 0 THEN 1
                         ELSE IF w[j - 1] > a THEN w[j - 1] ELSE Behind(w[j - 1])]
  BY <1>5, <1>6
<1>8. TopItems = [j \in Nat |-> IF j = 0 THEN 1
                                ELSE IF TopItems[j - 1] > a THEN TopItems[j - 1]
                                ELSE Behind(TopItems[j - 1])]
  <2>1. \E t : t = [j \in Nat |-> IF j = 0 THEN 1
                                  ELSE IF t[j - 1] > a THEN t[j - 1] ELSE Behind(t[j - 1])]
    BY <1>7
  <2> QED
    BY <2>1, Zenon DEF TopItems, a
<1>9. \A j \in Nat : TopItems[j] = w[j]
  <2> DEFINE T == {j \in Nat : TopItems[j] # w[j]}
  <2>1. ASSUME NEW j \in T, \A k \in T : j <= k PROVE FALSE
    <3>1. j = 0 \/ (j - 1 \in Nat /\ j - 1 \notin T)
      BY <2>1
    <3>2. j \in Nat /\ (j = 0 \/ TopItems[j - 1] = w[j - 1])
      BY <3>1
    <3>3. TopItems[j] = IF j = 0 THEN 1
                        ELSE IF TopItems[j - 1] > a THEN TopItems[j - 1]
                        ELSE Behind(TopItems[j - 1])
      BY <1>8, <3>2
    <3>4. TopItems[j] = w[j]
      BY <1>5, <3>2, <3>3
    <3> QED
      BY <3>4
  <2>2. T \subseteq Nat
    OBVIOUS
  <2> HIDE DEF T
  <2>3. T = {}
    BY <2>1, <2>2, SmallestMember
  <2> QED
    BY <2>3, Zenon DEF T
<1>10. \A j \in 0 .. c : TopItem(j) = f(j)
  BY <1>6, <1>9 DEF TopItem
<1> HIDE DEF f
<1>11. \A j \in 0 .. c : f(j) <= a <=> j < c
  BY <1>3
<1>12. \A j \in 0 .. c : j = c => f(j) = a + 1
  BY <1>3
<1> QED
  BY <1>10, <1>11, <1>12 DEF f, a

LEMMA AccountedIsOne == IInv /\ AInv => OneItemPerCall
<1> SUFFICES ASSUME ~foreign, packer.todo = <<>>,
                    Sound(heap, packer, stream), Accounted(packer, stream)
             PROVE  /\ TopItem(Len(packer.packed)) = Len(stream) + 1
                    /\ \A j \in 1 .. Len(packer.packed) : TopItem(j - 1) <= Len(stream)
  BY DEF IInv, AInv, OneItemPerCall
<1> DEFINE c == Len(packer.packed)
<1>1. stream \in Seq(Items) /\ c \in Nat /\ Len(packer.todo) = 0
  BY LenProperties, EmptySeq DEF Sound, Packers
<1>2. PICK d : /\ Balance(d, stream) /\ d[Len(stream)] = Len(packer.todo) - c
               /\ \A k \in 0 .. Len(stream) - 1 : d[k] > -c
  BY DEF Accounted
<1>3. d[Len(stream)] = -c
  BY <1>1, <1>2
<1> HIDE DEF c
<1>4. \A j \in 0 .. c :
         /\ TopItem(j) <= Len(stream) <=> j < c
         /\ j = c => TopItem(j) = Len(stream) + 1
  BY <1>1, <1>2, <1>3, TopItemsReached
<1>5. c \in 0 .. c /\ \A j \in 1 .. c : j - 1 \in 0 .. c /\ j - 1 < c
  BY <1>1
<1> QED
  BY <1>4, <1>5 DEF c

\* Each call of packObject adds exactly one item with all its parts, whatever
\* is nested in, shared by or contained in whatever, in each order of calls:
\* the sizes packed by packObject and by the classes' own methods are the
\* numbers of items that follow.  It holds of the objects that count their
\* parts right; ObjectsMiscounted.cfg shows the others.
THEOREM OneItemForEachCall ==
    ASSUME \A h \in Heaps : CountsRight(h)
    PROVE  Spec => []OneItemPerCall
<1>1. Init => IInv /\ AInv
  BY InitInvariant, InitAccounted
<1>2. IInv /\ AInv /\ [Next]_vars => IInv' /\ AInv'
  BY NextInvariant, NextAccounted
<1>3. IInv /\ AInv => OneItemPerCall
  BY AccountedIsOne
<1> QED
  BY <1>1, <1>2, <1>3, PTL DEF Spec
-------------------------------------------------------------------------------
(* What is packed, and what was still to pack before each of its items.    *)

Packable == Objects \cup {Nil, Raw}

\* Item k is a scalar, or a container that announces these parts.
Core(s, k, parts) ==
    \/ parts = <<>> /\ s[k] = CWP_ITEM_NIL
    \/ parts = <<>> /\ \E v : s[k] = CWP_ITEM_VALUE(v)
    \/ s[k] = CWP_ITEM_ARRAY(Len(parts))
    \/ \E n \in Nat : s[k] = CWP_ITEM_MAP(n) /\ 2 * n = Len(parts)

\* From item k on there is a container or a scalar with the label l, ...
LabelledAt(s, k, parts, l) ==
    /\ s[k] = CWP_ITEM_ARRAY(2)
    /\ l \in Int /\ l < 0 /\ s[k + 1] = CWP_ITEM_OBJECT_MARKER(l)
    /\ Core(s, k + 2, parts)

\* ... or an object of a user class, of this name and with these parts.
UserAt(h, s, k, parts, l, name) ==
    /\ s[k] = CWP_ITEM_ARRAY(2 + Len(parts))
    /\ l \in Nat /\ s[k + 1] = CWP_ITEM_OBJECT_MARKER(l)
    /\ name \in Names /\ s[k + 2] = CWP_ITEM_STR(name)
    /\ Suits(h, name, parts)

\* The m items from item k on are what packObject packs of x ahead of x's parts.
Written(h, s, k, m, x, parts) ==
    \/ /\ m = 1 /\ Core(s, k, parts)
       /\ Firm(h, x) => s[k] # CWP_ITEM_NIL
       /\ x = Raw => s[k] = CWP_ITEM_VALUE(Raw)
    \/ /\ m = 2 /\ parts = <<>> /\ x # Raw
       /\ s[k] = CWP_ITEM_ARRAY(1) /\ k + 1 \in Refs(s)
       /\ Firm(h, x) => \A j \in Defs(s) : j < k /\ s[j] = s[k + 1] => s[j + 1] # CWP_ITEM_NIL
    \/ /\ m = 3 /\ x # Raw
       /\ \E l : LabelledAt(s, k, parts, l)
       /\ Firm(h, x) => s[k + 2] # CWP_ITEM_NIL
    \/ /\ m = 3 /\ x # Raw
       /\ \E l, name : UserAt(h, s, k, parts, l, name)

\* The packer's call that packed the items from place k on: P[k] was to be
\* packed then, m items were written, and parts are what they announce.
Packed(P, h, s, k, m, parts) ==
    /\ m \in 1 .. 3 /\ parts \in Seq(Packable)
    /\ k + m \in DOMAIN P /\ P[k + m] = parts \o Tail(P[k])
    /\ Written(h, s, k, m, Head(P[k]), parts)

\* P[k] is what is to be packed from item k on, for each item k with which a
\* call of packObject begins, the calls not yet made then included.
Planned(P, h, p, s) ==
    /\ DOMAIN P \subseteq 1 .. Len(s) + 1
    /\ 1 \in DOMAIN P /\ Len(s) + 1 \in DOMAIN P
    /\ P[Len(s) + 1] = p.todo
    /\ \A k \in DOMAIN P : P[k] \in Seq(Packable)
    /\ \A k \in DOMAIN P : k # Len(s) + 1 =>
          P[k] # <<>> /\ \E m, parts : Packed(P, h, s, k, m, parts)
    /\ \A i \in 1 .. Len(s) + 1 : \/ i \in DOMAIN P \/ i - 1 \in DOMAIN P
                                  \/ i - 2 \in DOMAIN P

\* The items tell how much that is.
Weighed(P, d, s) ==
    /\ Balance(d, s)
    /\ \A k \in DOMAIN P : d[k - 1] = Len(P[k]) - Len(P[1])

\* What a label stands for is NSNull only if it was given to NSNull.
Named(h, p, s) ==
    \A o \in Objects, j \in Defs(s) :
        p.labelMap[o] # 0 /\ s[j] = CWP_ITEM_OBJECT_MARKER(p.labelMap[o])
            /\ h[o].class # "null"
        => j + 1 \in 1 .. Len(s) /\ s[j + 1] # CWP_ITEM_NIL

\* The inductive invariant of the packer, together with IInv.
PlanOf(h, p, s) ==
    /\ \E P, d : Planned(P, h, p, s) /\ Weighed(P, d, s)
    /\ Named(h, p, s)

PInv == ~foreign => PlanOf(heap, packer, stream)

\* What a stream's first items are does not change when it grows.
LEMMA MarksOfPrefix ==
    ASSUME NEW s \in Seq(Items), NEW u \in Seq(Items), Len(s) <= Len(u),
           \A k \in 1 .. Len(s) : u[k] = s[k]
    PROVE  /\ \A k \in 1 .. Len(s) : k \in Refs(u) <=> k \in Refs(s)
           /\ \A k \in 1 .. Len(s) : k \in Defs(u) <=> k \in Defs(s)
           /\ Defs(s) \subseteq Defs(u) /\ Defs(s) \subseteq 2 .. Len(s)
<1>1. Len(s) \in Nat /\ Len(u) \in Nat
  BY LenProperties
<1>2. \A k \in 1 .. Len(s) : k \in Marks(u) <=> k \in Marks(s)
  BY <1>1 DEF Marks
<1>3. \A k \in 1 .. Len(s) : k \in Marks(s) => u[k - 1] = s[k - 1]
  BY <1>1 DEF Marks
<1>4. \A k \in 1 .. Len(s) : k \in Refs(u) <=> k \in Refs(s)
  BY <1>2, <1>3 DEF Refs
<1>5. \A k \in 1 .. Len(s) : k \in Defs(u) <=> k \in Defs(s)
  BY <1>2, <1>4 DEF Defs
<1>6. Defs(s) \subseteq 2 .. Len(s)
  BY DEF Defs, Marks
<1>7. Defs(s) \subseteq Defs(u)
  BY <1>1, <1>5, <1>6
<1> QED
  BY <1>4, <1>5, <1>6, <1>7

LEMMA CoreKept ==
    ASSUME NEW s, NEW u, NEW k, NEW parts, u[k] = s[k], Core(s, k, parts)
    PROVE  Core(u, k, parts)
BY DEF Core

LEMMA WrittenKept ==
    ASSUME NEW s \in Seq(Items), NEW u \in Seq(Items), Len(s) <= Len(u),
           \A k \in 1 .. Len(s) : u[k] = s[k],
           NEW h, NEW k \in Nat \ {0}, NEW m \in 1 .. 3, NEW x, NEW parts,
           k + m <= Len(s) + 1, Written(h, s, k, m, x, parts)
    PROVE  Written(h, u, k, m, x, parts)
<1>1. Len(s) \in Nat
  BY LenProperties
<1>2. CASE m = 1
  <2>1. u[k] = s[k]
    BY <1>1, <1>2
  <2>2. Core(s, k, parts) /\ (Firm(h, x) => s[k] # CWP_ITEM_NIL)
        /\ (x = Raw => s[k] = CWP_ITEM_VALUE(Raw))
    BY <1>2 DEF Written
  <2>3. Core(u, k, parts)
    BY <2>1, <2>2, CoreKept
  <2> QED
    BY <1>2, <2>1, <2>2, <2>3, Zenon DEF Written
<1>3. CASE m = 2
  <2>1. u[k] = s[k] /\ u[k + 1] = s[k + 1] /\ k + 1 \in 1 .. Len(s)
    BY <1>1, <1>3
  <2>2. /\ parts = <<>> /\ x # Raw /\ s[k] = CWP_ITEM_ARRAY(1) /\ k + 1 \in Refs(s)
        /\ Firm(h, x) => \A j \in Defs(s) : j < k /\ s[j] = s[k + 1] => s[j + 1] # CWP_ITEM_NIL
    BY <1>3 DEF Written
  <2>3. k + 1 \in Refs(u)
    BY <2>1, <2>2, MarksOfPrefix
  <2>4. ASSUME Firm(h, x), NEW j \in Defs(u), j < k, u[j] = u[k + 1]
        PROVE  u[j + 1] # CWP_ITEM_NIL
    <3>1. j \in 2 .. Len(u)
      BY DEF Defs, Marks
    <3>2. j \in 1 .. Len(s) /\ j + 1 \in 1 .. Len(s)
      BY <1>1, <2>1, <2>4, <3>1
    <3>3. j \in Defs(s) /\ u[j] = s[j] /\ u[j + 1] = s[j + 1]
      BY <2>4, <3>2, MarksOfPrefix
    <3> QED
      BY <2>1, <2>2, <2>4, <3>3
  <2> QED
    BY <1>3, <2>1, <2>2, <2>3, <2>4, Zenon DEF Written
<1>4. CASE m = 3
  <2>1. u[k] = s[k] /\ u[k + 1] = s[k + 1] /\ u[k + 2] = s[k + 2]
    BY <1>1, <1>4
  <2>2. \A l : LabelledAt(s, k, parts, l) => LabelledAt(u, k, parts, l)
    BY <2>1, CoreKept, Zenon DEF LabelledAt
  <2>3. \A l, name : UserAt(h, s, k, parts, l, name) => UserAt(h, u, k, parts, l, name)
    BY <2>1, Zenon DEF UserAt
  <2>4. \/ /\ x # Raw /\ \E l : LabelledAt(s, k, parts, l)
           /\ Firm(h, x) => s[k + 2] # CWP_ITEM_NIL
        \/ x # Raw /\ \E l, name : UserAt(h, s, k, parts, l, name)
    BY <1>4 DEF Written
  <2> QED
    BY <1>4, <2>1, <2>2, <2>3, <2>4, Zenon DEF Written
<1> QED
  BY <1>2, <1>3, <1>4

\* A call of packObject appends items to the stream, and puts the parts that
\* they announce in the place of the part it has packed.
LEMMA PlanGrows ==
    ASSUME NEW h, NEW s \in Seq(Items), NEW items \in Seq(Items),
           NEW parts \in Seq(Packable), NEW p, NEW q,
           p.todo \in Seq(Packable), p.todo # <<>>, q.todo = parts \o Tail(p.todo),
           Len(items) \in 1 .. 3, Begins(items, Len(parts)),
           Written(h, s \o items, Len(s) + 1, Len(items), Head(p.todo), parts),
           NEW P, NEW d, Planned(P, h, p, s), Weighed(P, d, s)
    PROVE  \E Q, e : Planned(Q, h, q, s \o items) /\ Weighed(Q, e, s \o items)
<1> DEFINE u   == s \o items
           a   == Len(s)
           b   == Len(items)
           new == a + b + 1
           Q   == [k \in DOMAIN P \cup {new} |-> IF k = new THEN q.todo ELSE P[k]]
<1>1. /\ a \in Nat /\ b \in 1 .. 3 /\ u \in Seq(Items) /\ Len(u) = a + b
      /\ \A k \in 1 .. a : u[k] = s[k]
  BY ConcatProperties, LenProperties
<1>2. /\ DOMAIN P \subseteq 1 .. a + 1 /\ 1 \in DOMAIN P /\ a + 1 \in DOMAIN P
      /\ P[a + 1] = p.todo
      /\ \A k \in DOMAIN P : P[k] \in Seq(Packable)
      /\ \A k \in DOMAIN P : k # a + 1 =>
            P[k] # <<>> /\ \E m, ps : Packed(P, h, s, k, m, ps)
      /\ \A i \in 1 .. a + 1 : \/ i \in DOMAIN P \/ i - 1 \in DOMAIN P
                               \/ i - 2 \in DOMAIN P
  BY DEF Planned
<1>3. q.todo \in Seq(Packable) /\ Len(q.todo) = Len(parts) + (Len(p.todo) - 1)
      /\ Len(p.todo) \in Nat /\ Len(parts) \in Nat
  <2>1. Tail(p.todo) \in Seq(Packable) /\ Len(Tail(p.todo)) = Len(p.todo) - 1
    BY HeadTailProperties
  <2> QED
    BY <2>1, ConcatProperties, LenProperties
<1>4. PICK e : /\ Balance(e, u)
               /\ \A k \in 0 .. a : e[k] = d[k]
               /\ e[a + b] = (d[a] + Len(parts)) - 1
  BY <1>3, BalanceGrows DEF Weighed
<1>5. Written(h, u, a + 1, b, Head(p.todo), parts)
  OBVIOUS
<1> HIDE DEF u, b
<1>15. ASSUME NEW k \in 1 .. a, NEW m \in 1 .. 3, NEW x, NEW ps,
              k + m <= a + 1, Written(h, s, k, m, x, ps)
       PROVE  Written(h, u, k, m, x, ps)
  <2>1. k \in Nat \ {0} /\ Len(s) <= Len(u)
    BY <1>1
  <2> QED
    BY <1>1, <1>15, <2>1, WrittenKept
<1> HIDE DEF a
<1>6. new \notin DOMAIN P
  <2>1. new \notin 1 .. a + 1
    BY <1>1
  <2> QED
    BY <1>2, <2>1
<1>7. /\ DOMAIN Q = DOMAIN P \cup {new} /\ Q[new] = q.todo
      /\ \A k \in DOMAIN P : Q[k] = P[k]
  BY <1>6
<1>8. new = Len(u) + 1
  BY <1>1
<1> HIDE DEF Q, new
<1>9. new = a + b + 1 /\ DOMAIN Q \subseteq 1 .. new
  BY <1>1, <1>2, <1>7 DEF new
<1>10. \A k \in DOMAIN Q : Q[k] \in Seq(Packable)
  BY <1>2, <1>3, <1>7
<1>11. ASSUME NEW k \in DOMAIN Q, k # new
       PROVE  Q[k] # <<>> /\ \E m, ps : Packed(Q, h, u, k, m, ps)
  <2>1. k \in DOMAIN P /\ Q[k] = P[k]
    BY <1>7, <1>11
  <2>2. CASE k = a + 1
    <3>3. k + b = new
      BY <1>1, <1>9, <2>2
    <3>1. k + b = new /\ Q[k + b] = parts \o Tail(Q[k])
      BY <1>2, <1>7, <2>1, <2>2, <3>3, Zenon
    <3>2. Packed(Q, h, u, k, b, parts)
      BY <1>1, <1>2, <1>5, <1>7, <2>1, <2>2, <3>1 DEF Packed
    <3> QED
      BY <1>2, <2>1, <2>2, <3>2
  <2>3. CASE k # a + 1
    <3>1. PICK m, ps : Packed(P, h, s, k, m, ps)
      BY <1>2, <2>1, <2>3
    <3>7. m \in 1 .. 3 /\ k + m \in DOMAIN P
      BY <3>1 DEF Packed
    <3>8. k \in 1 .. a + 1 /\ k + m \in 1 .. a + 1
      BY <1>2, <2>1, <3>7
    <3>2. k \in 1 .. a /\ m \in 1 .. 3 /\ k + m \in DOMAIN P /\ k + m <= a + 1
      BY <1>1, <2>3, <3>7, <3>8
    <3>3. Q[k + m] = P[k + m]
      BY <1>7, <3>2
    <3>4. Written(h, s, k, m, Head(P[k]), ps) /\ P[k + m] = ps \o Tail(P[k])
          /\ ps \in Seq(Packable)
      BY <3>1 DEF Packed
    <3>5. Written(h, u, k, m, Head(Q[k]), ps)
      BY <1>15, <2>1, <3>2, <3>4
    <3>6. Packed(Q, h, u, k, m, ps)
      BY <1>7, <2>1, <3>2, <3>3, <3>4, <3>5 DEF Packed
    <3> QED
      BY <1>2, <2>1, <2>3, <3>6
  <2> QED
    BY <2>2, <2>3
<1>12. ASSUME NEW i \in 1 .. new
       PROVE  i \in DOMAIN Q \/ i - 1 \in DOMAIN Q \/ i - 2 \in DOMAIN Q
  <2>1. CASE i <= a + 1
    <3>1. i \in 1 .. a + 1
      BY <1>1, <1>9, <2>1
    <3> QED
      BY <1>2, <1>7, <3>1
  <2>2. CASE i = new
    BY <1>7, <2>2
  <2>3. CASE a + 1 < i /\ i # new
    <3>1. i - 1 = a + 1 \/ i - 2 = a + 1
      BY <1>1, <1>9, <2>3, SMTT(30)
    <3> QED
      BY <1>2, <1>7, <3>1
  <2> QED
    BY <1>1, <1>9, <2>1, <2>2, <2>3
<1>13. Planned(Q, h, q, u)
  BY <1>2, <1>7, <1>8, <1>9, <1>10, <1>11, <1>12 DEF Planned
<1>14. Weighed(Q, e, u)
  <2>1. \A k \in DOMAIN P : d[k - 1] = Len(P[k]) - Len(P[1])
    BY DEF Weighed
  <2>2. Len(P[1]) \in Nat
    BY <1>2, LenProperties
  <2>3. ASSUME NEW k \in DOMAIN P PROVE e[k - 1] = Len(Q[k]) - Len(Q[1])
    <3>1. k - 1 \in 0 .. a
      BY <1>1, <1>2
    <3> QED
      BY <1>2, <1>4, <1>7, <2>1, <3>1
  <2>4. e[new - 1] = Len(Q[new]) - Len(Q[1])
    <3>1. d[a] = Len(p.todo) - Len(P[1])
      <4>1. (a + 1) - 1 = a
        BY <1>1
      <4> QED
        BY <1>2, <2>1, <4>1
    <3>2. new - 1 = a + b
      BY <1>1, <1>9
    <3> QED
      BY <1>2, <1>3, <1>4, <1>7, <2>2, <3>1, <3>2
  <2> QED
    BY <1>4, <1>7, <2>3, <2>4 DEF Weighed
<1> QED
  BY <1>13, <1>14 DEF u

\* One call more of the client is one part more to pack after all the others.
LEMMA PlanExtended ==
    ASSUME NEW h, NEW s \in Seq(Items), NEW p, NEW q, NEW o \in Packable,
           p.todo = <<>>, q.todo = <<o>>,
           NEW P, NEW d, Planned(P, h, p, s), Weighed(P, d, s)
    PROVE  \E Q, e : Planned(Q, h, q, s) /\ Weighed(Q, e, s)
<1> DEFINE Q == [k \in DOMAIN P |-> Append(P[k], o)]
           a == Len(s)
<1>1. a \in Nat
  BY LenProperties
<1>2. /\ DOMAIN P \subseteq 1 .. a + 1 /\ 1 \in DOMAIN P /\ a + 1 \in DOMAIN P
      /\ P[a + 1] = <<>>
      /\ \A k \in DOMAIN P : P[k] \in Seq(Packable)
      /\ \A k \in DOMAIN P : k # a + 1 =>
            P[k] # <<>> /\ \E m, ps : Packed(P, h, s, k, m, ps)
      /\ \A i \in 1 .. a + 1 : \/ i \in DOMAIN P \/ i - 1 \in DOMAIN P
                               \/ i - 2 \in DOMAIN P
  BY DEF Planned
<1>3. DOMAIN Q = DOMAIN P /\ \A k \in DOMAIN P : Q[k] = Append(P[k], o)
  OBVIOUS
<1> HIDE DEF Q, a
<1>4. \A k \in DOMAIN P : /\ Q[k] \in Seq(Packable) /\ Q[k] # <<>>
                          /\ Len(Q[k]) = Len(P[k]) + 1 /\ Len(P[k]) \in Nat
  <2> TAKE k \in DOMAIN P
  <2>1. P[k] \in Seq(Packable) /\ Q[k] = Append(P[k], o)
    BY <1>2, <1>3
  <2> QED
    BY <2>1, AppendProperties, LenProperties
<1>5. Q[a + 1] = <<o>>
  BY <1>2, <1>3
<1>6. ASSUME NEW k \in DOMAIN P, k # a + 1
      PROVE  \E m, ps : Packed(Q, h, s, k, m, ps)
  <2>1. PICK m, ps : Packed(P, h, s, k, m, ps)
    BY <1>2, <1>6
  <2>2. P[k] \in Seq(Packable) /\ P[k] # <<>>
    BY <1>2, <1>6
  <2>3. Head(Q[k]) = Head(P[k]) /\ Tail(Q[k]) = Append(Tail(P[k]), o)
    BY <1>3, <2>2, SMTT(30)
  <2>4. /\ k + m \in DOMAIN P /\ ps \in Seq(Packable) /\ m \in 1 .. 3
        /\ P[k + m] = ps \o Tail(P[k]) /\ Written(h, s, k, m, Head(P[k]), ps)
    BY <2>1 DEF Packed
  <2>5. Append(ps \o Tail(P[k]), o) = ps \o Append(Tail(P[k]), o)
    <3>1. Tail(P[k]) \in Seq(Packable)
      BY <2>2, HeadTailProperties
    <3> DEFINE t == Tail(P[k])
               v == <<o>>
    <3>2. ps \in Seq(Packable) /\ t \in Seq(Packable) /\ v \in Seq(Packable)
      BY <2>4, <3>1
    <3>3. ps \o t \in Seq(Packable)
      BY <3>2, ConcatProperties
    <3>4. Append(ps \o t, o) = (ps \o t) \o v /\ Append(t, o) = t \o v
      BY <3>2, <3>3, AppendIsConcat
    <3> HIDE DEF t, v
    <3>5. (ps \o t) \o v = ps \o (t \o v)
      BY <3>2, ConcatAssociative
    <3>6. Append(ps \o t, o) = ps \o Append(t, o)
      BY <3>4, <3>5
    <3> QED
      BY <3>6 DEF t
  <2>6. Packed(Q, h, s, k, m, ps)
    BY <1>3, <2>3, <2>4, <2>5 DEF Packed
  <2> QED
    BY <2>6
<1>7. Planned(Q, h, q, s)
  BY <1>2, <1>3, <1>4, <1>5, <1>6 DEF Planned, a
<1>8. Weighed(Q, d, s)
  <2>1. \A k \in DOMAIN P : d[k - 1] = Len(P[k]) - Len(P[1])
    BY DEF Weighed
  <2>2. ASSUME NEW k \in DOMAIN P PROVE d[k - 1] = Len(Q[k]) - Len(Q[1])
    <3>1. Len(P[k]) \in Nat /\ Len(P[1]) \in Nat
          /\ Len(Q[k]) = Len(P[k]) + 1 /\ Len(Q[1]) = Len(P[1]) + 1
      BY <1>2, <1>4
    <3>2. d[k - 1] = Len(P[k]) - Len(P[1])
      BY <2>1
    <3> QED
      BY <3>1, <3>2
  <2> QED
    BY <1>3, <2>2 DEF Weighed
<1> QED
  BY <1>7, <1>8

\* A definition counts for those behind it, so no two have the same label.
LEMMA EarlierCounts ==
    ASSUME NEW s \in Seq(Items), NEW j \in Defs(s), NEW e \in Int, j < e,
           NEW l, SameSign(s[j].label, l)
    PROVE  /\ Cardinality(Before(s, j, l)) \in Nat
           /\ Cardinality(Before(s, e, l)) >= Cardinality(Before(s, j, l)) + 1
           /\ Cardinality(Before(s, e, l)) \in Nat
<1> DEFINE S == Before(s, j, l)
           T == Before(s, e, l)
<1>1. IsFiniteSet(Defs(s)) /\ Defs(s) \subseteq Nat
  <2>1. Defs(s) \subseteq Marks(s) /\ IsFiniteSet(Defs(s))
    BY ItemFacts
  <2>2. Marks(s) \subseteq Nat
    BY ItemFacts
  <2> QED
    BY <2>1, <2>2
<1>2. S \subseteq Defs(s) /\ T \subseteq Defs(s) /\ j \notin S /\ S \cup {j} \subseteq T
  BY <1>1 DEF Before, Signed
<1> HIDE DEF S, T
<1>3. IsFiniteSet(S) /\ IsFiniteSet(T)
  BY <1>1, <1>2, FS_Subset
<1>4. IsFiniteSet(S \cup {j}) /\ Cardinality(S \cup {j}) = Cardinality(S) + 1
  BY <1>2, <1>3, FS_AddElement
<1>5. Cardinality(S \cup {j}) <= Cardinality(T)
  BY <1>2, <1>3, FS_Subset
<1>6. Cardinality(S) \in Nat /\ Cardinality(T) \in Nat
  BY <1>3, FS_CardinalityType
<1> QED
  BY <1>4, <1>5, <1>6 DEF S, T

LEMMA LabelsDiffer ==
    ASSUME NEW s \in Seq(Items), Ordered(s), NEW i \in Defs(s), NEW j \in Defs(s),
           s[i].label = s[j].label
    PROVE  i = j
<1>1. i \in Int /\ j \in Int
  BY ItemFacts
<1>2. SameSign(s[i].label, s[j].label) /\ SameSign(s[j].label, s[i].label)
  BY DEF SameSign
<1>3. /\ Magnitude(s[i].label) = 1 + Cardinality(Before(s, i, s[i].label))
      /\ Magnitude(s[j].label) = 1 + Cardinality(Before(s, j, s[j].label))
  BY DEF Ordered
<1>4. CASE i < j
  <2>1. /\ Cardinality(Before(s, i, s[j].label)) \in Nat
        /\ Cardinality(Before(s, j, s[j].label)) >= Cardinality(Before(s, i, s[j].label)) + 1
        /\ Cardinality(Before(s, j, s[j].label)) \in Nat
    BY <1>1, <1>2, <1>4, EarlierCounts
  <2> QED
    BY <1>3, <2>1
<1>5. CASE j < i
  <2>1. /\ Cardinality(Before(s, j, s[i].label)) \in Nat
        /\ Cardinality(Before(s, i, s[i].label)) >= Cardinality(Before(s, j, s[i].label)) + 1
        /\ Cardinality(Before(s, i, s[i].label)) \in Nat
    BY <1>1, <1>2, <1>5, EarlierCounts
  <2> QED
    BY <1>3, <2>1
<1> QED
  BY <1>1, <1>4, <1>5

\* What a call of packObject writes ahead of the parts, behind a label if any.
LEMMA HeadOfCore ==
    ASSUME Agreed, heap \in Heaps, NEW o \in Objects, isMsgpackObject(o)
    PROVE  \E i \in Items :
              /\ Head_Items(o) = <<i>> /\ persistentAttributeCount(o) = 0
              /\ \A s, k : s[k] = i => Core(s, k, heap[o].parts)
              /\ heap[o].class # "null" => i # CWP_ITEM_NIL
<1> DEFINE parts == heap[o].parts
           n     == Len(parts)
<1>1. n \in Nat /\ parts \in Seq(Objects \cup {Nil, Raw})
  BY HeadFacts, LenProperties
<1>2. CountsRight(heap)
  BY DEF Agreed
<1>3. /\ heap[o].class # "zero"
      /\ heap[o].class = "map" => n % 2 = 0
      /\ heap[o].class \in {"value", "null", "NSCountedSet"} => parts = <<>>
  BY <1>2, Zenon DEF CountsRight
<1>4. persistentAttributeCount(o) = 0
  BY DEF persistentAttributeCount
<1> HIDE DEF parts
<1>5. CASE heap[o].class = "array"
  <2>1. Head_Items(o) = <<CWP_ITEM_ARRAY(n)>>
    BY <1>5 DEF Head_Items, parts
  <2>2. CWP_ITEM_ARRAY(n) \in Items
    BY <1>1 DEF Items
  <2>3. CWP_ITEM_ARRAY(n) # CWP_ITEM_NIL
    BY DEF CWP_ITEM_ARRAY, CWP_ITEM_NIL
  <2> QED
    BY <1>4, <2>1, <2>2, <2>3, Zenon DEF Core, parts
<1>6. CASE heap[o].class = "map"
  <2> DEFINE h == n \div 2
  <2>1. h \in Nat /\ 2 * h = n
    BY <1>1, <1>3, <1>6
  <2>2. Head_Items(o) = <<CWP_ITEM_MAP(h)>>
    BY <1>6 DEF Head_Items, parts
  <2> HIDE DEF h
  <2>3. CWP_ITEM_MAP(h) \in Items
    BY <2>1 DEF Items
  <2>4. CWP_ITEM_MAP(h) # CWP_ITEM_NIL
    BY DEF CWP_ITEM_MAP, CWP_ITEM_NIL
  <2> QED
    BY <1>4, <2>1, <2>2, <2>3, <2>4, Zenon DEF Core, parts
<1>7. CASE heap[o].class = "value"
  <2>1. Head_Items(o) = <<CWP_ITEM_VALUE(o)>>
    BY <1>7 DEF Head_Items
  <2>2. CWP_ITEM_VALUE(o) \in Items
    BY DEF Items
  <2>3. CWP_ITEM_VALUE(o) # CWP_ITEM_NIL
    BY DEF CWP_ITEM_VALUE, CWP_ITEM_NIL
  <2>4. parts = <<>>
    BY <1>3, <1>7
  <2> QED
    BY <1>4, <2>1, <2>2, <2>3, <2>4, Zenon DEF Core, parts
<1>8. CASE heap[o].class = "null"
  <2>1. Head_Items(o) = <<CWP_ITEM_NIL>>
    BY <1>8 DEF Head_Items
  <2>2. CWP_ITEM_NIL \in Items
    BY DEF Items
  <2>3. parts = <<>>
    BY <1>3, <1>8
  <2> QED
    BY <1>4, <1>8, <2>1, <2>2, <2>3, Zenon DEF Core, parts
<1> QED
  BY <1>3, <1>5, <1>6, <1>7, <1>8 DEF isMsgpackObject, PackerClasses

LEMMA HeadOfUser ==
    ASSUME Agreed, heap \in Heaps, NEW o \in Objects, ~isMsgpackObject(o)
    PROVE  /\ Head_Items(o) = <<CWP_ITEM_STR(packerClassName(o))>>
           /\ persistentAttributeCount(o) = Len(heap[o].parts)
           /\ packerClassName(o) \in Names
           /\ Suits(heap, packerClassName(o), heap[o].parts)
<1> DEFINE parts == heap[o].parts
           n     == Len(parts)
<1>1. n \in Nat /\ parts \in Seq(Objects \cup {Nil, Raw})
  BY HeadFacts, LenProperties
<1>2. CountsRight(heap) /\ Suits(heap, heap[o].class, parts)
  BY DEF Agreed, isMsgpackObject
<1>3. heap[o].class = "NSCountedSet" => parts = <<>>
  BY <1>2, Zenon DEF CountsRight
<1>4. Head_Items(o) = <<CWP_ITEM_STR(packerClassName(o))>>
  BY DEF Head_Items, isMsgpackObject, PackerClasses
<1>5. packerClassName(o) \in Names
  BY ObjectsAssumption DEF packerClassName, Names
<1>6. CASE heap[o].class = "NSCountedSet"
  <2>5. parts = <<>>
    BY <1>3, <1>6
  <2>6. n = 0
    BY <2>5, EmptySeq
  <2>1. n = 0 /\ n \div 2 = 0 /\ parts = <<>>
    BY <2>5, <2>6
  <2>2. persistentAttributeCount(o) = n
    BY <1>6, <2>1 DEF persistentAttributeCount
  <2>3. packerClassName(o) = "NSSet"
    BY <1>6 DEF packerClassName
  <2> HIDE DEF parts
  <2>4. Suits(heap, "NSSet", parts)
    BY <2>1 DEF Suits, Agreed
  <2> QED
    BY <1>4, <1>5, <2>2, <2>3, <2>4 DEF parts
<1>7. CASE heap[o].class # "NSCountedSet"
  <2>1. n + 0 = n
    BY <1>1
  <2>2. persistentAttributeCount(o) = n
    BY <1>7, <2>1 DEF persistentAttributeCount
  <2>3. packerClassName(o) = heap[o].class
    BY <1>7 DEF packerClassName
  <2> QED
    BY <1>2, <1>4, <1>5, <2>2, <2>3
<1> QED
  BY <1>6, <1>7

\* Each call of packObject keeps the plan; first those that give no label.
LEMMA UnlabelledPlanned ==
    ASSUME Sound(heap, packer, stream), PlanOf(heap, packer, stream), packer.todo # <<>>,
           NEW items \in Seq(Items), NEW parts \in Seq(Packable),
           Packs(packer, items, parts), Len(items) \in 1 .. 3, Begins(items, Len(parts)),
           Written(heap, stream \o items, Len(stream) + 1, Len(items), Head(packer.todo), parts),
           Defs(stream \o items) = Defs(stream)
    PROVE  PlanOf(heap', packer', stream')
<1> DEFINE u == stream \o items
<1>1. /\ packer \in Packers /\ stream \in Seq(Items)
      /\ packer.todo \in Seq(Packable)
  BY DEF Sound, Packers, Packable
<1>2. /\ heap' = heap /\ stream' = u /\ packer'.todo = parts \o Tail(packer.todo)
      /\ packer'.labelMap = packer.labelMap
  BY <1>1 DEF Packs, Packers
<1>3. PICK P, d : Planned(P, heap, packer, stream) /\ Weighed(P, d, stream)
  BY DEF PlanOf
<1>4. \E Q, e : Planned(Q, heap, packer', u) /\ Weighed(Q, e, u)
  BY <1>1, <1>2, <1>3, PlanGrows
<1>5. /\ Len(stream) \in Nat /\ Len(u) = Len(stream) + Len(items)
      /\ \A k \in 1 .. Len(stream) : u[k] = stream[k]
      /\ Defs(u) = Defs(stream) /\ Len(u) >= Len(stream)
  BY <1>1, ConcatProperties, LenProperties
<1> HIDE DEF u
<1>6. Named(heap, packer', u)
  <2> SUFFICES ASSUME NEW o \in Objects, NEW j \in Defs(u), packer'.labelMap[o] # 0,
                      u[j] = CWP_ITEM_OBJECT_MARKER(packer'.labelMap[o]),
                      heap[o].class # "null"
               PROVE  j + 1 \in 1 .. Len(u) /\ u[j + 1] # CWP_ITEM_NIL
    BY DEF Named
  <2>1. j \in Defs(stream) /\ j \in 1 .. Len(stream) /\ u[j] = stream[j]
    BY <1>1, <1>5, ItemFacts
  <2>2. j + 1 \in 1 .. Len(stream) /\ stream[j + 1] # CWP_ITEM_NIL
    BY <1>2, <2>1 DEF PlanOf, Named
  <2> QED
    BY <1>5, <2>2
<1> QED
  BY <1>2, <1>4, <1>6 DEF PlanOf

LEMMA PartPlanned ==
    ASSUME Agreed, Sound(heap, packer, stream), PlanOf(heap, packer, stream), PackPart
    PROVE  PlanOf(heap', packer', stream')
<1>1. packer.todo # <<>> /\ stream \in Seq(Items)
  BY DEF PackPart, Packing, Sound
<1>2. PICK i \in Items : /\ Packs(packer, <<i>>, <<>>) /\ PartsOf(i) = 0
                         /\ i.type # "MARKER"
                         /\ Head(packer.todo) \in {Nil, Raw}
                         /\ IF Head(packer.todo) = Nil THEN i = CWP_ITEM_NIL
                            ELSE i = CWP_ITEM_VALUE(Raw)
  <2>1. /\ CWP_ITEM_NIL \in Items /\ PartsOf(CWP_ITEM_NIL) = 0
        /\ CWP_ITEM_NIL.type # "MARKER"
        /\ CWP_ITEM_VALUE(Raw) \in Items /\ PartsOf(CWP_ITEM_VALUE(Raw)) = 0
        /\ CWP_ITEM_VALUE(Raw).type # "MARKER" /\ Nil # Raw
    BY PartsOfItems DEF Items, CWP_ITEM_NIL, CWP_ITEM_VALUE, Nil, Raw
  <2> QED
    BY <2>1 DEF PackPart
<1> DEFINE items == <<i>>
           u     == stream \o items
<1>3. /\ items \in Seq(Items) /\ Len(items) = 1 /\ items[1] = i
      /\ <<>> \in Seq(Packable) /\ Len(<<>>) = 0
  BY <1>2
<1>4. Begins(items, 0)
  BY <1>2, BeginsAlone
<1> HIDE DEF items
<1>5. /\ Len(stream) \in Nat /\ u[Len(stream) + 1] = i
  BY <1>1, <1>3, ConcatProperties, LenProperties
<1>6. Defs(u) = Defs(stream)
  BY <1>1, <1>2, <1>3, UnlabelledGrow
<1> HIDE DEF u
<1>7. Written(heap, u, Len(stream) + 1, 1, Head(packer.todo), <<>>)
  <2> DEFINE k == Len(stream) + 1
             x == Head(packer.todo)
  <2>1. u[k] = i /\ x \in {Nil, Raw} /\ Nil # Raw
    BY <1>2, <1>5 DEF Nil, Raw
  <2>2. IF x = Nil THEN i = CWP_ITEM_NIL ELSE i = CWP_ITEM_VALUE(Raw)
    BY <1>2
  <2>3. CWP_ITEM_VALUE(Raw) # CWP_ITEM_NIL
    BY DEF CWP_ITEM_VALUE, CWP_ITEM_NIL
  <2> HIDE DEF k, x
  <2>4. Core(u, k, <<>>)
    BY <2>1, <2>2, Zenon DEF Core
  <2>5. Firm(heap, x) => u[k] # CWP_ITEM_NIL
    BY <2>1, <2>2, <2>3 DEF Firm
  <2>6. x = Raw => u[k] = CWP_ITEM_VALUE(Raw)
    BY <2>1, <2>2
  <2>7. Written(heap, u, k, 1, x, <<>>)
    BY <2>4, <2>5, <2>6, Zenon DEF Written
  <2> QED
    BY <2>7 DEF k, x
<1>8. Packs(packer, items, <<>>) /\ Len(items) \in 1 .. 3
  BY <1>2, <1>3 DEF items
<1> QED
  BY <1>1, <1>3, <1>4, <1>6, <1>7, <1>8, UnlabelledPlanned DEF u

LEMMA ReferencePlanned ==
    ASSUME Agreed, Sound(heap, packer, stream), PlanOf(heap, packer, stream), PackReference
    PROVE  PlanOf(heap', packer', stream')
<1> DEFINE o     == Next_Object
           l     == packer.labelMap[o]
           items == <<CWP_ITEM_ARRAY(1), CWP_ITEM_OBJECT_MARKER(l)>>
           u     == stream \o items
           k     == Len(stream) + 1
<1>1. /\ packer.todo # <<>> /\ stream \in Seq(Items) /\ packer \in Packers
      /\ o \in Objects /\ l # 0 /\ Packs(packer, items, <<>>) /\ o = Head(packer.todo)
  BY DEF PackReference, Packing, Sound, labelForObject, Next_Object
<1>2. l \in Int \ {0}
  BY <1>1 DEF Packers
<1> HIDE DEF l, o
<1>3. /\ items \in Seq(Items) /\ Len(items) = 2 /\ items[1] = CWP_ITEM_ARRAY(1)
      /\ items[2] = CWP_ITEM_OBJECT_MARKER(l)
      /\ <<>> \in Seq(Packable) /\ Len(<<>>) = 0
  <2>1. CWP_ITEM_ARRAY(1) \in Items /\ CWP_ITEM_OBJECT_MARKER(l) \in Items
    BY <1>2 DEF Items
  <2> QED
    BY <2>1
<1> HIDE DEF items
<1>4. Begins(items, 0)
  BY <1>3, BeginsReference
<1>5. /\ u \in Seq(Items) /\ \A j \in 1 .. Len(stream) : u[j] = stream[j]
      /\ u[Len(stream) + 2] = CWP_ITEM_OBJECT_MARKER(l)
      /\ Len(stream) + 2 \in Refs(u) /\ Defs(u) = Defs(stream)
  <2>1. 1 \in Nat /\ Len(items) >= 2 /\ \A j \in 3 .. Len(items) : items[j].type # "MARKER"
    BY <1>3
  <2> QED
    BY <1>1, <1>2, <1>3, <2>1, LabelledGrow, ZenonT(30)
<1>6. /\ k \in Nat /\ u[k] = CWP_ITEM_ARRAY(1) /\ k + 1 = Len(stream) + 2
  BY <1>1, <1>3, ConcatProperties, LenProperties
<1> HIDE DEF u, k
<1>7. Written(heap, u, k, 2, o, <<>>)
  <2>1. o # Raw
    BY <1>1 DEF Agreed
  <2>2. ASSUME Firm(heap, o), NEW j \in Defs(u), j < k, u[j] = u[k + 1]
        PROVE  u[j + 1] # CWP_ITEM_NIL
    <3>1. j \in Defs(stream) /\ j \in 1 .. Len(stream) /\ u[j] = stream[j]
      BY <1>1, <1>5, ItemFacts
    <3>2. stream[j] = CWP_ITEM_OBJECT_MARKER(packer.labelMap[o])
      BY <1>5, <1>6, <2>2, <3>1 DEF l
    <3>3. heap[o].class # "null" /\ packer.labelMap[o] # 0
      BY <1>1, <2>2 DEF Firm, l
    <3>4. j + 1 \in 1 .. Len(stream) /\ stream[j + 1] # CWP_ITEM_NIL
      BY <1>1, <3>1, <3>2, <3>3 DEF PlanOf, Named
    <3> QED
      BY <1>5, <3>4
  <2>3. k + 1 \in Refs(u)
    BY <1>5, <1>6
  <2> QED
    BY <1>6, <2>1, <2>2, <2>3, Zenon DEF Written
<1>8. Written(heap, stream \o items, Len(stream) + 1, Len(items), Head(packer.todo), <<>>)
  BY <1>1, <1>3, <1>7 DEF u, k
<1>9. Defs(stream \o items) = Defs(stream) /\ Len(items) \in 1 .. 3
  BY <1>3, <1>5 DEF u
<1> QED
  BY <1>1, <1>3, <1>4, <1>8, <1>9, UnlabelledPlanned

\* What a call writes of an object that it marks with a label.
LEMMA MarkedWritten ==
    ASSUME Agreed, heap \in Heaps, NEW s \in Seq(Items), NEW o \in Objects, NEW l \in Int,
           IF isMsgpackObject(o) THEN l < 0 ELSE l >= 0
    PROVE  LET t == Marked(o, l) \o Head_Items(o)
               u == s \o t
               k == Len(s) + 1
           IN  /\ Len(t) = 3 /\ Len(u) = Len(s) + 3
               /\ Written(heap, u, k, 3, o, heap[o].parts)
               /\ heap[o].class # "null" => u[k + 2] # CWP_ITEM_NIL
<1> DEFINE n     == persistentAttributeCount(o)
           m     == Marked(o, l)
           t     == m \o Head_Items(o)
           u     == s \o t
           k     == Len(s) + 1
           parts == heap[o].parts
<1>1. PICK i \in Items : Head_Items(o) = <<i>> /\
         IF isMsgpackObject(o)
         THEN /\ n = 0 /\ \A r, j : r[j] = i => Core(r, j, parts)
              /\ heap[o].class # "null" => i # CWP_ITEM_NIL
         ELSE /\ i = CWP_ITEM_STR(packerClassName(o)) /\ n = Len(parts)
              /\ packerClassName(o) \in Names
              /\ Suits(heap, packerClassName(o), parts)
  <2>1. CASE isMsgpackObject(o)
    BY <2>1, HeadOfCore
  <2>2. CASE ~isMsgpackObject(o)
    <3>1. /\ Head_Items(o) = <<CWP_ITEM_STR(packerClassName(o))>> /\ n = Len(parts)
          /\ packerClassName(o) \in Names /\ Suits(heap, packerClassName(o), parts)
      BY <2>2, HeadOfUser
    <3>2. CWP_ITEM_STR(packerClassName(o)) \in Items
      BY <3>1 DEF Items
    <3> QED
      BY <2>2, <3>1, <3>2
  <2> QED
    BY <2>1, <2>2
<1>2. n \in Nat
  BY HeadFacts
<1>3. /\ m \in Seq(Items) /\ Len(m) = 2
      /\ m[1] = CWP_ITEM_ARRAY(2 + n) /\ m[2] = CWP_ITEM_OBJECT_MARKER(l)
  <2>1. CWP_ITEM_ARRAY(2 + n) \in Items /\ CWP_ITEM_OBJECT_MARKER(l) \in Items
    BY <1>2 DEF Items
  <2> QED
    BY <2>1 DEF Marked
<1> HIDE DEF m, n
<1>4. /\ Head_Items(o) \in Seq(Items) /\ Len(Head_Items(o)) = 1 /\ Head_Items(o)[1] = i
  BY <1>1
<1>5. /\ t \in Seq(Items) /\ Len(t) = 3
      /\ t[1] = CWP_ITEM_ARRAY(2 + n) /\ t[2] = CWP_ITEM_OBJECT_MARKER(l) /\ t[3] = i
  <2> DEFINE v == Head_Items(o)
  <2>1. v \in Seq(Items) /\ Len(v) = 1 /\ v[1] = i
    BY <1>4
  <2> HIDE DEF v
  <2>2. t = m \o v
    BY DEF v
  <2>5. m \in Seq(Items) /\ v \in Seq(Items)
    BY <1>3, <2>1
  <2>6. /\ m \o v \in Seq(Items) /\ Len(m \o v) = Len(m) + Len(v)
        /\ \A j \in 1 .. Len(m) + Len(v) : (m \o v)[j] = IF j <= Len(m) THEN m[j] ELSE v[j - Len(m)]
    BY <2>5, ConcatProperties
  <2>3. /\ m \o v \in Seq(Items) /\ Len(m \o v) = 3
        /\ \A j \in 1 .. 3 : (m \o v)[j] = IF j <= 2 THEN m[j] ELSE v[j - 2]
    BY <1>3, <2>1, <2>6
  <2>4. (m \o v)[1] = m[1] /\ (m \o v)[2] = m[2] /\ (m \o v)[3] = v[1]
    BY <2>3
  <2> QED
    BY <1>3, <2>1, <2>2, <2>3, <2>4
<1> HIDE DEF t
<1>6. /\ Len(s) \in Nat /\ Len(u) = Len(s) + 3
      /\ u[k] = CWP_ITEM_ARRAY(2 + n) /\ u[k + 1] = CWP_ITEM_OBJECT_MARKER(l) /\ u[k + 2] = i
  <2>1. /\ Len(s) \in Nat /\ Len(u) = Len(s) + Len(t)
        /\ \A j \in 1 .. Len(s) + Len(t) : u[j] = IF j <= Len(s) THEN s[j] ELSE t[j - Len(s)]
    BY <1>5, ConcatProperties, LenProperties
  <2>2. /\ k \in 1 .. Len(s) + Len(t) /\ k + 1 \in 1 .. Len(s) + Len(t)
        /\ k + 2 \in 1 .. Len(s) + Len(t)
        /\ k - Len(s) = 1 /\ (k + 1) - Len(s) = 2 /\ (k + 2) - Len(s) = 3
        /\ ~(k <= Len(s)) /\ ~(k + 1 <= Len(s)) /\ ~(k + 2 <= Len(s))
    BY <1>5, <2>1
  <2> QED
    BY <1>5, <2>1, <2>2
<1> HIDE DEF u, k
<1>7. o # Raw
  BY DEF Agreed
<1>8. CASE isMsgpackObject(o)
  <2>1. n = 0 /\ Core(u, k + 2, parts) /\ (heap[o].class # "null" => i # CWP_ITEM_NIL)
    BY <1>1, <1>6, <1>8
  <2>2. u[k] = CWP_ITEM_ARRAY(2)
    BY <1>6, <2>1
  <2>3. LabelledAt(u, k, parts, l)
    BY <1>6, <1>8, <2>1, <2>2 DEF LabelledAt
  <2>4. Firm(heap, o) => u[k + 2] # CWP_ITEM_NIL
    BY <1>6, <2>1 DEF Firm
  <2>5. Written(heap, u, k, 3, o, parts)
    BY <1>7, <2>3, <2>4, Zenon DEF Written
  <2> QED
    BY <1>5, <1>6, <2>1, <2>5 DEF t, u, k, m
<1>9. CASE ~isMsgpackObject(o)
  <2>1. /\ i = CWP_ITEM_STR(packerClassName(o)) /\ n = Len(parts)
        /\ packerClassName(o) \in Names /\ Suits(heap, packerClassName(o), parts)
    BY <1>1, <1>9
  <2>2. l \in Nat /\ CWP_ITEM_STR(packerClassName(o)) # CWP_ITEM_NIL
    BY <1>9 DEF CWP_ITEM_STR, CWP_ITEM_NIL
  <2>3. UserAt(heap, u, k, parts, l, packerClassName(o))
    BY <1>6, <2>1, <2>2 DEF UserAt
  <2>4. Written(heap, u, k, 3, o, parts)
    BY <1>7, <2>3, Zenon DEF Written
  <2> QED
    BY <1>5, <1>6, <2>1, <2>2, <2>4 DEF t, u, k, m
<1> QED
  BY <1>8, <1>9

LEMMA PlainPlanned ==
    ASSUME Agreed, Sound(heap, packer, stream), PlanOf(heap, packer, stream), PackPlain
    PROVE  PlanOf(heap', packer', stream')
<1> DEFINE o     == Next_Object
           items == IF isMsgpackObject(o) THEN Head_Items(o)
                                          ELSE Marked(o, 0) \o Head_Items(o)
           parts == heap[o].parts
           k     == Len(stream) + 1
<1>1. /\ packer.todo # <<>> /\ o \in Objects /\ heap \in Heaps /\ stream \in Seq(Items)
      /\ Packs(packer, items, parts) /\ o = Head(packer.todo) /\ CountsRight(heap)
      /\ o # Raw /\ packer \in Packers
  BY DEF PackPlain, Packing, Sound, Next_Object, Agreed
<1> HIDE DEF o
<1>2. parts \in Seq(Packable)
  BY <1>1, HeadFacts DEF Packable
<1>3. /\ items \in Seq(Items) /\ Len(items) \in 1 .. 3
      /\ Begins(items, Len(parts))
      /\ \A j \in 1 .. Len(items) : items[j].type = "MARKER" => items[j].label = 0
      /\ Written(heap, stream \o items, k, Len(items), o, parts)
  <2>1. CASE isMsgpackObject(o)
    <3>1. PICK i \in Items :
              /\ Head_Items(o) = <<i>>
              /\ \A s, j : s[j] = i => Core(s, j, parts)
              /\ heap[o].class # "null" => i # CWP_ITEM_NIL
      BY <1>1, <2>1, HeadOfCore
    <3>2. /\ items = <<i>> /\ items \in Seq(Items) /\ Len(items) = 1 /\ items[1] = i
      BY <2>1, <3>1
    <3>3. /\ Begins(items, Len(parts))
          /\ \A j \in 1 .. Len(items) : items[j].type # "MARKER"
      <4>1. 0 \in Int /\ items = Head_Items(o)
        BY <2>1
      <4> QED
        BY <1>1, <2>1, <4>1, HeadBegins, HeadFacts
    <3> HIDE DEF items, parts
    <3>4. (stream \o items)[k] = i
      BY <1>1, <3>2, ConcatProperties, LenProperties
    <3> HIDE DEF k
    <3>5. Core(stream \o items, k, parts)
      BY <3>1, <3>4
    <3>6. Firm(heap, o) => (stream \o items)[k] # CWP_ITEM_NIL
      BY <1>1, <3>1, <3>4 DEF Firm
    <3>7. Written(heap, stream \o items, k, 1, o, parts)
      BY <1>1, <3>5, <3>6, Zenon DEF Written
    <3> QED
      BY <3>2, <3>3, <3>7
  <2>2. CASE ~isMsgpackObject(o)
    <3>1. 0 \in Int /\ 0 >= 0 /\ items = Marked(o, 0) \o Head_Items(o)
      BY <2>2
    <3> HIDE DEF items
    <3>2. Len(items) = 3 /\ Written(heap, stream \o items, k, 3, o, parts)
      BY <1>1, <2>2, <3>1, MarkedWritten
    <3>3. /\ items \in Seq(Items) /\ items[1] = CWP_ITEM_ARRAY(2 + persistentAttributeCount(o))
          /\ items[2] = CWP_ITEM_OBJECT_MARKER(0)
          /\ \A j \in 3 .. Len(items) : items[j].type # "MARKER"
      BY <1>1, <3>1, MarkedFacts
    <3>4. Begins(items, Len(parts))
      BY <1>1, <3>1, HeadBegins
    <3>5. ASSUME NEW j \in 1 .. Len(items), items[j].type = "MARKER" PROVE items[j].label = 0
      <4>1. j = 1 \/ j = 2 \/ j \in 3 .. Len(items)
        BY <3>2
      <4>2. items[1].type # "MARKER" /\ items[2].label = 0
        BY <3>3 DEF CWP_ITEM_ARRAY, CWP_ITEM_OBJECT_MARKER
      <4> QED
        BY <3>3, <3>5, <4>1, <4>2
    <3>6. Len(items) \in 1 .. 3
      BY <3>2
    <3> QED
      BY <3>2, <3>3, <3>4, <3>5, <3>6
  <2> QED
    BY <2>1, <2>2
<1> HIDE DEF items, parts
<1>4. Defs(stream \o items) = Defs(stream)
  BY <1>1, <1>3, UnlabelledGrow
<1>5. Written(heap, stream \o items, Len(stream) + 1, Len(items), Head(packer.todo), parts)
  BY <1>1, <1>3 DEF k
<1> QED
  BY <1>1, <1>2, <1>3, <1>4, <1>5, UnlabelledPlanned

\* The labels count down from -1 and up from 1.
LEMMA LabelSigns ==
    ASSUME Sound(heap, packer, stream), NEW o \in Objects
    PROVE  LET l == assignLabelForObject(o).labelMap[o]
           IN  l \in Int /\ IF isMsgpackObject(o) THEN l < 0 ELSE l > 0
<1>1. /\ packer \in Packers /\ stream \in Seq(Items)
      /\ -packer.packerLabelGenerator = Cardinality(Signed(stream, -1))
  BY DEF Sound, Counted
<1>2. packer.packerLabelGenerator \in Int /\ packer.userLabelGenerator \in Nat
      /\ packer.labelMap \in [Objects -> Int]
  BY <1>1 DEF Packers
<1>3. Cardinality(Signed(stream, -1)) \in Nat
  <2>1. IsFiniteSet(Defs(stream)) /\ Signed(stream, -1) \in SUBSET Defs(stream)
    BY <1>1, ItemFacts DEF Signed
  <2> QED
    BY <2>1, FS_Subset, FS_CardinalityType
<1>4. packer.packerLabelGenerator <= 0
  BY <1>1, <1>2, <1>3
<1>5. CASE isMsgpackObject(o)
  <2>1. assignLabelForObject(o).labelMap[o] = packer.packerLabelGenerator - 1
    BY <1>1, <1>2, <1>5 DEF assignLabelForObject, Packers
  <2> QED
    BY <1>2, <1>4, <1>5, <2>1
<1>6. CASE ~isMsgpackObject(o)
  <2>1. assignLabelForObject(o).labelMap[o] = packer.userLabelGenerator + 1
    BY <1>1, <1>2, <1>6 DEF assignLabelForObject, Packers
  <2> QED
    BY <1>2, <1>6, <2>1
<1> QED
  BY <1>5, <1>6

LEMMA LabelledPlanned ==
    ASSUME Agreed, Sound(heap, packer, stream), PlanOf(heap, packer, stream), PackLabelled
    PROVE  PlanOf(heap', packer', stream')
<1> DEFINE o     == Next_Object
           ctx   == assignLabelForObject(o)
           l     == ctx.labelMap[o]
           items == Marked(o, l) \o Head_Items(o)
           parts == heap[o].parts
           u     == stream \o items
           k     == Len(stream) + 1
           n     == 2 + persistentAttributeCount(o)
<1>1. /\ packer.todo # <<>> /\ o \in Objects /\ heap \in Heaps /\ stream \in Seq(Items)
      /\ Packs(ctx, items, parts) /\ o = Head(packer.todo) /\ CountsRight(heap)
      /\ packer \in Packers /\ packer.todo \in Seq(Packable)
  BY DEF PackLabelled, Packing, Sound, Next_Object, Agreed, Packers, Packable
<1>2. l \in Int /\ IF isMsgpackObject(o) THEN l < 0 ELSE l > 0
  BY <1>1, LabelSigns
<1>3. /\ ctx \in Packers /\ ctx.todo = packer.todo
      /\ ctx.labelMap = [packer.labelMap EXCEPT ![o] = l]
  BY <1>1, LabelAssigned DEF Assigned
<1>4. packer'.todo = parts \o Tail(packer.todo) /\ packer'.labelMap = ctx.labelMap
      /\ heap' = heap /\ stream' = u
  BY <1>1, <1>3 DEF Packs, Packers
<1>5. Sound(heap, packer', u)
  BY <1>4, LabelledStep
<1> HIDE DEF l, ctx, o
<1>6. parts \in Seq(Packable) /\ Begins(items, Len(parts))
  BY <1>1, <1>2, HeadFacts, HeadBegins DEF Packable
<1>7. /\ items \in Seq(Items) /\ Len(items) >= 2 /\ n \in Nat /\ n # 1
      /\ items[1] = CWP_ITEM_ARRAY(n) /\ items[2] = CWP_ITEM_OBJECT_MARKER(l)
      /\ \A j \in 3 .. Len(items) : items[j].type # "MARKER"
  BY <1>1, <1>2, MarkedFacts
<1>8. /\ Len(items) = 3 /\ Len(u) = Len(stream) + 3
      /\ Written(heap, u, k, 3, o, parts)
      /\ heap[o].class # "null" => u[k + 2] # CWP_ITEM_NIL
  <2>1. IF isMsgpackObject(o) THEN l < 0 ELSE l >= 0
    BY <1>2
  <2> QED
    BY <1>1, <1>2, <2>1, MarkedWritten
<1>9. /\ u \in Seq(Items) /\ Len(stream) \in Nat
      /\ \A j \in 1 .. Len(stream) : u[j] = stream[j]
      /\ u[Len(stream) + 2] = CWP_ITEM_OBJECT_MARKER(l)
      /\ Defs(u) = Defs(stream) \cup {Len(stream) + 2}
  <2> HIDE DEF items, n
  <2>1. l \in Int \ {0}
    BY <1>2
  <2> QED
    BY <1>1, <1>7, <2>1, LabelledGrow, LenProperties
<1>10. \E Q, e : Planned(Q, heap, packer', u) /\ Weighed(Q, e, u)
  <2>1. PICK P, d : Planned(P, heap, packer, stream) /\ Weighed(P, d, stream)
    BY DEF PlanOf
  <2>2. Len(items) \in 1 .. 3 /\ Written(heap, u, Len(stream) + 1, Len(items), Head(packer.todo), parts)
    BY <1>1, <1>8
  <2> HIDE DEF items, parts
  <2> QED
    BY <1>1, <1>4, <1>6, <1>7, <2>1, <2>2, PlanGrows DEF u
<1> HIDE DEF items, parts, u, n
<1>11. Named(heap, packer', u)
  <2> SUFFICES ASSUME NEW x \in Objects, NEW j \in Defs(u), packer'.labelMap[x] # 0,
                      u[j] = CWP_ITEM_OBJECT_MARKER(packer'.labelMap[x]),
                      heap[x].class # "null"
               PROVE  j + 1 \in 1 .. Len(u) /\ u[j + 1] # CWP_ITEM_NIL
    BY DEF Named
  <2>1. Ordered(u)
    BY <1>5 DEF Sound
  <2>2. u[j].label = packer'.labelMap[x]
    BY DEF CWP_ITEM_OBJECT_MARKER
  <2>3. packer.labelMap \in [Objects -> Int]
    BY <1>1 DEF Packers
  <2>4. CASE x = o
    <3>1. packer'.labelMap[x] = l
      BY <1>3, <1>4, <2>3, <2>4
    <3>2. Len(stream) + 2 \in Defs(u) /\ u[Len(stream) + 2].label = l
      BY <1>9 DEF CWP_ITEM_OBJECT_MARKER
    <3>3. j = Len(stream) + 2
      BY <1>9, <2>1, <2>2, <3>1, <3>2, LabelsDiffer
    <3> QED
      BY <1>8, <1>9, <2>4, <3>3 DEF k
  <2>5. CASE x # o
    <3>1. packer'.labelMap[x] = packer.labelMap[x]
      BY <1>3, <1>4, <2>3, <2>5
    <3>2. PICK i \in Defs(stream) : stream[i] = CWP_ITEM_OBJECT_MARKER(packer.labelMap[x])
      BY <3>1 DEF Sound, Counted
    <3>3. i \in 1 .. Len(stream) /\ u[i] = stream[i] /\ i \in Defs(u)
      BY <1>1, <1>9, <3>2, ItemFacts
    <3>4. u[i].label = packer.labelMap[x]
      BY <3>2, <3>3 DEF CWP_ITEM_OBJECT_MARKER
    <3>5. j = i
      BY <1>9, <2>1, <2>2, <3>1, <3>3, <3>4, LabelsDiffer
    <3>6. i + 1 \in 1 .. Len(stream) /\ stream[i + 1] # CWP_ITEM_NIL
      BY <3>1, <3>2 DEF PlanOf, Named
    <3> QED
      BY <1>8, <1>9, <3>5, <3>6
  <2> QED
    BY <2>4, <2>5
<1> QED
  BY <1>4, <1>10, <1>11 DEF PlanOf

\* The client's calls only add to what is to be packed.
LEMMA ClientPlanned ==
    ASSUME Sound(heap, packer, stream), PlanOf(heap, packer, stream),
           packObject \/ setUseLabels
    PROVE  PlanOf(heap', packer', stream')
<1>1. packer \in Packers /\ stream \in Seq(Items)
  BY DEF Sound
<1>2. PICK P, d : Planned(P, heap, packer, stream) /\ Weighed(P, d, stream)
  BY DEF PlanOf
<1>3. heap' = heap /\ stream' = stream /\ packer'.labelMap = packer.labelMap
  BY <1>1 DEF packObject, setUseLabels, Packers
<1>4. \E Q, e : Planned(Q, heap, packer', stream) /\ Weighed(Q, e, stream)
  <2>1. CASE packObject
    <3>1. PICK o \in Objects : packer'.todo = <<o>> /\ packer.todo = <<>>
      BY <1>1, <2>1 DEF packObject, Packers
    <3> QED
      BY <1>1, <1>2, <3>1, PlanExtended DEF Packable
  <2>2. CASE setUseLabels
    <3>1. packer'.todo = packer.todo
      BY <1>1, <2>2 DEF setUseLabels, Packers
    <3>2. Planned(P, heap, packer', stream)
      BY <1>2, <3>1 DEF Planned
    <3> QED
      BY <1>2, <3>2
  <2> QED
    BY <2>1, <2>2
<1>5. Named(heap, packer', stream)
  BY <1>3 DEF PlanOf, Named
<1> QED
  BY <1>3, <1>4, <1>5 DEF PlanOf

LEMMA InitPlanned == Init => PInv
<1> SUFFICES ASSUME Init, ~foreign PROVE PlanOf(heap, packer, stream)
  BY DEF PInv
<1>1. stream = <<>> /\ packer.todo = <<>> /\ \A o \in Objects : packer.labelMap[o] = 0
  BY DEF Init, PackInit, NewPacker
<1> DEFINE P == [k \in 1 .. 1 |-> <<>>]
           d == [k \in 0 .. 0 |-> 0]
<1>2. /\ Len(<<>>) = 0 /\ <<>> \in Seq(Packable)
      /\ DOMAIN P = {1} /\ P[1] = <<>> /\ d \in [0 .. 0 -> Int] /\ d[0] = 0
  BY EmptySeq
<1> HIDE DEF P, d
<1>3. Planned(P, heap, packer, <<>>)
  <2> DEFINE e == <<>>
  <2>1. Len(e) = 0 /\ 1 .. Len(e) + 1 = {1} /\ Len(e) + 1 = 1 /\ packer.todo = P[1]
        /\ P[1] \in Seq(Packable)
    BY <1>1, <1>2
  <2> HIDE DEF e
  <2>2. Planned(P, heap, packer, e)
    BY <1>2, <2>1, Zenon DEF Planned
  <2> QED
    BY <2>2 DEF e
<1>4. Balance(d, <<>>)
  BY <1>2 DEF Balance
<1>5. Weighed(P, d, <<>>)
  BY <1>2, <1>4 DEF Weighed
<1>6. Named(heap, packer, <<>>)
  BY <1>1 DEF Named
<1> QED
  BY <1>1, <1>3, <1>5, <1>6 DEF PlanOf

LEMMA NextPlanned == ASSUME Agreed, IInv, PInv, [Next]_vars PROVE PInv'
<1> SUFFICES ASSUME ~foreign' PROVE PlanOf(heap', packer', stream')
  BY DEF PInv
<1>1. CASE Pack
  <2>1. Sound(heap, packer, stream) /\ PlanOf(heap, packer, stream)
    BY <1>1 DEF IInv, PInv, Pack
  <2>2. CASE packObject \/ setUseLabels
    BY <2>1, <2>2, ClientPlanned
  <2>3. CASE PackPart
    BY <2>1, <2>3, PartPlanned
  <2>4. CASE PackReference
    BY <2>1, <2>4, ReferencePlanned
  <2>5. CASE PackLabelled
    BY <2>1, <2>5, LabelledPlanned
  <2>6. CASE PackPlain
    BY <2>1, <2>6, PlainPlanned
  <2> QED
    BY <1>1, <2>2, <2>3, <2>4, <2>5, <2>6 DEF Pack, PackObjectStep
<1>2. CASE UNCHANGED <<stream, packVars, foreign>>
  BY <1>2 DEF PInv, packVars
<1>3. \/ Pack \/ UNCHANGED <<stream, packVars, foreign>>
  BY DEF Next, vars, packVars, HandOver, UnpackerAtWork, UnpackerCalled, DumpStart,
         DumperAtWork, Done
<1> QED
  BY <1>1, <1>2, <1>3

-------------------------------------------------------------------------------
(* The reader: what it keeps, and what its operations change of it.        *)

Words == Names \cup Objects \cup
         {Raw, "NO", "none", "array", "map", "string", "value", "external", "garbage"}

MadeObjects == [class : Words, value : Words, parts : Seq(Int)]

Places == Nat \ {0}

\* What calls return when n objects have been made: one of them, or no object.
Returns(n) == {v \in Int : v <= n}

Frames(n) ==
    [call : {"cwUnpackNextObjectSub"}, label : Int] \cup
    [call : {"first"}, label : Int, dim : Places] \cup
    [call : {"class"}, label : Int, left : Int] \cup
    [call : {"array", "set", "generic"}, object : 1 .. n, left : Int] \cup
    [call : {"map"}, object : 1 .. n, left : Int, key : Returns(n)] \cup
    [call : {"user"}, object : 1 .. n, reads : Seq({"object", "number"})]

\* A reader that has made n objects.
Readers(n) ==
    [pos : Nat, rc : Int, userReferences : Seq(Returns(n)),
     packerReferences : Seq(Returns(n)) \ {<<>>},
     made : {m \in Seq(MadeObjects) : Len(m) = n}, stack : Seq(Frames(n)),
     ret : Returns(n), raised : BOOLEAN, results : Seq(Int)]

\* Nothing but the calls under way and what the last one has returned.
SameBut(r, t) ==
    /\ t.pos = r.pos /\ t.rc = r.rc /\ t.raised = r.raised
    /\ t.userReferences = r.userReferences /\ t.packerReferences = r.packerReferences
    /\ t.made = r.made /\ t.results = r.results

\* A call put on top of others.
LEMMA OnTop ==
    ASSUME NEW n \in Nat, NEW f \in Frames(n), NEW st \in Seq(Frames(n))
    PROVE  LET u == <<f>> \o st
           IN  /\ u \in Seq(Frames(n)) /\ u # <<>> /\ Head(u) = f /\ Tail(u) = st
               /\ Len(st) \in Nat /\ Len(u) = Len(st) + 1 /\ u[1] = f
               /\ \A i \in 1 .. Len(st) : u[i + 1] = st[i]
<1> DEFINE v == <<f>>
           u == v \o st
<1>1. v \in Seq(Frames(n)) /\ Len(v) = 1 /\ v[1] = f
  OBVIOUS
<1> HIDE DEF v
<1>2. /\ u \in Seq(Frames(n)) /\ Len(u) = Len(v) + Len(st) /\ Len(st) \in Nat
      /\ \A i \in 1 .. Len(v) + Len(st) : u[i] = IF i <= Len(v) THEN v[i] ELSE st[i - Len(v)]
  BY <1>1, ConcatProperties, LenProperties
<1> HIDE DEF u
<1>3. Len(u) = Len(st) + 1 /\ u[1] = f
  BY <1>1, <1>2
<1>4. ASSUME NEW i \in 1 .. Len(st) PROVE u[i + 1] = st[i]
  <2>1. i + 1 \in 1 .. Len(v) + Len(st) /\ ~(i + 1 <= Len(v)) /\ (i + 1) - Len(v) = i
    BY <1>1, <1>2
  <2> QED
    BY <1>2, <2>1
<1>5. u # <<>>
  BY <1>2, <1>3, EmptySeq
<1>6. Head(u) = f
  BY <1>3, <1>5
<1>7. Tail(u) = st
  <2>1. /\ Tail(u) \in Seq(Frames(n)) /\ Len(Tail(u)) = Len(u) - 1
        /\ \A i \in 1 .. Len(Tail(u)) : Tail(u)[i] = u[i + 1]
    BY <1>2, <1>5, HeadTailProperties
  <2>2. Len(Tail(u)) = Len(st) /\ \A i \in 1 .. Len(st) : Tail(u)[i] = st[i]
    BY <1>2, <1>3, <1>4, <2>1
  <2> QED
    BY <1>2, <2>1, <2>2, SeqEqual
<1> QED
  BY <1>2, <1>3, <1>4, <1>5, <1>6, <1>7 DEF u, v

LEMMA TopGone ==
    ASSUME NEW n \in Nat, NEW st \in Seq(Frames(n)), st # <<>>
    PROVE  /\ Head(st) \in Frames(n) /\ Head(st) = st[1] /\ Tail(st) \in Seq(Frames(n))
           /\ Len(st) \in Nat \ {0} /\ Len(Tail(st)) = Len(st) - 1
           /\ \A i \in 1 .. Len(st) - 1 : Tail(st)[i] = st[i + 1]
BY HeadTailProperties, LenProperties, EmptySeq

LEMMA CallFacts ==
    ASSUME NEW n \in Nat, NEW r \in Readers(n), NEW f \in Frames(n)
    PROVE  LET t == Call(r, f)
           IN  /\ t \in Readers(n) /\ SameBut(r, t) /\ t.ret = NONE /\ t.stack = <<f>> \o r.stack
<1> DEFINE st == <<f>> \o r.stack
<1>1. st \in Seq(Frames(n))
  BY OnTop DEF Readers
<1>2. Call(r, f) = [r EXCEPT !.stack = st, !.ret = NONE]
  BY DEF Call
<1> HIDE DEF st
<1>3. Call(r, f) \in Readers(n) /\ Call(r, f).stack = st /\ Call(r, f).ret = NONE
      /\ SameBut(r, Call(r, f))
  <2>1. NONE \in Returns(n)
    BY DEF NONE, Returns
  <2> QED
    BY <1>1, <1>2, <2>1 DEF Readers, SameBut
<1> QED
  BY <1>3 DEF st

LEMMA GoOnFacts ==
    ASSUME NEW n \in Nat, NEW r \in Readers(n), r.stack # <<>>, NEW f \in Frames(n)
    PROVE  LET t == GoOn(r, f)
           IN  /\ t \in Readers(n) /\ SameBut(r, t) /\ t.ret = NONE
               /\ t.stack = <<f>> \o Tail(r.stack)
<1> DEFINE st == <<f>> \o Tail(r.stack)
<1>1. st \in Seq(Frames(n))
  BY OnTop, TopGone DEF Readers
<1>2. GoOn(r, f) = [r EXCEPT !.stack = st, !.ret = NONE]
  BY DEF GoOn
<1> HIDE DEF st
<1>3. GoOn(r, f) \in Readers(n) /\ GoOn(r, f).stack = st /\ GoOn(r, f).ret = NONE
      /\ SameBut(r, GoOn(r, f))
  <2>1. NONE \in Returns(n)
    BY DEF NONE, Returns
  <2> QED
    BY <1>1, <1>2, <2>1 DEF Readers, SameBut
<1> QED
  BY <1>3 DEF st

LEMMA ReturnFacts ==
    ASSUME NEW n \in Nat, NEW r \in Readers(n), r.stack # <<>>, NEW v \in Returns(n)
    PROVE  LET t == Return(r, v)
           IN  t \in Readers(n) /\ SameBut(r, t) /\ t.ret = v /\ t.stack = Tail(r.stack)
<1> DEFINE st == Tail(r.stack)
<1>1. st \in Seq(Frames(n))
  BY TopGone DEF Readers
<1>2. Return(r, v) = [r EXCEPT !.stack = st, !.ret = v]
  BY DEF Return
<1> HIDE DEF st
<1>3. Return(r, v) \in Readers(n) /\ Return(r, v).stack = st /\ Return(r, v).ret = v
      /\ SameBut(r, Return(r, v))
  BY <1>1, <1>2 DEF Readers, SameBut
<1> QED
  BY <1>3 DEF st

\* A reader that has made more objects can have kept what it had.
LEMMA MoreMade ==
    ASSUME NEW n \in Nat
    PROVE  Returns(n) \subseteq Returns(n + 1) /\ Frames(n) \subseteq Frames(n + 1)
<1>1. Returns(n) \subseteq Returns(n + 1)
  BY DEF Returns
<1>2. 1 .. n \subseteq 1 .. n + 1
  OBVIOUS
<1>3. ASSUME NEW f \in Frames(n) PROVE f \in Frames(n + 1)
  BY <1>1, <1>2, Zenon DEF Frames
<1> QED
  BY <1>1, <1>3

\* An object is made: the calls under way, and the references, stay.
LEMMA MakeFacts ==
    ASSUME NEW n \in Nat, NEW r \in Readers(n), NEW c \in Words, NEW v \in Words
    PROVE  LET t == Make(r, c, v)
           IN  /\ t \in Readers(n + 1) /\ t.stack = r.stack /\ t.ret = r.ret
               /\ t.pos = r.pos /\ t.rc = r.rc /\ t.raised = r.raised
               /\ t.userReferences = r.userReferences
               /\ t.packerReferences = r.packerReferences
               /\ Newest(t) = n + 1
               /\ t.made[n + 1].class = c /\ t.made[n + 1].value = v
               /\ \A i \in 1 .. n : t.made[i] = r.made[i]
<1> DEFINE o == [class |-> c, value |-> v, parts |-> <<>>]
           m == Append(r.made, o)
<1>1. o \in MadeObjects /\ o.class = c /\ o.value = v
  <2>1. <<>> \in Seq(Int)
    OBVIOUS
  <2> QED
    BY <2>1 DEF MadeObjects
<1>2. Make(r, c, v) = [r EXCEPT !.made = m]
  BY DEF Make
<1> HIDE DEF o
<1>3. r.made \in Seq(MadeObjects) /\ Len(r.made) = n
  BY DEF Readers
<1>4. /\ m \in Seq(MadeObjects) /\ Len(m) = n + 1 /\ m[n + 1] = o
      /\ \A i \in 1 .. n : m[i] = r.made[i]
  BY <1>1, <1>3, AppendProperties
<1> HIDE DEF m
<1>5. /\ r.userReferences \in Seq(Returns(n + 1))
      /\ r.packerReferences \in Seq(Returns(n + 1)) \ {<<>>}
      /\ r.stack \in Seq(Frames(n + 1)) /\ r.ret \in Returns(n + 1)
  <2>1. /\ r.userReferences \in Seq(Returns(n)) /\ r.packerReferences \in Seq(Returns(n)) \ {<<>>}
        /\ r.stack \in Seq(Frames(n)) /\ r.ret \in Returns(n)
    BY DEF Readers
  <2>2. Seq(Returns(n)) \subseteq Seq(Returns(n + 1)) /\ Seq(Frames(n)) \subseteq Seq(Frames(n + 1))
    BY MoreMade, SeqMonotonic, Zenon
  <2> QED
    BY <2>1, <2>2, MoreMade
<1> DEFINE t == Make(r, c, v)
<1>6. /\ t \in Readers(n + 1) /\ t.stack = r.stack /\ t.ret = r.ret
      /\ t.pos = r.pos /\ t.rc = r.rc /\ t.raised = r.raised
      /\ t.userReferences = r.userReferences
      /\ t.packerReferences = r.packerReferences /\ t.made = m
  BY <1>2, <1>4, <1>5 DEF Readers
<1> HIDE DEF t
<1>7. Newest(t) = n + 1
  BY <1>4, <1>6 DEF Newest
<1> QED
  BY <1>1, <1>4, <1>6, <1>7 DEF t

\* Nothing but the parts of objects.
AllBut(n, r, t) ==
    /\ t \in Readers(n) /\ t.stack = r.stack /\ t.ret = r.ret
    /\ t.pos = r.pos /\ t.rc = r.rc /\ t.raised = r.raised
    /\ t.userReferences = r.userReferences
    /\ t.packerReferences = r.packerReferences
    /\ DOMAIN t.made = DOMAIN r.made
    /\ \A i \in DOMAIN r.made : /\ t.made[i].class = r.made[i].class
                                /\ t.made[i].value = r.made[i].value

\* Other parts change no object's class and value.
LEMMA PartsFacts ==
    ASSUME NEW n \in Nat, NEW r \in Readers(n), NEW k, NEW ps,
           k \in DOMAIN r.made => ps \in Seq(Int),
           NEW t, t = [r EXCEPT !.made = [r.made EXCEPT ![k].parts = ps]]
    PROVE  AllBut(n, r, t)
<1> DEFINE m == [r.made EXCEPT ![k].parts = ps]
<1>1. r.made \in Seq(MadeObjects) /\ Len(r.made) = n /\ DOMAIN r.made = 1 .. Len(r.made) /\ Len(r.made) \in Nat
  BY LenProperties DEF Readers
<1>2. /\ m \in Seq(MadeObjects) /\ Len(m) = Len(r.made) /\ DOMAIN m = DOMAIN r.made
      /\ \A i \in DOMAIN r.made : m[i].class = r.made[i].class /\ m[i].value = r.made[i].value
  <2>1. CASE k \notin DOMAIN r.made
    <3>1. m = r.made
      BY <1>1, <2>1
    <3> QED
      BY <1>1, <3>1
  <2>2. CASE k \in DOMAIN r.made
    <3>1. r.made[k] \in MadeObjects /\ k \in 1 .. Len(r.made)
      BY <1>1, <2>2, ElementOfSeq
    <3> DEFINE o == [r.made[k] EXCEPT !.parts = ps]
    <3>2. ps \in Seq(Int)
      BY <2>2
    <3>3. o \in MadeObjects /\ o.class = r.made[k].class /\ o.value = r.made[k].value
      BY <3>1, <3>2 DEF MadeObjects
    <3>4. m = [r.made EXCEPT ![k] = o]
      BY <2>2, <3>1
    <3> HIDE DEF o, m
    <3>5. /\ m \in Seq(MadeObjects) /\ Len(m) = Len(r.made)
          /\ \A j \in 1 .. Len(r.made) : m[j] = IF j = k THEN o ELSE r.made[j]
      BY <1>1, <3>1, <3>3, <3>4, ExceptSeq
    <3>6. DOMAIN m = 1 .. Len(m)
      BY <3>5, LenProperties
    <3> QED
      BY <1>1, <3>3, <3>5, <3>6
  <2> QED
    BY <2>1, <2>2
<1> HIDE DEF m
<1>3. /\ t \in Readers(n) /\ t.stack = r.stack /\ t.ret = r.ret
      /\ t.pos = r.pos /\ t.rc = r.rc /\ t.raised = r.raised
      /\ t.userReferences = r.userReferences
      /\ t.packerReferences = r.packerReferences /\ t.made = m
  BY <1>1, <1>2 DEF Readers, m
<1> QED
  BY <1>2, <1>3 DEF AllBut

\* A part more, or another one in a place.
PartSet(r, k, j, v) == [r EXCEPT !.made[k].parts[j] = v]

LEMMA AddPartFacts ==
    ASSUME NEW n \in Nat, NEW r \in Readers(n), NEW k, NEW v \in Int,
           NEW t, t = AddPart(r, k, v) \/ \E j : t = PartSet(r, k, j, v)
    PROVE  AllBut(n, r, t)
<1>1. ASSUME k \in DOMAIN r.made PROVE r.made[k].parts \in Seq(Int)
  <2>1. r.made \in Seq(MadeObjects) /\ k \in 1 .. Len(r.made)
    BY <1>1, LenProperties DEF Readers
  <2>2. r.made[k] \in MadeObjects
    BY <2>1, ElementOfSeq
  <2> QED
    BY <2>2 DEF MadeObjects
<1>2. CASE t = AddPart(r, k, v)
  <2> DEFINE ps == Append(r.made[k].parts, v)
  <2>1. k \in DOMAIN r.made => ps \in Seq(Int)
    BY <1>1, AppendProperties
  <2>2. t = [r EXCEPT !.made = [r.made EXCEPT ![k].parts = ps]]
    BY <1>2 DEF AddPart
  <2> HIDE DEF ps
  <2> QED
    BY <2>1, <2>2, PartsFacts
<1>3. CASE \E j : t = PartSet(r, k, j, v)
  <2>1. PICK j : t = PartSet(r, k, j, v)
    BY <1>3
  <2> DEFINE ps == [r.made[k].parts EXCEPT ![j] = v]
  <2>2. k \in DOMAIN r.made => ps \in Seq(Int)
    <3>1. ASSUME k \in DOMAIN r.made, j \in 1 .. Len(r.made[k].parts) PROVE ps \in Seq(Int)
      BY <1>1, <3>1, ExceptSeq
    <3>2. ASSUME k \in DOMAIN r.made, j \notin 1 .. Len(r.made[k].parts) PROVE ps \in Seq(Int)
      <4>1. r.made[k].parts \in Seq(Int)
        BY <1>1, <3>2
      <4>2. j \notin DOMAIN r.made[k].parts
        BY <3>2, <4>1, LenProperties
      <4>3. ps = r.made[k].parts
        BY <4>1, <4>2
      <4> QED
        BY <4>1, <4>3
    <3> QED
      BY <3>1, <3>2
  <2>3. t = [r EXCEPT !.made = [r.made EXCEPT ![k].parts = ps]]
    BY <2>1 DEF PartSet
  <2> HIDE DEF ps
  <2> QED
    BY <2>2, <2>3, PartsFacts
<1> QED
  BY <1>2, <1>3

\* What is fetched.
LEMMA FetchedFacts ==
    ASSUME NEW n \in Nat, NEW r \in Readers(n), stream \in Seq(Items), limit \in 0 .. Len(stream), r.pos <= limit
    PROVE  LET f == Fetch(r.pos, r.rc)
               t == Fetched(r, f)
           IN  /\ t \in Readers(n) /\ t.stack = r.stack /\ t.ret = r.ret /\ t.raised = r.raised
               /\ t.made = r.made /\ t.userReferences = r.userReferences
               /\ t.packerReferences = r.packerReferences /\ t.results = r.results
               /\ t.pos = f.pos /\ t.rc = f.rc
               /\ r.rc # CWP_RC_OK => f = [pos |-> r.pos, rc |-> r.rc, item |-> CWP_NOT_AN_ITEM]
               /\ r.rc = CWP_RC_OK /\ r.pos = limit =>
                    f = [pos |-> r.pos, rc |-> CWP_RC_END_OF_INPUT, item |-> CWP_NOT_AN_ITEM]
               /\ r.rc = CWP_RC_OK /\ r.pos < limit =>
                    /\ f.pos = r.pos + 1 /\ f.rc = CWP_RC_OK /\ f.item = stream[r.pos + 1]
                    /\ r.pos + 1 \in 1 .. Len(stream) /\ stream[r.pos + 1] \in Items
<1> DEFINE f == Fetch(r.pos, r.rc)
           t == Fetched(r, f)
<1>1. r.pos \in Nat /\ r.rc \in Int /\ Len(stream) \in Nat /\ limit \in Int
  BY LenProperties DEF Readers
<1>2. CWP_RC_END_OF_INPUT \in Int /\ CWP_RC_OK \in Int
  BY DEF CWP_RC_END_OF_INPUT, CWP_RC_OK
<1>3. CASE r.rc # CWP_RC_OK
  <2>1. f = [pos |-> r.pos, rc |-> r.rc, item |-> CWP_NOT_AN_ITEM]
    BY <1>3 DEF Fetch
  <2> HIDE DEF f
  <2>2. f.pos = r.pos /\ f.rc = r.rc
    BY <2>1
  <2>3. /\ t \in Readers(n) /\ t.stack = r.stack /\ t.ret = r.ret /\ t.raised = r.raised
        /\ t.made = r.made /\ t.userReferences = r.userReferences
        /\ t.packerReferences = r.packerReferences /\ t.results = r.results
        /\ t.pos = f.pos /\ t.rc = f.rc
    BY <1>1, <2>2 DEF Fetched, Readers
  <2> QED
    BY <1>3, <2>1, <2>3 DEF f
<1>4. CASE r.rc = CWP_RC_OK /\ r.pos = limit
  <2>1. f = [pos |-> r.pos, rc |-> CWP_RC_END_OF_INPUT, item |-> CWP_NOT_AN_ITEM]
    BY <1>1, <1>4 DEF Fetch
  <2> HIDE DEF f
  <2>2. f.pos = r.pos /\ f.rc = CWP_RC_END_OF_INPUT
    BY <2>1
  <2>3. /\ t \in Readers(n) /\ t.stack = r.stack /\ t.ret = r.ret /\ t.raised = r.raised
        /\ t.made = r.made /\ t.userReferences = r.userReferences
        /\ t.packerReferences = r.packerReferences /\ t.results = r.results
        /\ t.pos = f.pos /\ t.rc = f.rc
    BY <1>1, <1>2, <2>2 DEF Fetched, Readers
  <2> QED
    BY <1>1, <1>4, <2>1, <2>3 DEF f
<1>5. CASE r.rc = CWP_RC_OK /\ r.pos < limit
  <2>1. f = [pos |-> r.pos + 1, rc |-> CWP_RC_OK, item |-> stream[r.pos + 1]]
    BY <1>1, <1>5 DEF Fetch
  <2> HIDE DEF f
  <2>2. f.pos = r.pos + 1 /\ f.rc = CWP_RC_OK /\ f.item = stream[r.pos + 1]
        /\ f.pos \in Nat /\ f.rc \in Int
    BY <1>1, <1>2, <2>1
  <2>3. /\ t \in Readers(n) /\ t.stack = r.stack /\ t.ret = r.ret /\ t.raised = r.raised
        /\ t.made = r.made /\ t.userReferences = r.userReferences
        /\ t.packerReferences = r.packerReferences /\ t.results = r.results
        /\ t.pos = f.pos /\ t.rc = f.rc
    BY <1>1, <1>2, <2>2 DEF Fetched, Readers
  <2>4. r.pos + 1 \in 1 .. Len(stream)
    BY <1>1, <1>5
  <2>5. stream[r.pos + 1] \in Items
    BY <2>4, ElementOfSeq
  <2> QED
    BY <1>5, <1>1, <2>2, <2>3, <2>4, <2>5 DEF f
<1> QED
  BY <1>1, <1>3, <1>4, <1>5

LEMMA OneMore ==
    ASSUME NEW S, NEW refs \in Seq(S), NEW v \in S
    PROVE  Append(refs, v) \in Seq(S) \ {<<>>}
<1>1. Append(refs, v) \in Seq(S) /\ Len(Append(refs, v)) = Len(refs) + 1 /\ Len(refs) \in Nat
  BY AppendProperties, LenProperties
<1>2. Len(<<>>) = 0
  BY EmptySeq
<1> QED
  BY <1>1, <1>2

\* References with one more behind them, if it came with a label.
Lengthened(refs, label, v) == IF label = 0 THEN refs ELSE Append(refs, v)

LEMMA ReferToFacts ==
    ASSUME NEW n \in Nat, NEW r \in Readers(n), NEW label
    PROVE  LET t == ReferTo(r, label)
           IN  /\ t \in Readers(n) /\ t.stack = r.stack /\ t.ret = r.ret
               /\ t.pos = r.pos /\ t.rc = r.rc /\ t.raised = r.raised /\ t.made = r.made
               /\ t.userReferences = r.userReferences
               /\ t.packerReferences = Lengthened(r.packerReferences, label, Newest(r))
<1> DEFINE refs == Append(r.packerReferences, Newest(r))
<1>1. refs \in Seq(Returns(n)) \ {<<>>}
  <2>1. Newest(r) = n /\ n \in Returns(n) /\ r.packerReferences \in Seq(Returns(n))
    BY DEF Newest, Readers, Returns
  <2> QED
    BY <2>1, OneMore
<1>2. ReferTo(r, label) = IF label = 0 THEN r ELSE [r EXCEPT !.packerReferences = refs]
  BY DEF ReferTo
<1>3. Lengthened(r.packerReferences, label, Newest(r)) =
         IF label = 0 THEN r.packerReferences ELSE refs
  BY DEF Lengthened
<1> HIDE DEF refs
<1>4. CASE label = 0
  BY <1>2, <1>3, <1>4
<1>5. CASE label # 0
  <2> DEFINE t == ReferTo(r, label)
  <2>1. t = [r EXCEPT !.packerReferences = refs]
    BY <1>2, <1>5
  <2> HIDE DEF t
  <2>2. /\ t \in Readers(n) /\ t.stack = r.stack /\ t.ret = r.ret
        /\ t.pos = r.pos /\ t.rc = r.rc /\ t.raised = r.raised /\ t.made = r.made
        /\ t.userReferences = r.userReferences /\ t.packerReferences = refs
    BY <1>1, <2>1 DEF Readers
  <2> QED
    BY <1>3, <1>5, <2>2 DEF t
<1> QED
  BY <1>4, <1>5

\* A label is looked at only when the object is returned.
LEMMA ReturnLabelledFacts ==
    ASSUME NEW n \in Nat, NEW r \in Readers(n), r.stack # <<>>, NEW v \in Returns(n), NEW label \in Int
    PROVE  LET t == ReturnLabelled(r, v, label)
           IN  /\ t \in Readers(n) /\ t.stack = Tail(r.stack) /\ t.ret = v
               /\ t.pos = r.pos /\ t.raised = r.raised /\ t.made = r.made
               /\ t.userReferences = r.userReferences
               /\ label = 0 \/ label = -Len(r.packerReferences) =>
                    /\ t.rc = r.rc
                    /\ t.packerReferences = Lengthened(r.packerReferences, label, v)
<1> DEFINE s    == Return(r, v)
           refs == Append(s.packerReferences, v)
           t    == ReturnLabelled(r, v, label)
<1>1. s \in Readers(n) /\ SameBut(r, s) /\ s.ret = v /\ s.stack = Tail(r.stack)
  BY ReturnFacts
<1>2. refs \in Seq(Returns(n)) \ {<<>>}
  <2>1. s.packerReferences \in Seq(Returns(n))
    BY <1>1 DEF Readers
  <2> QED
    BY <2>1, OneMore
<1>3. CWP_RC_MALFORMED_INPUT \in Int
  BY DEF CWP_RC_MALFORMED_INPUT
<1>4. CASE label # 0 /\ label # -Len(r.packerReferences)
  <2>1. t = [s EXCEPT !.rc = CWP_RC_MALFORMED_INPUT]
    BY <1>4 DEF ReturnLabelled
  <2> HIDE DEF s, t
  <2>2. /\ t \in Readers(n) /\ t.stack = s.stack /\ t.ret = s.ret
        /\ t.pos = s.pos /\ t.raised = s.raised /\ t.made = s.made
        /\ t.userReferences = s.userReferences
    BY <1>1, <1>3, <2>1 DEF Readers
  <2> QED
    BY <1>1, <1>4, <2>2 DEF SameBut, t
<1>5. CASE label = 0
  <2>1. t = s
    BY <1>5 DEF ReturnLabelled
  <2> QED
    BY <1>1, <1>5, <2>1 DEF SameBut, Lengthened
<1>6. CASE label # 0 /\ label = -Len(r.packerReferences)
  <2>1. t = [s EXCEPT !.packerReferences = refs]
    BY <1>6 DEF ReturnLabelled
  <2>2. refs = Lengthened(r.packerReferences, label, v)
    BY <1>1, <1>6 DEF Lengthened, SameBut
  <2> HIDE DEF s, t, refs
  <2>3. /\ t \in Readers(n) /\ t.stack = s.stack /\ t.ret = s.ret
        /\ t.pos = s.pos /\ t.raised = s.raised /\ t.made = s.made /\ t.rc = s.rc
        /\ t.userReferences = s.userReferences /\ t.packerReferences = refs
    BY <1>1, <1>2, <2>1 DEF Readers
  <2> QED
    BY <1>1, <1>6, <2>2, <2>3 DEF SameBut, t
<1> QED
  BY <1>4, <1>5, <1>6
\* The objects made so far are none made of what is no item.
Clean(made) ==
    \A i \in DOMAIN made : /\ made[i].class # "garbage"
                           /\ made[i].class = "string" => made[i].value # "garbage"

\* What cwUnpackObject makes of each kind of item, n objects being made already.
UnpackedAs(n, r, item, label, t) ==
    /\ t.pos = r.pos /\ t.raised = r.raised /\ t.userReferences = r.userReferences
    /\ \/ /\ item = CWP_ITEM_NIL /\ t \in Readers(n)
          /\ t.stack = Tail(r.stack) /\ t.ret = NSNull /\ t.made = r.made
          /\ label = 0 \/ label = -Len(r.packerReferences) =>
               t.rc = r.rc /\ t.packerReferences = Lengthened(r.packerReferences, label, NSNull)
       \/ \E k \in Nat :
          /\ item = CWP_ITEM_MAP(k) /\ t \in Readers(n + 1) /\ t.rc = r.rc
          /\ t.stack = <<[call |-> "map", object |-> n + 1, left |-> 2 * k,
                          key |-> NONE]>> \o Tail(r.stack)
          /\ t.packerReferences = Lengthened(r.packerReferences, label, n + 1)
          /\ t.ret = NONE /\ (Clean(r.made) => Clean(t.made))
       \/ \E k \in Places :
          /\ item = CWP_ITEM_ARRAY(k) /\ t \in Readers(n) /\ t.rc = r.rc
          /\ t.stack = <<[call |-> "first", label |-> label, dim |-> k]>> \o Tail(r.stack)
          /\ t.ret = NONE /\ t.made = r.made /\ t.packerReferences = r.packerReferences
       \/ /\ \/ item = CWP_ITEM_ARRAY(0)
             \/ \E l : item = CWP_ITEM_OBJECT_MARKER(l)
             \/ \E v : item = CWP_ITEM_VALUE(v)
             \/ \E name \in Names : /\ item = CWP_ITEM_STR(name)
                                    /\ t.made[n + 1].class = "string"
                                    /\ t.made[n + 1].value = name
          /\ t \in Readers(n + 1) /\ t.stack = Tail(r.stack) /\ t.ret = n + 1
          /\ item # CWP_ITEM_STR("garbage") /\ Clean(r.made) => Clean(t.made)
          /\ label = 0 \/ label = -Len(r.packerReferences) =>
               t.rc = r.rc /\ t.packerReferences = Lengthened(r.packerReferences, label, n + 1)

LEMMA MadeClean ==
    ASSUME NEW n \in Nat, NEW r \in Readers(n), Clean(r.made), NEW c \in Words, NEW v \in Words,
           c # "garbage", c = "string" => v # "garbage"
    PROVE  Clean(Make(r, c, v).made)
<1> DEFINE t == Make(r, c, v)
<1>1. /\ t \in Readers(n + 1) /\ t.made[n + 1].class = c /\ t.made[n + 1].value = v
      /\ \A i \in 1 .. n : t.made[i] = r.made[i]
  BY MakeFacts
<1> HIDE DEF t
<1>2. DOMAIN t.made = 1 .. n + 1 /\ DOMAIN r.made = 1 .. n
  BY <1>1, LenProperties DEF Readers
<1> SUFFICES ASSUME NEW i \in 1 .. n + 1
             PROVE  /\ t.made[i].class # "garbage"
                    /\ t.made[i].class = "string" => t.made[i].value # "garbage"
  BY <1>2 DEF Clean, t
<1>3. CASE i = n + 1
  BY <1>1, <1>3
<1>4. CASE i # n + 1
  <2>1. i \in 1 .. n
    BY <1>4
  <2> QED
    BY <1>1, <1>2, <2>1 DEF Clean
<1> QED
  BY <1>3, <1>4

\* A scalar, or an empty array, is made and returned.
LEMMA MadeAndReturned ==
    ASSUME NEW n \in Nat, NEW r \in Readers(n), r.stack # <<>>, NEW label \in Int,
           NEW c \in Words, NEW v \in Words, c # "garbage"
    PROVE  LET m == Make(r, c, v)
               t == ReturnLabelled(m, Newest(m), label)
           IN  /\ t \in Readers(n + 1) /\ t.pos = r.pos /\ t.raised = r.raised
               /\ t.userReferences = r.userReferences
               /\ t.stack = Tail(r.stack) /\ t.ret = n + 1
               /\ t.made[n + 1].class = c /\ t.made[n + 1].value = v
               /\ Clean(r.made) /\ (c = "string" => v # "garbage") => Clean(t.made)
               /\ label = 0 \/ label = -Len(r.packerReferences) =>
                    /\ t.rc = r.rc
                    /\ t.packerReferences = Lengthened(r.packerReferences, label, n + 1)
<1> DEFINE m == Make(r, c, v)
           t == ReturnLabelled(m, Newest(m), label)
<1>1. /\ m \in Readers(n + 1) /\ m.stack = r.stack /\ m.ret = r.ret
      /\ m.pos = r.pos /\ m.rc = r.rc /\ m.raised = r.raised
      /\ m.userReferences = r.userReferences
      /\ m.packerReferences = r.packerReferences
      /\ Newest(m) = n + 1
      /\ m.made[n + 1].class = c /\ m.made[n + 1].value = v
  BY MakeFacts
<1>2. Clean(r.made) /\ (c = "string" => v # "garbage") => Clean(m.made)
  BY MadeClean
<1>3. n + 1 \in Returns(n + 1) /\ n + 1 \in Nat
  BY DEF Returns
<1> HIDE DEF m
<1>4. /\ t \in Readers(n + 1) /\ t.stack = Tail(m.stack) /\ t.ret = n + 1
      /\ t.pos = m.pos /\ t.raised = m.raised /\ t.made = m.made
      /\ t.userReferences = m.userReferences
      /\ label = 0 \/ label = -Len(m.packerReferences) =>
           /\ t.rc = m.rc
           /\ t.packerReferences = Lengthened(m.packerReferences, label, n + 1)
  BY <1>1, <1>3, ReturnLabelledFacts
<1> HIDE DEF t
<1> QED
  BY <1>1, <1>2, <1>4 DEF m, t

LEMMA UnpackFacts ==
    ASSUME NEW n \in Nat, NEW r \in Readers(n), r.stack # <<>>, NEW item \in Items, NEW label \in Int
    PROVE  UnpackedAs(n, r, item, label, cwUnpackObject(r, item, label))
<1> DEFINE t == cwUnpackObject(r, item, label)
<1>1. ASSUME NEW k \in Nat, item = CWP_ITEM_ARRAY(k) PROVE UnpackedAs(n, r, item, label, t)
  <2>1. item.type = "ARRAY" /\ item.size = k
    BY <1>1 DEF CWP_ITEM_ARRAY
  <2>2. CASE k = 0
    <3> DEFINE m == Make(r, "array", "none")
    <3>1. t = ReturnLabelled(m, Newest(m), label)
      BY <2>1, <2>2 DEF cwUnpackObject
    <3>2. "array" \in Words /\ "none" \in Words /\ "array" # "garbage" /\ "array" # "string"
      BY DEF Words
    <3>3. /\ t \in Readers(n + 1) /\ t.pos = r.pos /\ t.raised = r.raised
          /\ t.userReferences = r.userReferences
          /\ t.stack = Tail(r.stack) /\ t.ret = n + 1
          /\ Clean(r.made) => Clean(t.made)
          /\ label = 0 \/ label = -Len(r.packerReferences) =>
               /\ t.rc = r.rc
               /\ t.packerReferences = Lengthened(r.packerReferences, label, n + 1)
      BY <3>1, <3>2, MadeAndReturned
    <3> HIDE DEF t
    <3> QED
      BY <1>1, <2>2, <3>3 DEF UnpackedAs
  <2>3. CASE k # 0
    <3> DEFINE f == [call |-> "first", label |-> label, dim |-> k]
    <3>1. t = GoOn(r, f)
      BY <2>1, <2>3 DEF cwUnpackObject
    <3>2. f \in Frames(n) /\ k \in Places
      BY <2>3 DEF Frames, Places
    <3> HIDE DEF t
    <3>3. t \in Readers(n) /\ SameBut(r, t) /\ t.ret = NONE /\ t.stack = <<f>> \o Tail(r.stack)
      BY <3>1, <3>2, GoOnFacts
    <3> QED
      BY <1>1, <3>2, <3>3, Zenon DEF UnpackedAs, SameBut
  <2> QED
    BY <2>2, <2>3
<1>2. ASSUME NEW k \in Nat, item = CWP_ITEM_MAP(k) PROVE UnpackedAs(n, r, item, label, t)
  <2> DEFINE m == Make(r, "map", "none")
             a == ReferTo(m, label)
             f == [call |-> "map", object |-> n + 1, left |-> 2 * k, key |-> NONE]
  <2>1. item.type = "MAP" /\ item.size = k
    BY <1>2 DEF CWP_ITEM_MAP
  <2>2. "map" \in Words /\ "none" \in Words /\ "map" # "garbage" /\ "map" # "string"
    BY DEF Words
  <2>3. /\ m \in Readers(n + 1) /\ m.stack = r.stack /\ Newest(m) = n + 1
        /\ m.pos = r.pos /\ m.rc = r.rc /\ m.raised = r.raised
        /\ m.userReferences = r.userReferences
        /\ m.packerReferences = r.packerReferences
    BY <2>2, MakeFacts
  <2>4. Clean(r.made) => Clean(m.made)
    BY <2>2, MadeClean
  <2>5. n + 1 \in Nat
    OBVIOUS
  <2>6. t = GoOn(a, [call |-> "map", object |-> Newest(a), left |-> 2 * k, key |-> NONE])
    BY <2>1 DEF cwUnpackObject
  <2> HIDE DEF m, t
  <2>7. /\ a \in Readers(n + 1) /\ a.stack = m.stack
        /\ a.pos = m.pos /\ a.rc = m.rc /\ a.raised = m.raised /\ a.made = m.made
        /\ a.userReferences = m.userReferences
        /\ a.packerReferences = Lengthened(m.packerReferences, label, n + 1)
    BY <2>3, <2>5, ReferToFacts
  <2>8. Newest(a) = n + 1
    BY <2>3, <2>7 DEF Newest
  <2>9. f \in Frames(n + 1)
    <3>1. n + 1 \in 1 .. n + 1 /\ 2 * k \in Int /\ NONE \in Returns(n + 1)
      BY DEF NONE, Returns
    <3> QED
      BY <3>1 DEF Frames
  <2> HIDE DEF a
  <2>10. t \in Readers(n + 1) /\ SameBut(a, t) /\ t.ret = NONE /\ t.stack = <<f>> \o Tail(a.stack)
    BY <2>3, <2>5, <2>6, <2>7, <2>8, <2>9, GoOnFacts
  <2>11. /\ t.pos = r.pos /\ t.raised = r.raised /\ t.userReferences = r.userReferences
         /\ t.rc = r.rc /\ t.stack = <<f>> \o Tail(r.stack)
         /\ t.packerReferences = Lengthened(r.packerReferences, label, n + 1)
         /\ Clean(r.made) => Clean(t.made)
    BY <2>3, <2>4, <2>7, <2>10 DEF SameBut
  <2> QED
    BY <1>2, <2>3, <2>10, <2>11, Zenon DEF UnpackedAs
<1>3. CASE item = CWP_ITEM_NIL
  <2>1. t = ReturnLabelled(r, NSNull, label)
    BY <1>3 DEF CWP_ITEM_NIL, cwUnpackObject
  <2>2. NSNull \in Returns(n)
    BY DEF NSNull, Returns
  <2> HIDE DEF t
  <2>3. /\ t \in Readers(n) /\ t.stack = Tail(r.stack) /\ t.ret = NSNull
        /\ t.pos = r.pos /\ t.raised = r.raised /\ t.made = r.made
        /\ t.userReferences = r.userReferences
        /\ label = 0 \/ label = -Len(r.packerReferences) =>
             /\ t.rc = r.rc
             /\ t.packerReferences = Lengthened(r.packerReferences, label, NSNull)
    BY <2>1, <2>2, ReturnLabelledFacts
  <2>4. UnpackedAs(n, r, item, label, t)
    BY <1>3, <2>3, Zenon DEF UnpackedAs
  <2> QED
    BY <2>4 DEF t
<1>4. ASSUME item.type \notin {"NIL", "MAP", "ARRAY"}, NEW c \in Words, NEW v \in Words,
             c # "garbage", ScalarClass(item) = c, ScalarValue(item) = v,
             c = "string" => v \in Names /\ item = CWP_ITEM_STR(v),
             \/ \E l : item = CWP_ITEM_OBJECT_MARKER(l)
             \/ \E x : item = CWP_ITEM_VALUE(x)
             \/ c = "string"
      PROVE  UnpackedAs(n, r, item, label, t)
  <2> DEFINE u == ReturnLabelled(Make(r, c, v), Newest(Make(r, c, v)), label)
  <2>1. t = u /\ c # "garbage"
    BY <1>4 DEF cwUnpackObject
  <2>2. /\ u \in Readers(n + 1) /\ u.pos = r.pos /\ u.raised = r.raised
        /\ u.userReferences = r.userReferences
        /\ u.stack = Tail(r.stack) /\ u.ret = n + 1
        /\ u.made[n + 1].class = c /\ u.made[n + 1].value = v
        /\ Clean(r.made) /\ (c = "string" => v # "garbage") => Clean(u.made)
        /\ label = 0 \/ label = -Len(r.packerReferences) =>
             /\ u.rc = r.rc
             /\ u.packerReferences = Lengthened(r.packerReferences, label, n + 1)
    BY <2>1, MadeAndReturned
  <2> HIDE DEF t, u
  <2>3. item # CWP_ITEM_STR("garbage") => (c = "string" => v # "garbage")
    BY <1>4
  <2>4. \/ \E l : item = CWP_ITEM_OBJECT_MARKER(l)
        \/ \E x : item = CWP_ITEM_VALUE(x)
        \/ \E name \in Names : /\ item = CWP_ITEM_STR(name)
                               /\ u.made[n + 1].class = "string"
                               /\ u.made[n + 1].value = name
    BY <1>4, <2>2
  <2>5. UnpackedAs(n, r, item, label, u)
    BY <2>2, <2>3, <2>4 DEF UnpackedAs
  <2> QED
    BY <2>1, <2>5
<1>5. ASSUME NEW l \in Int, item = CWP_ITEM_OBJECT_MARKER(l) PROVE UnpackedAs(n, r, item, label, t)
  <2>1. item.type = "MARKER"
    BY <1>5 DEF CWP_ITEM_OBJECT_MARKER
  <2>2. ScalarClass(item) = "external" /\ ScalarValue(item) = "none"
    BY <2>1 DEF ScalarClass, ScalarValue
  <2>3. "external" \in Words /\ "none" \in Words /\ "external" # "garbage"
        /\ "external" # "string"
    BY DEF Words
  <2> HIDE DEF t
  <2> QED
    BY <1>4, <1>5, <2>1, <2>2, <2>3
<1>6. ASSUME NEW name \in Names, item = CWP_ITEM_STR(name) PROVE UnpackedAs(n, r, item, label, t)
  <2>1. item.type = "STR" /\ item.of = name
    BY <1>6 DEF CWP_ITEM_STR
  <2>2. ScalarClass(item) = "string" /\ ScalarValue(item) = name
    BY <2>1 DEF ScalarClass, ScalarValue
  <2>3. "string" \in Words /\ name \in Words /\ "string" # "garbage"
    BY DEF Words
  <2> HIDE DEF t
  <2> QED
    BY <1>4, <1>6, <2>1, <2>2, <2>3
<1>7. ASSUME NEW v \in Objects \cup {Raw, "NO"}, item = CWP_ITEM_VALUE(v)
      PROVE  UnpackedAs(n, r, item, label, t)
  <2>1. item.type = "VALUE" /\ item.of = v
    BY <1>7 DEF CWP_ITEM_VALUE
  <2>2. ScalarClass(item) = "value" /\ ScalarValue(item) = v
    BY <2>1 DEF ScalarClass, ScalarValue
  <2>3. "value" \in Words /\ v \in Words /\ "value" # "garbage" /\ "value" # "string"
    BY DEF Words
  <2> HIDE DEF t
  <2> QED
    BY <1>4, <1>7, <2>1, <2>2, <2>3
<1> HIDE DEF t
<1>8. \/ \E k \in Nat : item = CWP_ITEM_ARRAY(k)
      \/ \E k \in Nat : item = CWP_ITEM_MAP(k)
      \/ \E l \in Int : item = CWP_ITEM_OBJECT_MARKER(l)
      \/ \E name \in Names : item = CWP_ITEM_STR(name)
      \/ \E v \in Objects \cup {Raw, "NO"} : item = CWP_ITEM_VALUE(v)
      \/ item = CWP_ITEM_NIL
  BY Zenon DEF Items
<1> QED
  BY <1>1, <1>2, <1>3, <1>5, <1>6, <1>7, <1>8 DEF t
-------------------------------------------------------------------------------
(* Nothing is made of what is no item, whoever has written the stream.     *)

\* Every stream has a balance.
LEMMA BalanceExists ==
    ASSUME NEW s \in Seq(Items)
    PROVE  \E d : Balance(d, s)
<1> DEFINE a == Len(s)
           Balanced(n) == \E f \in [0 .. n -> Int] :
                             /\ f[0] = 0
                             /\ \A k \in 1 .. n : f[k] = (f[k - 1] + PartsOf(s[k])) - 1
           T == {n \in 0 .. a : ~Balanced(n)}
<1>1. a \in Nat /\ \A k \in 1 .. a : PartsOf(s[k]) \in Nat
  BY LenProperties, ElementOfSeq, PartsOfItems
<1>2. Balanced(0)
  <2> DEFINE f == [k \in 0 .. 0 |-> 0]
  <2>1. f \in [0 .. 0 -> Int] /\ f[0] = 0 /\ \A k \in 1 .. 0 : FALSE
    OBVIOUS
  <2> HIDE DEF f
  <2> QED
    BY <2>1
<1>3. ASSUME NEW n \in 1 .. a, Balanced(n - 1) PROVE Balanced(n)
  <2>1. PICK f \in [0 .. n - 1 -> Int] :
           /\ f[0] = 0
           /\ \A k \in 1 .. n - 1 : f[k] = (f[k - 1] + PartsOf(s[k])) - 1
    BY <1>3
  <2> DEFINE x == (f[n - 1] + PartsOf(s[n])) - 1
             g == [k \in 0 .. n |-> IF k = n THEN x ELSE f[k]]
  <2>2. f[n - 1] \in Int /\ PartsOf(s[n]) \in Nat
    BY <1>1
  <2>3. x \in Int
    BY <2>2
  <2>4. g \in [0 .. n -> Int]
    <3> HIDE DEF x
    <3> QED
      BY <1>1, <2>3
  <2>5. g[0] = 0 /\ g[n] = x /\ \A k \in 0 .. n - 1 : g[k] = f[k]
    BY <1>1, <2>1
  <2>6. ASSUME NEW k \in 1 .. n PROVE g[k] = (g[k - 1] + PartsOf(s[k])) - 1
    <3>1. g[k - 1] = f[k - 1]
      BY <1>1, <2>5
    <3>2. CASE k = n
      BY <2>5, <3>1, <3>2
    <3>3. CASE k # n
      <4>1. k \in 1 .. n - 1 /\ k \in 0 .. n - 1
        BY <1>1, <3>3
      <4> HIDE DEF g
      <4> QED
        BY <2>1, <2>5, <3>1, <4>1
    <3> QED
      BY <3>2, <3>3
  <2> HIDE DEF g, x
  <2> QED
    BY <2>4, <2>5, <2>6
<1> HIDE DEF Balanced
<1>4. T = {}
  <2>1. T \subseteq Nat
    BY <1>1
  <2>2. ASSUME NEW m \in T, \A k \in T : m <= k PROVE FALSE
    <3>1. m \in 0 .. a /\ ~Balanced(m)
      OBVIOUS
    <3>2. m \in 1 .. a /\ m - 1 \in 0 .. a /\ ~(m <= m - 1)
      BY <1>1, <1>2, <3>1
    <3>3. Balanced(m - 1)
      BY <2>2, <3>2
    <3> QED
      BY <1>3, <3>1, <3>2, <3>3
  <2> HIDE DEF T
  <2> QED
    BY <2>1, <2>2, SmallestMember
<1>5. Balanced(a)
  BY <1>1, <1>4
<1> QED
  BY <1>5 DEF Balanced, Balance

LEMMA BehindIn ==
    ASSUME stream \in Seq(Items), NEW k \in 1 .. Len(stream)
    PROVE  Behind(k) \in k .. Len(stream) + 2
<1>1. PICK d : Balance(d, stream)
  BY BalanceExists
<1>2. Len(stream) \in Nat /\ k \in 1 .. Len(stream) + 2
  BY LenProperties
<1>3. Behinds[k][1] = Reached(d, k, 1)
  BY <1>1, <1>2, BehindsReached
<1> QED
  BY <1>2, <1>3, FirstLowFacts DEF Behind, Reached


\* What a reader can be given: items, none of them the name of a class that
\* stands for what is no item, and n of them, the last of which is no header of
\* an array with parts.
Legible(s, n) ==
    /\ s \in Seq(Items) /\ n \in 0 .. Len(s)
    /\ \A k \in 1 .. n : s[k] # CWP_ITEM_STR("garbage")
    /\ n > 0 => \A m \in Places : s[n] # CWP_ITEM_ARRAY(m)

\* The calls that wait for another are not about to read the first item of an
\* array, and have not read all attributes of an object.
Holds(f) == f.call # "first" /\ (f.call = "user" => f.reads # <<>>)
Held(st) == \A i \in 1 .. Len(st) : Holds(st[i])

\* When the innermost call is about to read the first item of an array, the
\* array's header is the item just read.
Innermost(s, r) ==
    /\ Held(Tail(r.stack))
    /\ Head(r.stack).call = "user" /\ r.ret # NONE => Head(r.stack).reads # <<>>
    /\ Head(r.stack).call = "first" =>
         r.rc = CWP_RC_OK /\ r.pos >= 1 /\ \E m \in Places : s[r.pos] = CWP_ITEM_ARRAY(m)

CleanReader(s, l, r) ==
    /\ r \in Readers(Len(r.made)) /\ r.pos <= l /\ Clean(r.made)
    /\ r.stack # <<>> => Innermost(s, r)

LEMMA HeldOnTop ==
    ASSUME NEW n \in Nat, NEW st \in Seq(Frames(n))
    PROVE  /\ Held(st) => \A f \in Frames(n) : Holds(f) => Held(<<f>> \o st)
           /\ st # <<>> /\ Held(st) => Held(Tail(st)) /\ Holds(Head(st))
<1>1. ASSUME Held(st), NEW f \in Frames(n), Holds(f) PROVE Held(<<f>> \o st)
  <2> DEFINE u == <<f>> \o st
  <2>1. Len(st) \in Nat /\ Len(u) = Len(st) + 1 /\ u[1] = f
        /\ \A i \in 1 .. Len(st) : u[i + 1] = st[i]
    BY OnTop
  <2> HIDE DEF u
  <2>2. ASSUME NEW i \in 1 .. Len(u) PROVE Holds(u[i])
    <3>1. CASE i = 1
      BY <1>1, <2>1, <3>1
    <3>2. CASE i # 1
      <4>1. i - 1 \in 1 .. Len(st) /\ u[(i - 1) + 1] = st[i - 1] /\ (i - 1) + 1 = i
        BY <2>1, <3>2
      <4> QED
        BY <1>1, <4>1 DEF Held
    <3> QED
      BY <3>1, <3>2
  <2> QED
    BY <2>2 DEF Held, u
<1>2. ASSUME st # <<>>, Held(st) PROVE Held(Tail(st)) /\ Holds(Head(st))
  <2>1. /\ Head(st) = st[1] /\ Len(st) \in Nat \ {0} /\ Len(Tail(st)) = Len(st) - 1
        /\ \A i \in 1 .. Len(st) - 1 : Tail(st)[i] = st[i + 1]
    BY <1>2, TopGone
  <2> QED
    BY <1>2, <2>1 DEF Held
<1> QED
  BY <1>1, <1>2

LEMMA CleanWhenHeld ==
    ASSUME NEW s, NEW l, NEW n \in Nat, NEW r \in Readers(n), r.pos <= l, Clean(r.made),
           Held(r.stack)
    PROVE  CleanReader(s, l, r)
<1>1. r.stack \in Seq(Frames(n)) /\ Len(r.made) = n
  BY DEF Readers
<1>2. r.stack # <<>> => Held(Tail(r.stack)) /\ Holds(Head(r.stack))
  BY <1>1, HeldOnTop
<1> QED
  BY <1>1, <1>2 DEF CleanReader, Innermost, Holds

LEMMA CleanWhenCalled ==
    ASSUME NEW s, NEW l, NEW n \in Nat, NEW r \in Readers(n), r.pos <= l, Clean(r.made),
           r.ret = NONE, NEW f \in Frames(n), f.call # "first",
           NEW st \in Seq(Frames(n)), Held(st), r.stack = <<f>> \o st
    PROVE  CleanReader(s, l, r)
<1>1. Head(r.stack) = f /\ Tail(r.stack) = st
  BY OnTop
<1>2. Len(r.made) = n
  BY DEF Readers
<1> QED
  BY <1>1, <1>2 DEF CleanReader, Innermost

\* An item, when it is one, makes nothing else.
LEMMA UnpackedClean ==
    ASSUME NEW s, NEW l, NEW n \in Nat, NEW r \in Readers(n), r.stack # <<>>,
           Held(Tail(r.stack)), r.pos <= l, Clean(r.made),
           NEW item \in Items, NEW label \in Int, item # CWP_ITEM_STR("garbage"),
           \A m \in Places : item = CWP_ITEM_ARRAY(m) =>
               r.rc = CWP_RC_OK /\ r.pos >= 1 /\ s[r.pos] = item
    PROVE  CleanReader(s, l, cwUnpackObject(r, item, label))
<1> DEFINE t == cwUnpackObject(r, item, label)
<1>1. UnpackedAs(n, r, item, label, t)
  BY UnpackFacts
<1> HIDE DEF t
<1>2. t.pos = r.pos
  BY <1>1, Zenon DEF UnpackedAs
<1>3. /\ t.pos <= l /\ n + 1 \in Nat
      /\ Tail(r.stack) \in Seq(Frames(n)) /\ Tail(r.stack) \in Seq(Frames(n + 1))
  <2>1. r.stack \in Seq(Frames(n))
    BY DEF Readers
  <2>2. Tail(r.stack) \in Seq(Frames(n))
    BY <2>1, TopGone
  <2>3. Seq(Frames(n)) \subseteq Seq(Frames(n + 1))
    BY MoreMade, SeqMonotonic, Zenon
  <2>4. Tail(r.stack) \in Seq(Frames(n + 1))
    BY <2>2, <2>3, Zenon
  <2>5. t.pos <= l
    BY <1>2
  <2> QED
    BY <2>2, <2>4, <2>5
<1>4. ASSUME t \in Readers(n) \/ t \in Readers(n + 1), t.stack = Tail(r.stack), Clean(t.made)
      PROVE  CleanReader(s, l, t)
  <2>1. Held(t.stack)
    BY <1>4
  <2>2. CASE t \in Readers(n)
    BY <1>3, <1>4, <2>1, <2>2, CleanWhenHeld
  <2>3. CASE t \in Readers(n + 1)
    BY <1>3, <1>4, <2>1, <2>3, CleanWhenHeld
  <2> QED
    BY <1>4, <2>2, <2>3
<1>5. ASSUME NEW k \in Nat, Clean(t.made), t \in Readers(n + 1), t.ret = NONE,
             t.stack = <<[call |-> "map", object |-> n + 1, left |-> 2 * k,
                          key |-> NONE]>> \o Tail(r.stack)
      PROVE  CleanReader(s, l, t)
  <2> DEFINE f == [call |-> "map", object |-> n + 1, left |-> 2 * k, key |-> NONE]
  <2>1. f \in Frames(n + 1) /\ f.call # "first"
    <3>1. n + 1 \in 1 .. n + 1 /\ 2 * k \in Int /\ NONE \in Returns(n + 1)
      BY DEF NONE, Returns
    <3> QED
      BY <3>1 DEF Frames
  <2>2. t.stack = <<f>> \o Tail(r.stack)
    BY <1>5
  <2> HIDE DEF f
  <2> QED
    BY <1>3, <1>5, <2>1, <2>2, CleanWhenCalled
<1>6. ASSUME NEW m \in Places, item = CWP_ITEM_ARRAY(m), t \in Readers(n), t.rc = r.rc,
             t.made = r.made,
             t.stack = <<[call |-> "first", label |-> label, dim |-> m]>> \o Tail(r.stack)
      PROVE  CleanReader(s, l, t)
  <2> DEFINE f == [call |-> "first", label |-> label, dim |-> m]
  <2>1. f \in Frames(n)
    BY DEF Frames
  <2>2. t.stack = <<f>> \o Tail(r.stack)
    BY <1>6
  <2> HIDE DEF f
  <2>3. Tail(t.stack) = Tail(r.stack) /\ Head(t.stack).call # "user"
    BY <1>3, <2>1, <2>2, OnTop, SMTT(30) DEF f
  <2>4. t.rc = CWP_RC_OK /\ t.pos >= 1 /\ s[t.pos] = CWP_ITEM_ARRAY(m)
    BY <1>2, <1>6
  <2>5. Len(t.made) = n
    BY <1>6 DEF Readers
  <2> QED
    BY <1>3, <1>6, <2>3, <2>4, <2>5 DEF CleanReader, Innermost
<1>7. \/ t \in Readers(n) /\ t.stack = Tail(r.stack) /\ t.made = r.made
      \/ \E k \in Nat :
            /\ t \in Readers(n + 1) /\ t.ret = NONE
            /\ t.stack = <<[call |-> "map", object |-> n + 1, left |-> 2 * k,
                            key |-> NONE]>> \o Tail(r.stack)
            /\ Clean(r.made) => Clean(t.made)
      \/ \E m \in Places :
            /\ item = CWP_ITEM_ARRAY(m) /\ t \in Readers(n) /\ t.rc = r.rc /\ t.made = r.made
            /\ t.stack = <<[call |-> "first", label |-> label, dim |-> m]>> \o Tail(r.stack)
      \/ /\ t \in Readers(n + 1) /\ t.stack = Tail(r.stack)
         /\ item # CWP_ITEM_STR("garbage") /\ Clean(r.made) => Clean(t.made)
  BY <1>1, Zenon DEF UnpackedAs
<1>8. CASE t \in Readers(n) /\ t.stack = Tail(r.stack) /\ t.made = r.made
  <2>1. Clean(t.made)
    BY <1>8
  <2> QED
    BY <1>4, <1>8, <2>1, Zenon DEF t
<1>9. CASE /\ t \in Readers(n + 1) /\ t.stack = Tail(r.stack)
           /\ item # CWP_ITEM_STR("garbage") /\ Clean(r.made) => Clean(t.made)
  <2>1. Clean(t.made)
    BY <1>9
  <2> QED
    BY <1>4, <1>9, <2>1, Zenon DEF t
<1>10. CleanReader(s, l, t)
  <2>1. Clean(r.made)
    OBVIOUS
  <2>2. ASSUME NEW k \in Nat, t \in Readers(n + 1), t.ret = NONE,
               t.stack = <<[call |-> "map", object |-> n + 1, left |-> 2 * k,
                            key |-> NONE]>> \o Tail(r.stack),
               Clean(r.made) => Clean(t.made)
        PROVE  CleanReader(s, l, t)
    BY <1>5, <2>1, <2>2, Zenon
  <2> QED
    BY <1>6, <1>7, <1>8, <1>9, <2>2, Zenon DEF t
<1> QED
  BY <1>10 DEF t

-------------------------------------------------------------------------------
(* Calls, and what each of them does.                                      *)

LEMMA FrameForms ==
    ASSUME NEW n \in Nat, NEW f \in Frames(n)
    PROVE  /\ f.call \in {"cwUnpackNextObjectSub", "first", "class", "user"} \cup Loops
           /\ f.call \in {"cwUnpackNextObjectSub", "first", "class"} => f.label \in Int
           /\ f.call = "cwUnpackNextObjectSub" => f = NextObjectSub(f.label)
           /\ f.call = "first" => f.dim \in Places
           /\ f.call \in {"class"} \cup Loops => f.left \in Int
           /\ f.call \in {"user"} \cup Loops => f.object \in 1 .. n
           /\ f.call = "map" => f.key \in Returns(n)
           /\ f.call = "user" => f.reads \in Seq({"object", "number"})
BY DEF Frames, Loops, NextObjectSub

\* A call of a loop with a part less to take.
LEMMA LessFrame ==
    ASSUME NEW n \in Nat, NEW f \in Frames(n), f.call \in Loops
    PROVE  LET g == [f EXCEPT !.left = @ - 1]
           IN  /\ g \in Frames(n) /\ g.call = f.call /\ g.left = f.left - 1
               /\ \A v \in Returns(n) : f.call = "map" =>
                    LET e == [g EXCEPT !.key = v]
                    IN  e \in Frames(n) /\ e.call = f.call /\ e.left = f.left - 1
<1> DEFINE m == f.left - 1
           g == [f EXCEPT !.left = @ - 1]
<1>1. f.left \in Int
  BY FrameForms
<1>2. m \in Int /\ g = [f EXCEPT !.left = m]
  BY <1>1
<1>3. CASE f \in [call : {"array", "set", "generic"}, object : 1 .. n, left : Int]
  <2> HIDE DEF m, g
  <2>1. /\ g \in [call : {"array", "set", "generic"}, object : 1 .. n, left : Int]
        /\ g.call = f.call /\ g.left = m /\ f.call # "map"
    BY <1>2, <1>3
  <2>2. g \in Frames(n)
    BY <2>1, Zenon DEF Frames
  <2> QED
    BY <2>1, <2>2 DEF m, g
<1>4. CASE f \in [call : {"map"}, object : 1 .. n, left : Int, key : Returns(n)]
  <2> HIDE DEF m, g
  <2>1. /\ g \in [call : {"map"}, object : 1 .. n, left : Int, key : Returns(n)]
        /\ g.call = f.call /\ g.left = m
    BY <1>2, <1>4
  <2>2. g \in Frames(n)
    BY <2>1, Zenon DEF Frames
  <2>3. ASSUME NEW v \in Returns(n)
        PROVE  [g EXCEPT !.key = v] \in Frames(n) /\ [g EXCEPT !.key = v].call = f.call
               /\ [g EXCEPT !.key = v].left = m
    <3>1. /\ [g EXCEPT !.key = v] \in [call : {"map"}, object : 1 .. n, left : Int, key : Returns(n)]
          /\ [g EXCEPT !.key = v].call = f.call /\ [g EXCEPT !.key = v].left = m
      BY <2>1
    <3> QED
      BY <3>1, Zenon DEF Frames
  <2> QED
    BY <2>1, <2>2, <2>3 DEF m, g
<1> QED
  BY <1>3, <1>4 DEF Frames, Loops

\* A call of the client's class with an attribute less to read.
LEMMA RestFrame ==
    ASSUME NEW n \in Nat, NEW f \in Frames(n), f.call = "user", f.reads # <<>>
    PROVE  LET g == [f EXCEPT !.reads = Tail(@)]
           IN  g \in Frames(n) /\ g.call = "user" /\ g.reads = Tail(f.reads)
<1> DEFINE g == [f EXCEPT !.reads = Tail(@)]
           m == Tail(f.reads)
<1>1. f \in [call : {"user"}, object : 1 .. n, reads : Seq({"object", "number"})]
  BY DEF Frames
<1>2. m \in Seq({"object", "number"})
  BY <1>1, HeadTailProperties
<1>3. g = [f EXCEPT !.reads = m]
  BY <1>1
<1> HIDE DEF m, g
<1>4. /\ g \in [call : {"user"}, object : 1 .. n, reads : Seq({"object", "number"})]
      /\ g.call = "user" /\ g.reads = m
  BY <1>1, <1>2, <1>3
<1>5. g \in Frames(n)
  BY <1>4, Zenon DEF Frames
<1> QED
  BY <1>4, <1>5 DEF g, m

LEMMA NextObjectFrame ==
    ASSUME NEW n \in Nat, NEW label \in Int
    PROVE  /\ NextObjectSub(label) \in Frames(n)
           /\ NextObjectSub(label).call = "cwUnpackNextObjectSub"
           /\ NextObjectSub(label).label = label
BY DEF NextObjectSub, Frames

LEMMA StopFacts ==
    ASSUME NEW n \in Nat, NEW r \in Readers(n), r.stack # <<>>, NEW code \in Int
    PROVE  LET t == Stop(r, code)
           IN  /\ t \in Readers(n) /\ t.stack = Tail(r.stack) /\ t.ret = NIL
               /\ t.pos = r.pos /\ t.raised = r.raised /\ t.made = r.made
               /\ t.rc = code
<1> DEFINE u == Return(r, NIL)
           t == Stop(r, code)
<1>1. u \in Readers(n) /\ SameBut(r, u) /\ u.ret = NIL /\ u.stack = Tail(r.stack)
  <2>1. NIL \in Returns(n)
    BY DEF NIL, Returns
  <2> QED
    BY <2>1, ReturnFacts
<1>2. t = [u EXCEPT !.rc = code]
  BY DEF Stop
<1> HIDE DEF u, t
<1>3. /\ t \in Readers(n) /\ t.stack = u.stack /\ t.ret = u.ret
      /\ t.pos = u.pos /\ t.raised = u.raised /\ t.made = u.made /\ t.rc = code
  BY <1>1, <1>2 DEF Readers
<1> QED
  BY <1>1, <1>3 DEF SameBut, t

\* A reference is what the array of its kind holds, or an error.
LEMMA ReferenceFacts ==
    ASSUME NEW n \in Nat, NEW r \in Readers(n), r.stack # <<>>, NEW label \in Int
    PROVE  LET t    == Reference(r, label)
               refs == IF label < 0 THEN r.packerReferences ELSE r.userReferences
               k    == IF label < 0 THEN -label ELSE label
           IN  /\ t \in Readers(n) /\ t.stack = Tail(r.stack)
               /\ t.pos = r.pos /\ t.raised = r.raised /\ t.made = r.made
               /\ label # 0 /\ k < Len(refs) => SameBut(r, t) /\ t.ret = refs[k + 1]
<1> DEFINE t    == Reference(r, label)
           refs == IF label < 0 THEN r.packerReferences ELSE r.userReferences
           k    == IF label < 0 THEN -label ELSE label
           v    == IF label > 0 THEN r.userReferences[label + 1]
                   ELSE r.packerReferences[-label + 1]
<1>1. /\ r.packerReferences \in Seq(Returns(n)) /\ r.packerReferences # <<>>
      /\ r.userReferences \in Seq(Returns(n)) /\ CWP_RC_VALUE_ERROR \in Int
  BY DEF Readers, CWP_RC_VALUE_ERROR
<1>2. /\ Len(r.packerReferences) \in Nat \ {0} /\ Len(r.userReferences) \in Nat
  BY <1>1, LenProperties, EmptySeq
<1>3. CASE k >= Len(refs)
  <2>1. t = Stop(r, CWP_RC_VALUE_ERROR)
    BY <1>3 DEF Reference
  <2> DEFINE u == Stop(r, CWP_RC_VALUE_ERROR)
  <2>2. /\ u \in Readers(n) /\ u.stack = Tail(r.stack)
        /\ u.pos = r.pos /\ u.raised = r.raised /\ u.made = r.made
    BY <1>1, StopFacts
  <2>3. ~(k < Len(refs))
    BY <1>2, <1>3
  <2> HIDE DEF t, u, k, refs
  <2> QED
    BY <2>1, <2>2, <2>3 DEF t, u, k, refs
<1>4. CASE ~(k >= Len(refs))
  <2>1. t = Return(r, v)
    BY <1>4 DEF Reference
  <2>2. v \in Returns(n)
    <3>1. CASE label > 0
      <4>1. label + 1 \in 1 .. Len(r.userReferences)
        BY <1>2, <1>4, <3>1
      <4> QED
        BY <1>1, <3>1, <4>1, ElementOfSeq
    <3>2. CASE ~(label > 0)
      <4>1. -label + 1 \in 1 .. Len(r.packerReferences)
        BY <1>2, <1>4, <3>2
      <4> QED
        BY <1>1, <3>2, <4>1, ElementOfSeq
    <3> QED
      BY <3>1, <3>2
  <2>3. label # 0 => v = refs[k + 1]
    BY <1>2
  <2> HIDE DEF t, v, k, refs
  <2>4. t \in Readers(n) /\ SameBut(r, t) /\ t.ret = v /\ t.stack = Tail(r.stack)
    BY <2>1, <2>2, ReturnFacts
  <2> QED
    BY <2>3, <2>4 DEF SameBut, t, k, refs
<1> QED
  BY <1>3, <1>4

\* An array is made, gets its place, and asks for its first part.
LEMMA FirstArray ==
    ASSUME NEW n \in Nat, NEW r \in Readers(n), r.stack # <<>>, NEW label \in Int,
           NEW dim \in Places
    PROVE  LET arr == ReferTo(Make(r, "array", "none"), label)
               f   == [call |-> "array", object |-> n + 1, left |-> dim]
               t   == Call(GoOn(arr, [call |-> "array", object |-> Newest(arr), left |-> dim]),
                           NextObjectSub(0))
           IN  /\ t \in Readers(n + 1) /\ f \in Frames(n + 1)
               /\ t.stack = <<NextObjectSub(0)>> \o (<<f>> \o Tail(r.stack))
               /\ t.pos = r.pos /\ t.rc = r.rc /\ t.raised = r.raised /\ t.ret = NONE
               /\ t.userReferences = r.userReferences
               /\ t.packerReferences = Lengthened(r.packerReferences, label, n + 1)
               /\ Clean(r.made) => Clean(t.made)
<1> DEFINE m   == Make(r, "array", "none")
           arr == ReferTo(m, label)
           f   == [call |-> "array", object |-> n + 1, left |-> dim]
           u   == GoOn(arr, [call |-> "array", object |-> Newest(arr), left |-> dim])
           t   == Call(u, NextObjectSub(0))
<1>1. "array" \in Words /\ "none" \in Words /\ "array" # "garbage" /\ "array" # "string"
  BY DEF Words
<1>2. /\ m \in Readers(n + 1) /\ m.stack = r.stack /\ Newest(m) = n + 1
      /\ m.pos = r.pos /\ m.rc = r.rc /\ m.raised = r.raised
      /\ m.userReferences = r.userReferences
      /\ m.packerReferences = r.packerReferences
  BY <1>1, MakeFacts
<1>3. Clean(r.made) => Clean(m.made)
  BY <1>1, MadeClean
<1>4. n + 1 \in Nat
  OBVIOUS
<1> HIDE DEF m
<1>5. /\ arr \in Readers(n + 1) /\ arr.stack = m.stack
      /\ arr.pos = m.pos /\ arr.rc = m.rc /\ arr.raised = m.raised /\ arr.made = m.made
      /\ arr.userReferences = m.userReferences
      /\ arr.packerReferences = Lengthened(m.packerReferences, label, n + 1)
  BY <1>2, <1>4, ReferToFacts
<1>6. Newest(arr) = n + 1
  BY <1>2, <1>5 DEF Newest
<1>7. f \in Frames(n + 1) /\ u = GoOn(arr, f)
  <2>1. n + 1 \in 1 .. n + 1 /\ dim \in Int
    BY DEF Places
  <2> QED
    BY <1>6, <2>1 DEF Frames
<1> HIDE DEF arr, f, u
<1>8. u \in Readers(n + 1) /\ SameBut(arr, u) /\ u.ret = NONE /\ u.stack = <<f>> \o Tail(arr.stack)
  BY <1>2, <1>4, <1>5, <1>7, GoOnFacts
<1>9. t \in Readers(n + 1) /\ SameBut(u, t) /\ t.ret = NONE
      /\ t.stack = <<NextObjectSub(0)>> \o u.stack
  <2>1. NextObjectSub(0) \in Frames(n + 1)
    BY <1>4, NextObjectFrame
  <2> QED
    BY <1>4, <1>8, <2>1, CallFacts
<1> HIDE DEF t
<1>10. /\ t.stack = <<NextObjectSub(0)>> \o (<<f>> \o Tail(r.stack))
       /\ t.pos = r.pos /\ t.rc = r.rc /\ t.raised = r.raised /\ t.made = m.made
       /\ t.userReferences = r.userReferences
       /\ t.packerReferences = Lengthened(r.packerReferences, label, n + 1)
  BY <1>2, <1>5, <1>8, <1>9 DEF SameBut
<1>11. Clean(r.made) => Clean(t.made)
  BY <1>3, <1>10
<1> QED
  BY <1>7, <1>9, <1>10, <1>11 DEF t, u, arr, m, f

\* A part that an object takes, and the call that goes on.
Carried(n, r, f, u) ==
    /\ u \in Readers(n) /\ u.stack = <<f>> \o Tail(r.stack) /\ u.ret = NONE
    /\ u.pos = r.pos /\ u.rc = r.rc /\ u.raised = r.raised
    /\ u.userReferences = r.userReferences
    /\ u.packerReferences = r.packerReferences
    /\ Clean(r.made) => Clean(u.made)

LEMMA CarriedPart ==
    ASSUME NEW n \in Nat, NEW r, NEW f, NEW s, Carried(n, r, f, s), NEW k, NEW v \in Int,
           NEW u, u = AddPart(s, k, v) \/ \E j : u = PartSet(s, k, j, v)
    PROVE  Carried(n, r, f, u)
<1>1. s \in Readers(n)
  BY DEF Carried
<1>2. AllBut(n, s, u)
  BY <1>1, AddPartFacts
<1>3. Clean(s.made) => Clean(u.made)
  BY <1>2 DEF Clean, AllBut
<1> QED
  BY <1>2, <1>3 DEF Carried, AllBut

LEMMA PartTaken ==
    ASSUME NEW n \in Nat, NEW r \in Readers(n), r.stack # <<>>, NEW f \in Frames(n)
    PROVE  /\ Carried(n, r, f, GoOn(r, f))
           /\ \A k : \A v \in Int : Carried(n, r, f, AddPart(GoOn(r, f), k, v))
<1> DEFINE t == GoOn(r, f)
<1>1. t \in Readers(n) /\ SameBut(r, t) /\ t.ret = NONE /\ t.stack = <<f>> \o Tail(r.stack)
  BY GoOnFacts
<1> HIDE DEF t
<1>2. Carried(n, r, f, t)
  BY <1>1 DEF SameBut, Carried
<1>3. ASSUME NEW k, NEW v \in Int PROVE Carried(n, r, f, AddPart(t, k, v))
  BY <1>2, CarriedPart
<1> QED
  BY <1>2, <1>3 DEF t

\* A dictionary takes a key, or a copy of it, and its value.
LEMMA KeyTaken ==
    ASSUME NEW n \in Nat, NEW r \in Readers(n), r.stack # <<>>, NEW f \in Frames(n),
           NEW k, NEW key \in Returns(n), NEW v \in Int, NEW u \in SetObject(GoOn(r, f), k, key, v)
    PROVE  \E i \in {n, n + 1} : Carried(i, r, f, u)
<1> DEFINE t      == GoOn(r, f)
           copied == key > 0 /\ t.made[key].class \in Containers
           c      == IF copied THEN [t EXCEPT !.made = Append(@, t.made[key])] ELSE t
           copy   == IF copied THEN Newest(c) ELSE key
<1>1. Carried(n, r, f, t) /\ t \in Readers(n)
  BY PartTaken, GoOnFacts
<1>2. \/ u = AddPart(AddPart(c, k, copy), k, v)
      \/ \E j : u = PartSet(c, k, j, v)
  BY DEF SetObject, PartSet
<1> HIDE DEF t
<1>3. key \in Int
  BY DEF Returns
<1>4. \E i \in {n, n + 1} : Carried(i, r, f, c) /\ copy \in Int
  <2>1. CASE copied
    <3> DEFINE m == Append(t.made, t.made[key])
    <3>1. t.made \in Seq(MadeObjects) /\ Len(t.made) = n /\ key \in 1 .. n
      BY <1>1, <2>1 DEF Readers, Returns
    <3>2. t.made[key] \in MadeObjects
      BY <3>1, ElementOfSeq
    <3>3. /\ m \in Seq(MadeObjects) /\ Len(m) = n + 1 /\ m[n + 1] = t.made[key]
          /\ \A i \in 1 .. n : m[i] = t.made[i]
      BY <3>1, <3>2, AppendProperties
    <3>4. DOMAIN m = 1 .. n + 1 /\ DOMAIN t.made = 1 .. n
      BY <3>1, <3>3, LenProperties
    <3>5. Clean(t.made) => Clean(m)
      BY <3>1, <3>3, <3>4 DEF Clean
    <3>6. c = [t EXCEPT !.made = m]
      BY <2>1
    <3> HIDE DEF m, c
    <3>7. /\ t.userReferences \in Seq(Returns(n + 1))
          /\ t.packerReferences \in Seq(Returns(n + 1)) \ {<<>>}
          /\ t.stack \in Seq(Frames(n + 1)) /\ t.ret \in Returns(n + 1)
      <4>1. /\ t.userReferences \in Seq(Returns(n)) /\ t.packerReferences \in Seq(Returns(n)) \ {<<>>}
            /\ t.stack \in Seq(Frames(n)) /\ t.ret \in Returns(n)
        BY <1>1 DEF Readers
      <4>2. Seq(Returns(n)) \subseteq Seq(Returns(n + 1)) /\ Seq(Frames(n)) \subseteq Seq(Frames(n + 1))
        BY MoreMade, SeqMonotonic, Zenon
      <4> QED
        BY <4>1, <4>2, MoreMade
    <3>8. /\ c \in Readers(n + 1) /\ c.made = m /\ c.stack = t.stack /\ c.ret = t.ret
          /\ c.pos = t.pos /\ c.rc = t.rc /\ c.raised = t.raised
          /\ c.userReferences = t.userReferences /\ c.packerReferences = t.packerReferences
      BY <1>1, <3>3, <3>6, <3>7 DEF Readers
    <3>9. Carried(n + 1, r, f, c)
      BY <1>1, <3>5, <3>8 DEF Carried
    <3>10. Newest(c) = n + 1
      BY <3>3, <3>8 DEF Newest
    <3> QED
      BY <2>1, <3>9, <3>10
  <2>2. CASE ~copied
    BY <1>1, <1>3, <2>2
  <2> QED
    BY <2>1, <2>2
<1>5. PICK i \in {n, n + 1} : Carried(i, r, f, c) /\ copy \in Int
  BY <1>4
<1> HIDE DEF c, copy, copied
<1>6. Carried(i, r, f, AddPart(c, k, copy)) /\ i \in Nat
  BY <1>5, CarriedPart
<1>7. Carried(i, r, f, u)
  BY <1>2, <1>5, <1>6, CarriedPart
<1> QED
  BY <1>7

\* Calls under way are the innermost and the others.
LEMMA StackSplit ==
    ASSUME NEW n \in Nat, NEW st \in Seq(Frames(n)), st # <<>>
    PROVE  st = <<Head(st)>> \o Tail(st)
<1> DEFINE f == Head(st)
           t == Tail(st)
           u == <<f>> \o t
<1>1. /\ f \in Frames(n) /\ f = st[1] /\ t \in Seq(Frames(n)) /\ Len(st) \in Nat \ {0}
      /\ Len(t) = Len(st) - 1 /\ \A i \in 1 .. Len(st) - 1 : t[i] = st[i + 1]
  BY TopGone
<1> HIDE DEF f, t
<1>2. /\ u \in Seq(Frames(n)) /\ Len(u) = Len(t) + 1 /\ u[1] = f
      /\ \A i \in 1 .. Len(t) : u[i + 1] = t[i]
  BY <1>1, OnTop
<1> HIDE DEF u
<1>3. Len(u) = Len(st)
  BY <1>1, <1>2
<1>4. ASSUME NEW i \in 1 .. Len(st) PROVE st[i] = u[i]
  <2>1. CASE i = 1
    BY <1>1, <1>2, <2>1
  <2>2. CASE i # 1
    <3>1. i - 1 \in 1 .. Len(st) - 1 /\ i - 1 \in 1 .. Len(t) /\ (i - 1) + 1 = i
      BY <1>1, <2>2
    <3>2. t[i - 1] = st[(i - 1) + 1] /\ u[(i - 1) + 1] = t[i - 1]
      BY <1>1, <1>2, <3>1
    <3> QED
      BY <3>1, <3>2
  <2> QED
    BY <2>1, <2>2
<1>5. st = u
  BY <1>2, <1>3, <1>4, SeqEqual
<1> QED
  BY <1>5 DEF u, f, t

LEMMA CleanFacts ==
    ASSUME NEW s, NEW l, NEW r, CleanReader(s, l, r)
    PROVE  LET n == Len(r.made)
           IN  /\ n \in Nat /\ r \in Readers(n) /\ r.stack \in Seq(Frames(n))
               /\ r.pos \in Nat /\ r.pos <= l /\ Clean(r.made) /\ r.ret \in Int
               /\ r.stack # <<>> =>
                    /\ Head(r.stack) \in Frames(n) /\ Tail(r.stack) \in Seq(Frames(n))
                    /\ Innermost(s, r) /\ Held(Tail(r.stack))
                    /\ r.stack = <<Head(r.stack)>> \o Tail(r.stack)
                    /\ Holds(Head(r.stack)) => Held(r.stack)
<1> DEFINE n == Len(r.made)
<1>1. r \in Readers(n) /\ r.pos <= l /\ Clean(r.made) /\ (r.stack # <<>> => Innermost(s, r))
  BY DEF CleanReader
<1>2. /\ r.made \in Seq(MadeObjects) /\ r.stack \in Seq(Frames(n))
      /\ r.pos \in Nat /\ r.ret \in Int
  BY <1>1 DEF Readers, Returns
<1>3. n \in Nat
  BY <1>2, LenProperties
<1> HIDE DEF n
<1>4. ASSUME r.stack # <<>>
      PROVE  /\ Head(r.stack) \in Frames(n) /\ Tail(r.stack) \in Seq(Frames(n))
             /\ Innermost(s, r) /\ Held(Tail(r.stack))
             /\ r.stack = <<Head(r.stack)>> \o Tail(r.stack)
             /\ Holds(Head(r.stack)) => Held(r.stack)
  <2>1. Head(r.stack) \in Frames(n) /\ Tail(r.stack) \in Seq(Frames(n))
    BY <1>2, <1>3, <1>4, TopGone
  <2>2. Innermost(s, r) /\ Held(Tail(r.stack))
    BY <1>1, <1>4 DEF Innermost
  <2>3. r.stack = <<Head(r.stack)>> \o Tail(r.stack)
    BY <1>2, <1>3, <1>4, StackSplit
  <2>4. Holds(Head(r.stack)) => Held(r.stack)
    BY <1>3, <2>1, <2>2, <2>3, HeldOnTop
  <2> QED
    BY <2>1, <2>2, <2>3, <2>4
<1> QED
  BY <1>1, <1>2, <1>3, <1>4 DEF n

LEMMA MarkerLabel ==
    ASSUME NEW item \in Items, item.type = "MARKER"
    PROVE  item.label \in Int /\ item = CWP_ITEM_OBJECT_MARKER(item.label)
<1>1. \/ \E k \in Nat : item = CWP_ITEM_ARRAY(k)
      \/ \E k \in Nat : item = CWP_ITEM_MAP(k)
      \/ \E l \in Int : item = CWP_ITEM_OBJECT_MARKER(l)
      \/ \E name \in Names : item = CWP_ITEM_STR(name)
      \/ \E v \in Objects \cup {Raw, "NO"} : item = CWP_ITEM_VALUE(v)
      \/ item = CWP_ITEM_NIL
  BY Zenon DEF Items
<1> QED
  BY <1>1 DEF CWP_ITEM_ARRAY, CWP_ITEM_MAP, CWP_ITEM_OBJECT_MARKER, CWP_ITEM_STR,
              CWP_ITEM_VALUE, CWP_ITEM_NIL

\* What is fetched is the next item, when there is one.
LEMMA FetchClean ==
    ASSUME Legible(stream, limit), NEW r, CleanReader(stream, limit, r)
    PROVE  LET f == Fetch(r.pos, r.rc)
               t == Fetched(r, f)
           IN  /\ t \in Readers(Len(r.made)) /\ t.stack = r.stack /\ t.ret = r.ret
               /\ t.raised = r.raised /\ t.made = r.made
               /\ t.userReferences = r.userReferences
               /\ t.packerReferences = r.packerReferences
               /\ t.pos = f.pos /\ t.rc = f.rc /\ t.pos \in Nat /\ t.pos <= limit
               /\ f.rc = CWP_RC_OK =>
                    /\ r.rc = CWP_RC_OK /\ r.pos < limit /\ f.pos = r.pos + 1
                    /\ f.pos \in 1 .. limit /\ f.item = stream[f.pos]
                    /\ f.item \in Items /\ f.item # CWP_ITEM_STR("garbage")
               /\ f.rc # CWP_RC_OK =>
                    /\ f.pos = r.pos
                    /\ f.rc = IF r.rc # CWP_RC_OK THEN r.rc ELSE CWP_RC_END_OF_INPUT
                    /\ r.rc # CWP_RC_OK \/ r.pos = limit
<1> DEFINE f == Fetch(r.pos, r.rc)
           t == Fetched(r, f)
           n == Len(r.made)
<1>1. n \in Nat /\ r \in Readers(n) /\ r.pos \in Nat /\ r.pos <= limit
  BY CleanFacts
<1>2. stream \in Seq(Items) /\ limit \in 0 .. Len(stream) /\ Len(stream) \in Nat
      /\ \A k \in 1 .. limit : stream[k] # CWP_ITEM_STR("garbage")
  BY LenProperties DEF Legible
<1>3. /\ t \in Readers(n) /\ t.stack = r.stack /\ t.ret = r.ret /\ t.raised = r.raised
      /\ t.made = r.made /\ t.userReferences = r.userReferences
      /\ t.packerReferences = r.packerReferences /\ t.results = r.results
      /\ t.pos = f.pos /\ t.rc = f.rc
      /\ r.rc # CWP_RC_OK => f = [pos |-> r.pos, rc |-> r.rc, item |-> CWP_NOT_AN_ITEM]
      /\ r.rc = CWP_RC_OK /\ r.pos = limit =>
           f = [pos |-> r.pos, rc |-> CWP_RC_END_OF_INPUT, item |-> CWP_NOT_AN_ITEM]
      /\ r.rc = CWP_RC_OK /\ r.pos < limit =>
           /\ f.pos = r.pos + 1 /\ f.rc = CWP_RC_OK /\ f.item = stream[r.pos + 1]
           /\ r.pos + 1 \in 1 .. Len(stream) /\ stream[r.pos + 1] \in Items
  BY <1>1, <1>2, FetchedFacts
<1>4. CWP_RC_END_OF_INPUT # CWP_RC_OK
  BY DEF CWP_RC_END_OF_INPUT, CWP_RC_OK
<1> HIDE DEF f, t, n
<1>5. CASE r.rc # CWP_RC_OK
  <2>1. f.pos = r.pos /\ f.rc = r.rc
    BY <1>3, <1>5
  <2>2. t.pos \in Nat /\ t.pos <= limit
    BY <1>1, <1>3, <2>1
  <2> QED
    BY <1>3, <1>5, <2>1, <2>2 DEF f, t, n
<1>6. CASE r.rc = CWP_RC_OK /\ r.pos = limit
  <2>1. f.pos = r.pos /\ f.rc = CWP_RC_END_OF_INPUT
    BY <1>3, <1>6
  <2>2. t.pos \in Nat /\ t.pos <= limit
    BY <1>1, <1>3, <2>1
  <2> QED
    BY <1>3, <1>4, <1>6, <2>1, <2>2 DEF f, t, n
<1>7. CASE r.rc = CWP_RC_OK /\ r.pos < limit
  <2>1. /\ f.pos = r.pos + 1 /\ f.rc = CWP_RC_OK /\ f.item = stream[f.pos]
        /\ f.item \in Items
    BY <1>3, <1>7
  <2>2. f.pos \in 1 .. limit /\ f.pos \in Nat /\ f.pos <= limit
    BY <1>1, <1>2, <1>7, <2>1
  <2>3. f.item # CWP_ITEM_STR("garbage")
    BY <1>2, <2>1, <2>2
  <2> QED
    BY <1>3, <1>7, <2>1, <2>2, <2>3 DEF f, t, n
<1>8. r.rc # CWP_RC_OK \/ r.pos = limit \/ r.pos < limit
  BY <1>1, <1>2
<1> QED
  BY <1>5, <1>6, <1>7, <1>8

LEMMA ObjectClean ==
    ASSUME Legible(stream, limit), CleanReader(stream, limit, reader), cwUnpackNextObjectSub
    PROVE  CleanReader(stream, limit, reader')
<1> DEFINE f == Fetch(reader.pos, reader.rc)
           r == Fetched(reader, f)
           n == Len(reader.made)
<1>1. /\ reader.stack # <<>> /\ Head(reader.stack).call = "cwUnpackNextObjectSub"
      /\ reader' = IF f.rc # CWP_RC_OK THEN Return(r, NIL)
                   ELSE cwUnpackObject(r, f.item, Frame.label)
  BY DEF cwUnpackNextObjectSub, Running
<1>2. /\ n \in Nat /\ Head(reader.stack) \in Frames(n) /\ Held(Tail(reader.stack))
      /\ Clean(reader.made)
  BY <1>1, CleanFacts
<1>3. Frame.label \in Int
  BY <1>1, <1>2, FrameForms DEF Frame
<1>4. /\ r \in Readers(n) /\ r.stack = reader.stack /\ r.made = reader.made
      /\ r.pos = f.pos /\ r.rc = f.rc /\ r.pos <= limit
      /\ f.rc = CWP_RC_OK =>
           /\ f.pos \in 1 .. limit /\ f.item = stream[f.pos]
           /\ f.item \in Items /\ f.item # CWP_ITEM_STR("garbage")
  BY FetchClean
<1> HIDE DEF f, r, n
<1>5. CASE f.rc # CWP_RC_OK
  <2>1. reader' = Return(r, NIL)
    BY <1>1, <1>5
  <2>2. NIL \in Returns(n) /\ r.stack # <<>>
    BY <1>1, <1>2, <1>4 DEF NIL, Returns
  <2>3. reader' \in Readers(n) /\ SameBut(r, reader') /\ reader'.stack = Tail(r.stack)
    BY <1>2, <1>4, <2>1, <2>2, ReturnFacts
  <2>4. Clean(reader'.made) /\ reader'.pos <= limit /\ Held(reader'.stack)
    BY <1>2, <1>4, <2>3 DEF SameBut
  <2> QED
    BY <1>2, <2>3, <2>4, CleanWhenHeld
<1>6. CASE f.rc = CWP_RC_OK
  <2>1. reader' = cwUnpackObject(r, f.item, Frame.label)
    BY <1>1, <1>6
  <2>2. f.pos >= 1 /\ f.item = stream[f.pos] /\ f.item \in Items
        /\ f.item # CWP_ITEM_STR("garbage")
    BY <1>4, <1>6
  <2>3. \A m \in Places : f.item = CWP_ITEM_ARRAY(m) =>
            r.rc = CWP_RC_OK /\ r.pos >= 1 /\ stream[r.pos] = f.item
    BY <1>4, <1>6, <2>2
  <2>4. r.stack # <<>> /\ Held(Tail(r.stack)) /\ Clean(r.made) /\ r.pos <= limit
    BY <1>1, <1>2, <1>4
  <2>5. CleanReader(stream, limit, cwUnpackObject(r, f.item, Frame.label))
    BY <1>2, <1>3, <1>4, <2>2, <2>3, <2>4, UnpackedClean
  <2> QED
    BY <2>1, <2>5
<1> QED
  BY <1>5, <1>6

LEMMA FirstItemClean ==
    ASSUME Legible(stream, limit), CleanReader(stream, limit, reader), FirstItem
    PROVE  CleanReader(stream, limit, reader')
<1> DEFINE f   == Fetch(reader.pos, reader.rc)
           r   == Fetched(reader, f)
           n   == Len(reader.made)
           dim == Frame.dim
           arr == ReferTo(Make(r, "array", "none"), Frame.label)
           t   == Call(GoOn(arr, [call |-> "array", object |-> Newest(arr), left |-> dim]),
                       NextObjectSub(0))
           st  == Tail(reader.stack)
<1>1. /\ reader.stack # <<>> /\ Head(reader.stack).call = "first"
      /\ reader' = IF f.item.type # "MARKER" THEN cwUnpackObject(t, f.item, 0)
                   ELSE IF dim = 1 THEN Reference(r, f.item.label)
                   ELSE IF f.item.label >= 0
                   THEN Call(GoOn(r, [call |-> "class", label |-> f.item.label,
                                      left |-> dim - 2]), NextObjectSub(0))
                   ELSE IF dim # 2 THEN Stop(r, CWP_RC_VALUE_ERROR)
                   ELSE GoOn(r, NextObjectSub(f.item.label))
  BY DEF FirstItem, Running
<1>2. /\ n \in Nat /\ Head(reader.stack) \in Frames(n) /\ Held(st) /\ st \in Seq(Frames(n))
      /\ Clean(reader.made) /\ Innermost(stream, reader) /\ reader.pos \in Nat
      /\ reader.pos <= limit
  BY <1>1, CleanFacts
<1>3. dim \in Places /\ Frame.label \in Int
  BY <1>1, <1>2, FrameForms DEF Frame
<1>4. /\ r \in Readers(n) /\ r.stack = reader.stack /\ r.made = reader.made
      /\ r.pos = f.pos /\ r.rc = f.rc /\ r.pos <= limit
      /\ f.rc = CWP_RC_OK =>
           /\ f.pos \in 1 .. limit /\ f.item = stream[f.pos]
           /\ f.item \in Items /\ f.item # CWP_ITEM_STR("garbage")
      /\ f.rc # CWP_RC_OK => reader.rc # CWP_RC_OK \/ reader.pos = limit
  BY FetchClean
<1> HIDE DEF f, r, n, st
<1>5. f.rc = CWP_RC_OK
  <2>1. reader.rc = CWP_RC_OK /\ reader.pos >= 1
        /\ \E m \in Places : stream[reader.pos] = CWP_ITEM_ARRAY(m)
    BY <1>1, <1>2 DEF Innermost
  <2>2. reader.pos # limit
    BY <2>1 DEF Legible
  <2> QED
    BY <1>4, <2>1, <2>2
<1>6. r.stack # <<>> /\ Tail(r.stack) = st /\ Held(Tail(r.stack)) /\ Clean(r.made)
  BY <1>1, <1>2, <1>4 DEF st
<1>7. /\ f.pos >= 1 /\ f.item = stream[f.pos] /\ f.item \in Items
      /\ f.item # CWP_ITEM_STR("garbage")
  BY <1>4, <1>5
<1>8. f.item.type = "MARKER" => f.item.label \in Int
  BY <1>7, MarkerLabel
<1>9. CASE f.item.type # "MARKER"
  <2> DEFINE g == [call |-> "array", object |-> n + 1, left |-> dim]
  <2>1. /\ t \in Readers(n + 1) /\ g \in Frames(n + 1)
        /\ t.stack = <<NextObjectSub(0)>> \o (<<g>> \o Tail(r.stack))
        /\ t.pos = r.pos /\ t.rc = r.rc
        /\ Clean(r.made) => Clean(t.made)
    BY <1>2, <1>3, <1>4, <1>6, FirstArray
  <2>2. reader' = cwUnpackObject(t, f.item, 0)
    BY <1>1, <1>9
  <2>3. Holds(g)
    BY DEF Holds
  <2> HIDE DEF t, g
  <2>4. n + 1 \in Nat /\ st \in Seq(Frames(n + 1))
    <3>1. Seq(Frames(n)) \subseteq Seq(Frames(n + 1))
      BY <1>2, MoreMade, SeqMonotonic, Zenon
    <3> QED
      BY <1>2, <3>1
  <2>5. Held(<<g>> \o st) /\ <<g>> \o st \in Seq(Frames(n + 1))
    BY <1>2, <2>1, <2>3, <2>4, HeldOnTop, OnTop
  <2>6. NextObjectSub(0) \in Frames(n + 1)
    BY <2>4, NextObjectFrame
  <2>7. t.stack # <<>> /\ Tail(t.stack) = <<g>> \o st
    <3>1. t.stack = <<NextObjectSub(0)>> \o (<<g>> \o st)
      BY <1>6, <2>1
    <3> QED
      BY <2>4, <2>5, <2>6, <3>1, OnTop
  <2>8. \A m \in Places : f.item = CWP_ITEM_ARRAY(m) =>
            t.rc = CWP_RC_OK /\ t.pos >= 1 /\ stream[t.pos] = f.item
    BY <1>4, <1>5, <1>7, <2>1
  <2>9. CleanReader(stream, limit, cwUnpackObject(t, f.item, 0))
    <3>1. Held(Tail(t.stack)) /\ t.pos <= limit /\ Clean(t.made)
      BY <1>4, <1>6, <2>1, <2>5, <2>7
    <3> QED
      <4>1. 0 \in Int /\ t \in Readers(n + 1) /\ n + 1 \in Nat /\ t.stack # <<>>
        BY <2>1, <2>4, <2>7
      <4> DEFINE x == 0
                 k == n + 1
      <4> HIDE DEF x, k
      <4>2. x \in Int /\ k \in Nat /\ t \in Readers(k)
        BY <4>1 DEF x, k
      <4>3. CleanReader(stream, limit, cwUnpackObject(t, f.item, x))
        BY <1>7, <2>8, <3>1, <4>1, <4>2, UnpackedClean
      <4> QED
        BY <4>3 DEF x
  <2> QED
    BY <2>2, <2>9
<1>10. CASE f.item.type = "MARKER" /\ dim = 1
  <2>1. reader' = Reference(r, f.item.label)
    BY <1>1, <1>10
  <2> DEFINE u == Reference(r, f.item.label)
  <2>2. u \in Readers(n) /\ u.stack = Tail(r.stack) /\ u.pos = r.pos /\ u.made = r.made
    BY <1>2, <1>4, <1>6, <1>8, <1>10, ReferenceFacts
  <2> HIDE DEF u
  <2>3. Held(u.stack) /\ u.pos <= limit /\ Clean(u.made)
    BY <1>4, <1>6, <2>2
  <2> QED
    BY <1>2, <2>1, <2>2, <2>3, CleanWhenHeld DEF u
<1>11. CASE f.item.type = "MARKER" /\ dim # 1 /\ f.item.label >= 0
  <2> DEFINE g == [call |-> "class", label |-> f.item.label, left |-> dim - 2]
             a == GoOn(r, g)
             u == Call(a, NextObjectSub(0))
  <2>1. reader' = u
    BY <1>1, <1>11
  <2>2. g \in Frames(n) /\ Holds(g)
    <3>1. f.item.label \in Int /\ dim - 2 \in Int
      BY <1>3, <1>8, <1>11 DEF Places
    <3> QED
      BY <3>1 DEF Frames, Holds
  <2> HIDE DEF g
  <2>3. a \in Readers(n) /\ SameBut(r, a) /\ a.stack = <<g>> \o Tail(r.stack)
    BY <1>2, <1>4, <1>6, <2>2, GoOnFacts
  <2>4. NextObjectSub(0) \in Frames(n) /\ NextObjectSub(0).call # "first"
    BY <1>2, NextObjectFrame
  <2> HIDE DEF a
  <2>5. u \in Readers(n) /\ SameBut(a, u) /\ u.ret = NONE /\ u.stack = <<NextObjectSub(0)>> \o a.stack
    BY <1>2, <2>3, <2>4, CallFacts
  <2> HIDE DEF u
  <2>6. Held(a.stack) /\ a.stack \in Seq(Frames(n))
    <3>1. a.stack = <<g>> \o st
      BY <1>6, <2>3
    <3> QED
      BY <1>2, <2>2, <3>1, HeldOnTop, OnTop
  <2>7. u.pos <= limit /\ Clean(u.made)
    BY <1>4, <1>6, <2>3, <2>5 DEF SameBut
  <2>8. CleanReader(stream, limit, u)
    BY <1>2, <2>4, <2>5, <2>6, <2>7, CleanWhenCalled
  <2> QED
    BY <2>1, <2>8
<1>12. CASE f.item.type = "MARKER" /\ dim # 1 /\ ~(f.item.label >= 0) /\ dim # 2
  <2> DEFINE u == Stop(r, CWP_RC_VALUE_ERROR)
  <2>1. reader' = u
    BY <1>1, <1>12
  <2>2. CWP_RC_VALUE_ERROR \in Int
    BY DEF CWP_RC_VALUE_ERROR
  <2>3. u \in Readers(n) /\ u.stack = Tail(r.stack) /\ u.pos = r.pos /\ u.made = r.made
    BY <1>2, <1>4, <1>6, <2>2, StopFacts
  <2> HIDE DEF u
  <2>4. Held(u.stack) /\ u.pos <= limit /\ Clean(u.made)
    BY <1>4, <1>6, <2>3
  <2> QED
    BY <1>2, <2>1, <2>3, <2>4, CleanWhenHeld
<1>13. CASE f.item.type = "MARKER" /\ dim = 2 /\ ~(f.item.label >= 0)
  <2> DEFINE u == GoOn(r, NextObjectSub(f.item.label))
  <2>1. reader' = u
    BY <1>1, <1>13
  <2>2. NextObjectSub(f.item.label) \in Frames(n) /\ NextObjectSub(f.item.label).call # "first"
    BY <1>2, <1>8, <1>13, NextObjectFrame
  <2>3. u \in Readers(n) /\ SameBut(r, u) /\ u.ret = NONE
        /\ u.stack = <<NextObjectSub(f.item.label)>> \o Tail(r.stack)
    BY <1>2, <1>4, <1>6, <2>2, GoOnFacts
  <2> HIDE DEF u
  <2>4. u.pos <= limit /\ Clean(u.made)
    BY <1>4, <1>6, <2>3 DEF SameBut
  <2>5. CleanReader(stream, limit, u)
    BY <1>2, <1>6, <2>2, <2>3, <2>4, CleanWhenCalled
  <2> QED
    BY <2>1, <2>5
<1> HIDE DEF t, dim
<1> QED
  BY <1>9, <1>10, <1>11, <1>12, <1>13

\* The call that reads the attributes of an object just made.
LEMMA SubFrameFacts ==
    ASSUME KnownClasses \in [DOMAIN KnownClasses -> Seq({"object", "number"})],
           "NSSet" \notin DOMAIN KnownClasses,
           NEW n \in Nat, NEW m, Newest(m) = n + 1, NEW name, NEW left \in Int
    PROVE  LET g == SubFrame(m, name, left)
           IN  /\ g \in Frames(n + 1) /\ g.call \in {"set", "user", "generic"}
               /\ name = "NSSet" => g.call = "set" /\ g.left = left
               /\ name # "NSSet" /\ name \in DOMAIN KnownClasses =>
                    g.call = "user" /\ g.reads = KnownClasses[name]
               /\ name # "NSSet" /\ name \notin DOMAIN KnownClasses =>
                    g.call = "generic" /\ g.left = left
<1> DEFINE g == SubFrame(m, name, left)
<1>1. n + 1 \in 1 .. n + 1
  OBVIOUS
<1>2. CASE name = "NSSet"
  <2>1. g = [call |-> "set", object |-> n + 1, left |-> left]
    BY <1>2 DEF SubFrame
  <2>2. g \in Frames(n + 1)
    BY <1>1, <2>1 DEF Frames
  <2> HIDE DEF g
  <2> QED
    BY <1>2, <2>1, <2>2 DEF g
<1>3. CASE name # "NSSet" /\ name \in DOMAIN KnownClasses
  <2> DEFINE rs == KnownClasses[name]
  <2>1. g = [call |-> "user", object |-> n + 1, reads |-> rs]
    BY <1>3 DEF SubFrame
  <2>2. rs \in Seq({"object", "number"})
    BY <1>3
  <2> HIDE DEF rs
  <2>3. g \in Frames(n + 1)
    BY <1>1, <2>1, <2>2 DEF Frames
  <2> HIDE DEF g
  <2> QED
    BY <1>3, <2>1, <2>3 DEF g, rs
<1>4. CASE name # "NSSet" /\ name \notin DOMAIN KnownClasses
  <2>1. g = [call |-> "generic", object |-> n + 1, left |-> left]
    BY <1>4 DEF SubFrame
  <2>2. g \in Frames(n + 1)
    BY <1>1, <2>1 DEF Frames
  <2> HIDE DEF g
  <2> QED
    BY <1>4, <2>1, <2>2 DEF g
<1> QED
  BY <1>2, <1>3, <1>4

\* An object of a class is made, gets its place if it came with a label, and
\* reads its attributes.
ClassMade(n, r, name, left, refs, t) ==
    \E g \in Frames(n + 1) :
        /\ g.call \in {"set", "user", "generic"}
        /\ name = "NSSet" => g.call = "set" /\ g.left = left
        /\ name # "NSSet" /\ name \in DOMAIN KnownClasses =>
             g.call = "user" /\ g.reads = KnownClasses[name]
        /\ name # "NSSet" /\ name \notin DOMAIN KnownClasses =>
             g.call = "generic" /\ g.left = left
        /\ t \in Readers(n + 1) /\ t.stack = <<g>> \o Tail(r.stack) /\ t.ret = NONE
        /\ t.pos = r.pos /\ t.rc = r.rc /\ t.raised = r.raised
        /\ t.userReferences = refs /\ t.packerReferences = r.packerReferences
        /\ Clean(r.made) => Clean(t.made)

LEMMA ClassMadeFacts ==
    ASSUME KnownClasses \in [DOMAIN KnownClasses -> Seq({"object", "number"})],
           "NSSet" \notin DOMAIN KnownClasses,
           NEW n \in Nat, NEW r \in Readers(n), r.stack # <<>>,
           NEW name \in Words, name # "garbage", NEW left \in Int
    PROVE  LET m == Make(r, name, "none")
               a == [m EXCEPT !.userReferences = Append(@, Newest(m))]
           IN  /\ ClassMade(n, r, name, left, r.userReferences,
                            GoOn(m, SubFrame(m, name, left)))
               /\ ClassMade(n, r, name, left, Append(r.userReferences, n + 1),
                            GoOn(a, SubFrame(m, name, left)))
<1> DEFINE m    == Make(r, name, "none")
           refs == Append(r.userReferences, n + 1)
           a    == [m EXCEPT !.userReferences = Append(@, Newest(m))]
           g    == SubFrame(m, name, left)
<1>1. "none" \in Words /\ "none" # "garbage" /\ n + 1 \in Nat
  BY DEF Words
<1>2. /\ m \in Readers(n + 1) /\ m.stack = r.stack /\ Newest(m) = n + 1
      /\ m.pos = r.pos /\ m.rc = r.rc /\ m.raised = r.raised
      /\ m.userReferences = r.userReferences
      /\ m.packerReferences = r.packerReferences
  BY <1>1, MakeFacts
<1>3. Clean(r.made) => Clean(m.made)
  BY <1>1, MadeClean
<1> HIDE DEF m
<1>4. refs \in Seq(Returns(n + 1))
  <2>1. m.userReferences \in Seq(Returns(n + 1)) /\ n + 1 \in Returns(n + 1)
    BY <1>1, <1>2 DEF Readers, Returns
  <2>2. refs = Append(m.userReferences, n + 1)
    BY <1>2
  <2> QED
    BY <2>1, <2>2, OneMore
<1>5. a = [m EXCEPT !.userReferences = refs]
  BY <1>2
<1> HIDE DEF refs, a
<1>6. /\ a \in Readers(n + 1) /\ a.stack = m.stack
      /\ a.pos = m.pos /\ a.rc = m.rc /\ a.raised = m.raised /\ a.made = m.made
      /\ a.userReferences = refs /\ a.packerReferences = m.packerReferences
  BY <1>2, <1>4, <1>5 DEF Readers
<1>7. /\ g \in Frames(n + 1) /\ g.call \in {"set", "user", "generic"}
      /\ name = "NSSet" => g.call = "set" /\ g.left = left
      /\ name # "NSSet" /\ name \in DOMAIN KnownClasses =>
           g.call = "user" /\ g.reads = KnownClasses[name]
      /\ name # "NSSet" /\ name \notin DOMAIN KnownClasses =>
           g.call = "generic" /\ g.left = left
  BY <1>2, SubFrameFacts
<1> HIDE DEF g
<1>8. ASSUME NEW s \in Readers(n + 1), s.stack = r.stack,
             s.pos = r.pos, s.rc = r.rc, s.raised = r.raised,
             s.packerReferences = r.packerReferences, Clean(r.made) => Clean(s.made)
      PROVE  ClassMade(n, r, name, left, s.userReferences, GoOn(s, g))
  <2> DEFINE t == GoOn(s, g)
  <2>1. t \in Readers(n + 1) /\ SameBut(s, t) /\ t.ret = NONE /\ t.stack = <<g>> \o Tail(s.stack)
    BY <1>1, <1>7, <1>8, GoOnFacts
  <2> HIDE DEF t
  <2>2. /\ t.stack = <<g>> \o Tail(r.stack)
        /\ t.pos = r.pos /\ t.rc = r.rc /\ t.raised = r.raised
        /\ t.userReferences = s.userReferences /\ t.packerReferences = r.packerReferences
        /\ Clean(r.made) => Clean(t.made)
    BY <1>8, <2>1 DEF SameBut
  <2>3. ClassMade(n, r, name, left, s.userReferences, t)
    BY <1>7, <2>1, <2>2, Zenon DEF ClassMade
  <2> QED
    BY <2>3 DEF t
<1>9. ClassMade(n, r, name, left, r.userReferences, GoOn(m, g))
  BY <1>2, <1>3, <1>8
<1>10. ClassMade(n, r, name, left, refs, GoOn(a, g))
  <2>1. ClassMade(n, r, name, left, a.userReferences, GoOn(a, g))
    BY <1>2, <1>3, <1>6, <1>8
  <2> QED
    BY <1>6, <2>1
<1> QED
  BY <1>9, <1>10 DEF m, a, g, refs

LEMMA CarriedClean ==
    ASSUME NEW s, NEW l, NEW n \in Nat, NEW r \in Readers(n), r.stack # <<>>,
           Held(Tail(r.stack)), r.pos <= l, Clean(r.made),
           NEW f \in Frames(n), f.call # "first", NEW u, NEW i \in {n, n + 1},
           Carried(i, r, f, u)
    PROVE  CleanReader(s, l, u)
<1>1. /\ u \in Readers(i) /\ u.stack = <<f>> \o Tail(r.stack) /\ u.ret = NONE
      /\ u.pos <= l /\ Clean(u.made)
  BY DEF Carried
<1>2. Tail(r.stack) \in Seq(Frames(n))
  BY TopGone DEF Readers
<1>3. i \in Nat /\ Frames(n) \subseteq Frames(i)
  BY MoreMade
<1>4. Tail(r.stack) \in Seq(Frames(i)) /\ f \in Frames(i)
  BY <1>2, <1>3, SeqMonotonic, Zenon
<1> QED
  BY <1>1, <1>3, <1>4, CleanWhenCalled

LEMMA ReturnClean ==
    ASSUME NEW s, NEW l, NEW n \in Nat, NEW r \in Readers(n), r.stack # <<>>,
           Held(Tail(r.stack)), r.pos <= l, Clean(r.made), NEW v \in Returns(n)
    PROVE  CleanReader(s, l, Return(r, v))
<1> DEFINE t == Return(r, v)
<1>1. t \in Readers(n) /\ SameBut(r, t) /\ t.stack = Tail(r.stack)
  BY ReturnFacts
<1> HIDE DEF t
<1>2. t.pos <= l /\ Clean(t.made) /\ Held(t.stack)
  BY <1>1 DEF SameBut
<1>3. CleanReader(s, l, t)
  BY <1>1, <1>2, CleanWhenHeld
<1> QED
  BY <1>3 DEF t

\* Whatever the exception, the return code or the results become, what was made is
\* what was made.
LEMMA OtherwiseClean ==
    ASSUME NEW s, NEW l, NEW r, CleanReader(s, l, r)
    PROVE  /\ CleanReader(s, l, [r EXCEPT !.raised = TRUE])
           /\ \A code \in Int : r.stack # <<>> /\ Head(r.stack).call # "first" =>
                CleanReader(s, l, [r EXCEPT !.rc = code])
<1>1. r \in Readers(Len(r.made)) /\ r.pos <= l /\ Clean(r.made)
      /\ (r.stack # <<>> => Innermost(s, r))
  BY DEF CleanReader
<1>2. CleanReader(s, l, [r EXCEPT !.raised = TRUE])
  <2> DEFINE t == [r EXCEPT !.raised = TRUE]
  <2>1. /\ t \in Readers(Len(r.made)) /\ t.made = r.made /\ t.stack = r.stack
        /\ t.ret = r.ret /\ t.rc = r.rc /\ t.pos = r.pos
    BY <1>1 DEF Readers
  <2> HIDE DEF t
  <2>2. CleanReader(s, l, t)
    BY <1>1, <2>1 DEF CleanReader, Innermost
  <2> QED
    BY <2>2 DEF t
<1>3. ASSUME NEW code \in Int, r.stack # <<>>, Head(r.stack).call # "first"
      PROVE  CleanReader(s, l, [r EXCEPT !.rc = code])
  <2> DEFINE t == [r EXCEPT !.rc = code]
  <2>1. /\ t \in Readers(Len(r.made)) /\ t.made = r.made /\ t.stack = r.stack
        /\ t.ret = r.ret /\ t.pos = r.pos
    BY <1>1 DEF Readers
  <2> HIDE DEF t
  <2>2. CleanReader(s, l, t)
    BY <1>1, <1>3, <2>1 DEF CleanReader, Innermost
  <2> QED
    BY <2>2 DEF t
<1> QED
  BY <1>2, <1>3

\* The object of a class is made, unless there is no name or no such place for it.
LEMMA ClassNameFacts ==
    ASSUME Agreed, NEW n \in Nat, reader \in Readers(n), Clean(reader.made), ClassName
    PROVE  LET named == reader.ret > 0 /\ reader.made[reader.ret].class = "string"
               name  == IF named THEN reader.made[reader.ret].value ELSE "none"
               label == Frame.label
           IN  /\ name \in Words /\ name # "garbage"
               /\ \/ ~named /\ reader.ret # NIL /\ reader' = [reader EXCEPT !.raised = TRUE]
                  \/ /\ label = Len(reader.userReferences)
                     /\ ClassMade(n, reader, name, Frame.left,
                                  Append(reader.userReferences, n + 1), reader')
                  \/ /\ label # 0 /\ label # Len(reader.userReferences)
                     /\ reader'.stack = Tail(reader.stack) /\ reader' \in Readers(n + 1)
                     /\ reader'.pos = reader.pos /\ Clean(reader'.made)
                  \/ /\ label = 0
                     /\ ClassMade(n, reader, name, Frame.left, reader.userReferences, reader')
               /\ named \/ reader.ret = NIL => reader'.raised = reader.raised
<1> DEFINE named == reader.ret > 0 /\ reader.made[reader.ret].class = "string"
           name  == IF named THEN reader.made[reader.ret].value ELSE "none"
           label == Frame.label
           left  == Frame.left
           m     == Make(reader, name, "none")
           a     == [m EXCEPT !.userReferences = Append(@, Newest(m))]
           g     == SubFrame(m, name, left)
<1>1. /\ reader.stack # <<>> /\ Head(reader.stack).call = "class"
      /\ reader' = IF ~named /\ reader.ret # NIL THEN [reader EXCEPT !.raised = TRUE]
                   ELSE IF label = Len(m.userReferences) THEN GoOn(a, g)
                   ELSE IF label # 0 THEN Stop(m, CWP_RC_VALUE_ERROR)
                   ELSE GoOn(m, g)
  BY DEF ClassName, Running
<1>2. left \in Int /\ label \in Int
  <2>1. reader.stack \in Seq(Frames(n))
    BY DEF Readers
  <2>2. Head(reader.stack) \in Frames(n)
    BY <1>1, <2>1, TopGone
  <2> QED
    BY <1>1, <2>2, FrameForms DEF Frame
<1>3. name \in Words /\ name # "garbage"
  <2>1. CASE named
    <3>1. reader.ret \in 1 .. n /\ reader.made \in Seq(MadeObjects) /\ Len(reader.made) = n
      BY <2>1 DEF Readers, Returns
    <3>2. reader.made[reader.ret] \in MadeObjects /\ reader.ret \in DOMAIN reader.made
      BY <3>1, ElementOfSeq, LenProperties
    <3> QED
      BY <2>1, <3>2 DEF Clean, MadeObjects
  <2>2. CASE ~named
    BY <2>2 DEF Words
  <2> QED
    BY <2>1, <2>2
<1>4. /\ KnownClasses \in [DOMAIN KnownClasses -> Seq({"object", "number"})]
      /\ "NSSet" \notin DOMAIN KnownClasses
  BY DEF Agreed
<1> HIDE DEF name, left, label, named
<1>5. /\ ClassMade(n, reader, name, left, reader.userReferences, GoOn(m, g))
      /\ ClassMade(n, reader, name, left, Append(reader.userReferences, n + 1), GoOn(a, g))
  BY <1>1, <1>2, <1>3, <1>4, ClassMadeFacts
<1>6. "none" \in Words /\ "none" # "garbage" /\ n + 1 \in Nat /\ CWP_RC_VALUE_ERROR \in Int
  BY DEF Words, CWP_RC_VALUE_ERROR
<1>7. /\ m \in Readers(n + 1) /\ m.stack = reader.stack /\ m.pos = reader.pos
      /\ m.userReferences = reader.userReferences /\ m.raised = reader.raised
  BY <1>3, <1>6, MakeFacts
<1>8. Clean(m.made)
  BY <1>3, <1>6, MadeClean
<1> HIDE DEF m, a, g
<1>9. CASE ~named /\ reader.ret # NIL
  <2>1. reader' = [reader EXCEPT !.raised = TRUE]
    BY <1>1, <1>9
  <2> QED
    BY <1>3, <1>9, <2>1 DEF name, named
<1>10. CASE ~(~named /\ reader.ret # NIL) /\ label = Len(reader.userReferences)
  <2>1. reader' = GoOn(a, g)
    BY <1>1, <1>7, <1>10
  <2>2. ClassMade(n, reader, name, left, Append(reader.userReferences, n + 1), reader')
    BY <1>5, <2>1
  <2>3. reader'.raised = reader.raised
    BY <2>2 DEF ClassMade
  <2> QED
    BY <1>3, <1>10, <2>2, <2>3 DEF name, named, left, label
<1>11. CASE ~(~named /\ reader.ret # NIL) /\ label # Len(reader.userReferences) /\ label # 0
  <2> DEFINE t == Stop(m, CWP_RC_VALUE_ERROR)
  <2>1. reader' = t
    BY <1>1, <1>7, <1>11
  <2>2. /\ t \in Readers(n + 1) /\ t.stack = Tail(m.stack) /\ t.made = m.made
        /\ t.pos = m.pos /\ t.raised = m.raised
    BY <1>1, <1>6, <1>7, StopFacts
  <2> HIDE DEF t
  <2>3. /\ reader'.stack = Tail(reader.stack) /\ reader' \in Readers(n + 1)
        /\ reader'.pos = reader.pos /\ Clean(reader'.made) /\ reader'.raised = reader.raised
    BY <1>7, <1>8, <2>1, <2>2
  <2> QED
    BY <1>3, <1>11, <2>3 DEF name, named, left, label
<1>12. CASE ~(~named /\ reader.ret # NIL) /\ label # Len(reader.userReferences) /\ label = 0
  <2>1. reader' = GoOn(m, g)
    BY <1>1, <1>7, <1>12
  <2>2. ClassMade(n, reader, name, left, reader.userReferences, reader')
    BY <1>5, <2>1
  <2>3. reader'.raised = reader.raised
    BY <2>2 DEF ClassMade
  <2> QED
    BY <1>3, <1>12, <2>2, <2>3 DEF name, named, left, label
<1> QED
  BY <1>9, <1>10, <1>11, <1>12

LEMMA ClassNameClean ==
    ASSUME Agreed, CleanReader(stream, limit, reader), ClassName
    PROVE  CleanReader(stream, limit, reader')
<1> DEFINE n     == Len(reader.made)
           named == reader.ret > 0 /\ reader.made[reader.ret].class = "string"
           name  == IF named THEN reader.made[reader.ret].value ELSE "none"
<1>1. reader.stack # <<>> /\ Head(reader.stack).call = "class"
  BY DEF ClassName, Running
<1>2. /\ n \in Nat /\ reader \in Readers(n) /\ Held(Tail(reader.stack))
      /\ reader.pos <= limit /\ Clean(reader.made) /\ Tail(reader.stack) \in Seq(Frames(n))
  BY <1>1, CleanFacts
<1> HIDE DEF n
<1>3. \/ reader' = [reader EXCEPT !.raised = TRUE]
      \/ \E refs, nm, left : ClassMade(n, reader, nm, left, refs, reader')
      \/ /\ reader'.stack = Tail(reader.stack) /\ reader' \in Readers(n + 1)
         /\ reader'.pos = reader.pos /\ Clean(reader'.made)
  BY <1>2, ClassNameFacts
<1>4. CASE reader' = [reader EXCEPT !.raised = TRUE]
  BY <1>4, OtherwiseClean
<1>5. ASSUME NEW refs, NEW nm, NEW left, ClassMade(n, reader, nm, left, refs, reader')
      PROVE  CleanReader(stream, limit, reader')
  <2>1. PICK g \in Frames(n + 1) :
           /\ g.call \in {"set", "user", "generic"}
           /\ reader' \in Readers(n + 1) /\ reader'.stack = <<g>> \o Tail(reader.stack)
           /\ reader'.ret = NONE /\ reader'.pos = reader.pos
           /\ Clean(reader.made) => Clean(reader'.made)
    BY <1>5 DEF ClassMade
  <2>2. n + 1 \in Nat /\ Tail(reader.stack) \in Seq(Frames(n + 1))
    <3>1. Seq(Frames(n)) \subseteq Seq(Frames(n + 1))
      BY <1>2, MoreMade, SeqMonotonic, Zenon
    <3>2. Tail(reader.stack) \in Seq(Frames(n + 1))
      BY <1>2, <3>1, Zenon
    <3> QED
      BY <1>2, <3>2
  <2>3. g.call # "first" /\ reader'.pos <= limit /\ Clean(reader'.made)
    BY <1>2, <2>1
  <2> QED
    BY <1>2, <2>1, <2>2, <2>3, CleanWhenCalled
<1>6. CASE /\ reader'.stack = Tail(reader.stack) /\ reader' \in Readers(n + 1)
           /\ reader'.pos = reader.pos /\ Clean(reader'.made)
  <2>1. n + 1 \in Nat /\ reader'.pos <= limit /\ Held(reader'.stack)
    BY <1>2, <1>6
  <2> QED
    BY <1>6, <2>1, CleanWhenHeld
<1> QED
  BY <1>3, <1>4, <1>5, <1>6

LEMMA LoopClean ==
    ASSUME CleanReader(stream, limit, reader),
           NextPart \/ TakePart \/ TakeKeyOrValue \/ TakeMember
    PROVE  CleanReader(stream, limit, reader')
<1> DEFINE n == Len(reader.made)
<1>1. reader.stack # <<>> /\ Frame.call \in Loops /\ Frame = Head(reader.stack)
  BY DEF NextPart, TakePart, TakeKeyOrValue, TakeMember, Running, Loops, Frame
<1>2. /\ n \in Nat /\ reader \in Readers(n) /\ Held(Tail(reader.stack)) /\ reader.ret \in Int
      /\ reader.pos <= limit /\ Clean(reader.made) /\ Frame \in Frames(n)
      /\ reader.stack \in Seq(Frames(n)) /\ (Holds(Frame) => Held(reader.stack))
  BY <1>1, CleanFacts DEF Frame
<1> HIDE DEF n
<1>3. Held(reader.stack)
  BY <1>1, <1>2 DEF Holds, Loops
<1>4. Frame.object \in 1 .. n /\ (Frame.call = "map" => Frame.key \in Returns(n))
      /\ reader.ret \in Returns(n)
  BY <1>1, <1>2, FrameForms DEF Readers
<1>5. /\ OneLess \in Frames(n) /\ OneLess.call # "first"
      /\ \A v \in Returns(n) : Frame.call = "map" =>
            [OneLess EXCEPT !.key = v] \in Frames(n) /\ [OneLess EXCEPT !.key = v].call # "first"
  <2>1. "first" \notin Loops
    BY DEF Loops
  <2>2. n \in Nat /\ Frame \in Frames(n) /\ Frame.call \in Loops
    BY <1>1, <1>2
  <2> QED
    BY <2>1, <2>2, LessFrame, Zenon DEF OneLess
<1>6. ASSUME NEW f \in Frames(n), f.call # "first", NEW u, NEW i \in {n, n + 1},
             Carried(i, reader, f, u)
      PROVE  CleanReader(stream, limit, u)
  BY <1>1, <1>2, <1>6, CarriedClean
<1>7. ASSUME NEW f \in Frames(n), f.call # "first"
      PROVE  /\ CleanReader(stream, limit, GoOn(reader, f))
             /\ \A k : \A v \in Int : CleanReader(stream, limit, AddPart(GoOn(reader, f), k, v))
  BY <1>1, <1>2, <1>6, <1>7, PartTaken
<1>8. CASE NextPart
  <2>1. reader' = Call(reader, NextObjectSub(0)) \/ reader' = Return(reader, Frame.object)
    BY <1>8 DEF NextPart
  <2>2. Frame.object \in Returns(n)
    BY <1>2, <1>4 DEF Returns
  <2>3. CleanReader(stream, limit, Return(reader, Frame.object))
    BY <1>1, <1>2, <2>2, ReturnClean
  <2>4. CleanReader(stream, limit, Call(reader, NextObjectSub(0)))
    <3> DEFINE t == Call(reader, NextObjectSub(0))
    <3>1. NextObjectSub(0) \in Frames(n) /\ NextObjectSub(0).call # "first"
      BY <1>2, NextObjectFrame
    <3>2. /\ t \in Readers(n) /\ SameBut(reader, t) /\ t.ret = NONE
          /\ t.stack = <<NextObjectSub(0)>> \o reader.stack
      BY <1>2, <3>1, CallFacts
    <3> HIDE DEF t
    <3>3. t.pos <= limit /\ Clean(t.made)
      BY <1>2, <3>2 DEF SameBut
    <3>4. CleanReader(stream, limit, t)
      BY <1>2, <1>3, <3>1, <3>2, <3>3, CleanWhenCalled
    <3> QED
      BY <3>4 DEF t
  <2> QED
    BY <2>1, <2>3, <2>4
<1>9. CASE TakePart
  BY <1>2, <1>5, <1>7, <1>9 DEF TakePart
<1>10. CASE TakeKeyOrValue
  <2>1. Frame.call = "map" /\ NONE \in Returns(n)
    BY <1>2, <1>10 DEF TakeKeyOrValue, Running, Frame, NONE, Returns
  <2> DEFINE e(v) == [OneLess EXCEPT !.key = v]
  <2>2. \A v \in Returns(n) : e(v) \in Frames(n) /\ e(v).call # "first"
    BY <1>5, <2>1
  <2>3. \/ reader' = GoOn(reader, e(reader.ret))
        \/ reader' = GoOn(reader, e(NONE))
        \/ reader' = [reader EXCEPT !.raised = TRUE]
        \/ reader' \in SetObject(GoOn(reader, e(NONE)), Frame.object, Frame.key, reader.ret)
    BY <1>10 DEF TakeKeyOrValue
  <2> HIDE DEF e
  <2>4. Frame.key \in Returns(n)
    BY <1>4, <2>1
  <2>5. ASSUME reader' \in SetObject(GoOn(reader, e(NONE)), Frame.object, Frame.key, reader.ret)
        PROVE  CleanReader(stream, limit, reader')
    <3>1. \E i \in {n, n + 1} : Carried(i, reader, e(NONE), reader')
      BY <1>1, <1>2, <2>1, <2>2, <2>4, <2>5, KeyTaken
    <3> QED
      BY <1>6, <2>1, <2>2, <3>1
  <2> QED
    BY <1>4, <1>7, <2>1, <2>2, <2>3, <2>5, OtherwiseClean
<1>11. CASE TakeMember
  <2>1. \/ reader' = [reader EXCEPT !.raised = TRUE]
        \/ reader' = GoOn(reader, OneLess)
        \/ reader' = AddPart(GoOn(reader, OneLess), Frame.object, reader.ret)
    BY <1>11 DEF TakeMember
  <2> QED
    BY <1>2, <1>5, <1>7, <2>1, OtherwiseClean
<1> QED
  BY <1>8, <1>9, <1>10, <1>11

LEMMA SubClean ==
    ASSUME Legible(stream, limit), CleanReader(stream, limit, reader), cwUnpackSub
    PROVE  CleanReader(stream, limit, reader')
<1> DEFINE n    == Len(reader.made)
           rest == [Frame EXCEPT !.reads = Tail(@)]
           f    == Fetch(reader.pos, reader.rc)
           t    == Fetched(reader, f)
           u    == AddPart(GoOn(t, rest), Frame.object, NUMBER)
<1>1. reader.stack # <<>> /\ Frame.call = "user" /\ Frame = Head(reader.stack)
  BY DEF cwUnpackSub, Running, Frame
<1>2. /\ n \in Nat /\ reader \in Readers(n) /\ Held(Tail(reader.stack)) /\ reader.ret \in Int
      /\ reader.pos <= limit /\ Clean(reader.made) /\ Frame \in Frames(n)
      /\ reader.stack \in Seq(Frames(n)) /\ (Holds(Frame) => Held(reader.stack))
      /\ Innermost(stream, reader)
  BY <1>1, CleanFacts DEF Frame
<1>3. Frame.object \in 1 .. n
  BY <1>1, <1>2, FrameForms
<1>4. Frame.reads # <<>> => rest \in Frames(n) /\ rest.call # "first"
  BY <1>1, <1>2, RestFrame
<1>5. \/ reader.ret = NONE /\ reader' = Return(reader, Frame.object)
      \/ Frame.reads # <<>> /\ reader' = Call(reader, NextObjectSub(0))
      \/ /\ reader.ret # NONE
         /\ reader' = AddPart(GoOn(reader, rest), Frame.object, NullToNil(reader.ret))
      \/ /\ Frame.reads # <<>>
         /\ reader' = u \/ reader' = [u EXCEPT !.rc = CWP_RC_TYPE_ERROR]
  BY DEF cwUnpackSub
<1>6. /\ t \in Readers(n) /\ t.stack = reader.stack /\ t.made = reader.made /\ t.pos <= limit
  BY FetchClean
<1> HIDE DEF n, rest, f, t
<1>7. CASE reader.ret = NONE /\ reader' = Return(reader, Frame.object)
  <2>1. Frame.object \in Returns(n)
    BY <1>2, <1>3 DEF Returns
  <2> QED
    BY <1>1, <1>2, <1>7, <2>1, ReturnClean
<1>8. CASE Frame.reads # <<>> /\ reader' = Call(reader, NextObjectSub(0))
  <2>1. NextObjectSub(0) \in Frames(n) /\ NextObjectSub(0).call # "first"
    BY <1>2, NextObjectFrame
  <2>2. /\ reader' \in Readers(n) /\ SameBut(reader, reader') /\ reader'.ret = NONE
        /\ reader'.stack = <<NextObjectSub(0)>> \o reader.stack
    BY <1>2, <1>8, <2>1, CallFacts
  <2>3. reader'.pos <= limit /\ Clean(reader'.made) /\ Held(reader.stack)
    BY <1>1, <1>2, <1>8, <2>2 DEF SameBut, Holds
  <2> QED
    BY <1>2, <2>1, <2>2, <2>3, CleanWhenCalled
<1>9. CASE /\ reader.ret # NONE
           /\ reader' = AddPart(GoOn(reader, rest), Frame.object, NullToNil(reader.ret))
  <2>1. Frame.reads # <<>>
    BY <1>1, <1>2, <1>9 DEF Innermost
  <2>2. NullToNil(reader.ret) \in Int
    BY <1>2 DEF NullToNil, NIL
  <2>3. Carried(n, reader, rest, reader')
    BY <1>1, <1>2, <1>4, <1>9, <2>1, <2>2, PartTaken
  <2> QED
    BY <1>1, <1>2, <1>4, <2>1, <2>3, CarriedClean
<1>10. CASE Frame.reads # <<>> /\ (reader' = u \/ reader' = [u EXCEPT !.rc = CWP_RC_TYPE_ERROR])
  <2>1. NUMBER \in Int /\ CWP_RC_TYPE_ERROR \in Int /\ t.stack # <<>>
    BY <1>1, <1>6 DEF NUMBER, CWP_RC_TYPE_ERROR
  <2>2. Carried(n, t, rest, u)
    BY <1>2, <1>4, <1>6, <1>10, <2>1, PartTaken
  <2>0. reader' = u \/ reader' = [u EXCEPT !.rc = CWP_RC_TYPE_ERROR]
    BY <1>10
  <2> HIDE DEF u
  <2>3. CleanReader(stream, limit, u)
    BY <1>2, <1>4, <1>6, <1>10, <2>1, <2>2, CarriedClean
  <2>4. u.stack # <<>> /\ Head(u.stack).call # "first"
    <3>1. Tail(reader.stack) \in Seq(Frames(n)) /\ u.stack = <<rest>> \o Tail(reader.stack)
      BY <1>1, <1>2, <1>6, <2>2, TopGone DEF Carried
    <3>2. rest \in Frames(n) /\ rest.call # "first"
      BY <1>4, <1>10
    <3> QED
      BY <1>2, <3>1, <3>2, OnTop
  <2> QED
    <3>1. CleanReader(stream, limit, [u EXCEPT !.rc = CWP_RC_TYPE_ERROR])
      BY <2>1, <2>3, <2>4, OtherwiseClean
    <3> QED
      BY <2>0, <2>3, <3>1, Zenon
<1> HIDE DEF u
<1> QED
  BY <1>5, <1>7, <1>8, <1>9, <1>10

LEMMA ClientClean ==
    ASSUME Legible(stream, limit), CleanReader(stream, limit, reader),
           unpackNextObject \/ Unpacked \/ skipNextObject
    PROVE  CleanReader(stream, limit, reader')
<1> DEFINE n == Len(reader.made)
<1>1. reader.stack = <<>>
  BY DEF unpackNextObject, Unpacked, skipNextObject, Idle
<1>2. /\ n \in Nat /\ reader \in Readers(n) /\ reader.pos \in Nat /\ reader.pos <= limit
      /\ Clean(reader.made)
  BY CleanFacts
<1>3. <<>> \in Seq(Frames(n)) /\ Held(<<>>)
  BY EmptySeq DEF Held
<1>4. CASE unpackNextObject
  <2>1. NextObjectSub(0) \in Frames(n) /\ NextObjectSub(0).call # "first"
    BY <1>2, NextObjectFrame
  <2>2. /\ reader' \in Readers(n) /\ SameBut(reader, reader') /\ reader'.ret = NONE
        /\ reader'.stack = <<NextObjectSub(0)>> \o <<>>
    BY <1>1, <1>2, <1>4, <2>1, CallFacts DEF unpackNextObject
  <2> HIDE DEF n
  <2>3. reader'.pos <= limit /\ Clean(reader'.made)
    BY <1>2, <2>2 DEF SameBut
  <2> QED
    BY <1>2, <1>3, <2>1, <2>2, <2>3, CleanWhenCalled
<1>5. CASE Unpacked
  <2> DEFINE v  == NullToNil(reader.ret)
             rs == Append(reader.results, v)
  <2>1. reader' = [reader EXCEPT !.results = rs, !.ret = NONE]
    BY <1>5 DEF Unpacked
  <2>2. rs \in Seq(Int) /\ NONE \in Returns(n)
    <3>1. v \in Int /\ reader.results \in Seq(Int) /\ NONE \in Returns(n)
      BY <1>2 DEF NullToNil, NIL, NONE, Returns, Readers
    <3> QED
      BY <3>1, OneMore
  <2> HIDE DEF rs, n
  <2>3. /\ reader' \in Readers(n) /\ reader'.pos = reader.pos /\ reader'.made = reader.made
        /\ reader'.stack = <<>>
    BY <1>1, <1>2, <2>1, <2>2 DEF Readers
  <2> QED
    BY <1>2, <1>3, <2>3, CleanWhenHeld
<1>6. CASE skipNextObject
  <2> DEFINE next == Behind(reader.pos + 1) - 1
             rs   == Append(reader.results, SKIPPED)
  <2>1. /\ reader.pos < limit
        /\ \/ next <= limit /\ reader' = [reader EXCEPT !.pos = next, !.results = rs]
           \/ reader' = [reader EXCEPT !.pos = limit, !.rc = CWP_RC_END_OF_INPUT]
    BY <1>6 DEF skipNextObject
  <2>2. /\ stream \in Seq(Items) /\ limit \in 0 .. Len(stream) /\ Len(stream) \in Nat
    BY LenProperties DEF Legible
  <2>3. reader.pos + 1 \in 1 .. Len(stream) /\ limit \in Nat
    BY <1>2, <2>1, <2>2
  <2>4. Behind(reader.pos + 1) \in reader.pos + 1 .. Len(stream) + 2
    BY <2>2, <2>3, BehindIn
  <2>5. next \in Nat
    BY <1>2, <2>2, <2>4
  <2>6. rs \in Seq(Int) /\ CWP_RC_END_OF_INPUT \in Int
    <3>1. SKIPPED \in Int /\ reader.results \in Seq(Int)
      BY <1>2 DEF SKIPPED, Readers
    <3> QED
      BY <3>1, OneMore DEF CWP_RC_END_OF_INPUT
  <2> HIDE DEF rs, n, next
  <2>7. /\ reader' \in Readers(n) /\ reader'.pos \in {next, limit} /\ reader'.pos <= limit
        /\ reader'.made = reader.made /\ reader'.stack = <<>>
    <3>1. CASE next <= limit /\ reader' = [reader EXCEPT !.pos = next, !.results = rs]
      BY <1>1, <1>2, <2>5, <2>6, <3>1 DEF Readers
    <3>2. CASE reader' = [reader EXCEPT !.pos = limit, !.rc = CWP_RC_END_OF_INPUT]
      <4> DEFINE c == CWP_RC_END_OF_INPUT
      <4>1. reader' = [reader EXCEPT !.pos = limit, !.rc = c] /\ limit <= limit
        BY <2>3, <3>2
      <4>2. c \in Int
        BY <2>6
      <4> HIDE DEF c
      <4>3. /\ reader' \in Readers(n) /\ reader'.pos = limit
            /\ reader'.made = reader.made /\ reader'.stack = <<>>
        BY <1>1, <1>2, <2>3, <4>1, <4>2 DEF Readers
      <4> QED
        BY <4>1, <4>3
    <3> QED
      BY <2>1, <3>1, <3>2
  <2> QED
    BY <1>2, <1>3, <2>7, CleanWhenHeld
<1> QED
  BY <1>4, <1>5, <1>6

\* No step of the reader makes anything of what is no item.
LEMMA StepClean ==
    ASSUME Agreed, Legible(stream, limit), CleanReader(stream, limit, reader),
           UnpackerAtWork \/ UnpackerCalled
    PROVE  CleanReader(stream, limit, reader')
<1>1. UnpackerAtWork => UnpackStep
  BY DEF UnpackerAtWork
<1>2. UnpackerCalled => unpackNextObject \/ Unpacked \/ skipNextObject
  BY DEF UnpackerCalled
<1> QED
  BY <1>1, <1>2, ObjectClean, FirstItemClean, ClassNameClean, LoopClean, SubClean, ClientClean
     DEF UnpackStep

LEMMA NewClean ==
    ASSUME NEW s, NEW l \in Nat
    PROVE  CleanReader(s, l, NewReader)
<1>1. <<>> \in Seq(MadeObjects) /\ Len(<<>>) = 0 /\ <<>> \in Seq(Frames(0)) /\ <<>> \in Seq(Int)
  BY EmptySeq
<1>2. <<NSNull>> \in Seq(Returns(0)) \ {<<>>}
  <2>1. NSNull \in Returns(0) /\ <<>> \in Seq(Returns(0))
    BY EmptySeq DEF NSNull, Returns
  <2>2. Append(<<>>, NSNull) \in Seq(Returns(0)) \ {<<>>} /\ Append(<<>>, NSNull) = <<NSNull>>
    BY <2>1, OneMore
  <2> QED
    BY <2>2
<1>3. NONE \in Returns(0) /\ CWP_RC_OK \in Int
  BY DEF NONE, Returns, CWP_RC_OK
<1>4. NewReader \in Readers(0)
  BY <1>1, <1>2, <1>3 DEF NewReader, Readers
<1>5. NewReader.pos = 0 /\ NewReader.made = <<>> /\ NewReader.stack = <<>>
  BY DEF NewReader
<1>6. Clean(NewReader.made)
  BY <1>5 DEF Clean
<1> QED
  BY <1>1, <1>4, <1>5, <1>6 DEF CleanReader

-------------------------------------------------------------------------------
(* What was packed can be read.                                            *)

\* A stream that was packed to its end, according to this plan.
Finished(P, h, s) ==
    /\ s \in Seq(Items) /\ Ordered(s)
    /\ \E p : Planned(P, h, p, s) /\ p.todo = <<>>

LEMMA PlanFacts ==
    ASSUME NEW P, NEW h, NEW s, Finished(P, h, s)
    PROVE  /\ s \in Seq(Items) /\ Len(s) \in Nat
           /\ 1 \in DOMAIN P /\ Len(s) + 1 \in DOMAIN P /\ P[Len(s) + 1] = <<>>
           /\ \A k \in DOMAIN P :
                 /\ P[k] \in Seq(Packable) /\ k \in 1 .. Len(s) + 1
                 /\ P[k] # <<>> <=> k # Len(s) + 1
                 /\ P[k] # <<>> <=> k \in 1 .. Len(s)
                 /\ P[k] # <<>> => \E m, parts : Packed(P, h, s, k, m, parts)
           /\ \A i \in 1 .. Len(s) + 1 : \/ i \in DOMAIN P \/ i - 1 \in DOMAIN P
                                         \/ i - 2 \in DOMAIN P
<1>1. PICK p : Planned(P, h, p, s) /\ p.todo = <<>>
  BY DEF Finished
<1>2. s \in Seq(Items) /\ Len(s) \in Nat
  BY LenProperties DEF Finished
<1>3. /\ 1 \in DOMAIN P /\ Len(s) + 1 \in DOMAIN P /\ P[Len(s) + 1] = <<>>
      /\ DOMAIN P \subseteq 1 .. Len(s) + 1
      /\ \A i \in 1 .. Len(s) + 1 : \/ i \in DOMAIN P \/ i - 1 \in DOMAIN P
                                    \/ i - 2 \in DOMAIN P
  BY <1>1 DEF Planned
<1>4. ASSUME NEW k \in DOMAIN P
      PROVE  /\ P[k] \in Seq(Packable) /\ k \in 1 .. Len(s) + 1
             /\ P[k] # <<>> <=> k # Len(s) + 1
             /\ P[k] # <<>> => \E m, parts : Packed(P, h, s, k, m, parts)
  <2>1. /\ P[k] \in Seq(Packable)
        /\ k # Len(s) + 1 => P[k] # <<>> /\ \E m, parts : Packed(P, h, s, k, m, parts)
    BY <1>1 DEF Planned
  <2> QED
    BY <1>3, <2>1
<1>5. ASSUME NEW k \in DOMAIN P PROVE P[k] # <<>> <=> k \in 1 .. Len(s)
  <2>1. k \in 1 .. Len(s) + 1 /\ (P[k] # <<>> <=> k # Len(s) + 1)
    BY <1>4
  <2>2. k # Len(s) + 1 <=> k \in 1 .. Len(s)
    BY <1>2, <2>1
  <2> QED
    BY <2>1, <2>2
<1> QED
  BY <1>2, <1>3, <1>4, <1>5

\* Every item is one of those that one call of packObject has written.
LEMMA PlaceFacts ==
    ASSUME NEW P, NEW h, NEW s, Finished(P, h, s), NEW k \in 1 .. Len(s)
    PROVE  \E b \in DOMAIN P : \E m, parts :
              /\ b \in 1 .. Len(s) /\ P[b] # <<>> /\ Packed(P, h, s, b, m, parts)
              /\ k \in b .. b + m - 1
<1>1. Len(s) \in Nat /\ DOMAIN P \subseteq 1 .. Len(s) + 1
  BY PlanFacts
<1>2. ASSUME NEW b \in DOMAIN P, b <= k
      PROVE  \E m, parts : /\ b \in 1 .. Len(s) /\ P[b] # <<>> /\ m \in 1 .. 3
                           /\ Packed(P, h, s, b, m, parts) /\ b + m \in DOMAIN P
  <2>1. b \in 1 .. Len(s)
    BY <1>1, <1>2
  <2>2. P[b] # <<>> /\ \E m, parts : Packed(P, h, s, b, m, parts)
    BY <1>2, <2>1, PlanFacts
  <2> QED
    BY <2>1, <2>2 DEF Packed
<1>3. CASE k \in DOMAIN P
  <2>1. PICK m, parts : /\ k \in 1 .. Len(s) /\ P[k] # <<>> /\ m \in 1 .. 3
                        /\ Packed(P, h, s, k, m, parts)
    BY <1>1, <1>2, <1>3
  <2>2. k \in k .. k + m - 1
    BY <2>1
  <2> QED
    BY <1>3, <2>1, <2>2
<1>4. CASE k \notin DOMAIN P /\ k - 1 \in DOMAIN P
  <2>1. PICK m, parts : /\ k - 1 \in 1 .. Len(s) /\ P[k - 1] # <<>> /\ m \in 1 .. 3
                        /\ Packed(P, h, s, k - 1, m, parts) /\ (k - 1) + m \in DOMAIN P
    BY <1>1, <1>2, <1>4
  <2>2. k \in k - 1 .. (k - 1) + m - 1
    <3>1. m # 1
      BY <1>1, <1>4, <2>1
    <3> QED
      BY <2>1, <3>1
  <2> QED
    BY <1>4, <2>1, <2>2
<1>5. CASE k \notin DOMAIN P /\ k - 1 \notin DOMAIN P
  <2>1. k - 2 \in DOMAIN P
    BY <1>1, <1>5, PlanFacts
  <2>2. PICK m, parts : /\ k - 2 \in 1 .. Len(s) /\ P[k - 2] # <<>> /\ m \in 1 .. 3
                        /\ Packed(P, h, s, k - 2, m, parts) /\ (k - 2) + m \in DOMAIN P
    BY <1>1, <1>2, <2>1
  <2>3. k \in k - 2 .. (k - 2) + m - 1
    <3>1. m # 1
      BY <1>5, <2>2
    <3>2. m # 2
      BY <1>5, <2>2
    <3> QED
      BY <2>2, <3>1, <3>2
  <2> QED
    BY <2>1, <2>2, <2>3
<1> QED
  BY <1>3, <1>4, <1>5

\* Which of its items is what.
LEMMA WrittenItems ==
    ASSUME NEW P, NEW h, NEW s, Finished(P, h, s), NEW b, NEW m, NEW parts,
           Packed(P, h, s, b, m, parts)
    PROVE  /\ m \in 1 .. 3 /\ parts \in Seq(Packable) /\ Len(parts) \in Nat
           /\ m = 1 => Core(s, b, parts)
           /\ m # 1 => \E j \in Places : s[b] = CWP_ITEM_ARRAY(j)
           /\ m # 1 => s[b + 1].type = "MARKER"
           /\ m = 3 => \/ Core(s, b + 2, parts)
                       \/ \E name \in Names : s[b + 2] = CWP_ITEM_STR(name) /\ name # "garbage"
<1>1. m \in 1 .. 3 /\ parts \in Seq(Packable) /\ Written(h, s, b, m, Head(P[b]), parts)
  BY DEF Packed
<1>2. Len(parts) \in Nat
  BY <1>1, LenProperties
<1>3. CASE m = 1
  BY <1>1, <1>2, <1>3 DEF Written
<1>4. CASE m = 2
  <2>1. s[b] = CWP_ITEM_ARRAY(1) /\ s[b + 1].type = "MARKER"
    BY <1>1, <1>4 DEF Written, Refs, Marks
  <2> QED
    BY <1>1, <1>2, <1>4, <2>1 DEF Places
<1>5. CASE m = 3 /\ \E l : LabelledAt(s, b, parts, l)
  <2>1. /\ s[b] = CWP_ITEM_ARRAY(2) /\ Core(s, b + 2, parts)
        /\ \E l : s[b + 1] = CWP_ITEM_OBJECT_MARKER(l)
    BY <1>5 DEF LabelledAt
  <2>2. s[b + 1].type = "MARKER"
    BY <2>1 DEF CWP_ITEM_OBJECT_MARKER
  <2> QED
    BY <1>1, <1>2, <1>5, <2>1, <2>2 DEF Places
<1>6. CASE m = 3 /\ \E l, name : UserAt(h, s, b, parts, l, name)
  <2>1. PICK l, name : UserAt(h, s, b, parts, l, name)
    BY <1>6
  <2>2. /\ s[b] = CWP_ITEM_ARRAY(2 + Len(parts)) /\ s[b + 1] = CWP_ITEM_OBJECT_MARKER(l)
        /\ name \in Names /\ s[b + 2] = CWP_ITEM_STR(name) /\ name # "garbage"
    BY <2>1 DEF UserAt, Suits
  <2>3. s[b + 1].type = "MARKER" /\ 2 + Len(parts) \in Places
    BY <1>2, <2>2 DEF CWP_ITEM_OBJECT_MARKER, Places
  <2> QED
    BY <1>1, <1>2, <1>6, <2>2, <2>3
<1>7. m = 3 => (\E l : LabelledAt(s, b, parts, l)) \/ \E l, name : UserAt(h, s, b, parts, l, name)
  BY <1>1 DEF Written
<1> QED
  BY <1>1, <1>3, <1>4, <1>5, <1>6, <1>7

\* The core of what was packed is no header of an array with parts, if it has none.
LEMMA CoreForms ==
    ASSUME NEW s, NEW k, NEW parts, Len(parts) \in Nat, Core(s, k, parts)
    PROVE  /\ s[k].type # "STR" /\ s[k].type # "MARKER"
           /\ parts = <<>> => \A j \in Places : s[k] # CWP_ITEM_ARRAY(j)
<1> DEFINE Good == /\ s[k].type # "STR" /\ s[k].type # "MARKER"
                   /\ parts = <<>> => \A j \in Places : s[k] # CWP_ITEM_ARRAY(j)
<1>1. ASSUME s[k] = CWP_ITEM_NIL PROVE Good
  BY <1>1 DEF CWP_ITEM_NIL, CWP_ITEM_ARRAY
<1>2. ASSUME NEW v, s[k] = CWP_ITEM_VALUE(v) PROVE Good
  BY <1>2 DEF CWP_ITEM_VALUE, CWP_ITEM_ARRAY
<1>3. ASSUME NEW n, s[k] = CWP_ITEM_MAP(n) PROVE Good
  BY <1>3 DEF CWP_ITEM_MAP, CWP_ITEM_ARRAY
<1>4. ASSUME s[k] = CWP_ITEM_ARRAY(Len(parts)) PROVE Good
  <2>1. s[k].type = "ARRAY" /\ s[k].size = Len(parts)
    BY <1>4 DEF CWP_ITEM_ARRAY
  <2>2. ASSUME parts = <<>>, NEW j \in Places, s[k] = CWP_ITEM_ARRAY(j) PROVE FALSE
    <3>1. s[k].size = j /\ j # 0 /\ Len(parts) = 0
      BY <2>2, EmptySeq DEF CWP_ITEM_ARRAY, Places
    <3> QED
      BY <2>1, <3>1
  <2> QED
    BY <2>1, <2>2
<1> HIDE DEF Good
<1>5. Good
  BY <1>1, <1>2, <1>3, <1>4, Zenon DEF Core
<1> QED
  BY <1>5 DEF Good

LEMMA WholeLegible ==
    ASSUME NEW P, NEW h, NEW s, Finished(P, h, s)
    PROVE  /\ \A k \in 1 .. Len(s) : s[k] # CWP_ITEM_STR("garbage")
           /\ Len(s) > 0 => \A j \in Places : s[Len(s)] # CWP_ITEM_ARRAY(j)
<1>1. ASSUME NEW k \in 1 .. Len(s) PROVE s[k] # CWP_ITEM_STR("garbage")
  <2>1. PICK b, m, parts : /\ b \in DOMAIN P /\ b \in 1 .. Len(s)
                           /\ Packed(P, h, s, b, m, parts)
                           /\ k \in b .. b + m - 1
    BY <1>1, PlaceFacts
  <2>2. /\ m \in 1 .. 3 /\ Len(parts) \in Nat
        /\ m = 1 => Core(s, b, parts)
        /\ m # 1 => \E j \in Places : s[b] = CWP_ITEM_ARRAY(j)
        /\ m # 1 => s[b + 1].type = "MARKER"
        /\ m = 3 => \/ Core(s, b + 2, parts)
                    \/ \E name \in Names : s[b + 2] = CWP_ITEM_STR(name) /\ name # "garbage"
    BY <2>1, WrittenItems
  <2>3. /\ CWP_ITEM_STR("garbage").type = "STR" /\ CWP_ITEM_STR("garbage").of = "garbage"
        /\ \A name : CWP_ITEM_STR(name).of = name
        /\ \A j : CWP_ITEM_ARRAY(j).type = "ARRAY"
    BY DEF CWP_ITEM_STR, CWP_ITEM_ARRAY
  <2>4. CASE k = b
    <3>1. s[b].type # "STR"
      BY <2>2, <2>3, CoreForms
    <3> QED
      BY <2>3, <2>4, <3>1
  <2>5. CASE k = b + 1
    <3>1. m # 1
      BY <2>1, <2>2, <2>5
    <3> QED
      BY <2>2, <2>3, <2>5, <3>1
  <2>6. CASE k = b + 2
    <3>1. m = 3
      BY <2>1, <2>2, <2>6
    <3>2. CASE Core(s, b + 2, parts)
      BY <2>2, <2>3, <2>6, <3>2, CoreForms
    <3>3. CASE \E name \in Names : s[b + 2] = CWP_ITEM_STR(name) /\ name # "garbage"
      BY <2>3, <2>6, <3>3
    <3> QED
      BY <2>2, <3>1, <3>2, <3>3
  <2>7. k = b \/ k = b + 1 \/ k = b + 2
    BY <2>1, <2>2
  <2> QED
    BY <2>4, <2>5, <2>6, <2>7
<1>2. ASSUME Len(s) > 0, NEW j \in Places, s[Len(s)] = CWP_ITEM_ARRAY(j) PROVE FALSE
  <2> DEFINE k == Len(s)
  <2>1. k \in 1 .. Len(s) /\ k \in Nat
    BY <1>2, PlanFacts
  <2>2. PICK b, m, parts : /\ b \in DOMAIN P /\ b \in 1 .. Len(s) /\ P[b] # <<>>
                           /\ Packed(P, h, s, b, m, parts)
                           /\ k \in b .. b + m - 1
    BY <2>1, PlaceFacts
  <2>3. /\ m \in 1 .. 3 /\ Len(parts) \in Nat /\ parts \in Seq(Packable)
        /\ m = 1 => Core(s, b, parts)
        /\ m # 1 => s[b + 1].type = "MARKER"
        /\ m = 3 => \/ Core(s, b + 2, parts)
                    \/ \E name \in Names : s[b + 2] = CWP_ITEM_STR(name) /\ name # "garbage"
    BY <2>2, WrittenItems
  <2>4. b + m \in DOMAIN P /\ P[b + m] = parts \o Tail(P[b])
    BY <2>2 DEF Packed
  <2>5. b + m \in 1 .. Len(s) + 1
    BY <2>4, PlanFacts
  <2>6. b + m = k + 1
    BY <2>1, <2>2, <2>3, <2>5
  <2>7. parts = <<>>
    <3>1. parts \o Tail(P[b]) = <<>>
      BY <2>4, <2>6, PlanFacts
    <3>2. P[b] \in Seq(Packable)
      BY <2>2, PlanFacts
    <3>3. Tail(P[b]) \in Seq(Packable)
      BY <2>2, <3>2, HeadTailProperties
    <3>4. Len(parts \o Tail(P[b])) = Len(parts) + Len(Tail(P[b])) /\ Len(Tail(P[b])) \in Nat
      BY <2>3, <3>3, ConcatProperties, LenProperties
    <3>5. Len(parts) = 0
      BY <2>3, <3>1, <3>4, EmptySeq
    <3> QED
      BY <2>3, <3>5, EmptySeq
  <2>8. s[k] = CWP_ITEM_ARRAY(j) /\ s[k].type = "ARRAY"
    BY <1>2 DEF CWP_ITEM_ARRAY
  <2> HIDE DEF k
  <2>9. CASE m = 1
    <3>1. k = b
      BY <2>2, <2>6, <2>9
    <3> QED
      BY <2>3, <2>7, <2>8, <2>9, <3>1, CoreForms
  <2>10. CASE m = 2
    <3>1. k = b + 1
      BY <2>1, <2>2, <2>6, <2>10
    <3> QED
      BY <2>3, <2>8, <2>10, <3>1
  <2>11. CASE m = 3
    <3>1. k = b + 2
      BY <2>1, <2>2, <2>6, <2>11
    <3>2. CASE Core(s, b + 2, parts)
      BY <2>3, <2>7, <2>8, <3>1, <3>2, CoreForms
    <3>3. CASE \E name \in Names : s[b + 2] = CWP_ITEM_STR(name) /\ name # "garbage"
      BY <2>8, <3>1, <3>3 DEF CWP_ITEM_STR
    <3> QED
      BY <2>3, <2>11, <3>2, <3>3
  <2> QED
    BY <2>3, <2>9, <2>10, <2>11
<1> QED
  BY <1>1, <1>2

-------------------------------------------------------------------------------
(* What the calls under way still expect.                                  *)

\* What is to be packed, counted from the last.
Due(q, j) == q[(Len(q) + 1) - j]

\* How many parts a call still takes, the one it waits for included.
Count(f) == IF f.call = "user" THEN Len(f.reads) ELSE f.left

\* Call f, with c of its parts under way, takes what comes between hi and lo; a
\* set, only ever read from a whole stream w, and a class of the client find there
\* what they can take.
Consumes(h, w, f, c, q, lo, hi) ==
    /\ f.call \in Loops \cup {"user"}
    /\ lo \in Nat /\ hi \in Nat /\ c <= Count(f) /\ lo + Count(f) = hi + c
    /\ f.call = "set" => w /\ \A j \in lo + 1 .. hi : Firm(h, Due(q, j))
    /\ f.call = "user" => \A i \in 1 .. Len(f.reads) :
          i > c /\ f.reads[i] = "number" => Due(q, ((hi + 1) + c) - i) = Raw

\* The calls of fs wait, each for a part of its own, until all but hi of q is read.
Waiting(h, w, fs, q, hi) ==
    /\ hi \in Nat /\ hi <= Len(q)
    /\ \E g \in [1 .. Len(fs) + 1 -> Nat] :
          /\ g[1] = hi
          /\ \A i, j \in 1 .. Len(fs) + 1 : i <= j => g[j] <= g[i]
          /\ \A i \in 1 .. Len(fs) : Consumes(h, w, fs[i], 1, q, g[i + 1], g[i])

LEMMA CountIs ==
    ASSUME NEW n \in Nat, NEW f \in Frames(n), f.call \in Loops \cup {"user"}
    PROVE  Count(f) \in Int /\ (f.call = "user" => Count(f) = Len(f.reads) /\ Len(f.reads) \in Nat)
                            /\ (f.call # "user" => Count(f) = f.left)
<1>1. f.call = "user" => Len(f.reads) \in Nat
  BY FrameForms, LenProperties
<1>2. f.call \in Loops => f.left \in Int
  BY FrameForms
<1> QED
  BY <1>1, <1>2 DEF Count

\* What a call takes depends on that part of what is to be packed only.
LEMMA ConsumesMoved ==
    ASSUME NEW h, NEW w, NEW n \in Nat, NEW f \in Frames(n), NEW c \in 0 .. 1, NEW q, NEW p,
           NEW lo, NEW hi, Consumes(h, w, f, c, q, lo, hi),
           \A j \in lo + 1 .. hi : Due(p, j) = Due(q, j)
    PROVE  Consumes(h, w, f, c, p, lo, hi)
<1>1. /\ f.call \in Loops \cup {"user"}
      /\ lo \in Nat /\ hi \in Nat /\ c <= Count(f) /\ lo + Count(f) = hi + c
      /\ f.call = "set" => w /\ \A j \in lo + 1 .. hi : Firm(h, Due(q, j))
      /\ f.call = "user" => \A i \in 1 .. Len(f.reads) :
            i > c /\ f.reads[i] = "number" => Due(q, ((hi + 1) + c) - i) = Raw
  BY DEF Consumes
<1>2. ASSUME f.call = "user", NEW i \in 1 .. Len(f.reads), i > c, f.reads[i] = "number"
      PROVE  Due(p, ((hi + 1) + c) - i) = Raw
  <2>1. Count(f) = Len(f.reads) /\ Len(f.reads) \in Nat
    BY <1>1, <1>2, CountIs
  <2>2. ((hi + 1) + c) - i \in lo + 1 .. hi
    BY <1>1, <1>2, <2>1
  <2>3. Due(q, ((hi + 1) + c) - i) = Raw
    BY <1>1, <1>2
  <2> QED
    BY <2>2, <2>3
<1>3. f.call = "set" => w /\ \A j \in lo + 1 .. hi : Firm(h, Due(p, j))
  BY <1>1
<1> QED
  BY <1>1, <1>2, <1>3 DEF Consumes

\* A part has been taken.
LEMMA ConsumesTaken ==
    ASSUME NEW h, NEW w, NEW n \in Nat, NEW f \in Frames(n), NEW g \in Frames(n), g.call = f.call,
           f.call \in Loops => g.left = f.left - 1,
           f.call = "user" => g.reads = Tail(f.reads),
           NEW q, NEW lo, NEW hi, Consumes(h, w, f, 1, q, lo, hi)
    PROVE  Consumes(h, w, g, 0, q, lo, hi)
<1>1. /\ f.call \in Loops \cup {"user"}
      /\ lo \in Nat /\ hi \in Nat /\ 1 <= Count(f) /\ lo + Count(f) = hi + 1
      /\ f.call = "set" => w /\ \A j \in lo + 1 .. hi : Firm(h, Due(q, j))
      /\ f.call = "user" => \A i \in 1 .. Len(f.reads) :
            i > 1 /\ f.reads[i] = "number" => Due(q, ((hi + 1) + 1) - i) = Raw
  BY DEF Consumes
<1>2. CASE f.call = "user"
  <2>1. /\ Count(f) = Len(f.reads) /\ Len(f.reads) \in Nat
        /\ Count(g) = Len(g.reads) /\ Len(g.reads) \in Nat
    BY <1>1, <1>2, CountIs
  <2>2. f.reads \in Seq({"object", "number"}) /\ f.reads # <<>>
    BY <1>1, <1>2, <2>1, FrameForms, EmptySeq
  <2>3. Len(g.reads) = Len(f.reads) - 1 /\ \A i \in 1 .. Len(g.reads) : g.reads[i] = f.reads[i + 1]
    <3>1. g.reads = Tail(f.reads)
      BY <1>2
    <3>2. /\ Tail(f.reads) \in Seq({"object", "number"}) /\ Len(Tail(f.reads)) = Len(f.reads) - 1
          /\ \A i \in 1 .. Len(Tail(f.reads)) : Tail(f.reads)[i] = f.reads[i + 1]
      BY <2>2, HeadTailProperties
    <3> QED
      BY <3>1, <3>2
  <2>4. ASSUME NEW i \in 1 .. Len(g.reads), g.reads[i] = "number"
        PROVE  Due(q, ((hi + 1) + 0) - i) = Raw
    <3>1. i + 1 \in 1 .. Len(f.reads) /\ i + 1 > 1 /\ f.reads[i + 1] = "number"
      BY <2>1, <2>3, <2>4
    <3>2. ((hi + 1) + 1) - (i + 1) = ((hi + 1) + 0) - i
      BY <1>1
    <3>3. Due(q, ((hi + 1) + 1) - (i + 1)) = Raw
      BY <1>1, <1>2, <3>1
    <3> QED
      BY <3>2, <3>3
  <2>5. 0 <= Count(g) /\ lo + Count(g) = hi + 0
    BY <1>1, <2>1, <2>3
  <2> QED
    BY <1>1, <1>2, <2>4, <2>5 DEF Consumes
<1>3. CASE f.call # "user"
  <2>1. Count(f) = f.left /\ Count(g) = g.left /\ f.left \in Int /\ g.left = f.left - 1
    BY <1>1, <1>3, CountIs
  <2>2. 0 <= Count(g) /\ lo + Count(g) = hi + 0
    BY <1>1, <2>1
  <2> QED
    BY <1>1, <1>3, <2>2 DEF Consumes
<1> QED
  BY <1>2, <1>3

\* The next part is asked for.
LEMMA ConsumesAsks ==
    ASSUME NEW h, NEW w, NEW n \in Nat, NEW f \in Frames(n), NEW q, NEW lo, NEW hi,
           Consumes(h, w, f, 0, q, lo, hi), Count(f) > 0
    PROVE  /\ hi \in Nat \ {0} /\ Consumes(h, w, f, 1, q, lo, hi - 1)
           /\ f.call = "set" => Firm(h, Due(q, hi))
           /\ f.call = "user" /\ Head(f.reads) = "number" => Due(q, hi) = Raw
<1>1. /\ f.call \in Loops \cup {"user"}
      /\ lo \in Nat /\ hi \in Nat /\ 0 <= Count(f) /\ lo + Count(f) = hi + 0
      /\ f.call = "set" => w /\ \A j \in lo + 1 .. hi : Firm(h, Due(q, j))
      /\ f.call = "user" => \A i \in 1 .. Len(f.reads) :
            i > 0 /\ f.reads[i] = "number" => Due(q, ((hi + 1) + 0) - i) = Raw
  BY DEF Consumes
<1>2. Count(f) \in Int
  BY <1>1, CountIs
<1>3. hi \in Nat \ {0} /\ hi - 1 \in Nat /\ 1 <= Count(f) /\ lo + Count(f) = (hi - 1) + 1
      /\ hi \in lo + 1 .. hi
  BY <1>1, <1>2
<1>4. ASSUME f.call = "user", NEW i \in 1 .. Len(f.reads), i > 1, f.reads[i] = "number"
      PROVE  Due(q, (((hi - 1) + 1) + 1) - i) = Raw
  <2>1. Len(f.reads) \in Nat
    BY <1>1, <1>4, CountIs
  <2>2. i > 0 /\ (((hi - 1) + 1) + 1) - i = ((hi + 1) + 0) - i
    BY <1>1, <1>4, <2>1
  <2>3. Due(q, ((hi + 1) + 0) - i) = Raw
    BY <1>1, <1>4, <2>2
  <2> QED
    BY <2>2, <2>3
<1>5. f.call = "set" => w /\ \A j \in lo + 1 .. hi - 1 : Firm(h, Due(q, j))
  <2>1. \A j \in lo + 1 .. hi - 1 : j \in lo + 1 .. hi
    BY <1>1
  <2> QED
    BY <1>1, <2>1
<1>6. Consumes(h, w, f, 1, q, lo, hi - 1)
  BY <1>1, <1>3, <1>4, <1>5 DEF Consumes
<1>7. f.call = "set" => Firm(h, Due(q, hi))
  BY <1>1, <1>3
<1>8. ASSUME f.call = "user", Head(f.reads) = "number" PROVE Due(q, hi) = Raw
  <2>1. Len(f.reads) \in Nat \ {0}
    BY <1>1, <1>2, <1>3, <1>8, CountIs
  <2>2. 1 \in 1 .. Len(f.reads) /\ 1 > 0 /\ ((hi + 1) + 0) - 1 = hi /\ f.reads[1] = "number"
    BY <1>1, <1>8, <2>1
  <2> QED
    BY <1>1, <1>8, <2>2
<1> QED
  BY <1>3, <1>6, <1>7, <1>8

\* No call waits any more, ...
LEMMA WaitingNone ==
    ASSUME NEW h, NEW w, NEW q, NEW hi
    PROVE  Waiting(h, w, <<>>, q, hi) <=> hi \in Nat /\ hi <= Len(q)
<1> DEFINE g == [i \in 1 .. Len(<<>>) + 1 |-> hi]
<1>1. Len(<<>>) = 0
  OBVIOUS
<1>2. ASSUME hi \in Nat, hi <= Len(q) PROVE Waiting(h, w, <<>>, q, hi)
  <2>1. g \in [1 .. Len(<<>>) + 1 -> Nat] /\ g[1] = hi
    BY <1>1, <1>2
  <2>2. \A i, j \in 1 .. Len(<<>>) + 1 : i <= j => g[j] <= g[i]
    BY <1>1, <1>2
  <2>3. 1 .. Len(<<>>) = {}
    BY <1>1
  <2> HIDE DEF g
  <2> QED
    BY <1>2, <2>1, <2>2, <2>3 DEF Waiting
<1> QED
  BY <1>2 DEF Waiting

\* ... one call more waits, ...
LEMMA WaitingMore ==
    ASSUME NEW h, NEW w, NEW n \in Nat, NEW f \in Frames(n), NEW fs \in Seq(Frames(n)),
           NEW q, NEW lo, NEW hi, Waiting(h, w, fs, q, lo), Consumes(h, w, f, 1, q, lo, hi),
           hi <= Len(q)
    PROVE  Waiting(h, w, <<f>> \o fs, q, hi)
<1> DEFINE u == <<f>> \o fs
           W(g) == /\ g[1] = lo
                   /\ \A i, j \in 1 .. Len(fs) + 1 : i <= j => g[j] <= g[i]
                   /\ \A i \in 1 .. Len(fs) : Consumes(h, w, fs[i], 1, q, g[i + 1], g[i])
<1>1. PICK g \in [1 .. Len(fs) + 1 -> Nat] : W(g)
  BY DEF Waiting
<1>2. /\ Len(fs) \in Nat /\ Len(u) = Len(fs) + 1 /\ u[1] = f
      /\ \A i \in 1 .. Len(fs) : u[i + 1] = fs[i]
  BY OnTop
<1>3. lo \in Nat /\ hi \in Nat /\ lo <= hi
  <2>1. f.call \in Loops \cup {"user"} /\ lo \in Nat /\ hi \in Nat /\ 1 <= Count(f)
        /\ lo + Count(f) = hi + 1
    BY DEF Consumes
  <2>2. Count(f) \in Int
    BY <2>1, CountIs
  <2> QED
    BY <2>1, <2>2
<1> DEFINE e == [i \in 1 .. Len(u) + 1 |-> IF i = 1 THEN hi ELSE g[i - 1]]
<1>4. /\ e \in [1 .. Len(u) + 1 -> Nat] /\ e[1] = hi
      /\ \A i \in 1 .. Len(fs) + 1 : e[i + 1] = g[i]
  <2>1. \A i \in 1 .. Len(u) + 1 : i # 1 => i - 1 \in 1 .. Len(fs) + 1 /\ g[i - 1] \in Nat
    BY <1>2
  <2>2. e \in [1 .. Len(u) + 1 -> Nat]
    BY <1>3, <2>1
  <2>3. \A i \in 1 .. Len(fs) + 1 : i + 1 \in 1 .. Len(u) + 1 /\ i + 1 # 1 /\ (i + 1) - 1 = i
    BY <1>2
  <2> QED
    BY <1>2, <2>2, <2>3
<1> HIDE DEF e
<1>5. ASSUME NEW i \in 1 .. Len(u) + 1, NEW j \in 1 .. Len(u) + 1, i <= j
      PROVE  e[j] <= e[i]
  <2>1. CASE i = 1 /\ j = 1
    BY <1>3, <1>4, <2>1
  <2>2. CASE i = 1 /\ j # 1
    <3>1. j - 1 \in 1 .. Len(fs) + 1 /\ 1 \in 1 .. Len(fs) + 1 /\ 1 <= j - 1 /\ (j - 1) + 1 = j
      BY <1>2, <2>2
    <3>2. e[j] = g[j - 1]
      BY <1>4, <3>1
    <3>3. g[j - 1] <= g[1] /\ g[1] = lo /\ g[j - 1] \in Nat
      BY <1>1, <3>1
    <3> QED
      BY <1>3, <1>4, <2>2, <3>2, <3>3
  <2>3. CASE i # 1
    <3>1. /\ j - 1 \in 1 .. Len(fs) + 1 /\ i - 1 \in 1 .. Len(fs) + 1 /\ i - 1 <= j - 1
          /\ (j - 1) + 1 = j /\ (i - 1) + 1 = i
      BY <1>2, <1>5, <2>3
    <3>2. e[j] = g[j - 1] /\ e[i] = g[i - 1]
      BY <1>4, <3>1
    <3> QED
      BY <1>1, <3>1, <3>2
  <2> QED
    BY <2>1, <2>2, <2>3
<1>6. ASSUME NEW i \in 1 .. Len(u)
      PROVE  Consumes(h, w, u[i], 1, q, e[i + 1], e[i])
  <2>1. CASE i = 1
    <3>1. 1 \in 1 .. Len(fs) + 1 /\ e[1 + 1] = g[1]
      BY <1>2, <1>4
    <3>2. e[i + 1] = lo /\ e[i] = hi /\ u[i] = f
      BY <1>1, <1>2, <1>4, <2>1, <3>1
    <3> QED
      BY <3>2
  <2>2. CASE i # 1
    <3>1. i - 1 \in 1 .. Len(fs) /\ (i - 1) + 1 = i /\ i \in 1 .. Len(fs) + 1
          /\ i - 1 \in 1 .. Len(fs) + 1
      BY <1>2, <2>2
    <3>2. u[i] = fs[i - 1] /\ e[i + 1] = g[i] /\ e[i] = g[i - 1]
      BY <1>2, <1>4, <3>1
    <3>3. Consumes(h, w, fs[i - 1], 1, q, g[(i - 1) + 1], g[i - 1])
      BY <1>1, <3>1
    <3> QED
      BY <3>1, <3>2, <3>3
  <2> QED
    BY <2>1, <2>2
<1> HIDE DEF u
<1>7. Waiting(h, w, u, q, hi)
  BY <1>3, <1>4, <1>5, <1>6 DEF Waiting
<1> QED
  BY <1>7 DEF u

\* ... and the innermost call has what it waits for.
LEMMA WaitingLess ==
    ASSUME NEW h, NEW w, NEW n \in Nat, NEW fs \in Seq(Frames(n)), fs # <<>>,
           NEW q \in Seq(Packable), NEW hi, Waiting(h, w, fs, q, hi)
    PROVE  \E lo \in Nat : /\ lo <= hi /\ Consumes(h, w, Head(fs), 1, q, lo, hi)
                           /\ Waiting(h, w, Tail(fs), q, lo)
<1> DEFINE u == Tail(fs)
           W(g) == /\ g[1] = hi
                   /\ \A i, j \in 1 .. Len(fs) + 1 : i <= j => g[j] <= g[i]
                   /\ \A i \in 1 .. Len(fs) : Consumes(h, w, fs[i], 1, q, g[i + 1], g[i])
<1>1. PICK g \in [1 .. Len(fs) + 1 -> Nat] : W(g)
  BY DEF Waiting
<1>2. hi \in Nat /\ hi <= Len(q)
  BY DEF Waiting
<1>3. /\ Len(fs) \in Nat \ {0} /\ Len(u) = Len(fs) - 1 /\ Head(fs) = fs[1]
      /\ \A i \in 1 .. Len(fs) - 1 : u[i] = fs[i + 1]
  BY TopGone
<1>4. g[2] \in Nat /\ g[2] <= hi /\ Consumes(h, w, Head(fs), 1, q, g[2], hi)
  <2>1. 1 \in 1 .. Len(fs) /\ 1 \in 1 .. Len(fs) + 1 /\ 2 \in 1 .. Len(fs) + 1 /\ 1 <= 2
        /\ 1 + 1 = 2
    BY <1>3
  <2>2. g[2] <= g[1] /\ Consumes(h, w, fs[1], 1, q, g[1 + 1], g[1]) /\ g[1] = hi
    BY <1>1, <2>1
  <2> QED
    BY <1>3, <2>1, <2>2
<1>5. Waiting(h, w, u, q, g[2])
  <2> DEFINE e == [i \in 1 .. Len(u) + 1 |-> g[i + 1]]
  <2>1. \A i \in 1 .. Len(u) + 1 : i + 1 \in 1 .. Len(fs) + 1
    BY <1>3
  <2>2. e \in [1 .. Len(u) + 1 -> Nat] /\ \A i \in 1 .. Len(u) + 1 : e[i] = g[i + 1]
    BY <2>1
  <2> HIDE DEF e
  <2>3. 1 \in 1 .. Len(u) + 1 /\ 1 + 1 = 2 /\ e[1] = g[1 + 1]
    BY <1>3, <2>2
  <2>4. \A i, j \in 1 .. Len(u) + 1 : i <= j => e[j] <= e[i]
    <3> SUFFICES ASSUME NEW i \in 1 .. Len(u) + 1, NEW j \in 1 .. Len(u) + 1, i <= j
                 PROVE  e[j] <= e[i]
      OBVIOUS
    <3>1. i + 1 <= j + 1 /\ i + 1 \in 1 .. Len(fs) + 1 /\ j + 1 \in 1 .. Len(fs) + 1
      BY <1>3, <2>1
    <3>2. g[j + 1] <= g[i + 1]
      BY <1>1, <3>1
    <3> QED
      BY <2>2, <3>2
  <2>5. ASSUME NEW i \in 1 .. Len(u)
        PROVE  Consumes(h, w, u[i], 1, q, e[i + 1], e[i])
    <3>1. /\ i \in 1 .. Len(u) + 1 /\ i + 1 \in 1 .. Len(u) + 1
          /\ i + 1 \in 1 .. Len(fs) /\ i \in 1 .. Len(fs) - 1
      BY <1>3
    <3>2. Consumes(h, w, fs[i + 1], 1, q, g[(i + 1) + 1], g[i + 1])
      BY <1>1, <3>1
    <3>3. u[i] = fs[i + 1] /\ e[i + 1] = g[(i + 1) + 1] /\ e[i] = g[i + 1]
      BY <1>3, <2>2, <3>1
    <3> QED
      BY <3>2, <3>3
  <2>6. g[2] <= Len(q)
    BY <1>2, <1>4, LenProperties
  <2> HIDE DEF u
  <2> QED
    BY <1>4, <2>2, <2>3, <2>4, <2>5, <2>6 DEF Waiting
<1> QED
  BY <1>4, <1>5

\* What calls wait for depends on that part of what is to be packed only.
LEMMA WaitingMoved ==
    ASSUME NEW h, NEW w, NEW n \in Nat, NEW fs \in Seq(Frames(n)), NEW q, NEW p, NEW hi,
           Waiting(h, w, fs, q, hi), hi <= Len(p),
           \A j \in 1 .. hi : Due(p, j) = Due(q, j)
    PROVE  Waiting(h, w, fs, p, hi)
<1> DEFINE W(g, x) == /\ g[1] = hi
                      /\ \A i, j \in 1 .. Len(fs) + 1 : i <= j => g[j] <= g[i]
                      /\ \A i \in 1 .. Len(fs) : Consumes(h, w, fs[i], 1, x, g[i + 1], g[i])
<1>1. PICK g \in [1 .. Len(fs) + 1 -> Nat] : W(g, q)
  BY DEF Waiting
<1>2. hi \in Nat /\ Len(fs) \in Nat
  BY LenProperties DEF Waiting
<1>3. ASSUME NEW i \in 1 .. Len(fs) PROVE Consumes(h, w, fs[i], 1, p, g[i + 1], g[i])
  <2>1. i \in 1 .. Len(fs) + 1 /\ i + 1 \in 1 .. Len(fs) + 1 /\ 1 \in 1 .. Len(fs) + 1 /\ 1 <= i
    BY <1>2
  <2>2. g[i] <= hi /\ g[i] \in Nat /\ g[i + 1] \in Nat
    BY <1>1, <2>1
  <2>3. \A j \in g[i + 1] + 1 .. g[i] : j \in 1 .. hi
    BY <1>2, <2>2
  <2>4. fs[i] \in Frames(n)
    BY <1>2, ElementOfSeq
  <2>5. \A j \in g[i + 1] + 1 .. g[i] : Due(p, j) = Due(q, j)
    BY <2>3
  <2>6. Consumes(h, w, fs[i], 1, q, g[i + 1], g[i])
    BY <1>1
  <2> HIDE DEF W
  <2>7. 1 \in 0 .. 1
    OBVIOUS
  <2> QED
    BY <2>4, <2>5, <2>6, <2>7, ConsumesMoved
<1>4. W(g, p)
  BY <1>1, <1>3
<1> QED
  BY <1>2, <1>4 DEF Waiting

-------------------------------------------------------------------------------
(* What a call of packObject has written.                                  *)

LEMMA DueFirst ==
    ASSUME NEW q \in Seq(Packable), q # <<>>
    PROVE  /\ Len(q) \in Nat \ {0} /\ Due(q, Len(q)) = Head(q)
           /\ Tail(q) \in Seq(Packable) /\ Len(Tail(q)) = Len(q) - 1
<1>1. Len(q) \in Nat \ {0} /\ (Len(q) + 1) - Len(q) = 1
  BY LenProperties, EmptySeq
<1>2. Tail(q) \in Seq(Packable) /\ Len(Tail(q)) = Len(q) - 1
  BY HeadTailProperties
<1> QED
  BY <1>1, <1>2 DEF Due

\* It puts the parts in the place of the first part that was to be packed, and
\* what comes behind that one stays.
LEMMA BlockFacts ==
    ASSUME NEW P, NEW h, NEW s, Finished(P, h, s), NEW b \in DOMAIN P, P[b] # <<>>,
           NEW m, NEW parts, Packed(P, h, s, b, m, parts)
    PROVE  /\ b \in 1 .. Len(s) /\ Len(s) \in Nat /\ b + m \in 1 .. Len(s) + 1 /\ b + m \in DOMAIN P
           /\ m \in 1 .. 3
           /\ parts \in Seq(Packable) /\ Len(parts) \in Nat
           /\ P[b] \in Seq(Packable) /\ Len(P[b]) \in Nat \ {0}
           /\ P[b + m] \in Seq(Packable)
           /\ Len(P[b + m]) = (Len(parts) + Len(P[b])) - 1
           /\ \A j \in 1 .. Len(P[b]) - 1 : Due(P[b + m], j) = Due(P[b], j)
           /\ \A i \in 1 .. Len(parts) : Due(P[b + m], (Len(P[b + m]) + 1) - i) = parts[i]
           /\ Len(parts) > 0 => P[b + m] # <<>>
<1> DEFINE q == P[b]
           u == P[b + m]
<1>1. m \in 1 .. 3 /\ parts \in Seq(Packable) /\ b + m \in DOMAIN P /\ u = parts \o Tail(q)
  BY DEF Packed
<1>2. /\ Len(s) \in Nat /\ b \in 1 .. Len(s) /\ b + m \in 1 .. Len(s) + 1
      /\ q \in Seq(Packable) /\ u \in Seq(Packable)
  BY <1>1, PlanFacts
<1>3. Len(parts) \in Nat
  BY <1>1, LenProperties
<1>4. /\ Len(q) \in Nat \ {0} /\ Tail(q) \in Seq(Packable) /\ Len(Tail(q)) = Len(q) - 1
      /\ \A i \in 1 .. Len(Tail(q)) : Tail(q)[i] = q[i + 1]
  BY <1>2, DueFirst, HeadTailProperties
<1> HIDE DEF q, u
<1>5. /\ Len(u) = Len(parts) + Len(Tail(q))
      /\ \A i \in 1 .. Len(parts) : u[i] = parts[i]
      /\ \A i \in 1 .. Len(Tail(q)) : u[Len(parts) + i] = Tail(q)[i]
  <2>1. /\ Len(parts \o Tail(q)) = Len(parts) + Len(Tail(q))
        /\ \A i \in 1 .. Len(parts) + Len(Tail(q)) :
              (parts \o Tail(q))[i] = IF i <= Len(parts) THEN parts[i] ELSE Tail(q)[i - Len(parts)]
    BY <1>1, <1>4, ConcatProperties
  <2>2. \A i \in 1 .. Len(parts) : i \in 1 .. Len(parts) + Len(Tail(q)) /\ i <= Len(parts)
    BY <1>3, <1>4
  <2>3. \A i \in 1 .. Len(Tail(q)) : /\ Len(parts) + i \in 1 .. Len(parts) + Len(Tail(q))
                                     /\ ~(Len(parts) + i <= Len(parts))
                                     /\ (Len(parts) + i) - Len(parts) = i
    BY <1>3, <1>4
  <2> QED
    BY <1>1, <2>1, <2>2, <2>3
<1>6. Len(u) = (Len(parts) + Len(q)) - 1
  BY <1>3, <1>4, <1>5
<1>7. ASSUME NEW j \in 1 .. Len(q) - 1 PROVE Due(u, j) = Due(q, j)
  <2>1. /\ Len(q) - j \in 1 .. Len(Tail(q)) /\ (Len(q) - j) + 1 = (Len(q) + 1) - j
        /\ Len(parts) + (Len(q) - j) = (Len(u) + 1) - j
    BY <1>3, <1>4, <1>6
  <2>2. u[Len(parts) + (Len(q) - j)] = q[(Len(q) - j) + 1]
    BY <1>4, <1>5, <2>1
  <2> QED
    BY <2>1, <2>2 DEF Due
<1>8. ASSUME NEW i \in 1 .. Len(parts) PROVE Due(u, (Len(u) + 1) - i) = parts[i]
  <2>1. (Len(u) + 1) - ((Len(u) + 1) - i) = i
    BY <1>3, <1>4, <1>6
  <2> QED
    BY <1>5, <2>1 DEF Due
<1>9. Len(parts) > 0 => u # <<>>
  <2>1. Len(<<>>) = 0
    OBVIOUS
  <2> QED
    BY <1>3, <1>4, <1>6, <2>1
<1> QED
  BY <1>1, <1>2, <1>3, <1>4, <1>6, <1>7, <1>8, <1>9 DEF q, u

\* It begins with no marker, ...
LEMMA BlockStarts ==
    ASSUME NEW P, NEW h, NEW s, Finished(P, h, s), NEW b \in DOMAIN P, P[b] # <<>>
    PROVE  s[b].type # "MARKER"
<1>1. PICK m, parts : Packed(P, h, s, b, m, parts)
  BY PlanFacts
<1>2. /\ m \in 1 .. 3 /\ Len(parts) \in Nat
      /\ m = 1 => Core(s, b, parts)
      /\ m # 1 => \E j \in Places : s[b] = CWP_ITEM_ARRAY(j)
  BY <1>1, WrittenItems
<1>3. CASE m = 1
  BY <1>2, <1>3, CoreForms
<1>4. CASE m # 1
  <2>1. PICK j \in Places : s[b] = CWP_ITEM_ARRAY(j)
    BY <1>2, <1>4
  <2>2. s[b].type = "ARRAY"
    BY <2>1 DEF CWP_ITEM_ARRAY
  <2> QED
    BY <2>2
<1> QED
  BY <1>3, <1>4

\* ... and of its items only the marker of a labelled one defines a label.
LEMMA BlockDefs ==
    ASSUME NEW P, NEW h, NEW s, Finished(P, h, s), NEW b \in DOMAIN P, P[b] # <<>>,
           NEW m, NEW parts, Packed(P, h, s, b, m, parts)
    PROVE  /\ \A j \in Defs(s) : b <= j /\ j < b + m => m = 3 /\ j = b + 1
           /\ m = 3 => \A l : s[b + 1] = CWP_ITEM_OBJECT_MARKER(l) /\ l # 0 => b + 1 \in Defs(s)
           /\ \A l : s[b + 1] = CWP_ITEM_OBJECT_MARKER(l) /\ l = 0 => b + 1 \notin Defs(s)
<1>1. m \in 1 .. 3 /\ b \in 1 .. Len(s) /\ b + m \in 1 .. Len(s) + 1 /\ Len(s) \in Nat
  BY BlockFacts
<1>2. /\ Len(parts) \in Nat
      /\ m = 3 => \/ Core(s, b + 2, parts)
                  \/ \E name \in Names : s[b + 2] = CWP_ITEM_STR(name) /\ name # "garbage"
  BY WrittenItems
<1>3. Written(h, s, b, m, Head(P[b]), parts)
  BY DEF Packed
<1>4. s[b].type # "MARKER"
  BY BlockStarts
<1>5. \A j \in Defs(s) : j \in Int /\ s[j].type = "MARKER" /\ s[j].label # 0 /\ j \notin Refs(s)
  BY <1>1 DEF Defs, Marks
<1>6. m = 2 => b + 1 \in Refs(s)
  BY <1>3 DEF Written
<1>7. m = 3 => s[b + 2].type # "MARKER"
  <2>1. ASSUME NEW name, s[b + 2] = CWP_ITEM_STR(name) PROVE s[b + 2].type # "MARKER"
    BY <2>1 DEF CWP_ITEM_STR
  <2> QED
    BY <1>2, <2>1, CoreForms
<1>8. ASSUME NEW j \in Defs(s), b <= j, j < b + m PROVE m = 3 /\ j = b + 1
  <2>1. j = b \/ j = b + 1 \/ (m = 3 /\ j = b + 2)
    BY <1>1, <1>5, <1>8
  <2>2. j # b /\ (m = 3 => j # b + 2)
    BY <1>4, <1>5, <1>7
  <2>3. m # 1 /\ m # 2
    BY <1>1, <1>5, <1>6, <1>8, <2>1, <2>2
  <2> QED
    BY <1>1, <2>1, <2>2, <2>3
<1>9. ASSUME m = 3, NEW l, s[b + 1] = CWP_ITEM_OBJECT_MARKER(l), l # 0 PROVE b + 1 \in Defs(s)
  <2>1. s[b + 1].type = "MARKER" /\ s[b + 1].label # 0
    BY <1>9 DEF CWP_ITEM_OBJECT_MARKER
  <2>2. b + 1 \in 2 .. Len(s) /\ (b + 1) - 1 = b
    BY <1>1, <1>9
  <2>3. s[b] # CWP_ITEM_ARRAY(1)
    <3>1. \/ \E x : LabelledAt(s, b, parts, x)
          \/ \E x, name : UserAt(h, s, b, parts, x, name)
      BY <1>3, <1>9 DEF Written
    <3>2. s[b] = CWP_ITEM_ARRAY(2) \/ s[b] = CWP_ITEM_ARRAY(2 + Len(parts))
      BY <3>1 DEF LabelledAt, UserAt
    <3>3. s[b].size # 1
      BY <1>2, <3>2 DEF CWP_ITEM_ARRAY
    <3> QED
      BY <3>3 DEF CWP_ITEM_ARRAY
  <2> QED
    BY <2>1, <2>2, <2>3 DEF Defs, Refs, Marks
<1>10. ASSUME NEW l, s[b + 1] = CWP_ITEM_OBJECT_MARKER(l), l = 0 PROVE b + 1 \notin Defs(s)
  <2>1. s[b + 1].label = 0
    BY <1>10 DEF CWP_ITEM_OBJECT_MARKER
  <2> QED
    BY <1>5, <2>1
<1> QED
  BY <1>8, <1>9, <1>10

-------------------------------------------------------------------------------
(* The references of the reader.                                           *)

\* The reader has found the definitions before place e: each has the place of its
\* label, where there is an object, or NSNull, if it is NSNull that has the label.
Entries(s, e, us, ps) ==
    /\ Len(us) = 1 + Cardinality(Before(s, e, 1))
    /\ Len(ps) = 1 + Cardinality(Before(s, e, -1))
    /\ \A j \in Defs(s) : j < e =>
          /\ s[j].label > 0 => us[s[j].label + 1] > 0
          /\ s[j].label < 0 => \/ ps[-s[j].label + 1] > 0
                               \/ ps[-s[j].label + 1] = NSNull /\ s[j + 1] = CWP_ITEM_NIL

\* No definition was passed.
LEMMA EntriesOn ==
    ASSUME NEW s \in Seq(Items), NEW e \in Int, NEW f \in Int, e <= f, NEW us, NEW ps,
           Entries(s, e, us, ps), \A j \in Defs(s) : ~(e <= j /\ j < f)
    PROVE  Entries(s, f, us, ps)
<1>1. \A j \in Defs(s) : j \in Int
  BY ItemFacts
<1>2. \A j \in Defs(s) : j < f <=> j < e
  BY <1>1
<1>3. \A l : Before(s, f, l) = Before(s, e, l)
  BY <1>2 DEF Before, Signed
<1> QED
  BY <1>2, <1>3 DEF Entries

\* The sign of a label is that of its kind.
LEMMA SignOf ==
    ASSUME NEW s \in Seq(Items), NEW j \in Defs(s)
    PROVE  LET l == s[j].label
           IN  /\ l \in Int \ {0} /\ j \in Int
               /\ l > 0 => SameSign(l, 1) /\ Magnitude(l) = l
                           /\ \A e : Before(s, e, l) = Before(s, e, 1)
               /\ l < 0 => SameSign(l, -1) /\ Magnitude(l) = -l
                           /\ \A e : Before(s, e, l) = Before(s, e, -1)
<1> DEFINE l == s[j].label
<1>1. l \in Int \ {0} /\ j \in Int
  BY ItemFacts
<1>2. \A i : l > 0 => (SameSign(s[i].label, l) <=> SameSign(s[i].label, 1))
  BY <1>1 DEF SameSign
<1>3. \A i : l < 0 => (SameSign(s[i].label, l) <=> SameSign(s[i].label, -1))
  BY <1>1 DEF SameSign
<1> HIDE DEF l
<1>4. l > 0 => \A e : Before(s, e, l) = Before(s, e, 1)
  BY <1>2 DEF Before, Signed
<1>5. l < 0 => \A e : Before(s, e, l) = Before(s, e, -1)
  BY <1>3 DEF Before, Signed
<1>6. l > 0 => SameSign(l, 1) /\ Magnitude(l) = l
  BY <1>1 DEF SameSign, Magnitude
<1>7. l < 0 => SameSign(l, -1) /\ Magnitude(l) = -l
  BY <1>1 DEF SameSign, Magnitude
<1> QED
  BY <1>1, <1>4, <1>5, <1>6, <1>7 DEF l

\* Each definition found has a place.
LEMMA EntriesHold ==
    ASSUME NEW s \in Seq(Items), Ordered(s), NEW e \in Int, NEW us, NEW ps, Entries(s, e, us, ps),
           NEW j \in Defs(s), j < e
    PROVE  LET l == s[j].label
           IN  /\ l \in Int \ {0}
               /\ l > 0 => l < Len(us)
               /\ l < 0 => -l < Len(ps)
<1> DEFINE l == s[j].label
<1>1. Magnitude(l) = 1 + Cardinality(Before(s, j, l))
  BY DEF Ordered
<1>2. /\ l \in Int \ {0} /\ j \in Int
      /\ l > 0 => SameSign(l, 1) /\ Magnitude(l) = l
                  /\ \A x : Before(s, x, l) = Before(s, x, 1)
      /\ l < 0 => SameSign(l, -1) /\ Magnitude(l) = -l
                  /\ \A x : Before(s, x, l) = Before(s, x, -1)
  BY SignOf
<1>3. Len(us) = 1 + Cardinality(Before(s, e, 1)) /\ Len(ps) = 1 + Cardinality(Before(s, e, -1))
  BY DEF Entries
<1> HIDE DEF l
<1>4. ASSUME NEW x, SameSign(l, x)
      PROVE  /\ Cardinality(Before(s, j, x)) \in Nat
             /\ Cardinality(Before(s, e, x)) >= Cardinality(Before(s, j, x)) + 1
             /\ Cardinality(Before(s, e, x)) \in Nat
  BY <1>4, EarlierCounts DEF l
<1>5. l > 0 => l < Len(us)
  <2>1. ASSUME l > 0 PROVE l < Len(us)
    <3>1. /\ Cardinality(Before(s, j, 1)) \in Nat
          /\ Cardinality(Before(s, e, 1)) >= Cardinality(Before(s, j, 1)) + 1
          /\ Cardinality(Before(s, e, 1)) \in Nat
      BY <1>2, <1>4, <2>1
    <3>2. l = 1 + Cardinality(Before(s, j, 1))
      BY <1>1, <1>2, <2>1
    <3> QED
      BY <1>2, <1>3, <3>1, <3>2
  <2> QED
    BY <2>1
<1>6. l < 0 => -l < Len(ps)
  <2>1. ASSUME l < 0 PROVE -l < Len(ps)
    <3>1. /\ Cardinality(Before(s, j, -1)) \in Nat
          /\ Cardinality(Before(s, e, -1)) >= Cardinality(Before(s, j, -1)) + 1
          /\ Cardinality(Before(s, e, -1)) \in Nat
      BY <1>2, <1>4, <2>1
    <3>2. -l = 1 + Cardinality(Before(s, j, -1))
      BY <1>1, <1>2, <2>1
    <3> QED
      BY <1>2, <1>3, <3>1, <3>2
  <2> QED
    BY <2>1
<1> QED
  BY <1>2, <1>5, <1>6 DEF l

\* One definition was passed: its label is the next place of its kind.
LEMMA EntriesNew ==
    ASSUME NEW s \in Seq(Items), Ordered(s), NEW e \in Int, NEW f \in Int, NEW S,
           NEW us \in Seq(S), NEW ps \in Seq(S), Entries(s, e, us, ps),
           NEW d \in Defs(s), e <= d, d < f, \A j \in Defs(s) : e <= j /\ j < f => j = d
    PROVE  LET l == s[d].label
           IN  /\ l \in Int \ {0}
               /\ l > 0 => l = Len(us)
               /\ l < 0 => l = -Len(ps)
               /\ \A v \in S :
                    /\ l > 0 /\ v > 0 => Entries(s, f, Append(us, v), ps)
                    /\ l < 0 /\ (v > 0 \/ (v = NSNull /\ s[d + 1] = CWP_ITEM_NIL)) =>
                         Entries(s, f, us, Append(ps, v))
<1> DEFINE l == s[d].label
<1>1. Magnitude(l) = 1 + Cardinality(Before(s, d, l))
  BY DEF Ordered
<1>2. /\ l \in Int \ {0} /\ d \in Int
      /\ l > 0 => SameSign(l, 1) /\ Magnitude(l) = l
                  /\ \A x : Before(s, x, l) = Before(s, x, 1)
      /\ l < 0 => SameSign(l, -1) /\ Magnitude(l) = -l
                  /\ \A x : Before(s, x, l) = Before(s, x, -1)
  BY SignOf
<1>3. /\ Len(us) = 1 + Cardinality(Before(s, e, 1)) /\ Len(ps) = 1 + Cardinality(Before(s, e, -1))
      /\ \A j \in Defs(s) : j < e =>
            /\ s[j].label > 0 => us[s[j].label + 1] > 0
            /\ s[j].label < 0 => \/ ps[-s[j].label + 1] > 0
                                 \/ ps[-s[j].label + 1] = NSNull /\ s[j + 1] = CWP_ITEM_NIL
  BY DEF Entries
<1>4. \A j \in Defs(s) : j \in Int /\ (j < d <=> j < e) /\ (j < f <=> j < e \/ j = d)
  <2>1. \A j \in Defs(s) : j \in Int
    BY ItemFacts
  <2> SUFFICES ASSUME NEW j \in Defs(s) PROVE (j < d <=> j < e) /\ (j < f <=> j < e \/ j = d)
    BY <2>1
  <2>2. j \in Int /\ (e <= j /\ j < f => j = d)
    BY <2>1
  <2> QED
    BY <1>2, <2>2
<1>5. \A x : Before(s, d, x) = Before(s, e, x)
  BY <1>4 DEF Before, Signed
<1>6. Len(us) \in Nat /\ Len(ps) \in Nat /\ \A x : Cardinality(Before(s, e, x)) \in Nat
  <2>1. IsFiniteSet(Defs(s)) /\ \A x : Before(s, e, x) \subseteq Defs(s)
    BY ItemFacts DEF Before, Signed
  <2>2. \A x : Cardinality(Before(s, e, x)) \in Nat
    BY <2>1, FS_Subset, FS_CardinalityType
  <2> QED
    BY <2>2, LenProperties
<1>7. l > 0 => l = Len(us)
  BY <1>1, <1>2, <1>3, <1>5, <1>6
<1>8. l < 0 => l = -Len(ps)
  BY <1>1, <1>2, <1>3, <1>5, <1>6
<1>9. ASSUME NEW x, SameSign(l, x)
      PROVE  Cardinality(Before(s, f, x)) = Cardinality(Before(s, e, x)) + 1
  <2>1. Before(s, f, x) = Before(s, e, x) \cup {d} /\ d \notin Before(s, e, x)
    BY <1>4, <1>9 DEF Before, Signed, l
  <2>2. Before(s, e, x) \subseteq Defs(s) /\ IsFiniteSet(Defs(s))
    BY ItemFacts DEF Before, Signed
  <2>3. IsFiniteSet(Before(s, e, x))
    BY <2>2, FS_Subset
  <2> QED
    BY <2>1, <2>3, FS_AddElement
<1>10. ASSUME NEW x, ~SameSign(l, x) PROVE Before(s, f, x) = Before(s, e, x)
  BY <1>4, <1>10 DEF Before, Signed, l
<1>11. ASSUME NEW j \in Defs(s), j < e
       PROVE  /\ s[j].label \in Int \ {0}
              /\ s[j].label > 0 => s[j].label < Len(us)
              /\ s[j].label < 0 => -s[j].label < Len(ps)
  BY <1>11, EntriesHold
<1> HIDE DEF l
<1>12. ASSUME NEW v \in S, l > 0, v > 0 PROVE Entries(s, f, Append(us, v), ps)
  <2> DEFINE u == Append(us, v)
  <2>1. /\ Len(u) = Len(us) + 1 /\ u[Len(us) + 1] = v
        /\ \A i \in 1 .. Len(us) : u[i] = us[i]
    BY AppendProperties
  <2> HIDE DEF u
  <2>2. SameSign(l, 1) /\ ~SameSign(l, -1)
    BY <1>2, <1>12 DEF SameSign
  <2>3. /\ Len(u) = 1 + Cardinality(Before(s, f, 1)) /\ Len(ps) = 1 + Cardinality(Before(s, f, -1))
    <3>1. Cardinality(Before(s, f, 1)) = Cardinality(Before(s, e, 1)) + 1
      BY <1>9, <2>2
    <3>2. Before(s, f, -1) = Before(s, e, -1)
      BY <1>10, <2>2
    <3> QED
      BY <1>3, <1>6, <2>1, <3>1, <3>2
  <2>4. ASSUME NEW j \in Defs(s), j < f, s[j].label > 0 PROVE u[s[j].label + 1] > 0
    <3>1. CASE j = d
      BY <1>7, <1>12, <2>1, <3>1 DEF l
    <3>2. CASE j # d
      <4>1. j < e
        BY <1>4, <2>4, <3>2
      <4>2. s[j].label + 1 \in 1 .. Len(us)
        BY <1>6, <1>11, <2>4, <4>1
      <4> QED
        BY <1>3, <2>1, <2>4, <4>1, <4>2
    <3> QED
      BY <3>1, <3>2
  <2>5. ASSUME NEW j \in Defs(s), j < f, s[j].label < 0
        PROVE  \/ ps[-s[j].label + 1] > 0
               \/ ps[-s[j].label + 1] = NSNull /\ s[j + 1] = CWP_ITEM_NIL
    <3>1. j # d
      BY <1>2, <1>12, <2>5 DEF l
    <3>2. j < e
      BY <1>4, <2>5, <3>1
    <3> QED
      BY <1>3, <2>5, <3>2
  <2>6. Entries(s, f, u, ps)
    BY <2>3, <2>4, <2>5 DEF Entries
  <2> QED
    BY <2>6 DEF u
<1>13. ASSUME NEW v \in S, l < 0, v > 0 \/ (v = NSNull /\ s[d + 1] = CWP_ITEM_NIL)
       PROVE  Entries(s, f, us, Append(ps, v))
  <2> DEFINE u == Append(ps, v)
  <2>1. /\ Len(u) = Len(ps) + 1 /\ u[Len(ps) + 1] = v
        /\ \A i \in 1 .. Len(ps) : u[i] = ps[i]
    BY AppendProperties
  <2> HIDE DEF u
  <2>2. SameSign(l, -1) /\ ~SameSign(l, 1)
    BY <1>2, <1>13 DEF SameSign
  <2>3. /\ Len(us) = 1 + Cardinality(Before(s, f, 1)) /\ Len(u) = 1 + Cardinality(Before(s, f, -1))
    <3>1. Cardinality(Before(s, f, -1)) = Cardinality(Before(s, e, -1)) + 1
      BY <1>9, <2>2
    <3>2. Before(s, f, 1) = Before(s, e, 1)
      BY <1>10, <2>2
    <3> QED
      BY <1>3, <1>6, <2>1, <3>1, <3>2
  <2>4. ASSUME NEW j \in Defs(s), j < f, s[j].label > 0 PROVE us[s[j].label + 1] > 0
    <3>1. j # d
      BY <1>2, <1>13, <2>4 DEF l
    <3>2. j < e
      BY <1>4, <2>4, <3>1
    <3> QED
      BY <1>3, <2>4, <3>2
  <2>5. ASSUME NEW j \in Defs(s), j < f, s[j].label < 0
        PROVE  \/ u[-s[j].label + 1] > 0
               \/ u[-s[j].label + 1] = NSNull /\ s[j + 1] = CWP_ITEM_NIL
    <3>1. CASE j = d
      <4>1. u[-s[j].label + 1] = v
        <5>1. -s[j].label = Len(ps)
          BY <1>6, <1>8, <1>13, <3>1 DEF l
        <5> QED
          BY <2>1, <5>1
      <4> QED
        BY <1>13, <3>1, <4>1
    <3>2. CASE j # d
      <4>1. j < e
        BY <1>4, <2>5, <3>2
      <4>2. -s[j].label + 1 \in 1 .. Len(ps)
        BY <1>6, <1>11, <2>5, <4>1
      <4>3. u[-s[j].label + 1] = ps[-s[j].label + 1]
        BY <2>1, <4>2
      <4> QED
        BY <1>3, <2>5, <4>1, <4>3
    <3> QED
      BY <3>1, <3>2
  <2>6. Entries(s, f, us, u)
    BY <2>3, <2>4, <2>5 DEF Entries
  <2> QED
    BY <2>6 DEF u
<1> QED
  BY <1>2, <1>7, <1>8, <1>12, <1>13 DEF l

-------------------------------------------------------------------------------
(* Where the reader can stand in a stream that was packed.                 *)

\* The calls fs wait for the part that is packed from place b on, and the
\* references are those that the labels before it were given.
Inside(P, h, s, w, b, fs, r) ==
    /\ b \in DOMAIN P /\ P[b] # <<>>
    /\ Waiting(h, w, fs, P[b], Len(P[b]) - 1)
    /\ fs # <<>> /\ Head(fs).call = "set" => Firm(h, Head(P[b]))
    /\ Entries(s, b, r.userReferences, r.packerReferences)

\* Between two parts, what the last one has become not yet taken, ...
Between(P, h, s, w, r) ==
    LET k == r.pos + 1
    IN  /\ k \in DOMAIN P /\ Entries(s, k, r.userReferences, r.packerReferences)
        /\ Waiting(h, w, r.stack, P[k], Len(P[k]))
        /\ r.stack # <<>> => r.ret # NONE
        /\ r.stack # <<>> /\ Head(r.stack).call = "set" => NullToNil(r.ret) # NIL

\* ... or taken; ...
Taken(P, h, s, w, r) ==
    LET k == r.pos + 1
    IN  /\ k \in DOMAIN P /\ Entries(s, k, r.userReferences, r.packerReferences)
        /\ r.stack # <<>> /\ r.ret = NONE
        /\ \E lo : /\ Consumes(h, w, Head(r.stack), 0, P[k], lo, Len(P[k]))
                   /\ Waiting(h, w, Tail(r.stack), P[k], lo)

\* ... before the next part, or the end; ...
Asking(P, h, s, w, r) ==
    LET k == r.pos + 1
    IN  /\ r.stack # <<>> /\ Head(r.stack) = NextObjectSub(0) /\ r.ret = NONE
        /\ \/ Inside(P, h, s, w, k, Tail(r.stack), r)
           \/ k = Len(s) + 1 /\ Tail(r.stack) = <<>>

\* ... behind the header of an array that is a part, or all of it but its label; ...
Opened(P, h, s, w, r) ==
    /\ r.stack # <<>>
    /\ \E l, dim \in Int :
          /\ Head(r.stack) = [call |-> "first", label |-> l, dim |-> dim]
          /\ dim > 0 /\ s[r.pos] = CWP_ITEM_ARRAY(dim)
          /\ \/ l = 0 /\ Inside(P, h, s, w, r.pos, Tail(r.stack), r)
             \/ /\ Inside(P, h, s, w, r.pos - 2, Tail(r.stack), r)
                /\ \E parts : /\ Packed(P, h, s, r.pos - 2, 3, parts)
                              /\ LabelledAt(s, r.pos - 2, parts, l)

\* ... behind the label of what is no object of a user class; ...
Labelled(P, h, s, w, r) ==
    LET b == r.pos - 1
    IN  /\ r.stack # <<>> /\ r.ret = NONE
        /\ Inside(P, h, s, w, b, Tail(r.stack), r)
        /\ \E l, parts : /\ Head(r.stack) = NextObjectSub(l)
                         /\ Packed(P, h, s, b, 3, parts) /\ LabelledAt(s, b, parts, l)

\* ... behind the label of what is, ...
Naming(P, h, s, w, r) ==
    LET b == r.pos - 1
    IN  /\ r.stack # <<>> /\ Head(r.stack) = NextObjectSub(0) /\ r.ret = NONE
        /\ Tail(r.stack) # <<>>
        /\ Inside(P, h, s, w, b, Tail(Tail(r.stack)), r)
        /\ \E l, name, parts :
              /\ Head(Tail(r.stack)) = [call |-> "class", label |-> l, left |-> Len(parts)]
              /\ Packed(P, h, s, b, 3, parts) /\ UserAt(h, s, b, parts, l, name)

\* ... and behind the name of its class.
NameRead(P, h, s, w, r) ==
    LET b == r.pos - 2
    IN  /\ r.stack # <<>>
        /\ Inside(P, h, s, w, b, Tail(r.stack), r)
        /\ r.ret > 0 /\ r.made[r.ret].class = "string"
        /\ \E l, parts :
              /\ Head(r.stack) = [call |-> "class", label |-> l, left |-> Len(parts)]
              /\ Packed(P, h, s, b, 3, parts) /\ UserAt(h, s, b, parts, l, r.made[r.ret].value)

\* What the reader has read so far is what was packed.
InStep(P, h, s, w, r) ==
    \/ Between(P, h, s, w, r)
    \/ Taken(P, h, s, w, r)
    \/ Asking(P, h, s, w, r)
    \/ Opened(P, h, s, w, r)
    \/ Labelled(P, h, s, w, r)
    \/ Naming(P, h, s, w, r)
    \/ NameRead(P, h, s, w, r)

\* An end that came too early finds no call that takes it for something else.
Harmless(fs) ==
    \A i \in 1 .. Len(fs) :
        fs[i].call \in {"cwUnpackNextObjectSub", "array", "map", "generic", "user"}

Ended(l, r) ==
    /\ r.pos = l
    /\ \/ Harmless(r.stack)
       \/ /\ r.stack # <<>> /\ Head(r.stack).call = "class" /\ r.ret = NIL
          /\ Head(r.stack).label \in {0, Len(r.userReferences)}
          /\ Harmless(Tail(r.stack))

Reading(P, h, s, l, r) ==
    /\ r.raised => KeyRefused(r)
    /\ \/ r.rc = CWP_RC_OK /\ InStep(P, h, s, l = Len(s), r)
       \/ r.rc = CWP_RC_END_OF_INPUT /\ Ended(l, r)

-------------------------------------------------------------------------------
(* From one place to the next.                                             *)

\* A part without parts of its own was read.
LEMMA PartRead ==
    ASSUME NEW P, NEW h, NEW s, NEW w, Finished(P, h, s), NEW b, NEW m, NEW parts,
           NEW n \in Nat, NEW fs \in Seq(Frames(n)), NEW r, Inside(P, h, s, w, b, fs, r),
           Packed(P, h, s, b, m, parts), Len(parts) = 0,
           NEW t, t.stack = fs, t.pos \in Nat, t.pos + 1 = b + m,
           Entries(s, b + m, t.userReferences, t.packerReferences),
           t.ret # NONE, Firm(h, Head(P[b])) => NullToNil(t.ret) # NIL
    PROVE  Between(P, h, s, w, t)
<1>1. /\ b \in DOMAIN P /\ P[b] # <<>>
      /\ Waiting(h, w, fs, P[b], Len(P[b]) - 1)
      /\ fs # <<>> /\ Head(fs).call = "set" => Firm(h, Head(P[b]))
  BY DEF Inside
<1>2. /\ b + m \in DOMAIN P /\ Len(P[b]) \in Nat \ {0}
      /\ Len(P[b + m]) = (Len(parts) + Len(P[b])) - 1
      /\ \A j \in 1 .. Len(P[b]) - 1 : Due(P[b + m], j) = Due(P[b], j)
  BY <1>1, BlockFacts
<1>3. Len(P[b + m]) = Len(P[b]) - 1
  BY <1>2
<1>4. Waiting(h, w, fs, P[b + m], Len(P[b + m]))
  <2>1. Waiting(h, w, fs, P[b + m], Len(P[b]) - 1)
    <3> DEFINE hi == Len(P[b]) - 1
    <3>1. Waiting(h, w, fs, P[b], hi) /\ hi <= Len(P[b + m])
          /\ \A j \in 1 .. hi : Due(P[b + m], j) = Due(P[b], j)
      BY <1>1, <1>2, <1>3
    <3> HIDE DEF hi
    <3>2. Waiting(h, w, fs, P[b + m], hi)
      BY <3>1, WaitingMoved
    <3> QED
      BY <3>2 DEF hi
  <2> QED
    BY <1>3, <2>1
<1> QED
  BY <1>1, <1>2, <1>4 DEF Between

\* The parts of a part are to be read, by a call that takes as many.
LEMMA PartEntered ==
    ASSUME NEW P, NEW h, NEW s, NEW w, Finished(P, h, s), NEW b, NEW m, NEW parts,
           NEW n \in Nat, NEW fs \in Seq(Frames(n)), NEW r, Inside(P, h, s, w, b, fs, r),
           Packed(P, h, s, b, m, parts),
           NEW i \in Nat, NEW f \in Frames(i), f.call \in Loops \cup {"user"},
           Count(f) = Len(parts),
           f.call = "set" => w /\ \A j \in 1 .. Len(parts) : Firm(h, parts[j]),
           f.call = "user" => \A j \in 1 .. Len(parts) : f.reads[j] = "number" => parts[j] = Raw
    PROVE  LET q  == P[b + m]
               lo == Len(P[b]) - 1
           IN  /\ b + m \in DOMAIN P /\ q \in Seq(Packable)
               /\ Consumes(h, w, f, 0, q, lo, Len(q)) /\ Waiting(h, w, fs, q, lo)
<1> DEFINE q  == P[b + m]
           lo == Len(P[b]) - 1
<1>1. /\ b \in DOMAIN P /\ P[b] # <<>> /\ Waiting(h, w, fs, P[b], lo)
  BY DEF Inside
<1>2. /\ b + m \in DOMAIN P /\ Len(P[b]) \in Nat \ {0} /\ q \in Seq(Packable)
      /\ Len(q) = (Len(parts) + Len(P[b])) - 1 /\ Len(parts) \in Nat
      /\ \A j \in 1 .. Len(P[b]) - 1 : Due(q, j) = Due(P[b], j)
      /\ \A j \in 1 .. Len(parts) : Due(q, (Len(q) + 1) - j) = parts[j]
  BY <1>1, BlockFacts
<1> HIDE DEF q
<1>3. /\ lo \in Nat /\ Len(q) \in Nat /\ lo + Len(parts) = Len(q) + 0 /\ lo <= Len(q)
      /\ \A j \in 1 .. lo : Due(q, j) = Due(P[b], j)
  BY <1>2
<1> HIDE DEF lo
<1>4. Waiting(h, w, fs, q, lo)
  BY <1>1, <1>3, WaitingMoved
<1>5. \A j \in lo + 1 .. Len(q) : /\ (Len(q) + 1) - j \in 1 .. Len(parts)
                                  /\ (Len(q) + 1) - ((Len(q) + 1) - j) = j
  BY <1>2, <1>3
<1>6. \A j \in lo + 1 .. Len(q) : Due(q, j) = parts[(Len(q) + 1) - j]
  <2> SUFFICES ASSUME NEW j \in lo + 1 .. Len(q) PROVE Due(q, j) = parts[(Len(q) + 1) - j]
    OBVIOUS
  <2> DEFINE x == (Len(q) + 1) - j
  <2>1. x \in 1 .. Len(parts) /\ (Len(q) + 1) - x = j
    BY <1>5
  <2> HIDE DEF x
  <2>2. Due(q, (Len(q) + 1) - x) = parts[x]
    BY <1>2, <2>1
  <2> QED
    BY <2>1, <2>2 DEF x
<1>7. f.call = "set" => w /\ \A j \in lo + 1 .. Len(q) : Firm(h, Due(q, j))
  BY <1>5, <1>6
<1>8. ASSUME f.call = "user", NEW j \in 1 .. Len(f.reads), j > 0, f.reads[j] = "number"
      PROVE  Due(q, ((Len(q) + 1) + 0) - j) = Raw
  <2>1. j \in 1 .. Len(parts)
    BY <1>8 DEF Count
  <2>2. ((Len(q) + 1) + 0) - j = (Len(q) + 1) - j
    BY <1>2, <1>3
  <2> QED
    BY <1>2, <1>8, <2>1, <2>2
<1>9. 0 <= Count(f)
  BY <1>2
<1>10. Consumes(h, w, f, 0, q, lo, Len(q))
  BY <1>3, <1>7, <1>8, <1>9 DEF Consumes
<1> QED
  BY <1>2, <1>4, <1>10 DEF q, lo

\* What is packed with a label gets the next place of its kind.
LEMMA LabelEntered ==
    ASSUME NEW P, NEW h, NEW s, Finished(P, h, s), NEW b \in DOMAIN P, P[b] # <<>>,
           NEW m, NEW parts, Packed(P, h, s, b, m, parts), NEW label \in Int,
           (m = 1 /\ label = 0) \/ (m = 3 /\ LabelledAt(s, b, parts, label)),
           NEW n \in Nat, NEW us \in Seq(Returns(n)), NEW ps \in Seq(Returns(n)),
           Entries(s, b, us, ps)
    PROVE  /\ label = 0 \/ label = -Len(ps)
           /\ \A v \in Returns(n + 1) :
                 v > 0 \/ (v = NSNull /\ s[(b + m) - 1] = CWP_ITEM_NIL) =>
                     Entries(s, b + m, us, Lengthened(ps, label, v))
<1>1. s \in Seq(Items) /\ Ordered(s)
  BY DEF Finished
<1>2. b \in Int /\ m \in 1 .. 3 /\ b + m \in Int
  BY BlockFacts
<1>3. \A j \in Defs(s) : b <= j /\ j < b + m => m = 3 /\ j = b + 1
  BY BlockDefs
<1>4. CASE m = 1
  <2>1. \A j \in Defs(s) : ~(b <= j /\ j < b + m)
    BY <1>3, <1>4
  <2>2. Entries(s, b + m, us, ps)
    BY <1>1, <1>2, <1>4, <2>1, EntriesOn
  <2> QED
    BY <1>4, <2>2 DEF Lengthened
<1>5. CASE m = 3
  <2>1. label < 0 /\ s[b + 1] = CWP_ITEM_OBJECT_MARKER(label)
    BY <1>5 DEF LabelledAt
  <2>2. b + 1 \in Defs(s)
    BY <1>5, <2>1, BlockDefs
  <2>3. s[b + 1].label = label
    BY <2>1 DEF CWP_ITEM_OBJECT_MARKER
  <2>4. us \in Seq(Returns(n + 1)) /\ ps \in Seq(Returns(n + 1))
    <3>1. Returns(n) \subseteq Returns(n + 1)
      BY MoreMade
    <3>2. Seq(Returns(n)) \subseteq Seq(Returns(n + 1))
      BY <3>1
    <3> QED
      BY <3>2, Zenon
  <2> DEFINE d == b + 1
             e == b + m
             S == Returns(n + 1)
  <2>5. /\ d \in Defs(s) /\ b <= d /\ d < e /\ e \in Int /\ us \in Seq(S) /\ ps \in Seq(S)
        /\ \A j \in Defs(s) : b <= j /\ j < e => j = d
        /\ s[d].label = label /\ d + 1 = (b + m) - 1
    BY <1>2, <1>3, <1>5, <2>2, <2>3, <2>4
  <2> HIDE DEF d, e, S
  <2>6. LET l == s[d].label
        IN  /\ l < 0 => l = -Len(ps)
            /\ \A v \in S :
                 l < 0 /\ (v > 0 \/ (v = NSNull /\ s[d + 1] = CWP_ITEM_NIL)) =>
                     Entries(s, e, us, Append(ps, v))
    BY <1>1, <1>2, <2>5, EntriesNew, SMTT(30)
  <2>7. label = -Len(ps)
    BY <2>1, <2>5, <2>6
  <2>8. \A v \in S : v > 0 \/ (v = NSNull /\ s[(b + m) - 1] = CWP_ITEM_NIL) =>
                         Entries(s, e, us, Lengthened(ps, label, v))
    BY <2>1, <2>5, <2>6 DEF Lengthened
  <2> QED
    BY <2>7, <2>8 DEF S, e
<1> QED
  BY <1>4, <1>5

LEMMA UserEntered ==
    ASSUME NEW P, NEW h, NEW s, Finished(P, h, s), NEW b \in DOMAIN P, P[b] # <<>>,
           NEW parts, Packed(P, h, s, b, 3, parts), NEW l, NEW name,
           UserAt(h, s, b, parts, l, name),
           NEW n \in Nat, NEW us \in Seq(Returns(n)), NEW ps \in Seq(Returns(n)),
           Entries(s, b, us, ps)
    PROVE  /\ l \in Nat /\ Len(us) \in Nat \ {0} /\ (l = 0 \/ l = Len(us))
           /\ l = 0 => Entries(s, b + 3, us, ps)
           /\ l # 0 => Entries(s, b + 3, Append(us, n + 1), ps)
<1>1. s \in Seq(Items) /\ Ordered(s)
  BY DEF Finished
<1>2. b \in Int /\ b + 3 \in Int
  BY BlockFacts
<1>3. \A j \in Defs(s) : b <= j /\ j < b + 3 => j = b + 1
  BY BlockDefs
<1>4. l \in Nat /\ s[b + 1] = CWP_ITEM_OBJECT_MARKER(l) /\ s[b + 1].label = l
  BY DEF UserAt, CWP_ITEM_OBJECT_MARKER
<1>5. Len(us) \in Nat \ {0}
  <2>1. Len(us) = 1 + Cardinality(Before(s, b, 1))
    BY DEF Entries
  <2>2. IsFiniteSet(Defs(s)) /\ Before(s, b, 1) \subseteq Defs(s)
    BY <1>1, ItemFacts DEF Before, Signed
  <2>3. Cardinality(Before(s, b, 1)) \in Nat
    BY <2>2, FS_Subset, FS_CardinalityType
  <2> QED
    BY <2>1, <2>3
<1>6. CASE l = 0
  <2>1. b + 1 \notin Defs(s)
    BY <1>4, <1>6, BlockDefs
  <2>2. \A j \in Defs(s) : ~(b <= j /\ j < b + 3)
    BY <1>3, <2>1
  <2>3. b <= b + 3
    BY <1>2
  <2>4. Entries(s, b + 3, us, ps)
    BY <1>1, <1>2, <2>2, <2>3, EntriesOn
  <2> QED
    BY <1>4, <1>5, <1>6, <2>4
<1>7. CASE l # 0
  <2>1. b + 1 \in Defs(s)
    BY <1>4, <1>7, BlockDefs
  <2>2. us \in Seq(Returns(n + 1)) /\ ps \in Seq(Returns(n + 1))
    <3>1. Returns(n) \subseteq Returns(n + 1)
      BY MoreMade
    <3>2. Seq(Returns(n)) \subseteq Seq(Returns(n + 1))
      BY <3>1
    <3> QED
      BY <3>2, Zenon
  <2> DEFINE d == b + 1
             e == b + 3
             S == Returns(n + 1)
             v == n + 1
  <2>3. /\ d \in Defs(s) /\ b <= d /\ d < e /\ e \in Int /\ us \in Seq(S) /\ ps \in Seq(S)
        /\ \A j \in Defs(s) : b <= j /\ j < e => j = d
        /\ s[d].label = l /\ l > 0 /\ v \in S /\ v > 0
    BY <1>2, <1>3, <1>4, <1>7, <2>1, <2>2 DEF Returns
  <2> HIDE DEF d, e, S, v
  <2>4. LET x == s[d].label
        IN  /\ x > 0 => x = Len(us)
            /\ \A y \in S : x > 0 /\ y > 0 => Entries(s, e, Append(us, y), ps)
    BY <1>1, <1>2, <2>3, EntriesNew, SMTT(30)
  <2>5. l = Len(us) /\ Entries(s, e, Append(us, v), ps)
    BY <2>3, <2>4
  <2> QED
    BY <1>4, <1>5, <1>7, <2>5 DEF e, v
<1> QED
  BY <1>6, <1>7

\* What a set can take is not packed as nil.
LEMMA FirmWritten ==
    ASSUME NEW P, NEW h, NEW s, NEW b, NEW m \in {1, 3}, NEW parts,
           Packed(P, h, s, b, m, parts), b \in Int, Firm(h, Head(P[b]))
    PROVE  s[(b + m) - 1] # CWP_ITEM_NIL
<1>1. Written(h, s, b, m, Head(P[b]), parts)
  BY DEF Packed
<1>2. CASE m = 1
  <2>1. s[b] # CWP_ITEM_NIL /\ (b + m) - 1 = b
    BY <1>1, <1>2 DEF Written
  <2> QED
    BY <2>1
<1>3. CASE m = 3
  <2>1. \/ s[b + 2] # CWP_ITEM_NIL
        \/ \E name : s[b + 2] = CWP_ITEM_STR(name)
    BY <1>1, <1>3 DEF Written, UserAt
  <2>2. \A name : CWP_ITEM_STR(name) # CWP_ITEM_NIL
    BY DEF CWP_ITEM_STR, CWP_ITEM_NIL
  <2>3. s[b + 2] # CWP_ITEM_NIL
    BY <2>1, <2>2
  <2>4. (b + m) - 1 = b + 2
    BY <1>3
  <2> QED
    BY <2>3, <2>4
<1> QED
  BY <1>2, <1>3

-------------------------------------------------------------------------------
(* The calls that read an item.                                            *)

\* How many parts an item of each kind has.
LEMMA CoreParts ==
    ASSUME NEW s, NEW c, NEW parts \in Seq(Packable), Core(s, c, parts)
    PROVE  /\ Len(parts) \in Nat
           /\ s[c] = CWP_ITEM_NIL => Len(parts) = 0
           /\ \A k \in Nat : s[c] = CWP_ITEM_MAP(k) => Len(parts) = 2 * k
           /\ \A k : s[c] = CWP_ITEM_ARRAY(k) => Len(parts) = k
           /\ \A v : s[c] = CWP_ITEM_VALUE(v) => Len(parts) = 0
           /\ \A l : s[c] # CWP_ITEM_OBJECT_MARKER(l)
           /\ \A name : s[c] # CWP_ITEM_STR(name)
<1> DEFINE x == s[c]
           Forms(y) == /\ y.type = "NIL" => Len(parts) = 0
                       /\ y.type = "MAP" => y.size \in Nat /\ Len(parts) = 2 * y.size
                       /\ y.type = "ARRAY" => Len(parts) = y.size
                       /\ y.type = "VALUE" => Len(parts) = 0
                       /\ y.type # "MARKER" /\ y.type # "STR"
<1>1. Len(parts) \in Nat /\ (parts = <<>> => Len(parts) = 0)
  BY LenProperties, EmptySeq
<1>2. ASSUME parts = <<>>, x = CWP_ITEM_NIL PROVE Forms(x)
  BY <1>1, <1>2 DEF CWP_ITEM_NIL
<1>3. ASSUME parts = <<>>, NEW v, x = CWP_ITEM_VALUE(v) PROVE Forms(x)
  BY <1>1, <1>3 DEF CWP_ITEM_VALUE
<1>4. ASSUME x = CWP_ITEM_ARRAY(Len(parts)) PROVE Forms(x)
  BY <1>1, <1>4 DEF CWP_ITEM_ARRAY
<1>5. ASSUME NEW k \in Nat, x = CWP_ITEM_MAP(k), 2 * k = Len(parts) PROVE Forms(x)
  BY <1>1, <1>5 DEF CWP_ITEM_MAP
<1> HIDE DEF Forms
<1>6. Forms(x)
  BY <1>2, <1>3, <1>4, <1>5, Zenon DEF Core
<1>7. /\ CWP_ITEM_NIL.type = "NIL"
      /\ \A k : CWP_ITEM_MAP(k).type = "MAP" /\ CWP_ITEM_MAP(k).size = k
      /\ \A k : CWP_ITEM_ARRAY(k).type = "ARRAY" /\ CWP_ITEM_ARRAY(k).size = k
      /\ \A v : CWP_ITEM_VALUE(v).type = "VALUE"
      /\ \A l : CWP_ITEM_OBJECT_MARKER(l).type = "MARKER"
      /\ \A name : CWP_ITEM_STR(name).type = "STR"
  BY DEF CWP_ITEM_NIL, CWP_ITEM_MAP, CWP_ITEM_ARRAY, CWP_ITEM_VALUE, CWP_ITEM_OBJECT_MARKER,
         CWP_ITEM_STR
<1>8. /\ x.type = "NIL" => Len(parts) = 0
      /\ x.type = "MAP" => x.size \in Nat /\ Len(parts) = 2 * x.size
      /\ x.type = "ARRAY" => Len(parts) = x.size
      /\ x.type = "VALUE" => Len(parts) = 0
      /\ x.type # "MARKER" /\ x.type # "STR"
  BY <1>6 DEF Forms
<1>9. /\ x = CWP_ITEM_NIL => Len(parts) = 0
      /\ \A k \in Nat : x = CWP_ITEM_MAP(k) => Len(parts) = 2 * k
      /\ \A k : x = CWP_ITEM_ARRAY(k) => Len(parts) = k
      /\ \A v : x = CWP_ITEM_VALUE(v) => Len(parts) = 0
      /\ \A l : x # CWP_ITEM_OBJECT_MARKER(l)
      /\ \A name : x # CWP_ITEM_STR(name)
  <2> HIDE DEF x
  <2>1. x = CWP_ITEM_NIL => Len(parts) = 0
    BY <1>7, <1>8
  <2>2. ASSUME NEW k \in Nat, x = CWP_ITEM_MAP(k) PROVE Len(parts) = 2 * k
    BY <1>7, <1>8, <2>2
  <2>3. ASSUME NEW k, x = CWP_ITEM_ARRAY(k) PROVE Len(parts) = k
    BY <1>7, <1>8, <2>3
  <2>4. ASSUME NEW v, x = CWP_ITEM_VALUE(v) PROVE Len(parts) = 0
    BY <1>7, <1>8, <2>4
  <2>5. ASSUME NEW l, x = CWP_ITEM_OBJECT_MARKER(l) PROVE FALSE
    BY <1>7, <1>8, <2>5
  <2>6. ASSUME NEW name, x = CWP_ITEM_STR(name) PROVE FALSE
    BY <1>7, <1>8, <2>6
  <2> QED
    BY <2>1, <2>2, <2>3, <2>4, <2>5, <2>6
<1> QED
  BY <1>1, <1>9

\* The call that reads a scalar or a container's header, behind its label if any.
LEMMA CoreRead ==
    ASSUME NEW P, NEW h, NEW s, NEW w, Finished(P, h, s), NEW b, NEW m, NEW parts,
           Packed(P, h, s, b, m, parts), Core(s, (b + m) - 1, parts), NEW label \in Int,
           (m = 1 /\ label = 0) \/ (m = 3 /\ LabelledAt(s, b, parts, label)),
           NEW n \in Nat, NEW r \in Readers(n), r.stack # <<>>, r.pos = (b + m) - 1,
           r.rc = CWP_RC_OK, ~r.raised, Inside(P, h, s, w, b, Tail(r.stack), r),
           NEW t, UnpackedAs(n, r, s[(b + m) - 1], label, t)
    PROVE  t.rc = CWP_RC_OK /\ ~t.raised /\ InStep(P, h, s, w, t)
<1> DEFINE c  == (b + m) - 1
           fs == Tail(r.stack)
           us == r.userReferences
           ps == r.packerReferences
<1>1. /\ b \in DOMAIN P /\ P[b] # <<>> /\ Entries(s, b, us, ps)
  BY DEF Inside
<1>2. /\ b \in Int /\ m \in 1 .. 3 /\ b + m \in Nat /\ c \in Nat /\ c + 1 = b + m
      /\ parts \in Seq(Packable)
  BY <1>1, BlockFacts
<1>3. /\ fs \in Seq(Frames(n)) /\ us \in Seq(Returns(n)) /\ ps \in Seq(Returns(n))
  <2>1. r.stack \in Seq(Frames(n)) /\ us \in Seq(Returns(n)) /\ ps \in Seq(Returns(n)) \ {<<>>}
    BY DEF Readers
  <2> QED
    BY <2>1, TopGone
<1>4. /\ label = 0 \/ label = -Len(ps)
      /\ \A v \in Returns(n + 1) :
            v > 0 \/ (v = NSNull /\ s[c] = CWP_ITEM_NIL) =>
                Entries(s, b + m, us, Lengthened(ps, label, v))
  BY <1>1, <1>3, LabelEntered
<1>5. /\ Len(parts) \in Nat
      /\ s[c] = CWP_ITEM_NIL => Len(parts) = 0
      /\ \A k \in Nat : s[c] = CWP_ITEM_MAP(k) => Len(parts) = 2 * k
      /\ \A k : s[c] = CWP_ITEM_ARRAY(k) => Len(parts) = k
      /\ \A v : s[c] = CWP_ITEM_VALUE(v) => Len(parts) = 0
      /\ \A l : s[c] # CWP_ITEM_OBJECT_MARKER(l)
      /\ \A name : s[c] # CWP_ITEM_STR(name)
  BY <1>2, CoreParts
<1>6. t.pos = r.pos /\ t.raised = r.raised /\ t.userReferences = us
  BY DEF UnpackedAs
<1>7. r.pos = c /\ r.pos \in Nat
  BY <1>2
<1> DEFINE Good == t.rc = CWP_RC_OK /\ InStep(P, h, s, w, t)
<1> HIDE DEF c, fs, us, ps
<1>8. ASSUME s[c] = CWP_ITEM_NIL, t.stack = fs, t.ret = NSNull, t.rc = r.rc,
             t.packerReferences = Lengthened(ps, label, NSNull)
      PROVE  Good
  <2>1. ~Firm(h, Head(P[b]))
    <3>1. m \in {1, 3} /\ s[(b + m) - 1] = CWP_ITEM_NIL
      BY <1>8 DEF c
    <3> QED
      BY <1>2, <3>1, FirmWritten
  <2>2. NSNull \in Returns(n + 1) /\ NSNull # NONE
    BY DEF NSNull, NONE, Returns
  <2>3. Entries(s, b + m, t.userReferences, t.packerReferences)
    BY <1>4, <1>6, <1>8, <2>2
  <2>4. t.pos \in Nat /\ t.pos + 1 = b + m /\ t.ret # NONE /\ Len(parts) = 0
    BY <1>2, <1>5, <1>6, <1>7, <1>8, <2>2
  <2>5. Inside(P, h, s, w, b, fs, r)
    BY DEF fs
  <2>6. Between(P, h, s, w, t)
    BY <1>3, <1>8, <2>1, <2>3, <2>4, <2>5, PartRead
  <2> QED
    BY <1>8, <2>6 DEF InStep
<1>9. ASSUME NEW k \in Nat, s[c] = CWP_ITEM_MAP(k), t.rc = r.rc, t.ret = NONE,
             t.stack = <<[call |-> "map", object |-> n + 1, left |-> 2 * k, key |-> NONE]>> \o fs,
             t.packerReferences = Lengthened(ps, label, n + 1)
      PROVE  Good
  <2> DEFINE f == [call |-> "map", object |-> n + 1, left |-> 2 * k, key |-> NONE]
             i == n + 1
  <2>1. i \in Nat /\ i \in 1 .. i /\ 2 * k \in Int /\ NONE \in Returns(i)
    BY DEF NONE, Returns
  <2> HIDE DEF i
  <2>2. [call |-> "map", object |-> i, left |-> 2 * k, key |-> NONE] \in Frames(i)
    BY <2>1 DEF Frames
  <2>3. f \in Frames(i) /\ f.call = "map" /\ f.left = 2 * k
    BY <2>2 DEF i
  <2>4. fs \in Seq(Frames(i))
    <3>1. Frames(n) \subseteq Frames(i)
      BY MoreMade DEF i
    <3>2. Seq(Frames(n)) \subseteq Seq(Frames(i))
      BY <3>1
    <3> QED
      BY <1>3, <3>2, Zenon
  <2>5. t.stack = <<f>> \o fs
    BY <1>9
  <2> HIDE DEF f
  <2>6. Head(t.stack) = f /\ Tail(t.stack) = fs /\ t.stack # <<>>
    BY <2>1, <2>3, <2>4, <2>5, OnTop
  <2>7. f.call \in Loops \cup {"user"} /\ Count(f) = Len(parts) /\ f.call # "set" /\ f.call # "user"
    BY <1>5, <1>9, <2>3 DEF Count, Loops
  <2>8. Inside(P, h, s, w, b, fs, r)
    BY DEF fs
  <2> DEFINE q  == P[b + m]
             lo == Len(P[b]) - 1
  <2>9. b + m \in DOMAIN P /\ Consumes(h, w, f, 0, q, lo, Len(q)) /\ Waiting(h, w, fs, q, lo)
    BY <1>3, <2>1, <2>3, <2>7, <2>8, PartEntered
  <2>10. Entries(s, b + m, t.userReferences, t.packerReferences)
    <3>1. i \in Returns(n + 1) /\ i > 0 /\ t.packerReferences = Lengthened(ps, label, i)
      BY <1>9 DEF Returns, i
    <3> QED
      BY <1>4, <1>6, <3>1
  <2>11. t.pos + 1 = b + m
    BY <1>2, <1>6, <1>7
  <2> HIDE DEF q, lo
  <2>12. Taken(P, h, s, w, t)
    BY <1>9, <2>6, <2>9, <2>10, <2>11 DEF Taken, q
  <2> QED
    BY <1>9, <2>12 DEF InStep
<1>10. ASSUME NEW k \in Places, s[c] = CWP_ITEM_ARRAY(k), t.rc = r.rc,
              t.stack = <<[call |-> "first", label |-> label, dim |-> k]>> \o fs,
              t.packerReferences = ps
       PROVE  Good
  <2> DEFINE f == [call |-> "first", label |-> label, dim |-> k]
  <2>1. f \in Frames(n) /\ k \in Int /\ k > 0
    BY DEF Frames, Places
  <2>2. Head(t.stack) = f /\ Tail(t.stack) = fs /\ t.stack # <<>>
    <3>1. t.stack = <<f>> \o fs
      BY <1>10
    <3> HIDE DEF f
    <3> QED
      BY <1>3, <2>1, <3>1, OnTop
  <2>3. Inside(P, h, s, w, b, fs, t)
    BY <1>6, <1>10 DEF Inside, fs, us, ps
  <2>4. s[t.pos] = CWP_ITEM_ARRAY(k)
    BY <1>6, <1>7, <1>10
  <2>5. \/ label = 0 /\ b = t.pos
        \/ b = t.pos - 2 /\ Packed(P, h, s, b, 3, parts) /\ LabelledAt(s, b, parts, label)
    BY <1>2, <1>6, <1>7
  <2>6. \/ label = 0 /\ Inside(P, h, s, w, t.pos, Tail(t.stack), t)
        \/ /\ Inside(P, h, s, w, t.pos - 2, Tail(t.stack), t)
           /\ \E y : /\ Packed(P, h, s, t.pos - 2, 3, y)
                     /\ LabelledAt(s, t.pos - 2, y, label)
    BY <2>2, <2>3, <2>5
  <2>7. Opened(P, h, s, w, t)
    BY <2>1, <2>2, <2>4, <2>6 DEF Opened
  <2> QED
    BY <1>10, <2>7 DEF InStep
<1>11. ASSUME Len(parts) = 0, t.rc = r.rc, t.stack = fs, t.ret = n + 1,
              t.packerReferences = Lengthened(ps, label, n + 1)
       PROVE  Good
  <2>1. n + 1 \in Returns(n + 1) /\ n + 1 > 0 /\ t.ret # NONE /\ NullToNil(t.ret) # NIL
    BY <1>11 DEF Returns, NONE, NullToNil, NSNull, NIL
  <2>2. Entries(s, b + m, t.userReferences, t.packerReferences)
    BY <1>4, <1>6, <1>11, <2>1
  <2>3. t.pos \in Nat /\ t.pos + 1 = b + m
    BY <1>2, <1>6, <1>7
  <2>4. Inside(P, h, s, w, b, fs, r)
    BY DEF fs
  <2>5. Between(P, h, s, w, t)
    BY <1>3, <1>11, <2>1, <2>2, <2>3, <2>4, PartRead
  <2> QED
    BY <1>11, <2>5 DEF InStep
<1>12. UnpackedAs(n, r, s[c], label, t)
  BY DEF c
<1> HIDE DEF Good
<1>13. Good
  <2>1. CASE /\ s[c] = CWP_ITEM_NIL
             /\ t.stack = Tail(r.stack) /\ t.ret = NSNull
             /\ label = 0 \/ label = -Len(r.packerReferences) =>
                  t.rc = r.rc /\ t.packerReferences = Lengthened(r.packerReferences, label, NSNull)
    BY <1>4, <1>8, <2>1 DEF fs, ps
  <2>2. ASSUME NEW k \in Nat, s[c] = CWP_ITEM_MAP(k), t.rc = r.rc, t.ret = NONE,
               t.stack = <<[call |-> "map", object |-> n + 1, left |-> 2 * k,
                            key |-> NONE]>> \o Tail(r.stack),
               t.packerReferences = Lengthened(r.packerReferences, label, n + 1)
        PROVE  Good
    BY <1>9, <2>2 DEF fs, ps
  <2>3. ASSUME NEW k \in Places, s[c] = CWP_ITEM_ARRAY(k), t.rc = r.rc,
               t.stack = <<[call |-> "first", label |-> label, dim |-> k]>> \o Tail(r.stack),
               t.packerReferences = r.packerReferences
        PROVE  Good
    BY <1>10, <2>3 DEF fs, ps
  <2>4. ASSUME \/ s[c] = CWP_ITEM_ARRAY(0)
               \/ \E l : s[c] = CWP_ITEM_OBJECT_MARKER(l)
               \/ \E v : s[c] = CWP_ITEM_VALUE(v)
               \/ \E name \in Names : s[c] = CWP_ITEM_STR(name),
               t.stack = Tail(r.stack), t.ret = n + 1,
               label = 0 \/ label = -Len(r.packerReferences) =>
                  t.rc = r.rc /\ t.packerReferences = Lengthened(r.packerReferences, label, n + 1)
        PROVE  Good
    <3>1. Len(parts) = 0
      BY <1>5, <2>4
    <3> QED
      BY <1>4, <1>11, <2>4, <3>1 DEF fs, ps
  <2> QED
    BY <1>12, <2>1, <2>2, <2>3, <2>4, Zenon DEF UnpackedAs
<1> QED
  BY <1>6, <1>13 DEF Good

\* The call that reads an item with which a part begins.
LEMMA ItemRead ==
    ASSUME NEW P, NEW h, NEW s, NEW w, Finished(P, h, s), NEW b,
           NEW n \in Nat, NEW r \in Readers(n), r.stack # <<>>, r.pos = b,
           r.rc = CWP_RC_OK, ~r.raised, Inside(P, h, s, w, b, Tail(r.stack), r),
           NEW t, UnpackedAs(n, r, s[b], 0, t)
    PROVE  t.rc = CWP_RC_OK /\ ~t.raised /\ InStep(P, h, s, w, t)
<1>1. b \in DOMAIN P /\ P[b] # <<>>
  BY DEF Inside
<1>2. PICK m, parts : Packed(P, h, s, b, m, parts)
  BY <1>1, PlanFacts
<1>3. b \in Int /\ m \in 1 .. 3
  BY <1>1, <1>2, BlockFacts
<1>4. /\ m = 1 => Core(s, b, parts)
      /\ m # 1 => \E j \in Places : s[b] = CWP_ITEM_ARRAY(j)
  BY <1>2, WrittenItems
<1>5. CASE m = 1
  <2> DEFINE c == (b + m) - 1
             label == 0
  <2>1. c = b /\ label \in Int /\ label = 0
    BY <1>3, <1>5
  <2> HIDE DEF c, label
  <2>2. Core(s, c, parts) /\ r.pos = c /\ UnpackedAs(n, r, s[c], label, t)
    BY <1>4, <1>5, <2>1
  <2>3. Core(s, (b + m) - 1, parts) /\ r.pos = (b + m) - 1
        /\ UnpackedAs(n, r, s[(b + m) - 1], label, t)
    BY <2>2 DEF c
  <2> QED
    BY <1>2, <1>5, <2>1, <2>3, CoreRead
<1>6. CASE m # 1
  <2>1. PICK j \in Places : s[b] = CWP_ITEM_ARRAY(j)
    BY <1>4, <1>6
  <2>2. s[b].type = "ARRAY" /\ s[b].size = j /\ j \in Int /\ j > 0
    BY <2>1 DEF CWP_ITEM_ARRAY, Places
  <2>3. /\ s[b] # CWP_ITEM_NIL
        /\ \A k : s[b] # CWP_ITEM_MAP(k)
        /\ \A l : s[b] # CWP_ITEM_OBJECT_MARKER(l)
        /\ \A v : s[b] # CWP_ITEM_VALUE(v)
        /\ \A name : s[b] # CWP_ITEM_STR(name)
        /\ \A k : s[b] = CWP_ITEM_ARRAY(k) => k = j
    BY <2>2 DEF CWP_ITEM_NIL, CWP_ITEM_MAP, CWP_ITEM_OBJECT_MARKER, CWP_ITEM_VALUE,
                CWP_ITEM_STR, CWP_ITEM_ARRAY
  <2>4. s[b] # CWP_ITEM_ARRAY(0)
    BY <2>2, <2>3
  <2> DEFINE T(k) == /\ s[b] = CWP_ITEM_ARRAY(k) /\ t \in Readers(n) /\ t.rc = r.rc
                     /\ t.stack = <<[call |-> "first", label |-> 0, dim |-> k]>> \o Tail(r.stack)
                     /\ t.ret = NONE /\ t.made = r.made
                     /\ t.packerReferences = r.packerReferences
  <2>5. (\E k \in Places : T(k))
        /\ t.pos = r.pos /\ t.raised = r.raised /\ t.userReferences = r.userReferences
    BY <2>3, <2>4, Zenon DEF UnpackedAs
  <2>6. T(j)
    BY <2>3, <2>5
  <2> DEFINE f == [call |-> "first", label |-> 0, dim |-> j]
  <2>7. f \in Frames(n)
    BY DEF Frames
  <2>8. t.stack = <<f>> \o Tail(r.stack) /\ Tail(r.stack) \in Seq(Frames(n))
    <3>1. r.stack \in Seq(Frames(n))
      BY DEF Readers
    <3> QED
      BY <2>6, <3>1, TopGone
  <2> HIDE DEF f
  <2>9. Head(t.stack) = f /\ Tail(t.stack) = Tail(r.stack) /\ t.stack # <<>>
    BY <2>7, <2>8, OnTop
  <2>10. Inside(P, h, s, w, t.pos, Tail(t.stack), t)
    BY <2>5, <2>6, <2>9 DEF Inside
  <2>11. s[t.pos] = CWP_ITEM_ARRAY(j) /\ 0 \in Int
    BY <2>1, <2>5
  <2>12. Opened(P, h, s, w, t)
    BY <2>2, <2>9, <2>10, <2>11 DEF Opened, f
  <2> QED
    BY <2>5, <2>6, <2>12 DEF InStep
<1> QED
  BY <1>5, <1>6

\* Which call it is tells where the reader stands.
LEMMA AtCall ==
    ASSUME NEW P, NEW h, NEW s, NEW w, NEW n \in Nat, NEW r \in Readers(n), InStep(P, h, s, w, r)
    PROVE  /\ r.stack = <<>> => Between(P, h, s, w, r)
           /\ r.stack # <<>> =>
                LET call == Head(r.stack).call
                IN  /\ call = "cwUnpackNextObjectSub" =>
                         Asking(P, h, s, w, r) \/ Labelled(P, h, s, w, r) \/ Naming(P, h, s, w, r)
                    /\ call = "first" => Opened(P, h, s, w, r)
                    /\ call = "class" => NameRead(P, h, s, w, r)
                    /\ call \in Loops \cup {"user"} /\ r.ret = NONE => Taken(P, h, s, w, r)
                    /\ call \in Loops \cup {"user"} /\ r.ret # NONE => Between(P, h, s, w, r)
                    /\ Between(P, h, s, w, r) => call \in Loops \cup {"user"} /\ r.ret # NONE
<1> DEFINE call == Head(r.stack).call
<1>1. r.stack \in Seq(Frames(n))
  BY DEF Readers
<1>2. ASSUME Between(P, h, s, w, r), r.stack # <<>>
      PROVE  call \in Loops \cup {"user"} /\ r.ret # NONE
  <2> DEFINE q == P[r.pos + 1]
  <2>1. Waiting(h, w, r.stack, q, Len(q)) /\ r.ret # NONE
    BY <1>2 DEF Between
  <2> DEFINE W(g) == \A i \in 1 .. Len(r.stack) :
                        Consumes(h, w, r.stack[i], 1, q, g[i + 1], g[i])
  <2>2. PICK g \in [1 .. Len(r.stack) + 1 -> Nat] : W(g)
    BY <2>1 DEF Waiting
  <2>3. 1 \in 1 .. Len(r.stack) /\ Head(r.stack) = r.stack[1]
    BY <1>1, <1>2, TopGone
  <2>4. Consumes(h, w, r.stack[1], 1, q, g[1 + 1], g[1])
    BY <2>2, <2>3
  <2> QED
    BY <2>1, <2>3, <2>4 DEF Consumes
<1>3. Taken(P, h, s, w, r) => r.stack # <<>> /\ call \in Loops \cup {"user"} /\ r.ret = NONE
  BY DEF Taken, Consumes
<1>4. Asking(P, h, s, w, r) => r.stack # <<>> /\ call = "cwUnpackNextObjectSub"
  BY DEF Asking, NextObjectSub
<1>5. Opened(P, h, s, w, r) => r.stack # <<>> /\ call = "first"
  BY DEF Opened
<1>6. Labelled(P, h, s, w, r) => r.stack # <<>> /\ call = "cwUnpackNextObjectSub"
  BY DEF Labelled, NextObjectSub
<1>7. Naming(P, h, s, w, r) => r.stack # <<>> /\ call = "cwUnpackNextObjectSub"
  BY DEF Naming, NextObjectSub
<1>8. NameRead(P, h, s, w, r) => r.stack # <<>> /\ call = "class"
  BY DEF NameRead
<1> HIDE DEF call
<1>9. /\ "cwUnpackNextObjectSub" \notin Loops \cup {"user"} /\ "first" \notin Loops \cup {"user"}
      /\ "class" \notin Loops \cup {"user"}
  BY DEF Loops
<1>10. \/ Between(P, h, s, w, r) \/ Taken(P, h, s, w, r) \/ Asking(P, h, s, w, r)
       \/ Opened(P, h, s, w, r) \/ Labelled(P, h, s, w, r) \/ Naming(P, h, s, w, r)
       \/ NameRead(P, h, s, w, r)
  BY DEF InStep
<1>11. r.stack = <<>> => Between(P, h, s, w, r)
  BY <1>3, <1>4, <1>5, <1>6, <1>7, <1>8, <1>10
<1>12. ASSUME r.stack # <<>>
       PROVE  /\ call = "cwUnpackNextObjectSub" =>
                    Asking(P, h, s, w, r) \/ Labelled(P, h, s, w, r) \/ Naming(P, h, s, w, r)
              /\ call = "first" => Opened(P, h, s, w, r)
              /\ call = "class" => NameRead(P, h, s, w, r)
              /\ call \in Loops \cup {"user"} /\ r.ret = NONE => Taken(P, h, s, w, r)
              /\ call \in Loops \cup {"user"} /\ r.ret # NONE => Between(P, h, s, w, r)
              /\ Between(P, h, s, w, r) => call \in Loops \cup {"user"} /\ r.ret # NONE
  BY <1>2, <1>3, <1>4, <1>5, <1>6, <1>7, <1>8, <1>9, <1>10, <1>12
<1> QED
  BY <1>11, <1>12 DEF call

\* Calls that wait when the end can come too early are harmless.
LEMMA WaitingHarmless ==
    ASSUME NEW h, NEW w, NEW n \in Nat, NEW fs \in Seq(Frames(n)), NEW q, NEW hi,
           Waiting(h, w, fs, q, hi), ~w
    PROVE  Harmless(fs)
<1> DEFINE W(g) == \A i \in 1 .. Len(fs) : Consumes(h, w, fs[i], 1, q, g[i + 1], g[i])
<1>1. PICK g \in [1 .. Len(fs) + 1 -> Nat] : W(g)
  BY DEF Waiting
<1>2. ASSUME NEW i \in 1 .. Len(fs) PROVE fs[i].call \in {"array", "map", "generic", "user"}
  <2>1. Consumes(h, w, fs[i], 1, q, g[i + 1], g[i])
    BY <1>1
  <2> QED
    BY <2>1 DEF Consumes, Loops
<1> QED
  BY <1>2 DEF Harmless

LEMMA HarmlessOnTop ==
    ASSUME NEW n \in Nat, NEW fs \in Seq(Frames(n)), Harmless(fs)
    PROVE  /\ \A f \in Frames(n) :
                 f.call \in {"cwUnpackNextObjectSub", "array", "map", "generic", "user"} =>
                     Harmless(<<f>> \o fs)
           /\ fs # <<>> => /\ Harmless(Tail(fs))
                           /\ Head(fs).call \in {"cwUnpackNextObjectSub", "array", "map",
                                                 "generic", "user"}
<1> DEFINE C == {"cwUnpackNextObjectSub", "array", "map", "generic", "user"}
<1>1. \A i \in 1 .. Len(fs) : fs[i].call \in C
  BY DEF Harmless
<1> HIDE DEF C
<1>2. ASSUME NEW f \in Frames(n), f.call \in C PROVE Harmless(<<f>> \o fs)
  <2> DEFINE u == <<f>> \o fs
  <2>1. /\ Len(fs) \in Nat /\ Len(u) = Len(fs) + 1 /\ u[1] = f
        /\ \A i \in 1 .. Len(fs) : u[i + 1] = fs[i]
    BY OnTop
  <2> HIDE DEF u
  <2>2. ASSUME NEW i \in 1 .. Len(u) PROVE u[i].call \in C
    <3>1. CASE i = 1
      BY <1>2, <2>1, <3>1
    <3>2. CASE i # 1
      <4>1. i - 1 \in 1 .. Len(fs) /\ (i - 1) + 1 = i
        BY <2>1, <3>2
      <4>2. u[(i - 1) + 1] = fs[i - 1]
        BY <2>1, <4>1
      <4> QED
        BY <1>1, <4>1, <4>2
    <3> QED
      BY <3>1, <3>2
  <2>3. Harmless(u)
    BY <2>2 DEF Harmless, C
  <2> QED
    BY <2>3 DEF u
<1>3. ASSUME fs # <<>> PROVE Harmless(Tail(fs)) /\ Head(fs).call \in C
  <2>1. /\ Head(fs) = fs[1] /\ Len(fs) \in Nat \ {0} /\ Len(Tail(fs)) = Len(fs) - 1
        /\ \A i \in 1 .. Len(fs) - 1 : Tail(fs)[i] = fs[i + 1]
    BY <1>3, TopGone
  <2>2. \A i \in 1 .. Len(Tail(fs)) : i \in 1 .. Len(fs) - 1 /\ i + 1 \in 1 .. Len(fs)
    BY <2>1
  <2>3. \A i \in 1 .. Len(Tail(fs)) : Tail(fs)[i].call \in C
    BY <1>1, <2>1, <2>2
  <2>4. 1 \in 1 .. Len(fs)
    BY <2>1
  <2> QED
    BY <1>1, <2>1, <2>3, <2>4 DEF Harmless, C
<1> QED
  BY <1>2, <1>3 DEF C

\* What is fetched in a stream that was packed.
LEMMA ReadFetched ==
    ASSUME NEW P, NEW h, Finished(P, h, stream), Legible(stream, limit),
           CleanReader(stream, limit, reader), Reading(P, h, stream, limit, reader),
           ~reader.raised
    PROVE  LET n == Len(reader.made)
               f == Fetch(reader.pos, reader.rc)
               r == Fetched(reader, f)
           IN  /\ n \in Nat /\ reader \in Readers(n) /\ r \in Readers(n) /\ reader.stack \in Seq(Frames(n))
               /\ r.stack = reader.stack /\ r.ret = reader.ret /\ ~r.raised /\ ~reader.raised
               /\ r.userReferences = reader.userReferences
               /\ r.packerReferences = reader.packerReferences
               /\ r.pos = f.pos /\ r.rc = f.rc /\ reader.pos \in Nat
               /\ \/ /\ reader.rc = CWP_RC_OK /\ f.rc = CWP_RC_OK /\ reader.pos < limit
                     /\ f.pos = reader.pos + 1 /\ f.item = stream[f.pos] /\ f.item \in Items
                     /\ InStep(P, h, stream, limit = Len(stream), reader)
                  \/ /\ reader.rc = CWP_RC_OK /\ f.rc = CWP_RC_END_OF_INPUT /\ reader.pos = limit
                     /\ f.pos = limit /\ f.item = CWP_NOT_AN_ITEM
                     /\ InStep(P, h, stream, limit = Len(stream), reader)
                  \/ /\ reader.rc = CWP_RC_END_OF_INPUT /\ f.rc = CWP_RC_END_OF_INPUT
                     /\ f.pos = limit /\ f.item = CWP_NOT_AN_ITEM
                     /\ Ended(limit, reader)
<1> DEFINE n == Len(reader.made)
           f == Fetch(reader.pos, reader.rc)
           r == Fetched(reader, f)
<1>1. /\ n \in Nat /\ reader \in Readers(n) /\ reader.stack \in Seq(Frames(n))
      /\ reader.pos \in Nat /\ reader.pos <= limit
  BY CleanFacts
<1>2. stream \in Seq(Items) /\ limit \in 0 .. Len(stream)
  BY DEF Legible
<1>3. /\ r \in Readers(n) /\ r.stack = reader.stack /\ r.ret = reader.ret /\ r.raised = reader.raised
      /\ r.userReferences = reader.userReferences
      /\ r.packerReferences = reader.packerReferences
      /\ r.pos = f.pos /\ r.rc = f.rc
      /\ reader.rc # CWP_RC_OK =>
           f = [pos |-> reader.pos, rc |-> reader.rc, item |-> CWP_NOT_AN_ITEM]
      /\ reader.rc = CWP_RC_OK /\ reader.pos = limit =>
           f = [pos |-> reader.pos, rc |-> CWP_RC_END_OF_INPUT, item |-> CWP_NOT_AN_ITEM]
      /\ reader.rc = CWP_RC_OK /\ reader.pos < limit =>
           /\ f.pos = reader.pos + 1 /\ f.rc = CWP_RC_OK /\ f.item = stream[reader.pos + 1]
           /\ reader.pos + 1 \in 1 .. Len(stream) /\ stream[reader.pos + 1] \in Items
  BY <1>1, <1>2, FetchedFacts
<1> HIDE DEF f, r, n
<1>4. ~reader.raised
  OBVIOUS
<1>5. CASE reader.rc = CWP_RC_OK
  <2>1. InStep(P, h, stream, limit = Len(stream), reader)
    BY <1>5 DEF Reading, CWP_RC_OK, CWP_RC_END_OF_INPUT
  <2>2. reader.pos < limit \/ reader.pos = limit
    BY <1>1, <1>2
  <2>3. CASE reader.pos < limit
    BY <1>1, <1>3, <1>4, <1>5, <2>1, <2>3 DEF n, f, r
  <2>4. CASE reader.pos = limit
    <3>1. f.pos = limit /\ f.rc = CWP_RC_END_OF_INPUT /\ f.item = CWP_NOT_AN_ITEM
      BY <1>3, <1>5, <2>4
    <3> QED
      BY <1>1, <1>3, <1>4, <1>5, <2>1, <2>4, <3>1 DEF n, f, r
  <2> QED
    BY <2>2, <2>3, <2>4
<1>6. CASE reader.rc = CWP_RC_END_OF_INPUT
  <2>1. Ended(limit, reader) /\ reader.rc # CWP_RC_OK
    BY <1>6 DEF Reading, CWP_RC_OK, CWP_RC_END_OF_INPUT
  <2>2. f.pos = limit /\ f.rc = CWP_RC_END_OF_INPUT /\ f.item = CWP_NOT_AN_ITEM
    BY <1>3, <1>6, <2>1 DEF Ended
  <2> QED
    BY <1>1, <1>3, <1>4, <1>6, <2>1, <2>2 DEF n, f, r
<1> QED
  BY <1>5, <1>6 DEF Reading

\* Within a part the end comes too early, and finds no set.
LEMMA EndWithin ==
    ASSUME NEW P, NEW h, NEW s, NEW l, NEW b, NEW n \in Nat, NEW fs \in Seq(Frames(n)), NEW r,
           Finished(P, h, s), Inside(P, h, s, l = Len(s), b, fs, r), l \in Int, b > l - 2,
           b = l + 1 \/ \E parts : Packed(P, h, s, b, 3, parts)
    PROVE  Harmless(fs)
<1>1. b \in DOMAIN P /\ P[b] # <<>> /\ Waiting(h, l = Len(s), fs, P[b], Len(P[b]) - 1)
  BY DEF Inside
<1>2. b \in 1 .. Len(s) /\ Len(s) \in Nat
  BY <1>1, PlanFacts
<1>3. l # Len(s)
  <2>1. CASE b = l + 1
    BY <1>2, <2>1
  <2>2. CASE \E parts : Packed(P, h, s, b, 3, parts)
    <3>1. b + 3 \in 1 .. Len(s) + 1
      BY <1>1, <2>2, BlockFacts
    <3> QED
      BY <1>2, <3>1
  <2> QED
    BY <2>1, <2>2
<1> QED
  BY <1>1, <1>3, WaitingHarmless

\* cwUnpackNextObjectSub finds what was packed, or the end.
LEMMA ObjectReads ==
    ASSUME NEW P, NEW h, Finished(P, h, stream), Legible(stream, limit),
           CleanReader(stream, limit, reader), Reading(P, h, stream, limit, reader),
           cwUnpackNextObjectSub
    PROVE  Reading(P, h, stream, limit, reader')
<1> DEFINE n  == Len(reader.made)
           f  == Fetch(reader.pos, reader.rc)
           r  == Fetched(reader, f)
           st == reader.stack
           w  == limit = Len(stream)
<1>0. ~reader.raised
  BY DEF cwUnpackNextObjectSub, Running
<1>1. /\ st # <<>> /\ Head(st).call = "cwUnpackNextObjectSub" /\ reader.ret = NONE
      /\ reader' = IF f.rc # CWP_RC_OK THEN Return(r, NIL)
                   ELSE cwUnpackObject(r, f.item, Head(st).label)
  BY DEF cwUnpackNextObjectSub, Running, Frame
<1>2. /\ n \in Nat /\ reader \in Readers(n) /\ r \in Readers(n) /\ st \in Seq(Frames(n))
      /\ r.stack = st /\ r.ret = reader.ret /\ ~r.raised
      /\ r.userReferences = reader.userReferences
      /\ r.packerReferences = reader.packerReferences
      /\ r.pos = f.pos /\ r.rc = f.rc /\ reader.pos \in Nat
      /\ \/ /\ reader.rc = CWP_RC_OK /\ f.rc = CWP_RC_OK /\ reader.pos < limit
            /\ f.pos = reader.pos + 1 /\ f.item = stream[f.pos] /\ f.item \in Items
            /\ InStep(P, h, stream, w, reader)
         \/ /\ reader.rc = CWP_RC_OK /\ f.rc = CWP_RC_END_OF_INPUT /\ reader.pos = limit
            /\ f.pos = limit /\ f.item = CWP_NOT_AN_ITEM
            /\ InStep(P, h, stream, w, reader)
         \/ /\ reader.rc = CWP_RC_END_OF_INPUT /\ f.rc = CWP_RC_END_OF_INPUT
            /\ f.pos = limit /\ f.item = CWP_NOT_AN_ITEM
            /\ Ended(limit, reader)
  BY <1>0, ReadFetched
<1>3. /\ Head(st) \in Frames(n) /\ Tail(st) \in Seq(Frames(n)) /\ Head(st).label \in Int
  <2>1. Head(st) \in Frames(n) /\ Tail(st) \in Seq(Frames(n))
    BY <1>1, <1>2, TopGone
  <2> QED
    BY <1>1, <1>2, <2>1, FrameForms
<1>4. limit \in Nat /\ limit <= Len(stream) /\ Len(stream) \in Nat
  BY PlanFacts DEF Legible
<1> HIDE DEF f, r, n, st, w
<1>5. ASSUME InStep(P, h, stream, w, reader)
      PROVE  \/ Asking(P, h, stream, w, reader)
             \/ Labelled(P, h, stream, w, reader)
             \/ Naming(P, h, stream, w, reader)
  BY <1>1, <1>2, <1>5, AtCall DEF st
<1>6. ASSUME f.rc = CWP_RC_END_OF_INPUT, f.pos = limit, Harmless(Tail(st))
             \/ /\ Tail(st) # <<>> /\ Head(Tail(st)).call = "class"
                /\ Head(Tail(st)).label \in {0, Len(reader.userReferences)}
                /\ Harmless(Tail(Tail(st)))
      PROVE  Reading(P, h, stream, limit, reader')
  <2>1. reader' = Return(r, NIL)
    BY <1>1, <1>6 DEF CWP_RC_OK, CWP_RC_END_OF_INPUT
  <2>2. NIL \in Returns(n)
    BY <1>2 DEF NIL, Returns
  <2>3. reader'.stack = Tail(st) /\ reader'.ret = NIL /\ SameBut(r, reader')
    BY <1>1, <1>2, <2>1, <2>2, ReturnFacts
  <2>4. /\ reader'.pos = limit /\ reader'.rc = CWP_RC_END_OF_INPUT /\ ~reader'.raised
        /\ reader'.userReferences = reader.userReferences
    BY <1>2, <1>6, <2>3 DEF SameBut
  <2> QED
    BY <1>6, <2>3, <2>4 DEF Reading, Ended
<1>7. CASE reader.rc = CWP_RC_END_OF_INPUT /\ f.rc = CWP_RC_END_OF_INPUT /\ f.pos = limit
           /\ Ended(limit, reader)
  <2>1. Harmless(st)
    BY <1>1, <1>7 DEF Ended, st
  <2>2. Harmless(Tail(st))
    BY <1>1, <1>2, <2>1, HarmlessOnTop
  <2> QED
    BY <1>6, <1>7, <2>2
<1>8. CASE f.rc = CWP_RC_END_OF_INPUT /\ reader.pos = limit /\ f.pos = limit
           /\ InStep(P, h, stream, w, reader)
  <2>1. CASE Asking(P, h, stream, w, reader)
    <3>1. Inside(P, h, stream, w, limit + 1, Tail(st), reader) \/ Tail(st) = <<>>
      BY <1>8, <2>1 DEF Asking, st
    <3>2. CASE Inside(P, h, stream, w, limit + 1, Tail(st), reader)
      <4> DEFINE b == limit + 1
      <4>1. b > limit - 2 /\ b = limit + 1
        BY <1>4
      <4> HIDE DEF b
      <4>2. Inside(P, h, stream, w, b, Tail(st), reader) /\ limit \in Int
        BY <1>4, <3>2 DEF b
      <4>3. Harmless(Tail(st))
        BY <1>2, <1>3, <4>1, <4>2, EndWithin DEF w
      <4> QED
        BY <1>6, <1>8, <4>3
    <3>3. CASE Tail(st) = <<>>
      <4>1. Harmless(Tail(st))
        <5>1. Len(<<>>) = 0 /\ 1 .. 0 = {}
          OBVIOUS
        <5>2. Harmless(<<>>)
          BY <5>1 DEF Harmless
        <5> QED
          BY <3>3, <5>2
      <4> QED
        BY <1>6, <1>8, <4>1
    <3> QED
      BY <3>1, <3>2, <3>3
  <2>2. CASE Labelled(P, h, stream, w, reader)
    <3> DEFINE b == limit - 1
    <3>1. /\ Inside(P, h, stream, w, b, Tail(st), reader)
          /\ \E parts : Packed(P, h, stream, b, 3, parts)
      BY <1>8, <2>2 DEF Labelled, st
    <3>2. b > limit - 2 /\ limit \in Int
      BY <1>4
    <3> HIDE DEF b
    <3>3. Harmless(Tail(st))
      BY <1>2, <1>3, <3>1, <3>2, EndWithin DEF w
    <3> QED
      BY <1>6, <1>8, <3>3
  <2>3. CASE Naming(P, h, stream, w, reader)
    <3> DEFINE b == limit - 1
               fs == Tail(Tail(st))
    <3>1. Inside(P, h, stream, w, b, fs, reader) /\ Tail(st) # <<>>
      BY <1>8, <2>3 DEF Naming, st
    <3>2. PICK l, name, parts :
             /\ Head(Tail(st)) = [call |-> "class", label |-> l, left |-> Len(parts)]
             /\ Packed(P, h, stream, b, 3, parts) /\ UserAt(h, stream, b, parts, l, name)
      BY <1>8, <2>3 DEF Naming, st
    <3>3. b > limit - 2 /\ limit \in Int
      BY <1>4
    <3>4. fs \in Seq(Frames(n))
      BY <1>2, <1>3, <3>1, TopGone
    <3>5. /\ reader.userReferences \in Seq(Returns(n))
          /\ reader.packerReferences \in Seq(Returns(n))
      BY <1>2 DEF Readers
    <3> HIDE DEF b, fs
    <3>6. Harmless(fs)
      BY <1>2, <3>1, <3>2, <3>3, <3>4, EndWithin DEF w
    <3>7. l = 0 \/ l = Len(reader.userReferences)
      <4>1. /\ b \in DOMAIN P /\ P[b] # <<>>
            /\ Entries(stream, b, reader.userReferences, reader.packerReferences)
        BY <3>1 DEF Inside
      <4> QED
        BY <1>2, <3>2, <3>5, <4>1, UserEntered
    <3>8. Head(Tail(st)).call = "class" /\ Head(Tail(st)).label = l
      <4> DEFINE g == Head(Tail(st))
      <4>1. g = [call |-> "class", label |-> l, left |-> Len(parts)]
        BY <3>2
      <4> HIDE DEF g
      <4>2. g.call = "class" /\ g.label = l
        BY <4>1
      <4> QED
        BY <4>2 DEF g
    <3> QED
      BY <1>6, <1>8, <3>1, <3>6, <3>7, <3>8 DEF fs
  <2> QED
    BY <1>5, <1>8, <2>1, <2>2, <2>3
<1>9. CASE f.rc = CWP_RC_OK /\ reader.pos < limit /\ f.pos = reader.pos + 1
           /\ f.item = stream[f.pos] /\ f.item \in Items /\ InStep(P, h, stream, w, reader)
  <2> DEFINE label == Head(st).label
             t == cwUnpackObject(r, f.item, label)
  <2>1. reader' = t /\ UnpackedAs(n, r, f.item, label, t)
    BY <1>1, <1>2, <1>3, <1>9, UnpackFacts
  <2> HIDE DEF t
  <2>2. r.rc = CWP_RC_OK /\ r.pos = reader.pos + 1
    BY <1>2, <1>9
  <2>3. \A b, fs : Inside(P, h, stream, w, b, fs, reader) => Inside(P, h, stream, w, b, fs, r)
    BY <1>2 DEF Inside
  <2>4. ASSUME t.rc = CWP_RC_OK /\ ~t.raised /\ InStep(P, h, stream, w, t)
        PROVE  Reading(P, h, stream, limit, reader')
    BY <2>1, <2>4 DEF Reading, w
  <2>5. CASE Asking(P, h, stream, w, reader)
    <3> DEFINE b == reader.pos + 1
    <3>1. Inside(P, h, stream, w, b, Tail(st), reader) /\ label = 0
      <4>1. Head(st) = NextObjectSub(0) /\ (Inside(P, h, stream, w, b, Tail(st), reader)
                                            \/ b = Len(stream) + 1)
        BY <2>5 DEF Asking, st
      <4>2. b # Len(stream) + 1
        BY <1>2, <1>4, <1>9
      <4> QED
        BY <4>1, <4>2 DEF NextObjectSub
    <3> HIDE DEF b
    <3>2. /\ r.pos = b /\ Inside(P, h, stream, w, b, Tail(r.stack), r) /\ r.stack # <<>>
          /\ UnpackedAs(n, r, stream[b], 0, t)
      BY <1>1, <1>2, <1>9, <2>1, <2>2, <2>3, <3>1 DEF b
    <3>3. t.rc = CWP_RC_OK /\ ~t.raised /\ InStep(P, h, stream, w, t)
      BY <1>2, <2>2, <3>2, ItemRead
    <3> QED
      BY <2>4, <3>3
  <2>6. CASE Labelled(P, h, stream, w, reader)
    <3> DEFINE b == reader.pos - 1
               c == (b + 3) - 1
    <3>1. Inside(P, h, stream, w, b, Tail(st), reader)
      BY <2>6 DEF Labelled, st
    <3>2. PICK l, parts : /\ Head(st) = NextObjectSub(l)
                          /\ Packed(P, h, stream, b, 3, parts) /\ LabelledAt(stream, b, parts, l)
      BY <2>6 DEF Labelled, st
    <3>3. l = label /\ c = reader.pos + 1 /\ b \in Int /\ c = b + 2
      BY <1>2, <3>2 DEF NextObjectSub
    <3> HIDE DEF b
    <3>4. Core(stream, c, parts)
      BY <3>2, <3>3 DEF LabelledAt
    <3>5. /\ r.pos = c /\ Inside(P, h, stream, w, b, Tail(r.stack), r) /\ r.stack # <<>>
          /\ UnpackedAs(n, r, stream[c], label, t) /\ LabelledAt(stream, b, parts, label)
          /\ label \in Int
      BY <1>1, <1>2, <1>3, <1>9, <2>1, <2>2, <2>3, <3>1, <3>2, <3>3
    <3> HIDE DEF label
    <3>6. t.rc = CWP_RC_OK /\ ~t.raised /\ InStep(P, h, stream, w, t)
      BY <1>2, <2>2, <3>2, <3>4, <3>5, CoreRead
    <3> QED
      BY <2>4, <3>6
  <2>7. CASE Naming(P, h, stream, w, reader)
    <3> DEFINE b == reader.pos - 1
               fs == Tail(Tail(st))
    <3>1. Inside(P, h, stream, w, b, fs, reader) /\ Tail(st) # <<>> /\ Head(st) = NextObjectSub(0)
      BY <2>7 DEF Naming, st
    <3>2. PICK l, name, parts :
             /\ Head(Tail(st)) = [call |-> "class", label |-> l, left |-> Len(parts)]
             /\ Packed(P, h, stream, b, 3, parts) /\ UserAt(h, stream, b, parts, l, name)
      BY <2>7 DEF Naming, st
    <3>3. label = 0 /\ b + 2 = f.pos /\ f.pos - 2 = b
      BY <1>2, <1>9, <3>1 DEF NextObjectSub
    <3> HIDE DEF b, fs
    <3>4. f.item = CWP_ITEM_STR(name)
      BY <1>9, <3>2, <3>3 DEF UserAt
    <3>5. /\ \A k : f.item # CWP_ITEM_MAP(k) /\ f.item # CWP_ITEM_ARRAY(k)
                    /\ f.item # CWP_ITEM_OBJECT_MARKER(k) /\ f.item # CWP_ITEM_VALUE(k)
                    /\ (f.item = CWP_ITEM_STR(k) => k = name)
          /\ f.item # CWP_ITEM_NIL
      BY <3>4 DEF CWP_ITEM_STR, CWP_ITEM_MAP, CWP_ITEM_ARRAY, CWP_ITEM_OBJECT_MARKER,
                  CWP_ITEM_VALUE, CWP_ITEM_NIL
    <3>6. /\ t.pos = r.pos /\ t.raised = r.raised /\ t.userReferences = r.userReferences
          /\ t.made[n + 1].class = "string" /\ t.made[n + 1].value = name
          /\ t.stack = Tail(r.stack) /\ t.ret = n + 1
          /\ label = 0 \/ label = -Len(r.packerReferences) =>
               t.rc = r.rc /\ t.packerReferences = Lengthened(r.packerReferences, label, n + 1)
      <4>1. UnpackedAs(n, r, f.item, label, t)
        BY <2>1
      <4> DEFINE X == /\ t.made[n + 1].class = "string" /\ t.made[n + 1].value = name
                      /\ t.stack = Tail(r.stack) /\ t.ret = n + 1
                      /\ label = 0 \/ label = -Len(r.packerReferences) =>
                           t.rc = r.rc
                           /\ t.packerReferences = Lengthened(r.packerReferences, label, n + 1)
      <4>2. (t.pos = r.pos /\ t.raised = r.raised /\ t.userReferences = r.userReferences) /\ X
        BY <3>5, <4>1, Zenon DEF UnpackedAs
      <4> QED
        BY <4>2
    <3>7. t.packerReferences = r.packerReferences /\ t.rc = CWP_RC_OK
      BY <2>2, <3>3, <3>6 DEF Lengthened
    <3>8. Inside(P, h, stream, w, b, fs, t)
      BY <1>2, <3>1, <3>6, <3>7 DEF Inside
    <3>9. t.ret > 0 /\ t.made[t.ret].class = "string" /\ t.made[t.ret].value = name
      BY <1>2, <3>6
    <3>10. t.pos - 2 = b /\ t.stack = Tail(st) /\ Tail(t.stack) = fs
      BY <1>2, <3>3, <3>6 DEF fs
    <3>11. NameRead(P, h, stream, w, t)
      BY <3>1, <3>2, <3>8, <3>9, <3>10 DEF NameRead
    <3>12. t.rc = CWP_RC_OK /\ ~t.raised /\ InStep(P, h, stream, w, t)
      BY <1>2, <3>6, <3>7, <3>11 DEF InStep
    <3> QED
      BY <2>4, <3>12
  <2> QED
    BY <1>5, <1>9, <2>5, <2>6, <2>7
<1> QED
  BY <1>2, <1>7, <1>8, <1>9

\* An array that is no object marker is made, and its first part is read.
LEMMA ContainerRead ==
    ASSUME NEW P, NEW h, NEW s, NEW w, Finished(P, h, s), NEW b, NEW m, NEW parts,
           Packed(P, h, s, b, m, parts), Core(s, (b + m) - 1, parts), NEW label \in Int,
           (m = 1 /\ label = 0) \/ (m = 3 /\ LabelledAt(s, b, parts, label)),
           NEW dim \in Places, s[(b + m) - 1] = CWP_ITEM_ARRAY(dim),
           NEW n \in Nat, NEW r \in Readers(n), r.stack # <<>>, r.pos = b + m,
           r.rc = CWP_RC_OK, ~r.raised, Inside(P, h, s, w, b, Tail(r.stack), r)
    PROVE  LET arr == ReferTo(Make(r, "array", "none"), label)
               u   == Call(GoOn(arr, [call |-> "array", object |-> Newest(arr), left |-> dim]),
                           NextObjectSub(0))
               t   == cwUnpackObject(u, s[b + m], 0)
           IN  t.rc = CWP_RC_OK /\ ~t.raised /\ InStep(P, h, s, w, t)
<1> DEFINE arr == ReferTo(Make(r, "array", "none"), label)
           u   == Call(GoOn(arr, [call |-> "array", object |-> Newest(arr), left |-> dim]),
                       NextObjectSub(0))
           t   == cwUnpackObject(u, s[b + m], 0)
           f   == [call |-> "array", object |-> n + 1, left |-> dim]
           fs  == Tail(r.stack)
           i   == n + 1
           q   == P[b + m]
           lo  == Len(P[b]) - 1
           v   == <<f>> \o fs
           e   == b + m
<1>1. /\ b \in DOMAIN P /\ P[b] # <<>> /\ Entries(s, b, r.userReferences, r.packerReferences)
  BY DEF Inside
<1>2. /\ fs \in Seq(Frames(n)) /\ r.userReferences \in Seq(Returns(n))
      /\ r.packerReferences \in Seq(Returns(n))
  <2>1. r.stack \in Seq(Frames(n)) /\ r.userReferences \in Seq(Returns(n))
        /\ r.packerReferences \in Seq(Returns(n)) \ {<<>>}
    BY DEF Readers
  <2> QED
    BY <2>1, TopGone
<1>3. /\ u \in Readers(n + 1) /\ f \in Frames(n + 1)
      /\ u.stack = <<NextObjectSub(0)>> \o (<<f>> \o Tail(r.stack))
      /\ u.pos = r.pos /\ u.rc = r.rc /\ u.raised = r.raised /\ u.ret = NONE
      /\ u.userReferences = r.userReferences
      /\ u.packerReferences = Lengthened(r.packerReferences, label, n + 1)
  BY FirstArray
<1>4. /\ parts \in Seq(Packable) /\ e \in 1 .. Len(s) + 1 /\ e \in DOMAIN P
      /\ Len(parts) > 0 => P[e] # <<>>
  BY <1>1, BlockFacts
<1>5. Len(parts) = dim /\ dim \in Nat /\ dim > 0
  BY <1>4, CoreParts DEF Places
<1>6. Entries(s, e, u.userReferences, u.packerReferences)
  <2>1. \A x \in Returns(n + 1) :
            x > 0 \/ (x = NSNull /\ s[(b + m) - 1] = CWP_ITEM_NIL) =>
                Entries(s, b + m, r.userReferences, Lengthened(r.packerReferences, label, x))
    BY <1>1, <1>2, LabelEntered
  <2>2. n + 1 \in Returns(n + 1) /\ n + 1 > 0
    BY DEF Returns
  <2> QED
    BY <1>3, <2>1, <2>2
<1>7. f.call = "array" /\ f.left = dim
  OBVIOUS
<1> HIDE DEF f, u, arr
<1>8. i \in Nat /\ fs \in Seq(Frames(i)) /\ f \in Frames(i)
  <2>1. Frames(n) \subseteq Frames(n + 1)
    BY MoreMade
  <2>2. Seq(Frames(n)) \subseteq Seq(Frames(n + 1))
    BY <2>1
  <2>3. fs \in Seq(Frames(n + 1))
    BY <1>2, <2>2, Zenon
  <2> QED
    BY <1>3, <2>3
<1> HIDE DEF i, e
<1>9. /\ f.call \in Loops \cup {"user"} /\ Count(f) = Len(parts) /\ f.call # "set"
      /\ f.call # "user" /\ Count(f) > 0
  BY <1>5, <1>7 DEF Count, Loops
<1>10. q \in Seq(Packable) /\ Consumes(h, w, f, 0, q, lo, Len(q)) /\ Waiting(h, w, fs, q, lo)
  <2>1. Inside(P, h, s, w, b, fs, r)
    OBVIOUS
  <2>2. fs \in Seq(Frames(n)) /\ f \in Frames(i) /\ i \in Nat
    BY <1>2, <1>8
  <2> HIDE DEF fs
  <2> HIDE DEF t, v
  <2>3. f.call \in Loops \cup {"user"} /\ Count(f) = Len(parts) /\ f.call # "set" /\ f.call # "user"
    BY <1>9
  <2>4. b + m \in DOMAIN P /\ Consumes(h, w, f, 0, q, lo, Len(q)) /\ Waiting(h, w, fs, q, lo)
    BY <2>1, <2>2, <2>3, PartEntered
  <2>5. q \in Seq(Packable)
    BY <1>1, BlockFacts
  <2> QED
    BY <2>4, <2>5
<1> HIDE DEF q, lo, fs
<1>11. Len(q) \in Nat \ {0} /\ Consumes(h, w, f, 1, q, lo, Len(q) - 1)
  BY <1>8, <1>9, <1>10, ConsumesAsks
<1>12. Waiting(h, w, v, q, Len(q) - 1)
  <2> DEFINE hi == Len(q) - 1
  <2>1. hi <= Len(q) /\ Consumes(h, w, f, 1, q, lo, hi)
    BY <1>11
  <2> HIDE DEF hi
  <2>2. Waiting(h, w, <<f>> \o fs, q, hi)
    BY <1>8, <1>10, <2>1, WaitingMore
  <2> QED
    BY <2>2 DEF hi
<1>13. v \in Seq(Frames(i)) /\ Head(v) = f /\ v # <<>>
  BY <1>8, OnTop
<1>14. u.stack = <<NextObjectSub(0)>> \o v
  BY <1>3 DEF fs
<1> HIDE DEF v
<1>15. Tail(u.stack) = v /\ u.stack # <<>>
  BY <1>8, <1>13, <1>14, NextObjectFrame, OnTop
<1>16. Inside(P, h, s, w, e, Tail(u.stack), u)
  BY <1>4, <1>5, <1>6, <1>9, <1>12, <1>13, <1>15 DEF Inside, q, e
<1>17. s[e] \in Items
  <2>1. s \in Seq(Items) /\ e \in 1 .. Len(s)
    BY <1>4, <1>5, PlanFacts
  <2> QED
    BY <2>1, ElementOfSeq
<1>18. UnpackedAs(i, u, s[e], 0, t)
  <2>1. UnpackedAs(i, u, s[e], 0, cwUnpackObject(u, s[e], 0))
    BY <1>3, <1>8, <1>15, <1>17, UnpackFacts DEF i
  <2> QED
    BY <2>1 DEF e
<1> HIDE DEF t
<1>19. u.pos = e /\ u.rc = CWP_RC_OK /\ ~u.raised /\ u \in Readers(i)
  BY <1>3 DEF e, i
<1>20. t.rc = CWP_RC_OK /\ ~t.raised /\ InStep(P, h, s, w, t)
  BY <1>8, <1>15, <1>16, <1>18, <1>19, ItemRead
<1> QED
  BY <1>20 DEF t, u, arr

\* A reference is the object that was read with its label.
LEMMA ReferenceRead ==
    ASSUME NEW P, NEW h, NEW s, NEW w, Finished(P, h, s), NEW b, NEW parts,
           Packed(P, h, s, b, 2, parts),
           NEW n \in Nat, NEW r \in Readers(n), r.stack # <<>>, r.pos = b + 1,
           r.rc = CWP_RC_OK, ~r.raised, Inside(P, h, s, w, b, Tail(r.stack), r)
    PROVE  LET t == Reference(r, s[b + 1].label)
           IN  t.rc = CWP_RC_OK /\ ~t.raised /\ InStep(P, h, s, w, t)
<1> DEFINE l    == s[b + 1].label
           t    == Reference(r, l)
           us   == r.userReferences
           ps   == r.packerReferences
           refs == IF l < 0 THEN ps ELSE us
           k    == IF l < 0 THEN -l ELSE l
           fs   == Tail(r.stack)
<1>1. b \in DOMAIN P /\ P[b] # <<>> /\ Entries(s, b, us, ps)
  BY DEF Inside
<1>2. s \in Seq(Items) /\ Ordered(s)
  BY DEF Finished
<1>3. b \in Int /\ b + 2 \in DOMAIN P /\ b + 2 \in Int /\ b + 1 \in Nat
  BY <1>1, BlockFacts
<1>4. /\ parts = <<>> /\ s[b] = CWP_ITEM_ARRAY(1) /\ b + 1 \in Refs(s)
      /\ Firm(h, Head(P[b])) =>
           \A j \in Defs(s) : j < b /\ s[j] = s[b + 1] => s[j + 1] # CWP_ITEM_NIL
  BY DEF Packed, Written
<1>5. Len(parts) = 0
  BY <1>4, EmptySeq
<1>6. PICK j \in Defs(s) : j < b + 1 /\ s[j] = s[b + 1]
  BY <1>2, <1>4 DEF Ordered
<1>7. j < b
  <2>1. j \in Int /\ s[j].type = "MARKER"
    BY <1>2, ItemFacts DEF Defs, Marks
  <2>2. s[b].type # "MARKER"
    BY <1>1, BlockStarts
  <2> QED
    BY <1>3, <1>6, <2>1, <2>2
<1>8. /\ l \in Int \ {0}
      /\ l > 0 => l < Len(us)
      /\ l < 0 => -l < Len(ps)
  <2>1. LET x == s[j].label
        IN  x \in Int \ {0} /\ (x > 0 => x < Len(us)) /\ (x < 0 => -x < Len(ps))
    BY <1>1, <1>2, <1>3, <1>7, EntriesHold
  <2> QED
    BY <1>6, <2>1
<1>9. /\ l > 0 => us[l + 1] > 0
      /\ l < 0 => ps[-l + 1] > 0 \/ (ps[-l + 1] = NSNull /\ s[j + 1] = CWP_ITEM_NIL)
  BY <1>1, <1>6, <1>7 DEF Entries
<1>10. us \in Seq(Returns(n)) /\ ps \in Seq(Returns(n)) /\ r.stack \in Seq(Frames(n))
  BY DEF Readers
<1>11. t.stack = fs /\ SameBut(r, t) /\ t.ret = refs[k + 1]
  <2>1. l \in Int /\ l # 0 /\ k < Len(refs)
    BY <1>8
  <2> HIDE DEF l
  <2>2. /\ t.stack = Tail(r.stack)
        /\ l # 0 /\ k < Len(refs) => SameBut(r, t) /\ t.ret = refs[k + 1]
    BY <2>1, ReferenceFacts
  <2> QED
    BY <2>1, <2>2
<1> HIDE DEF t
<1>12. t.ret > 0 \/ (t.ret = NSNull /\ s[j + 1] = CWP_ITEM_NIL)
  BY <1>8, <1>9, <1>11
<1>13. t.ret \in Int
  <2>1. k + 1 \in 1 .. Len(refs) /\ refs \in Seq(Returns(n))
    BY <1>8, <1>10, LenProperties, SMTT(30)
  <2>2. refs[k + 1] \in Returns(n)
    BY <2>1, ElementOfSeq
  <2> QED
    BY <1>11, <2>2 DEF Returns
<1> HIDE DEF l, refs, k
<1>14. t.ret # NONE /\ (Firm(h, Head(P[b])) => NullToNil(t.ret) # NIL)
  <2>1. t.ret # NONE /\ (t.ret > 0 => NullToNil(t.ret) # NIL)
    BY <1>12, <1>13 DEF NONE, NullToNil, NIL, NSNull
  <2>2. Firm(h, Head(P[b])) => s[j + 1] # CWP_ITEM_NIL
    BY <1>4, <1>6, <1>7
  <2> QED
    BY <1>12, <2>1, <2>2
<1>15. /\ t.pos \in Nat /\ t.pos + 1 = b + 2 /\ t.rc = CWP_RC_OK /\ ~t.raised
       /\ t.userReferences = us /\ t.packerReferences = ps
  BY <1>3, <1>11 DEF SameBut
<1>16. Entries(s, b + 2, t.userReferences, t.packerReferences)
  <2>1. \A i \in Defs(s) : ~(b <= i /\ i < b + 2)
    BY <1>1, BlockDefs
  <2>2. b <= b + 2
    BY <1>3
  <2> QED
    BY <1>1, <1>2, <1>3, <1>15, <2>1, <2>2, EntriesOn
<1>17. fs \in Seq(Frames(n))
  BY <1>10, TopGone
<1>18. Between(P, h, s, w, t)
  BY <1>5, <1>11, <1>14, <1>15, <1>16, <1>17, PartRead
<1> QED
  BY <1>15, <1>18 DEF InStep, t, l

\* FirstItem finds a part or a label, as the array's header told.
LEMMA FirstReads ==
    ASSUME NEW P, NEW h, Finished(P, h, stream), Legible(stream, limit),
           CleanReader(stream, limit, reader), Reading(P, h, stream, limit, reader), FirstItem
    PROVE  Reading(P, h, stream, limit, reader')
<1> DEFINE n  == Len(reader.made)
           f  == Fetch(reader.pos, reader.rc)
           r  == Fetched(reader, f)
           st == reader.stack
           w  == limit = Len(stream)
           c  == reader.pos
           fs == Tail(st)
<1>0. ~reader.raised
  BY DEF FirstItem, Running
<1>1. st # <<>> /\ Head(st).call = "first"
  BY DEF FirstItem, Running
<1>2. LET dim    == Head(st).dim
          marker == f.item.type = "MARKER"
          arr    == ReferTo(Make(r, "array", "none"), Head(st).label)
      IN  reader' =
            IF ~marker
            THEN cwUnpackObject(
                    Call(GoOn(arr, [call |-> "array", object |-> Newest(arr), left |-> dim]),
                         NextObjectSub(0)), f.item, 0)
            ELSE IF dim = 1 THEN Reference(r, f.item.label)
            ELSE IF f.item.label >= 0
            THEN Call(GoOn(r, [call |-> "class", label |-> f.item.label, left |-> dim - 2]),
                      NextObjectSub(0))
            ELSE IF dim # 2 THEN Stop(r, CWP_RC_VALUE_ERROR)
            ELSE GoOn(r, NextObjectSub(f.item.label))
  BY DEF FirstItem, Frame
<1>3. /\ n \in Nat /\ reader \in Readers(n) /\ r \in Readers(n) /\ st \in Seq(Frames(n))
      /\ r.stack = st /\ r.ret = reader.ret /\ ~r.raised
      /\ r.userReferences = reader.userReferences
      /\ r.packerReferences = reader.packerReferences
      /\ r.pos = f.pos /\ r.rc = f.rc /\ reader.pos \in Nat
      /\ \/ /\ reader.rc = CWP_RC_OK /\ f.rc = CWP_RC_OK /\ reader.pos < limit
            /\ f.pos = reader.pos + 1 /\ f.item = stream[f.pos] /\ f.item \in Items
            /\ InStep(P, h, stream, w, reader)
         \/ /\ reader.rc = CWP_RC_OK /\ f.rc = CWP_RC_END_OF_INPUT /\ reader.pos = limit
            /\ f.pos = limit /\ f.item = CWP_NOT_AN_ITEM
            /\ InStep(P, h, stream, w, reader)
         \/ /\ reader.rc = CWP_RC_END_OF_INPUT /\ f.rc = CWP_RC_END_OF_INPUT
            /\ f.pos = limit /\ f.item = CWP_NOT_AN_ITEM
            /\ Ended(limit, reader)
  BY <1>0, ReadFetched
<1>4. limit \in Nat /\ limit > 0 => \A j \in Places : stream[limit] # CWP_ITEM_ARRAY(j)
  BY DEF Legible
<1> HIDE DEF f, r, n, st, w
<1>5. fs \in Seq(Frames(n))
  BY <1>1, <1>3, TopGone
<1>6. InStep(P, h, stream, w, reader)
  <2>1. ASSUME Ended(limit, reader) PROVE FALSE
    <3>1. Harmless(st)
      BY <1>1, <2>1 DEF Ended, st
    <3>2. Head(st).call \in {"cwUnpackNextObjectSub", "array", "map", "generic", "user"}
      BY <1>1, <1>3, <3>1, HarmlessOnTop
    <3> QED
      BY <1>1, <3>2
  <2> QED
    BY <1>3, <2>1
<1>7. Opened(P, h, stream, w, reader)
  BY <1>1, <1>3, <1>6, AtCall DEF st
<1>8. PICK l \in Int, dim \in Int :
         /\ Head(st) = [call |-> "first", label |-> l, dim |-> dim]
         /\ dim > 0 /\ stream[c] = CWP_ITEM_ARRAY(dim)
         /\ \/ l = 0 /\ Inside(P, h, stream, w, c, fs, reader)
            \/ /\ Inside(P, h, stream, w, c - 2, fs, reader)
               /\ \E parts : /\ Packed(P, h, stream, c - 2, 3, parts)
                             /\ LabelledAt(stream, c - 2, parts, l)
  BY <1>7 DEF Opened, st
<1>9. Head(st).dim = dim /\ Head(st).label = l /\ dim \in Places
  <2> DEFINE g == Head(st)
  <2>1. g = [call |-> "first", label |-> l, dim |-> dim]
    BY <1>8
  <2> HIDE DEF g
  <2>2. g.dim = dim /\ g.label = l
    BY <2>1
  <2> QED
    BY <1>8, <2>2 DEF Places, g
\* What the array is the header of.
<1>10. PICK b, m, parts :
         /\ Inside(P, h, stream, w, b, fs, reader) /\ Packed(P, h, stream, b, m, parts)
         /\ b \in Nat \ {0} /\ m \in 1 .. 3
         /\ \/ l = 0 /\ b = c
            \/ b = c - 2 /\ m = 3 /\ LabelledAt(stream, b, parts, l)
  <2>1. CASE l = 0 /\ Inside(P, h, stream, w, c, fs, reader)
    <3>1. c \in DOMAIN P /\ P[c] # <<>>
      BY <2>1 DEF Inside
    <3>2. PICK m, parts : Packed(P, h, stream, c, m, parts)
      BY <3>1, PlanFacts
    <3>3. c \in Nat \ {0} /\ m \in 1 .. 3
      BY <3>1, <3>2, BlockFacts
    <3> QED
      BY <2>1, <3>2, <3>3
  <2>2. CASE /\ Inside(P, h, stream, w, c - 2, fs, reader)
             /\ \E parts : /\ Packed(P, h, stream, c - 2, 3, parts)
                           /\ LabelledAt(stream, c - 2, parts, l)
    <3> DEFINE b == c - 2
    <3>1. b \in DOMAIN P /\ P[b] # <<>>
      BY <2>2 DEF Inside
    <3>2. PICK parts : Packed(P, h, stream, b, 3, parts) /\ LabelledAt(stream, b, parts, l)
      BY <2>2
    <3>3. b \in Nat \ {0} /\ 3 \in 1 .. 3
      BY <3>1, <3>2, BlockFacts, SMTT(30)
    <3>4. Inside(P, h, stream, w, b, fs, reader) /\ b = c - 2
      BY <2>2
    <3> HIDE DEF b
    <3> QED
      BY <3>2, <3>3, <3>4
  <2> QED
    BY <1>8, <2>1, <2>2
<1>11. /\ f.rc = CWP_RC_OK /\ f.pos = c + 1 /\ f.item = stream[c + 1] /\ f.item \in Items
       /\ c \in Nat
  <2>1. c # limit
    BY <1>3, <1>4, <1>8, <1>9, <1>10
  <2> QED
    BY <1>3, <1>6, <2>1 DEF CWP_RC_OK, CWP_RC_END_OF_INPUT, Ended
<1>12. Inside(P, h, stream, w, b, Tail(r.stack), r) /\ r.stack # <<>>
  BY <1>1, <1>3, <1>10 DEF Inside
<1>13. r.pos = c + 1 /\ r.rc = CWP_RC_OK
  BY <1>3, <1>11
<1>14. ASSUME reader'.rc = CWP_RC_OK, ~reader'.raised, InStep(P, h, stream, w, reader')
       PROVE  Reading(P, h, stream, limit, reader')
  BY <1>14 DEF Reading, w
<1>15. b \in DOMAIN P /\ P[b] # <<>>
  BY <1>10 DEF Inside
<1> DEFINE arr == ReferTo(Make(r, "array", "none"), l)
           u   == Call(GoOn(arr, [call |-> "array", object |-> Newest(arr), left |-> dim]),
                       NextObjectSub(0))
           item == stream[c + 1]
\* An array of parts.
<1>16. CASE Core(stream, (b + m) - 1, parts) /\ (b + m) - 1 = c
            /\ ((m = 1 /\ l = 0) \/ (m = 3 /\ LabelledAt(stream, b, parts, l)))
  <2>1. b + m = c + 1
    BY <1>10, <1>11, <1>16
  <2>2. /\ parts \in Seq(Packable) /\ b + m \in DOMAIN P /\ Len(parts) \in Nat
        /\ Len(parts) > 0 => P[b + m] # <<>>
    BY <1>10, <1>15, BlockFacts
  <2>3. Len(parts) > 0
    BY <1>8, <1>16, <2>2, CoreParts
  <2>4. item.type # "MARKER"
    BY <2>1, <2>2, <2>3, BlockStarts
  <2>5. reader' = cwUnpackObject(u, item, 0)
    BY <1>2, <1>9, <1>11, <2>4
  <2>6. stream[(b + m) - 1] = CWP_ITEM_ARRAY(dim) /\ r.pos = b + m /\ item = stream[b + m]
    BY <1>8, <1>13, <1>16, <2>1
  <2>7. /\ Packed(P, h, stream, b, m, parts) /\ Core(stream, (b + m) - 1, parts)
        /\ l \in Int /\ ((m = 1 /\ l = 0) \/ (m = 3 /\ LabelledAt(stream, b, parts, l)))
        /\ r \in Readers(n) /\ ~r.raised /\ n \in Nat /\ dim \in Places
    BY <1>3, <1>9, <1>10, <1>16
  <2>8. LET a == ReferTo(Make(r, "array", "none"), l)
            v == Call(GoOn(a, [call |-> "array", object |-> Newest(a), left |-> dim]),
                      NextObjectSub(0))
            t == cwUnpackObject(v, stream[b + m], 0)
        IN  t.rc = CWP_RC_OK /\ ~t.raised /\ InStep(P, h, stream, w, t)
    BY <1>12, <1>13, <2>6, <2>7, ContainerRead
  <2>9. reader' = cwUnpackObject(u, stream[b + m], 0)
    BY <2>5, <2>6
  <2>10. reader'.rc = CWP_RC_OK /\ ~reader'.raised /\ InStep(P, h, stream, w, reader')
    BY ONLY <2>8, <2>9
  <2> QED
    BY <1>14, <2>10
\* A reference.
<1>17. CASE l = 0 /\ b = c /\ m = 2
  <2>1. stream[b] = CWP_ITEM_ARRAY(1) /\ b + 1 \in Refs(stream)
    BY <1>10, <1>17 DEF Packed, Written
  <2>2. dim = 1 /\ item.type = "MARKER"
    <3>1. dim = 1
      BY <1>8, <1>17, <2>1 DEF CWP_ITEM_ARRAY
    <3>2. item.type = "MARKER"
      BY <1>17, <2>1 DEF Refs, Marks
    <3> QED
      BY <3>1, <3>2
  <2> DEFINE t == Reference(r, stream[b + 1].label)
  <2>3. reader' = t
    BY <1>2, <1>9, <1>11, <1>17, <2>2
  <2> HIDE DEF t
  <2>4. t.rc = CWP_RC_OK /\ ~t.raised /\ InStep(P, h, stream, w, t)
    <3>1. /\ Packed(P, h, stream, b, 2, parts) /\ r.pos = b + 1 /\ n \in Nat
          /\ r \in Readers(n) /\ ~r.raised
      BY <1>3, <1>10, <1>13, <1>17
    <3>2. LET v == Reference(r, stream[b + 1].label)
          IN  v.rc = CWP_RC_OK /\ ~v.raised /\ InStep(P, h, stream, w, v)
      BY <1>12, <1>13, <3>1, ReferenceRead
    <3> QED
      BY <3>2 DEF t
  <2> QED
    BY <1>14, <2>3, <2>4
\* A label of what is no object of a user class, ...
<1>18. ASSUME l = 0, b = c, m = 3, NEW x, LabelledAt(stream, b, parts, x)
       PROVE  Reading(P, h, stream, limit, reader')
  <2>1. /\ stream[b] = CWP_ITEM_ARRAY(2) /\ x \in Int /\ x < 0
        /\ stream[b + 1] = CWP_ITEM_OBJECT_MARKER(x)
    BY <1>18 DEF LabelledAt
  <2>2. dim = 2 /\ item.type = "MARKER" /\ item.label = x
    <3>1. dim = 2
      BY <1>8, <1>18, <2>1 DEF CWP_ITEM_ARRAY
    <3>2. item.type = "MARKER" /\ item.label = x
      BY <1>18, <2>1 DEF CWP_ITEM_OBJECT_MARKER
    <3> QED
      BY <3>1, <3>2
  <2>3. NextObjectSub(x) \in Frames(n)
    BY <1>3, <2>1, NextObjectFrame
  <2> DEFINE g == NextObjectSub(x)
             t == GoOn(r, g)
  <2>4. reader' = t
    BY <1>2, <1>9, <1>11, <2>1, <2>2
  <2> HIDE DEF item
  <2>5. /\ SameBut(r, t) /\ t.ret = NONE /\ t.stack = <<g>> \o Tail(r.stack)
    BY <1>3, <1>12, <2>3, GoOnFacts
  <2> HIDE DEF t, g
  <2>6. t.stack # <<>> /\ Head(t.stack) = g /\ Tail(t.stack) = Tail(r.stack)
    <3>1. g \in Frames(n) /\ Tail(r.stack) \in Seq(Frames(n))
      BY <1>3, <1>5, <2>3 DEF g
    <3> QED
      BY <1>3, <2>5, <3>1, OnTop
  <2>7. t.pos - 1 = b /\ t.rc = CWP_RC_OK /\ ~t.raised
    BY <1>3, <1>11, <1>13, <1>18, <2>5 DEF SameBut
  <2>8. Inside(P, h, stream, w, b, Tail(t.stack), t)
    BY <1>12, <2>5, <2>6 DEF Inside, SameBut
  <2>9. Labelled(P, h, stream, w, t)
    BY <1>10, <1>18, <2>5, <2>6, <2>7, <2>8 DEF Labelled, g
  <2> QED
    BY <1>14, <2>4, <2>7, <2>9 DEF InStep
\* ... or of what is.
<1>19. ASSUME l = 0, b = c, m = 3, NEW x, NEW name, UserAt(h, stream, b, parts, x, name)
       PROVE  Reading(P, h, stream, limit, reader')
  <2>1. /\ stream[b] = CWP_ITEM_ARRAY(2 + Len(parts)) /\ x \in Nat
        /\ stream[b + 1] = CWP_ITEM_OBJECT_MARKER(x)
    BY <1>19 DEF UserAt
  <2>2. Len(parts) \in Nat
    BY <1>10, <1>15, BlockFacts
  <2>3. dim - 2 = Len(parts) /\ dim # 1 /\ item.type = "MARKER" /\ item.label = x
    <3>1. dim = 2 + Len(parts)
      BY <1>8, <1>19, <2>1 DEF CWP_ITEM_ARRAY
    <3>2. item.type = "MARKER" /\ item.label = x
      BY <1>19, <2>1 DEF CWP_ITEM_OBJECT_MARKER
    <3> QED
      BY <2>2, <3>1, <3>2
  <2> DEFINE g == [call |-> "class", label |-> x, left |-> Len(parts)]
             a == GoOn(r, g)
             t == Call(a, NextObjectSub(0))
  <2>4. reader' = t
    <3>1. item.label >= 0
      BY <2>1, <2>3
    <3>2. reader' = Call(GoOn(r, [call |-> "class", label |-> item.label, left |-> dim - 2]),
                         NextObjectSub(0))
      BY <1>2, <1>9, <1>11, <2>3, <3>1
    <3> QED
      BY <2>3, <3>2
  <2> HIDE DEF item
  <2>5. g \in Frames(n) /\ NextObjectSub(0) \in Frames(n)
    <3>1. x \in Int /\ Len(parts) \in Int
      BY <2>1, <2>2
    <3>2. g \in Frames(n)
      BY <3>1 DEF Frames
    <3> QED
      BY <1>3, <3>2, NextObjectFrame
  <2> HIDE DEF g
  <2>6. a \in Readers(n) /\ SameBut(r, a) /\ a.stack = <<g>> \o Tail(r.stack)
    BY <1>3, <1>12, <2>5, GoOnFacts
  <2> HIDE DEF a
  <2>7. SameBut(a, t) /\ t.ret = NONE /\ t.stack = <<NextObjectSub(0)>> \o a.stack
    BY <1>3, <2>5, <2>6, CallFacts
  <2> HIDE DEF t
  <2>8. /\ a.stack \in Seq(Frames(n)) /\ a.stack # <<>> /\ Head(a.stack) = g
        /\ Tail(a.stack) = Tail(r.stack)
    BY <1>3, <1>5, <2>5, <2>6, OnTop
  <2>9. t.stack # <<>> /\ Head(t.stack) = NextObjectSub(0) /\ Tail(t.stack) = a.stack
    BY <1>3, <2>5, <2>7, <2>8, OnTop
  <2>10. t.pos - 1 = b /\ t.rc = CWP_RC_OK /\ ~t.raised
    BY <1>3, <1>11, <1>13, <1>19, <2>6, <2>7 DEF SameBut
  <2>11. Inside(P, h, stream, w, b, Tail(Tail(t.stack)), t)
    <3>1. Tail(Tail(t.stack)) = Tail(r.stack)
      BY <2>8, <2>9
    <3>2. t.userReferences = r.userReferences /\ t.packerReferences = r.packerReferences
      BY <2>6, <2>7 DEF SameBut
    <3> QED
      BY <1>12, <3>1, <3>2 DEF Inside
  <2>12. Head(Tail(t.stack)) = [call |-> "class", label |-> x, left |-> Len(parts)]
         /\ Tail(t.stack) # <<>>
    BY <2>8, <2>9 DEF g
  <2>13. Naming(P, h, stream, w, t)
    BY <1>10, <1>19, <2>7, <2>9, <2>10, <2>11, <2>12 DEF Naming
  <2> QED
    BY <1>14, <2>4, <2>10, <2>13 DEF InStep
<1>20. CASE l = 0 /\ b = c /\ m = 1
  <2>1. Core(stream, b, parts) /\ (b + m) - 1 = c
    BY <1>10, <1>20, WrittenItems
  <2> QED
    BY <1>16, <1>20, <2>1
<1>21. CASE l = 0 /\ b = c /\ m = 3
  <2>1. \/ \E x : LabelledAt(stream, b, parts, x)
        \/ \E x, name : UserAt(h, stream, b, parts, x, name)
    BY <1>10, <1>21 DEF Packed, Written
  <2> QED
    BY <1>18, <1>19, <1>21, <2>1
<1>22. CASE b = c - 2 /\ m = 3 /\ LabelledAt(stream, b, parts, l)
  <2>1. (b + m) - 1 = c /\ b + 2 = c
    BY <1>10, <1>11, <1>22
  <2>2. Core(stream, c, parts)
    BY <1>22, <2>1 DEF LabelledAt
  <2> QED
    BY <1>16, <1>22, <2>1, <2>2
<1>23. m = 1 \/ m = 2 \/ m = 3
  BY <1>10
<1> QED
  BY <1>10, <1>17, <1>20, <1>21, <1>22, <1>23

\* Sets, which cannot take what the end makes of a member, are read whole.
SetsWhole(s, l) == l < Len(s) => \A k \in 1 .. l : s[k] # CWP_ITEM_STR("NSSet")

\* ClassName finds the class of the object that was packed, or the end.
LEMMA ClassReads ==
    ASSUME Agreed, NEW P, NEW h, Finished(P, h, stream), Legible(stream, limit),
           SetsWhole(stream, limit), CleanReader(stream, limit, reader),
           Reading(P, h, stream, limit, reader), ClassName
    PROVE  Reading(P, h, stream, limit, reader')
<1> DEFINE n     == Len(reader.made)
           st    == reader.stack
           w     == limit = Len(stream)
           c     == reader.pos
           fs    == Tail(st)
           us    == reader.userReferences
           ps    == reader.packerReferences
           named == reader.ret > 0 /\ reader.made[reader.ret].class = "string"
           name  == IF named THEN reader.made[reader.ret].value ELSE "none"
           label == Head(st).label
           left  == Head(st).left
<1>1. st # <<>> /\ Head(st).call = "class"
  BY DEF ClassName, Running
<1>2. /\ n \in Nat /\ reader \in Readers(n) /\ Clean(reader.made) /\ c \in Nat /\ c <= limit
      /\ Head(st) \in Frames(n) /\ fs \in Seq(Frames(n)) /\ st \in Seq(Frames(n))
  BY <1>1, CleanFacts
<1>3. limit \in Nat /\ Len(stream) \in Nat /\ limit <= Len(stream) /\ stream \in Seq(Items)
  BY PlanFacts DEF Legible
<1> HIDE DEF n
<1>4. /\ \/ ~named /\ reader.ret # NIL
         \/ /\ label = Len(us) /\ ClassMade(n, reader, name, left, Append(us, n + 1), reader')
         \/ label # 0 /\ label # Len(us)
         \/ /\ label = 0 /\ ClassMade(n, reader, name, left, us, reader')
      /\ named \/ reader.ret = NIL => reader'.raised = reader.raised
  BY <1>2, ClassNameFacts DEF Frame
<1>5. n + 1 \in Nat /\ fs \in Seq(Frames(n + 1))
  <2>1. Seq(Frames(n)) \subseteq Seq(Frames(n + 1))
    BY <1>2, MoreMade, SeqMonotonic, Zenon
  <2>2. fs \in Seq(Frames(n + 1))
    BY <1>2, <2>1, Zenon
  <2> QED
    BY <1>2, <2>2
<1>6. us \in Seq(Returns(n)) /\ ps \in Seq(Returns(n))
  BY <1>2 DEF Readers
<1> HIDE DEF w
<1>7. CASE reader.rc = CWP_RC_OK
  <2>1. ~reader.raised /\ InStep(P, h, stream, w, reader)
    BY <1>7 DEF Reading, ClassName, Running, CWP_RC_OK, CWP_RC_END_OF_INPUT, w
  <2>2. NameRead(P, h, stream, w, reader)
    BY <1>1, <1>2, <2>1, AtCall
  <2> DEFINE b == c - 2
  <2>3. /\ Inside(P, h, stream, w, b, fs, reader) /\ named
    BY <2>2 DEF NameRead
  <2>4. PICK l, parts :
           /\ Head(st) = [call |-> "class", label |-> l, left |-> Len(parts)]
           /\ Packed(P, h, stream, b, 3, parts)
           /\ UserAt(h, stream, b, parts, l, reader.made[reader.ret].value)
    BY <2>2 DEF NameRead
  <2>5. label = l /\ left = Len(parts)
    <3> DEFINE g == Head(st)
    <3>1. g = [call |-> "class", label |-> l, left |-> Len(parts)]
      BY <2>4
    <3> HIDE DEF g
    <3>2. g.label = l /\ g.left = Len(parts)
      BY <3>1
    <3> QED
      BY <3>2 DEF g
  <2>6. name = reader.made[reader.ret].value
    BY <2>3
  <2> HIDE DEF name, label, left, named, b
  <2>7. b \in DOMAIN P /\ P[b] # <<>> /\ Entries(stream, b, us, ps)
    BY <2>3 DEF Inside
  <2>8. UserAt(h, stream, b, parts, l, name)
    BY <2>4, <2>6
  <2>9. /\ l \in Nat /\ Len(us) \in Nat \ {0} /\ (l = 0 \/ l = Len(us))
        /\ l = 0 => Entries(stream, b + 3, us, ps)
        /\ l # 0 => Entries(stream, b + 3, Append(us, n + 1), ps)
    BY <1>2, <1>3, <1>6, <2>4, <2>7, <2>8, UserEntered
  <2>10. Len(parts) \in Nat /\ parts \in Seq(Packable)
    BY <2>4, <2>7, BlockFacts
  <2>11. stream[c] = CWP_ITEM_STR(name) /\ Suits(h, name, parts)
    BY <1>2, <2>8 DEF UserAt, b
  <2>12. ASSUME NEW refs, ClassMade(n, reader, name, left, refs, reader'),
                Entries(stream, b + 3, refs, ps)
         PROVE  Reading(P, h, stream, limit, reader')
    <3>1. PICK g \in Frames(n + 1) :
             /\ g.call \in {"set", "user", "generic"}
             /\ name = "NSSet" => g.call = "set" /\ g.left = left
             /\ name # "NSSet" /\ name \in DOMAIN KnownClasses =>
                  g.call = "user" /\ g.reads = KnownClasses[name]
             /\ name # "NSSet" /\ name \notin DOMAIN KnownClasses =>
                  g.call = "generic" /\ g.left = left
             /\ reader'.stack = <<g>> \o fs /\ reader'.ret = NONE
             /\ reader'.pos = c /\ reader'.rc = reader.rc /\ reader'.raised = reader.raised
             /\ reader'.userReferences = refs /\ reader'.packerReferences = ps
      BY <2>12 DEF ClassMade
    <3>2. g.call \in Loops \cup {"user"}
      BY <3>1 DEF Loops
    <3>3. Count(g) = Len(parts)
      BY <2>5, <2>11, <3>1 DEF Count, Suits
    <3>4. g.call = "set" => w /\ \A j \in 1 .. Len(parts) : Firm(h, parts[j])
      <4>1. ASSUME g.call = "set" PROVE name = "NSSet"
        BY <3>1, <4>1
      <4>2. ASSUME name = "NSSet" PROVE w
        <5>1. c \in 1 .. limit
          <6>1. b \in 1 .. Len(stream)
            BY <2>4, <2>7, BlockFacts
          <6> QED
            BY <1>2, <1>3, <6>1 DEF b
        <5> QED
          BY <1>3, <2>11, <4>2, <5>1 DEF SetsWhole, w
      <4> QED
        BY <2>11, <4>1, <4>2 DEF Suits
    <3>5. g.call = "user" => \A j \in 1 .. Len(parts) : g.reads[j] = "number" => parts[j] = Raw
      <4>1. ASSUME g.call = "user" PROVE name \in DOMAIN KnownClasses /\ g.reads = KnownClasses[name]
        BY <3>1, <4>1
      <4> QED
        BY <2>11, <4>1 DEF Suits
    <3> DEFINE q == P[b + 3]
               lo == Len(P[b]) - 1
               e == n + 1
    <3>6. /\ b + 3 \in DOMAIN P
          /\ Consumes(h, w, g, 0, q, lo, Len(q)) /\ Waiting(h, w, fs, q, lo)
      <4> DEFINE three == 3
      <4>1. Packed(P, h, stream, b, three, parts) /\ e \in Nat /\ g \in Frames(e)
        BY <1>5, <2>4
      <4> HIDE DEF three, e
      <4>2. /\ b + three \in DOMAIN P
            /\ Consumes(h, w, g, 0, P[b + three], lo, Len(P[b + three]))
            /\ Waiting(h, w, fs, P[b + three], lo)
        BY <1>2, <2>3, <3>2, <3>3, <3>4, <3>5, <4>1, PartEntered
      <4> QED
        BY <4>2 DEF three
    <3>7. reader'.pos + 1 = b + 3
      BY <1>2, <3>1 DEF b
    <3>8. reader'.stack # <<>> /\ Head(reader'.stack) = g /\ Tail(reader'.stack) = fs
      BY <1>5, <3>1, OnTop
    <3> HIDE DEF lo
    <3>9. Taken(P, h, stream, w, reader')
      <4>1. Entries(stream, reader'.pos + 1, reader'.userReferences, reader'.packerReferences)
        BY <2>12, <3>1, <3>7
      <4>2. /\ Consumes(h, w, Head(reader'.stack), 0, P[reader'.pos + 1], lo,
                        Len(P[reader'.pos + 1]))
            /\ Waiting(h, w, Tail(reader'.stack), P[reader'.pos + 1], lo)
        BY <3>6, <3>7, <3>8
      <4> QED
        BY <3>1, <3>6, <3>7, <3>8, <4>1, <4>2 DEF Taken
    <3> QED
      BY <1>7, <2>1, <3>1, <3>9 DEF Reading, InStep, w
  <2> QED
    BY <1>4, <2>3, <2>5, <2>9, <2>12
<1>8. CASE reader.rc # CWP_RC_OK
  <2>1. reader.rc = CWP_RC_END_OF_INPUT /\ Ended(limit, reader) /\ ~reader.raised
    BY <1>8 DEF Reading, ClassName, Running
  <2>2. ~Harmless(st)
    BY <1>1, <1>2, HarmlessOnTop
  <2>3. c = limit /\ reader.ret = NIL /\ (label = 0 \/ label = Len(us)) /\ Harmless(fs)
    BY <2>1, <2>2 DEF Ended
  <2>4. ~named
    BY <2>3 DEF NIL
  <2>5. name = "none"
    BY <2>4
  <2> HIDE DEF name, named
  <2>6. PICK refs : ClassMade(n, reader, name, left, refs, reader')
    BY <1>4, <2>3, <2>4
  <2>7. PICK g \in Frames(n + 1) :
           /\ g.call \in {"user", "generic"} /\ reader'.stack = <<g>> \o fs
           /\ reader'.pos = c /\ reader'.rc = reader.rc /\ reader'.raised = reader.raised
    BY <2>5, <2>6 DEF ClassMade
  <2>8. Harmless(<<g>> \o fs)
    BY <1>5, <2>3, <2>7, HarmlessOnTop
  <2>9. Ended(limit, reader')
    BY <2>3, <2>7, <2>8 DEF Ended
  <2> QED
    BY <2>1, <2>7, <2>9 DEF Reading
<1> QED
  BY <1>7, <1>8

-------------------------------------------------------------------------------
(* The calls that take what was read.                                      *)

\* A call that has not got all its parts asks for the next.
LEMMA AskedFor ==
    ASSUME NEW P, NEW h, NEW s, NEW w, Finished(P, h, s), NEW n \in Nat, NEW r \in Readers(n),
           Taken(P, h, s, w, r), Count(Head(r.stack)) > 0,
           NEW t, SameBut(r, t), t.stack = <<NextObjectSub(0)>> \o r.stack, t.ret = NONE
    PROVE  Asking(P, h, s, w, t)
<1> DEFINE k  == r.pos + 1
           q  == P[k]
           st == r.stack
           f  == Head(st)
           fs == Tail(st)
<1>1. /\ k \in DOMAIN P /\ Entries(s, k, r.userReferences, r.packerReferences) /\ st # <<>>
      /\ \E lo : Consumes(h, w, f, 0, q, lo, Len(q)) /\ Waiting(h, w, fs, q, lo)
  BY DEF Taken
<1>2. PICK lo : Consumes(h, w, f, 0, q, lo, Len(q)) /\ Waiting(h, w, fs, q, lo)
  BY <1>1
<1>3. st \in Seq(Frames(n))
  BY DEF Readers
<1>4. f \in Frames(n) /\ fs \in Seq(Frames(n)) /\ st = <<f>> \o fs
  BY <1>1, <1>3, TopGone, StackSplit
<1>5. q \in Seq(Packable) /\ t.pos = r.pos
  BY <1>1, PlanFacts DEF SameBut
<1> HIDE DEF k, q, f, fs
<1>6. Count(f) > 0
  BY DEF f
<1>7. /\ Len(q) \in Nat \ {0} /\ Consumes(h, w, f, 1, q, lo, Len(q) - 1)
      /\ f.call = "set" => Firm(h, Due(q, Len(q)))
  BY <1>2, <1>4, <1>6, ConsumesAsks
<1>8. q # <<>>
  BY <1>5, <1>7
<1>9. Due(q, Len(q)) = Head(q)
  BY <1>5, <1>8, DueFirst
<1>10. Len(q) - 1 <= Len(q)
  BY <1>7
<1>11. Waiting(h, w, <<f>> \o fs, q, Len(q) - 1)
  BY <1>2, <1>4, <1>7, <1>10, WaitingMore
<1>12. Waiting(h, w, st, q, Len(q) - 1)
  BY <1>4, <1>11
<1>13. Inside(P, h, s, w, k, st, t)
  <2>1. Head(st).call = "set" => Firm(h, Head(q))
    BY <1>7, <1>9 DEF f
  <2> QED
    BY <1>1, <1>8, <1>12, <2>1 DEF Inside, SameBut, q
<1>14. t.stack # <<>> /\ Head(t.stack) = NextObjectSub(0) /\ Tail(t.stack) = st
  <2>1. NextObjectSub(0) \in Frames(n)
    BY NextObjectFrame
  <2> QED
    BY <1>3, <2>1, OnTop
<1> QED
  BY <1>5, <1>13, <1>14 DEF Asking, k

\* A call that has got them all returns its object.
LEMMA AllTaken ==
    ASSUME NEW P, NEW h, NEW s, NEW w, NEW n \in Nat, NEW r \in Readers(n),
           Finished(P, h, s), Taken(P, h, s, w, r), ~(Count(Head(r.stack)) > 0),
           NEW t, SameBut(r, t), t.stack = Tail(r.stack), t.ret \in Nat \ {0}
    PROVE  Between(P, h, s, w, t)
<1> DEFINE k  == r.pos + 1
           q  == P[k]
           f  == Head(r.stack)
           fs == Tail(r.stack)
<1>1. /\ k \in DOMAIN P /\ Entries(s, k, r.userReferences, r.packerReferences) /\ r.stack # <<>>
      /\ \E lo : Consumes(h, w, f, 0, q, lo, Len(q)) /\ Waiting(h, w, fs, q, lo)
  BY DEF Taken
<1>2. PICK lo : Consumes(h, w, f, 0, q, lo, Len(q)) /\ Waiting(h, w, fs, q, lo)
  BY <1>1
<1>3. r.stack \in Seq(Frames(n))
  BY DEF Readers
<1>4. f \in Frames(n)
  BY <1>1, <1>3, TopGone
<1>5. t.ret # NONE /\ NullToNil(t.ret) # NIL /\ t.pos = r.pos
  BY DEF NONE, NullToNil, NSNull, NIL, SameBut
<1>6. ~(Count(f) > 0)
  OBVIOUS
<1> HIDE DEF k, q, f, fs
<1>7. f.call \in Loops \cup {"user"} /\ lo \in Nat /\ Len(q) \in Nat /\ 0 <= Count(f)
      /\ lo + Count(f) = Len(q) + 0
  BY <1>2 DEF Consumes
<1>8. Count(f) \in Int
  BY <1>4, <1>7, CountIs
<1>9. lo = Len(q)
  BY <1>6, <1>7, <1>8
<1> QED
  BY <1>1, <1>2, <1>5, <1>9 DEF Between, SameBut, k, q, fs

\* A call that waits for a part takes it and goes on.
LEMMA OneTaken ==
    ASSUME NEW P, NEW h, NEW s, NEW w, NEW n \in Nat, NEW r \in Readers(n),
           Finished(P, h, s), Between(P, h, s, w, r), r.stack # <<>>,
           NEW g \in Frames(n), g.call = Head(r.stack).call,
           g.call \in Loops => g.left = Head(r.stack).left - 1,
           g.call = "user" => g.reads = Tail(Head(r.stack).reads),
           NEW i, NEW u, Carried(i, r, g, u)
    PROVE  Taken(P, h, s, w, u)
<1> DEFINE k  == r.pos + 1
           q  == P[k]
           st == r.stack
           f  == Head(st)
           fs == Tail(st)
<1>1. /\ k \in DOMAIN P /\ Entries(s, k, r.userReferences, r.packerReferences)
      /\ Waiting(h, w, st, q, Len(q))
  BY DEF Between
<1>2. st \in Seq(Frames(n)) /\ q \in Seq(Packable)
  BY <1>1, PlanFacts DEF Readers
<1>3. f \in Frames(n) /\ fs \in Seq(Frames(n))
  BY <1>2, TopGone
<1>4. /\ u.stack = <<g>> \o fs /\ u.ret = NONE /\ u.pos = r.pos
      /\ u.userReferences = r.userReferences /\ u.packerReferences = r.packerReferences
  BY DEF Carried
<1>5. /\ g.call = f.call
      /\ f.call \in Loops => g.left = f.left - 1
  OBVIOUS
<1>6. f.call = "user" => g.reads = Tail(f.reads)
  OBVIOUS
<1> HIDE DEF k, q
<1>7. PICK lo \in Nat : /\ Consumes(h, w, f, 1, q, lo, Len(q)) /\ Waiting(h, w, fs, q, lo)
  BY <1>1, <1>2, WaitingLess
<1> HIDE DEF f, fs, st
<1>8. Consumes(h, w, g, 0, q, lo, Len(q))
  BY <1>3, <1>5, <1>6, <1>7, ConsumesTaken
<1>9. u.stack # <<>> /\ Head(u.stack) = g /\ Tail(u.stack) = fs
  BY <1>3, <1>4, OnTop
<1> QED
  BY <1>1, <1>4, <1>7, <1>8, <1>9 DEF Taken, k, q

\* After the end, calls go on and return as they do without.
LEMMA EndStays ==
    ASSUME NEW l, NEW n \in Nat, NEW r \in Readers(n), Ended(l, r), r.stack # <<>>,
           Head(r.stack).call \in Loops \cup {"user"}
    PROVE  /\ Head(r.stack).call # "set"
           /\ \A t : t.pos = r.pos =>
                /\ t.stack = Tail(r.stack) => Ended(l, t)
                /\ t.stack = <<NextObjectSub(0)>> \o r.stack => Ended(l, t)
                /\ \A g \in Frames(n) :
                     g.call = Head(r.stack).call /\ t.stack = <<g>> \o Tail(r.stack) => Ended(l, t)
<1> DEFINE st == r.stack
           fs == Tail(st)
           f  == Head(st)
<1>1. st \in Seq(Frames(n))
  BY DEF Readers
<1>2. fs \in Seq(Frames(n))
  BY <1>1, TopGone
<1>3. Harmless(st)
  BY DEF Ended, Loops
<1>4. /\ Harmless(fs)
      /\ f.call \in {"cwUnpackNextObjectSub", "array", "map", "generic", "user"}
  BY <1>1, <1>3, HarmlessOnTop
<1>5. Harmless(<<NextObjectSub(0)>> \o st)
  <2> DEFINE g == NextObjectSub(0)
  <2>1. g \in Frames(n) /\ g.call = "cwUnpackNextObjectSub"
    BY NextObjectFrame
  <2> HIDE DEF g
  <2>2. Harmless(<<g>> \o st)
    BY <1>1, <1>3, <2>1, HarmlessOnTop
  <2> QED
    BY <2>2 DEF g
<1>6. ASSUME NEW g \in Frames(n), g.call = f.call PROVE Harmless(<<g>> \o fs)
  BY <1>2, <1>4, <1>6, HarmlessOnTop
<1>7. r.pos = l
  BY DEF Ended
<1> QED
  BY <1>3, <1>4, <1>5, <1>6, <1>7 DEF Ended

\* The loops over the parts of a container take what was packed as its parts.
LEMMA LoopReads ==
    ASSUME NEW P, NEW h, Finished(P, h, stream), CleanReader(stream, limit, reader),
           Reading(P, h, stream, limit, reader),
           NextPart \/ TakePart \/ TakeKeyOrValue \/ TakeMember
    PROVE  Reading(P, h, stream, limit, reader')
<1> DEFINE n == Len(reader.made)
           w == limit = Len(stream)
           f == Frame
<1>1. reader.stack # <<>> /\ f.call \in Loops /\ f = Head(reader.stack)
  BY DEF NextPart, TakePart, TakeKeyOrValue, TakeMember, Running, Loops, Frame
<1>2. /\ n \in Nat /\ reader \in Readers(n) /\ reader.ret \in Int /\ f \in Frames(n)
      /\ reader.stack \in Seq(Frames(n)) /\ Tail(reader.stack) \in Seq(Frames(n))
  BY <1>1, CleanFacts DEF Frame
<1> HIDE DEF n, w
<1>3. /\ ~reader.raised
      /\ \/ reader.rc = CWP_RC_OK /\ InStep(P, h, stream, w, reader)
         \/ reader.rc = CWP_RC_END_OF_INPUT /\ Ended(limit, reader)
  BY DEF Reading, w, NextPart, TakePart, TakeKeyOrValue, TakeMember, Running
<1>4. f.object \in 1 .. n /\ f.left \in Int /\ (f.call = "map" => f.key \in Returns(n))
      /\ reader.ret \in Returns(n)
  BY <1>1, <1>2, FrameForms DEF Readers
<1>5. /\ OneLess \in Frames(n) /\ OneLess.call = f.call /\ OneLess.left = f.left - 1
      /\ \A v \in Returns(n) : f.call = "map" =>
            LET e == [OneLess EXCEPT !.key = v]
            IN  e \in Frames(n) /\ e.call = f.call /\ e.left = f.left - 1
  BY <1>1, <1>2, LessFrame DEF OneLess
<1>6. "user" \notin Loops /\ f.call # "user"
  BY <1>1 DEF Loops
<1>7. ASSUME NEW g \in Frames(n), g.call = f.call, g.left = f.left - 1,
             NEW i \in {n, n + 1}, NEW u, Carried(i, reader, g, u), reader.ret # NONE
      PROVE  Reading(P, h, stream, limit, u)
  <2>1. ~u.raised /\ u.rc = reader.rc /\ u.pos = reader.pos
        /\ u.stack = <<g>> \o Tail(reader.stack)
    BY <1>3, <1>7 DEF Carried
  <2>2. CASE reader.rc = CWP_RC_OK /\ InStep(P, h, stream, w, reader)
    <3>1. Between(P, h, stream, w, reader)
      BY <1>1, <1>2, <1>7, <2>2, AtCall
    <3>2. Taken(P, h, stream, w, u)
      BY <1>1, <1>2, <1>6, <1>7, <3>1, OneTaken
    <3> QED
      BY <2>1, <2>2, <3>2 DEF Reading, InStep, w
  <2>3. CASE reader.rc = CWP_RC_END_OF_INPUT /\ Ended(limit, reader)
    <3>1. Ended(limit, u)
      BY <1>1, <1>2, <1>7, <2>1, <2>3, EndStays
    <3> QED
      BY <2>1, <2>3, <3>1 DEF Reading
  <2> QED
    BY <1>3, <2>2, <2>3
<1>8. ASSUME NEW g \in Frames(n), g.call = f.call, g.left = f.left - 1, reader.ret # NONE
      PROVE  /\ Reading(P, h, stream, limit, GoOn(reader, g))
             /\ \A k : \A v \in Int :
                  Reading(P, h, stream, limit, AddPart(GoOn(reader, g), k, v))
  BY <1>1, <1>2, <1>7, <1>8, PartTaken
<1>9. CASE NextPart
  <2>1. /\ reader.ret = NONE
        /\ reader' = IF f.left > 0 THEN Call(reader, NextObjectSub(0)) ELSE Return(reader, f.object)
    BY <1>9 DEF NextPart
  <2>2. Count(f) = f.left
    BY <1>6 DEF Count
  <2>3. CASE f.left > 0
    <3> DEFINE g == NextObjectSub(0)
    <3>1. g \in Frames(n)
      BY <1>2, NextObjectFrame
    <3> HIDE DEF g
    <3>2. SameBut(reader, reader') /\ reader'.ret = NONE /\ reader'.stack = <<g>> \o reader.stack
      BY <1>2, <2>1, <2>3, <3>1, CallFacts DEF g
    <3>3. reader'.stack = <<NextObjectSub(0)>> \o reader.stack /\ reader'.rc = reader.rc
          /\ ~reader'.raised /\ reader'.pos = reader.pos
      BY <1>3, <3>2 DEF g, SameBut
    <3>4. CASE reader.rc = CWP_RC_OK /\ InStep(P, h, stream, w, reader)
      <4>1. Taken(P, h, stream, w, reader) /\ Count(Head(reader.stack)) > 0
        BY <1>1, <1>2, <2>1, <2>2, <2>3, <3>4, AtCall
      <4>2. Asking(P, h, stream, w, reader')
        BY <1>2, <3>2, <3>3, <4>1, AskedFor
      <4> QED
        BY <3>3, <3>4, <4>2 DEF Reading, InStep, w
    <3>5. CASE reader.rc = CWP_RC_END_OF_INPUT /\ Ended(limit, reader)
      <4>1. Ended(limit, reader')
        BY <1>1, <1>2, <3>3, <3>5, EndStays
      <4> QED
        BY <3>3, <3>5, <4>1 DEF Reading
    <3> QED
      BY <1>3, <3>4, <3>5
  <2>4. CASE ~(f.left > 0)
    <3>1. f.object \in Returns(n) /\ f.object \in Nat \ {0}
      BY <1>2, <1>4 DEF Returns
    <3>2. SameBut(reader, reader') /\ reader'.ret = f.object /\ reader'.stack = Tail(reader.stack)
      BY <1>1, <1>2, <2>1, <2>4, <3>1, ReturnFacts
    <3>3. reader'.rc = reader.rc /\ ~reader'.raised /\ reader'.pos = reader.pos
      BY <1>3, <3>2 DEF SameBut
    <3>4. CASE reader.rc = CWP_RC_OK /\ InStep(P, h, stream, w, reader)
      <4>1. Taken(P, h, stream, w, reader) /\ ~(Count(Head(reader.stack)) > 0)
        BY <1>1, <1>2, <2>1, <2>2, <2>4, <3>4, AtCall
      <4>2. Between(P, h, stream, w, reader')
        BY <1>2, <3>1, <3>2, <4>1, AllTaken
      <4> QED
        BY <3>3, <3>4, <4>2 DEF Reading, InStep, w
    <3>5. CASE reader.rc = CWP_RC_END_OF_INPUT /\ Ended(limit, reader)
      <4>1. Ended(limit, reader')
        BY <1>1, <1>2, <3>2, <3>3, <3>5, EndStays
      <4> QED
        BY <3>3, <3>5, <4>1 DEF Reading
    <3> QED
      BY <1>3, <3>4, <3>5
  <2> QED
    BY <2>3, <2>4
<1>10. CASE TakePart
  <2>1. /\ reader.ret # NONE
        /\ \/ reader' = GoOn(reader, OneLess)
           \/ reader' = AddPart(GoOn(reader, OneLess), f.object, reader.ret)
    BY <1>10 DEF TakePart
  <2> QED
    BY <1>2, <1>5, <1>8, <2>1
<1>11. CASE TakeKeyOrValue
  <2>1. f.call = "map" /\ NONE \in Returns(n) /\ reader.ret # NONE
    BY <1>2, <1>11 DEF TakeKeyOrValue, Running, Frame, NONE, Returns
  <2> DEFINE e(v) == [OneLess EXCEPT !.key = v]
             t    == [reader EXCEPT !.raised = TRUE]
  <2>2. \A v \in Returns(n) : e(v) \in Frames(n) /\ e(v).call = f.call /\ e(v).left = f.left - 1
    BY <1>5, <2>1
  <2>3. \/ reader' = GoOn(reader, e(reader.ret))
        \/ reader' = GoOn(reader, e(NONE))
        \/ /\ f.key # NONE /\ reader.rc = CWP_RC_OK /\ ~Copies(reader, f.key)
           /\ reader' = t
        \/ reader' \in SetObject(GoOn(reader, e(NONE)), f.object, f.key, reader.ret)
    BY <1>11 DEF TakeKeyOrValue
  <2> HIDE DEF e
  <2>4. f.key \in Returns(n)
    BY <1>4, <2>1
  <2>5. ASSUME reader' \in SetObject(GoOn(reader, e(NONE)), f.object, f.key, reader.ret)
        PROVE  Reading(P, h, stream, limit, reader')
    <3>1. PICK i \in {n, n + 1} : Carried(i, reader, e(NONE), reader')
      BY <1>1, <1>2, <2>1, <2>2, <2>4, <2>5, KeyTaken
    <3>2. e(NONE) \in Frames(n) /\ e(NONE).call = f.call /\ e(NONE).left = f.left - 1
      BY <2>1, <2>2
    <3> QED
      BY <1>7, <2>1, <3>1, <3>2
  <2>6. ASSUME f.key # NONE, reader.rc = CWP_RC_OK, ~Copies(reader, f.key), reader' = t
        PROVE  Reading(P, h, stream, limit, reader')
    <3>1. /\ t.pos = reader.pos /\ t.rc = reader.rc /\ t.stack = reader.stack
          /\ t.ret = reader.ret /\ t.made = reader.made
          /\ t.userReferences = reader.userReferences
          /\ t.packerReferences = reader.packerReferences
      BY <1>2 DEF Readers
    <3> HIDE DEF t
    <3>2. KeyRefused(t)
      BY <1>1, <2>1, <2>6, <3>1 DEF KeyRefused, Copies
    <3>3. InStep(P, h, stream, w, reader)
      BY <1>3, <2>6 DEF CWP_RC_OK, CWP_RC_END_OF_INPUT
    <3>4. Between(P, h, stream, w, reader)
      BY <1>1, <1>2, <2>1, <3>3, AtCall
    <3>5. Between(P, h, stream, w, t)
      BY <3>1, <3>4 DEF Between
    <3> QED
      BY <2>6, <3>1, <3>2, <3>5 DEF Reading, InStep, w
  <2> HIDE DEF t
  <2> QED
    BY <1>4, <1>8, <2>1, <2>2, <2>3, <2>5, <2>6
<1>12. CASE TakeMember
  <2>1. /\ f.call = "set" /\ reader.ret # NONE
        /\ \/ NullToNil(reader.ret) = NIL
           \/ reader' = GoOn(reader, OneLess)
           \/ reader' = AddPart(GoOn(reader, OneLess), f.object, reader.ret)
    BY <1>12 DEF TakeMember, Running, Frame
  <2>2. NullToNil(reader.ret) # NIL
    <3>1. CASE reader.rc = CWP_RC_OK /\ InStep(P, h, stream, w, reader)
      <4>1. Between(P, h, stream, w, reader)
        BY <1>1, <1>2, <2>1, <3>1, AtCall
      <4> QED
        BY <1>1, <2>1, <4>1 DEF Between
    <3>2. CASE reader.rc = CWP_RC_END_OF_INPUT /\ Ended(limit, reader)
      BY <1>1, <1>2, <2>1, <3>2, EndStays
    <3> QED
      BY <1>3, <3>1, <3>2
  <2> QED
    BY <1>2, <1>5, <1>8, <2>1, <2>2
<1> QED
  BY <1>9, <1>10, <1>11, <1>12

\* A class of the client reads the number that was packed, ...
LEMMA NumberRead ==
    ASSUME NEW P, NEW h, NEW s, NEW w, Finished(P, h, s), NEW n \in Nat, NEW r \in Readers(n),
           Taken(P, h, s, w, r), Head(r.stack).call = "user", Head(r.stack).reads # <<>>,
           Head(Head(r.stack).reads) = "number"
    PROVE  /\ r.pos + 1 \in 1 .. Len(s) /\ s[r.pos + 1] = CWP_ITEM_VALUE(Raw)
           /\ ~w => Harmless(Tail(r.stack))
           /\ \A g \in Frames(n) : \A u :
                /\ g.call = "user" /\ g.reads = Tail(Head(r.stack).reads)
                /\ u.stack = <<g>> \o Tail(r.stack) /\ u.ret = NONE /\ u.pos = r.pos + 1
                /\ u.userReferences = r.userReferences /\ u.packerReferences = r.packerReferences
                => Taken(P, h, s, w, u)
<1> DEFINE k  == r.pos + 1
           q  == P[k]
           st == r.stack
           f  == Head(st)
           fs == Tail(st)
           us == r.userReferences
           ps == r.packerReferences
<1>1. k \in DOMAIN P /\ Entries(s, k, us, ps) /\ st # <<>>
  BY DEF Taken
<1>2. PICK lo : Consumes(h, w, f, 0, q, lo, Len(q)) /\ Waiting(h, w, fs, q, lo)
  BY DEF Taken
<1>3. st \in Seq(Frames(n)) /\ k \in Nat
  BY DEF Readers
<1>4. f \in Frames(n) /\ fs \in Seq(Frames(n))
  BY <1>1, <1>3, TopGone
<1>5. q \in Seq(Packable)
  BY <1>1, PlanFacts
<1>6. f.call = "user" /\ f.reads # <<>> /\ Head(f.reads) = "number"
  OBVIOUS
<1> HIDE DEF k, q, f, fs, st, us, ps
<1>7. Count(f) \in Nat \ {0}
  <2>1. f.reads \in Seq({"object", "number"})
    BY <1>4, <1>6, FrameForms
  <2>2. Len(f.reads) \in Nat \ {0}
    BY <1>6, <2>1, EmptySeq, LenProperties
  <2> QED
    BY <1>6, <2>2 DEF Count
<1>8. /\ Len(q) \in Nat \ {0} /\ Consumes(h, w, f, 1, q, lo, Len(q) - 1)
      /\ Due(q, Len(q)) = Raw
  BY <1>2, <1>4, <1>6, <1>7, ConsumesAsks
<1>9. q # <<>>
  BY <1>5, <1>8
<1>10. Head(q) = Raw
  BY <1>5, <1>8, <1>9, DueFirst
<1>11. PICK m, parts : Packed(P, h, s, k, m, parts)
  BY <1>1, <1>9, PlanFacts DEF q
<1>12. m = 1 /\ s[k] = CWP_ITEM_VALUE(Raw) /\ Core(s, k, parts) /\ parts \in Seq(Packable)
  BY <1>10, <1>11 DEF Packed, Written, q
<1>13. Len(parts) = 0
  BY <1>12, CoreParts
<1> DEFINE p == P[k + m]
<1>14. /\ k \in 1 .. Len(s) /\ k + m \in DOMAIN P /\ Len(p) = (Len(parts) + Len(q)) - 1
       /\ \A j \in 1 .. Len(q) - 1 : Due(p, j) = Due(q, j)
  BY <1>1, <1>9, <1>11, BlockFacts DEF q
<1>15. Entries(s, k + m, us, ps)
  <2>1. s \in Seq(Items) /\ k \in Int /\ k + m \in Int /\ k <= k + m
    BY <1>3, <1>12, PlanFacts
  <2>2. \A j \in Defs(s) : ~(k <= j /\ j < k + m)
    <3>1. \A j \in Defs(s) : k <= j /\ j < k + m => m = 3
      BY <1>1, <1>9, <1>11, BlockDefs DEF q
    <3> QED
      BY <1>12, <3>1
  <2> QED
    BY <1>1, <2>1, <2>2, EntriesOn
<1> HIDE DEF p
<1>16. Len(p) = Len(q) - 1 /\ Len(p) \in Nat
  BY <1>8, <1>13, <1>14
<1>17. ~w => Harmless(fs)
  BY <1>2, <1>4, WaitingHarmless
<1>18. lo \in Nat /\ lo <= Len(p)
  BY <1>2, <1>7, <1>8, <1>16 DEF Consumes
<1>19. Waiting(h, w, fs, p, lo)
  <2>1. \A j \in 1 .. lo : Due(p, j) = Due(q, j)
    BY <1>8, <1>14, <1>16, <1>18
  <2> QED
    BY <1>2, <1>4, <1>18, <2>1, WaitingMoved
<1>20. ASSUME NEW g \in Frames(n), NEW u, g.call = "user", g.reads = Tail(f.reads),
              u.stack = <<g>> \o fs, u.ret = NONE, u.pos = k,
              u.userReferences = us, u.packerReferences = ps
       PROVE  Taken(P, h, s, w, u)
  <2>1. "user" \notin Loops
    BY DEF Loops
  <2>2. Consumes(h, w, g, 0, q, lo, Len(q) - 1)
    BY <1>4, <1>6, <1>8, <1>20, <2>1, ConsumesTaken
  <2>3. Consumes(h, w, g, 0, p, lo, Len(p))
    <3>1. \A j \in lo + 1 .. Len(p) : Due(p, j) = Due(q, j)
      BY <1>14, <1>16, <1>18
    <3>2. Consumes(h, w, g, 0, q, lo, Len(p)) /\ 0 \in 0 .. 1
      BY <1>16, <2>2
    <3> HIDE DEF Consumes
    <3> QED
      BY <1>20, <3>1, <3>2, ConsumesMoved
  <2>4. u.stack # <<>> /\ Head(u.stack) = g /\ Tail(u.stack) = fs
    BY <1>4, <1>20, OnTop
  <2>5. u.pos + 1 = k + m
    BY <1>12, <1>20
  <2> QED
    BY <1>14, <1>15, <1>19, <1>20, <2>3, <2>4, <2>5 DEF Taken, p
<1> QED
  BY <1>12, <1>14, <1>17, <1>20 DEF k, f, fs, st, us, ps

\* ... the objects that were packed, and returns when it has read all.
LEMMA SubReads ==
    ASSUME NEW P, NEW h, Finished(P, h, stream), Legible(stream, limit),
           CleanReader(stream, limit, reader), Reading(P, h, stream, limit, reader), cwUnpackSub
    PROVE  Reading(P, h, stream, limit, reader')
<1> DEFINE n    == Len(reader.made)
           w    == limit = Len(stream)
           f    == Frame
           rest == [f EXCEPT !.reads = Tail(@)]
           i    == Fetch(reader.pos, reader.rc)
           t    == Fetched(reader, i)
           u    == AddPart(GoOn(t, rest), f.object, NUMBER)
<1>0. ~reader.raised
  BY DEF cwUnpackSub, Running
<1>1. reader.stack # <<>> /\ f.call = "user" /\ f = Head(reader.stack)
  BY DEF cwUnpackSub, Running, Frame
<1>2. /\ n \in Nat /\ reader \in Readers(n) /\ reader.ret \in Int /\ f \in Frames(n)
      /\ reader.stack \in Seq(Frames(n)) /\ Tail(reader.stack) \in Seq(Frames(n))
      /\ Innermost(stream, reader)
  BY <1>1, CleanFacts DEF Frame
<1>3. f.object \in 1 .. n /\ f.reads \in Seq({"object", "number"})
  BY <1>1, <1>2, FrameForms
<1>4. f.reads # <<>> => rest \in Frames(n) /\ rest.call = "user" /\ rest.reads = Tail(f.reads)
  BY <1>1, <1>2, RestFrame
<1>5. \/ reader.ret = NONE /\ f.reads = <<>> /\ reader' = Return(reader, f.object)
      \/ reader.ret = NONE /\ f.reads # <<>> /\ reader' = Call(reader, NextObjectSub(0))
      \/ /\ reader.ret # NONE
         /\ reader' = AddPart(GoOn(reader, rest), f.object, NullToNil(reader.ret))
      \/ /\ reader.ret = NONE /\ f.reads # <<>> /\ Head(f.reads) = "number"
         /\ reader' = IF i.rc = CWP_RC_OK /\ i.item # CWP_ITEM_VALUE("number")
                      THEN [u EXCEPT !.rc = CWP_RC_TYPE_ERROR] ELSE u
  BY DEF cwUnpackSub
<1>6. /\ t \in Readers(n) /\ t.stack = reader.stack /\ ~t.raised
      /\ t.userReferences = reader.userReferences
      /\ t.packerReferences = reader.packerReferences
      /\ t.pos = i.pos /\ t.rc = i.rc /\ reader.pos \in Nat
      /\ \/ /\ reader.rc = CWP_RC_OK /\ i.rc = CWP_RC_OK /\ reader.pos < limit
            /\ i.pos = reader.pos + 1 /\ i.item = stream[i.pos]
            /\ InStep(P, h, stream, w, reader)
         \/ /\ reader.rc = CWP_RC_OK /\ i.rc = CWP_RC_END_OF_INPUT /\ reader.pos = limit
            /\ i.pos = limit /\ InStep(P, h, stream, w, reader)
         \/ /\ reader.rc = CWP_RC_END_OF_INPUT /\ i.rc = CWP_RC_END_OF_INPUT
            /\ i.pos = limit /\ Ended(limit, reader)
  BY <1>0, ReadFetched
<1> HIDE DEF n, w, i, t
<1>7. /\ ~reader.raised
      /\ \/ reader.rc = CWP_RC_OK /\ InStep(P, h, stream, w, reader)
         \/ reader.rc = CWP_RC_END_OF_INPUT /\ Ended(limit, reader)
  BY <1>0 DEF Reading, w
<1>8. Count(f) = Len(f.reads) /\ Len(f.reads) \in Nat /\ (f.reads = <<>> <=> Len(f.reads) = 0)
  BY <1>1, <1>3, LenProperties, EmptySeq DEF Count
<1>9. CASE reader.ret = NONE /\ f.reads = <<>> /\ reader' = Return(reader, f.object)
  <2>1. f.object \in Returns(n) /\ f.object \in Nat \ {0}
    BY <1>2, <1>3 DEF Returns
  <2>2. SameBut(reader, reader') /\ reader'.ret = f.object /\ reader'.stack = Tail(reader.stack)
    BY <1>1, <1>2, <1>9, <2>1, ReturnFacts
  <2>3. reader'.rc = reader.rc /\ ~reader'.raised /\ reader'.pos = reader.pos
    BY <1>7, <2>2 DEF SameBut
  <2>4. CASE reader.rc = CWP_RC_OK /\ InStep(P, h, stream, w, reader)
    <3>1. Taken(P, h, stream, w, reader) /\ ~(Count(Head(reader.stack)) > 0)
      BY <1>1, <1>2, <1>8, <1>9, <2>4, AtCall
    <3>2. Between(P, h, stream, w, reader')
      BY <1>2, <2>1, <2>2, <3>1, AllTaken
    <3> QED
      BY <2>3, <2>4, <3>2 DEF Reading, InStep, w
  <2>5. CASE reader.rc = CWP_RC_END_OF_INPUT /\ Ended(limit, reader)
    <3>1. Ended(limit, reader')
      BY <1>1, <1>2, <2>2, <2>3, <2>5, EndStays
    <3> QED
      BY <2>3, <2>5, <3>1 DEF Reading
  <2> QED
    BY <1>7, <2>4, <2>5
<1>10. CASE reader.ret = NONE /\ f.reads # <<>> /\ reader' = Call(reader, NextObjectSub(0))
  <2> DEFINE g == NextObjectSub(0)
  <2>1. g \in Frames(n)
    BY <1>2, NextObjectFrame
  <2> HIDE DEF g
  <2>2. SameBut(reader, reader') /\ reader'.ret = NONE /\ reader'.stack = <<g>> \o reader.stack
    BY <1>2, <1>10, <2>1, CallFacts DEF g
  <2>3. reader'.stack = <<NextObjectSub(0)>> \o reader.stack /\ reader'.rc = reader.rc
        /\ ~reader'.raised /\ reader'.pos = reader.pos
    BY <1>7, <2>2 DEF g, SameBut
  <2>4. CASE reader.rc = CWP_RC_OK /\ InStep(P, h, stream, w, reader)
    <3>1. Taken(P, h, stream, w, reader) /\ Count(Head(reader.stack)) > 0
      BY <1>1, <1>2, <1>8, <1>10, <2>4, AtCall
    <3>2. Asking(P, h, stream, w, reader')
      BY <1>2, <2>2, <2>3, <3>1, AskedFor
    <3> QED
      BY <2>3, <2>4, <3>2 DEF Reading, InStep, w
  <2>5. CASE reader.rc = CWP_RC_END_OF_INPUT /\ Ended(limit, reader)
    <3>1. Ended(limit, reader')
      BY <1>1, <1>2, <2>3, <2>5, EndStays
    <3> QED
      BY <2>3, <2>5, <3>1 DEF Reading
  <2> QED
    BY <1>7, <2>4, <2>5
<1>11. CASE /\ reader.ret # NONE
            /\ reader' = AddPart(GoOn(reader, rest), f.object, NullToNil(reader.ret))
  <2>1. f.reads # <<>>
    BY <1>1, <1>2, <1>11 DEF Innermost
  <2>2. NullToNil(reader.ret) \in Int
    BY <1>2 DEF NullToNil, NIL
  <2>3. Carried(n, reader, rest, reader')
    BY <1>1, <1>2, <1>4, <1>11, <2>1, <2>2, PartTaken
  <2>4. /\ rest \in Frames(n) /\ rest.call = f.call /\ rest.reads = Tail(f.reads)
        /\ "user" \notin Loops
    BY <1>1, <1>4, <2>1 DEF Loops
  <2> HIDE DEF rest
  <2>5. reader'.rc = reader.rc /\ ~reader'.raised /\ reader'.pos = reader.pos
        /\ reader'.stack = <<rest>> \o Tail(reader.stack)
    BY <1>7, <2>3 DEF Carried
  <2>6. CASE reader.rc = CWP_RC_OK /\ InStep(P, h, stream, w, reader)
    <3>1. Between(P, h, stream, w, reader)
      BY <1>1, <1>2, <1>11, <2>6, AtCall
    <3>2. Taken(P, h, stream, w, reader')
      BY <1>1, <1>2, <2>3, <2>4, <3>1, OneTaken
    <3> QED
      BY <2>5, <2>6, <3>2 DEF Reading, InStep, w
  <2>7. CASE reader.rc = CWP_RC_END_OF_INPUT /\ Ended(limit, reader)
    <3>1. Ended(limit, reader')
      BY <1>1, <1>2, <2>4, <2>5, <2>7, EndStays
    <3> QED
      BY <2>5, <2>7, <3>1 DEF Reading
  <2> QED
    BY <1>7, <2>6, <2>7
<1>12. CASE /\ reader.ret = NONE /\ f.reads # <<>> /\ Head(f.reads) = "number"
            /\ reader' = IF i.rc = CWP_RC_OK /\ i.item # CWP_ITEM_VALUE("number")
                         THEN [u EXCEPT !.rc = CWP_RC_TYPE_ERROR] ELSE u
  <2>1. /\ rest \in Frames(n) /\ rest.call = f.call /\ rest.reads = Tail(f.reads)
        /\ rest.call = "user"
    BY <1>1, <1>4, <1>12
  <2>2. Carried(n, t, rest, u)
    <3>1. NUMBER \in Int /\ t.stack # <<>>
      BY <1>1, <1>6 DEF NUMBER
    <3> QED
      BY <1>2, <1>6, <2>1, <3>1, PartTaken
  <2> HIDE DEF rest, u
  <2>3. /\ u.stack = <<rest>> \o Tail(reader.stack) /\ u.ret = NONE /\ u.pos = i.pos
        /\ u.rc = i.rc /\ ~u.raised /\ u.userReferences = reader.userReferences
        /\ u.packerReferences = reader.packerReferences
    BY <1>6, <2>2 DEF Carried
  <2>4. CASE reader.rc = CWP_RC_OK /\ InStep(P, h, stream, w, reader)
    <3>1. Taken(P, h, stream, w, reader)
      BY <1>1, <1>2, <1>12, <2>4, AtCall
    <3>2. /\ reader.pos + 1 \in 1 .. Len(stream)
          /\ stream[reader.pos + 1] = CWP_ITEM_VALUE(Raw)
          /\ ~w => Harmless(Tail(reader.stack))
          /\ \A g \in Frames(n) : \A x :
               /\ g.call = "user" /\ g.reads = Tail(Head(reader.stack).reads)
               /\ x.stack = <<g>> \o Tail(reader.stack) /\ x.ret = NONE
               /\ x.pos = reader.pos + 1
               /\ x.userReferences = reader.userReferences
               /\ x.packerReferences = reader.packerReferences
               => Taken(P, h, stream, w, x)
      BY <1>1, <1>2, <1>12, <3>1, NumberRead
    <3>3. CASE i.rc = CWP_RC_OK
      <4>1. i.pos = reader.pos + 1 /\ i.item = CWP_ITEM_VALUE("number")
        BY <1>6, <3>2, <3>3 DEF Raw, CWP_RC_OK, CWP_RC_END_OF_INPUT
      <4>2. reader' = u
        BY <1>12, <4>1
      <4>3. Taken(P, h, stream, w, u)
        <5>1. rest.reads = Tail(Head(reader.stack).reads) /\ u.pos = reader.pos + 1
          BY <1>1, <2>1, <2>3, <4>1
        <5> QED
          BY <2>1, <2>3, <3>2, <5>1, Zenon
      <4> QED
        BY <2>3, <3>3, <4>2, <4>3 DEF Reading, InStep, w
    <3>4. CASE i.rc # CWP_RC_OK
      <4>1. reader' = u
        BY <1>12, <3>4
      <4>2. i.rc = CWP_RC_END_OF_INPUT /\ reader.pos = limit /\ i.pos = limit
        BY <1>6, <2>4, <3>4 DEF CWP_RC_OK, CWP_RC_END_OF_INPUT
      <4>3. ~w
        BY <1>6, <3>2, <4>2 DEF w
      <4>4. Harmless(u.stack)
        <5>1. Harmless(Tail(reader.stack))
          BY <3>2, <4>3
        <5>2. Harmless(<<rest>> \o Tail(reader.stack))
          BY <1>2, <2>1, <5>1, HarmlessOnTop
        <5> QED
          BY <2>3, <5>2
      <4> QED
        BY <2>3, <4>1, <4>2, <4>4 DEF Reading, Ended
    <3> QED
      BY <3>3, <3>4
  <2>5. CASE reader.rc = CWP_RC_END_OF_INPUT /\ Ended(limit, reader)
    <3>1. i.rc = CWP_RC_END_OF_INPUT /\ i.pos = limit /\ reader.pos = limit
      BY <1>6, <2>5 DEF CWP_RC_OK, CWP_RC_END_OF_INPUT, Ended
    <3>2. reader' = u
      BY <1>12, <3>1 DEF CWP_RC_OK, CWP_RC_END_OF_INPUT
    <3>3. Ended(limit, u)
      BY <1>1, <1>2, <2>1, <2>3, <2>5, <3>1, EndStays
    <3> QED
      BY <2>3, <3>1, <3>2, <3>3 DEF Reading
  <2> QED
    BY <1>7, <2>4, <2>5
<1> QED
  BY <1>5, <1>9, <1>10, <1>11, <1>12

-------------------------------------------------------------------------------
(* The client of the reader.                                               *)

\* What is skipped ends with a part, not within the items of one.
LEMMA BehindPlanned ==
    ASSUME NEW P, NEW h, Finished(P, h, stream), NEW k \in DOMAIN P, k \in 1 .. Len(stream),
           Behind(k) <= Len(stream) + 1
    PROVE  Behind(k) \in DOMAIN P /\ Behind(k) \in k + 1 .. Len(stream) + 1
<1> DEFINE a == Len(stream)
           p == Behind(k)
<1>1. stream \in Seq(Items) /\ a \in Nat
  BY PlanFacts
<1>2. PICK d : Balance(d, stream)
  BY <1>1, BalanceExists
<1>3. /\ \A i \in 0 .. a : d[i] \in Int
      /\ \A i \in 1 .. a : d[i] = (d[i - 1] + PartsOf(stream[i])) - 1
  BY <1>1, <1>2, BalanceFacts
<1> DEFINE v == d[k - 1] - 1
<1>4. p = FirstLow(d, k, v)
  <2>1. k \in 1 .. a + 2 /\ 1 \in Nat
    BY <1>1
  <2>2. Behinds[k][1] = Reached(d, k, 1)
    BY <1>1, <1>2, <2>1, BehindsReached
  <2> QED
    BY <2>2 DEF Behind, Reached
<1> HIDE DEF a, p, v
<1>5. /\ k \in Nat \ {0} /\ p \in k .. a + 1 /\ d[p - 1] <= v
      /\ \A q \in k .. p - 1 : ~(d[q - 1] <= v)
  <2>1. k \in 1 .. a + 2 /\ p <= a + 1 /\ k \in Nat \ {0}
    BY <1>1 DEF a, p
  <2>2. /\ p \in k .. a + 2
        /\ p # a + 2 => d[p - 1] <= v
        /\ \A q \in k .. p - 1 : ~(d[q - 1] <= v)
    BY <1>1, <1>4, <2>1, FirstLowFacts DEF a
  <2> QED
    BY <1>1, <2>1, <2>2
<1>6. d[k - 1] \in Int /\ v < d[k - 1] /\ v \in Int
  <2>1. k - 1 \in 0 .. a
    BY <1>1, <1>5 DEF a
  <2> QED
    BY <1>3, <2>1 DEF v
<1>7. p # k
  BY <1>5, <1>6
<1>8. p \in k + 1 .. a + 1
  BY <1>1, <1>5, <1>7
\* Behind the header of a label the balance is not lower than ahead of it.
<1>9. ASSUME NEW b \in DOMAIN P, b \in k .. p - 1, NEW m, NEW parts,
             Packed(P, h, stream, b, m, parts)
      PROVE  /\ m # 1 => b # p - 1
             /\ m = 3 => b # p - 2
  <2>1. b \in 1 .. a /\ b \in Nat \ {0}
    BY <1>1, <1>5, <1>8, <1>9
  <2>2. d[b - 1] \in Int /\ d[b] \in Int /\ v < d[b - 1]
    <3>1. b - 1 \in 0 .. a /\ b \in 0 .. a
      BY <1>1, <2>1
    <3> QED
      BY <1>3, <1>5, <1>6, <1>9, <3>1
  <2>3. d[b] = (d[b - 1] + PartsOf(stream[b])) - 1
    BY <1>3, <2>1
  <2>4. ASSUME m # 1 PROVE b # p - 1
    <3>1. PICK j \in Places : stream[b] = CWP_ITEM_ARRAY(j)
      BY <1>9, <2>4, WrittenItems
    <3>2. PartsOf(stream[b]) = j /\ j \in Nat \ {0}
      BY <3>1, PartsOfItems DEF Places
    <3>3. v < d[b]
      BY <1>6, <2>2, <2>3, <3>2
    <3> QED
      BY <1>5, <1>6, <2>1, <2>2, <3>3
  <2>5. ASSUME m = 3 PROVE b # p - 2
    <3>1. parts \in Seq(Packable) /\ Len(parts) \in Nat /\ b + 3 <= a + 1
      <4>1. P[b] # <<>>
        BY <2>1, PlanFacts DEF a
      <4>2. b + m \in 1 .. a + 1 /\ parts \in Seq(Packable) /\ Len(parts) \in Nat
        BY <1>9, <4>1, BlockFacts DEF a
      <4> QED
        BY <2>5, <4>2
    <3>2. PICK j, l : /\ j \in Nat /\ j >= 2 /\ stream[b] = CWP_ITEM_ARRAY(j)
                      /\ stream[b + 1] = CWP_ITEM_OBJECT_MARKER(l)
      <4>1. \/ \E l : LabelledAt(stream, b, parts, l)
            \/ \E l, name : UserAt(h, stream, b, parts, l, name)
        BY <1>9, <2>5 DEF Packed, Written
      <4>2. ASSUME NEW l, LabelledAt(stream, b, parts, l)
            PROVE  stream[b] = CWP_ITEM_ARRAY(2) /\ stream[b + 1] = CWP_ITEM_OBJECT_MARKER(l)
        BY <4>2 DEF LabelledAt
      <4>3. ASSUME NEW l, NEW name, UserAt(h, stream, b, parts, l, name)
            PROVE  /\ stream[b] = CWP_ITEM_ARRAY(2 + Len(parts))
                   /\ stream[b + 1] = CWP_ITEM_OBJECT_MARKER(l)
        BY <4>3 DEF UserAt
      <4>4. 2 + Len(parts) \in Nat /\ 2 + Len(parts) >= 2 /\ 2 \in Nat /\ 2 >= 2
        BY <3>1
      <4> QED
        BY <4>1, <4>2, <4>3, <4>4
    <3>3. PartsOf(stream[b]) = j /\ PartsOf(stream[b + 1]) = 0
      BY <3>2, PartsOfItems
    <3>4. b + 1 \in 1 .. a /\ b + 1 \in 0 .. a /\ (b + 1) - 1 = b
      BY <1>1, <2>1, <3>1 DEF a
    <3>5. d[b + 1] = (d[b] + 0) - 1 /\ d[b + 1] \in Int
      BY <1>3, <3>3, <3>4
    <3>6. v < d[b + 1]
      BY <1>6, <2>2, <2>3, <3>2, <3>3, <3>5
    <3>7. ASSUME b = p - 2 PROVE FALSE
      <4>1. p - 1 = b + 1
        BY <1>5, <3>7
      <4> QED
        BY <1>5, <1>6, <3>5, <3>6, <4>1
    <3> QED
      BY <3>7
  <2> QED
    BY <2>4, <2>5
<1>10. ASSUME p \notin DOMAIN P PROVE FALSE
  <2>1. p \in 1 .. a + 1
    BY <1>1, <1>5, <1>8
  <2>2. p - 1 \in DOMAIN P \/ p - 2 \in DOMAIN P
    BY <1>10, <2>1, PlanFacts DEF a
  <2>3. ASSUME NEW b \in DOMAIN P, b \in k .. p - 1
        PROVE  \E m, parts : Packed(P, h, stream, b, m, parts) /\ b + m \in DOMAIN P /\ m \in 1 .. 3
    <3>1. b \in 1 .. a
      BY <1>1, <1>5, <1>8, <2>3
    <3>2. P[b] # <<>>
      BY <3>1, PlanFacts DEF a
    <3>3. PICK m, parts : Packed(P, h, stream, b, m, parts)
      BY <3>2, PlanFacts
    <3>4. b + m \in DOMAIN P /\ m \in 1 .. 3
      BY <3>2, <3>3, BlockFacts
    <3> QED
      BY <3>3, <3>4
  <2>4. CASE p - 1 \in DOMAIN P
    <3> DEFINE b == p - 1
    <3>1. b \in DOMAIN P /\ b \in k .. p - 1 /\ b + 1 = p /\ b = p - 1
      BY <1>1, <1>5, <1>8, <2>4
    <3> HIDE DEF b
    <3>2. PICK m, parts : Packed(P, h, stream, b, m, parts) /\ b + m \in DOMAIN P /\ m \in 1 .. 3
      BY <2>3, <3>1
    <3>3. m = 1
      BY <1>9, <3>1, <3>2
    <3> QED
      BY <1>10, <3>1, <3>2, <3>3
  <2>5. CASE p - 1 \notin DOMAIN P
    <3> DEFINE b == p - 2
    <3>1. b \in DOMAIN P /\ b + 1 = p - 1 /\ b + 2 = p /\ b = p - 2
      BY <1>1, <1>5, <1>8, <2>2, <2>5
    <3> HIDE DEF b
    <3>2. b \in k .. p - 1
      <4>1. b + 1 # k
        BY <2>5, <3>1
      <4> QED
        BY <1>1, <1>5, <1>8, <3>1, <4>1
    <3>3. PICK m, parts : Packed(P, h, stream, b, m, parts) /\ b + m \in DOMAIN P /\ m \in 1 .. 3
      BY <2>3, <3>1, <3>2
    <3>4. m # 3
      BY <1>9, <3>1, <3>2, <3>3
    <3>5. m # 1 /\ m # 2
      BY <1>10, <2>5, <3>1, <3>3
    <3> QED
      BY <3>3, <3>4, <3>5
  <2> QED
    BY <2>4, <2>5
<1> QED
  BY <1>8, <1>10 DEF a, p

\* What the client does begins and ends between two parts.
LEMMA ClientReads ==
    ASSUME ~SkipsLabelled, NEW P, NEW h, Finished(P, h, stream), Legible(stream, limit),
           CleanReader(stream, limit, reader), Reading(P, h, stream, limit, reader),
           unpackNextObject \/ Unpacked \/ skipNextObject
    PROVE  Reading(P, h, stream, limit, reader')
<1> DEFINE n  == Len(reader.made)
           w  == limit = Len(stream)
           k  == reader.pos + 1
           us == reader.userReferences
           ps == reader.packerReferences
<1>1. reader.stack = <<>>
  BY DEF unpackNextObject, Unpacked, skipNextObject, Idle
<1>2. /\ n \in Nat /\ reader \in Readers(n) /\ reader.pos \in Nat /\ reader.pos <= limit
  BY CleanFacts
<1>3. /\ stream \in Seq(Items) /\ limit \in Nat /\ Len(stream) \in Nat /\ limit <= Len(stream)
  BY PlanFacts DEF Legible
<1>4. ASSUME NEW q \in Seq(Packable) PROVE Waiting(h, w, <<>>, q, Len(q))
  <2>1. Len(q) \in Nat /\ Len(q) <= Len(q)
    BY LenProperties
  <2> HIDE DEF w
  <2> QED
    BY <2>1, WaitingNone
<1> HIDE DEF n, w
<1>5. /\ ~reader.raised
      /\ \/ reader.rc = CWP_RC_OK /\ InStep(P, h, stream, w, reader)
         \/ reader.rc = CWP_RC_END_OF_INPUT /\ Ended(limit, reader)
  BY DEF Reading, w, unpackNextObject, Unpacked, skipNextObject, Idle
<1>6. reader.rc = CWP_RC_OK =>
        /\ Between(P, h, stream, w, reader) /\ k \in DOMAIN P /\ Entries(stream, k, us, ps)
  <2>1. ASSUME reader.rc = CWP_RC_OK PROVE Between(P, h, stream, w, reader)
    <3>1. InStep(P, h, stream, w, reader)
      BY <1>5, <2>1 DEF CWP_RC_OK, CWP_RC_END_OF_INPUT
    <3> QED
      BY <1>1, <1>2, <3>1, AtCall
  <2> QED
    BY <2>1 DEF Between
<1>7. Harmless(<<>>)
  <2>1. Len(<<>>) = 0 /\ 1 .. 0 = {}
    OBVIOUS
  <2> QED
    BY <2>1 DEF Harmless
<1>8. CASE unpackNextObject
  <2>1. reader.rc = CWP_RC_OK /\ reader' = Call(reader, NextObjectSub(0))
    BY <1>8 DEF unpackNextObject
  <2> DEFINE g == NextObjectSub(0)
  <2>2. g \in Frames(n) /\ <<>> \in Seq(Frames(n))
    BY <1>2, NextObjectFrame, EmptySeq
  <2> HIDE DEF g
  <2>3. SameBut(reader, reader') /\ reader'.ret = NONE /\ reader'.stack = <<g>> \o <<>>
    BY <1>1, <1>2, <2>1, <2>2, CallFacts DEF g
  <2>4. reader'.stack # <<>> /\ Head(reader'.stack) = g /\ Tail(reader'.stack) = <<>>
    BY <1>2, <2>2, <2>3, OnTop
  <2>5. /\ reader'.pos = reader.pos /\ reader'.rc = CWP_RC_OK /\ ~reader'.raised
        /\ reader'.userReferences = us /\ reader'.packerReferences = ps
    BY <1>5, <2>1, <2>3 DEF SameBut
  <2>6. P[k] # <<>> => Inside(P, h, stream, w, k, <<>>, reader')
    <3> DEFINE q == P[k]
    <3>1. ASSUME q # <<>> PROVE Waiting(h, w, <<>>, q, Len(q) - 1)
      <4>1. q \in Seq(Packable)
        BY <1>6, <2>1, PlanFacts
      <4> HIDE DEF q
      <4>2. Len(q) \in Nat \ {0}
        BY <3>1, <4>1, DueFirst
      <4>3. Len(q) - 1 \in Nat /\ Len(q) - 1 <= Len(q)
        BY <4>2
      <4> QED
        BY <4>3, WaitingNone
    <3> QED
      BY <1>6, <2>1, <2>5, <3>1 DEF Inside
  <2>7. P[k] = <<>> => k = Len(stream) + 1
    BY <1>6, <2>1, PlanFacts
  <2>8. Asking(P, h, stream, w, reader')
    BY <2>3, <2>4, <2>5, <2>6, <2>7 DEF Asking, g
  <2> QED
    BY <2>5, <2>8 DEF Reading, InStep, w
<1>9. CASE Unpacked
  <2> DEFINE rs == Append(reader.results, NullToNil(reader.ret))
  <2>1. reader' = [reader EXCEPT !.results = rs, !.ret = NONE]
    BY <1>9 DEF Unpacked
  <2> HIDE DEF rs
  <2>2. /\ reader'.pos = reader.pos /\ reader'.rc = reader.rc /\ ~reader'.raised
        /\ reader'.stack = <<>> /\ reader'.userReferences = us /\ reader'.packerReferences = ps
    BY <1>1, <1>2, <1>5, <2>1 DEF Readers
  <2>3. CASE reader.rc = CWP_RC_OK /\ InStep(P, h, stream, w, reader)
    <3>1. Waiting(h, w, <<>>, P[k], Len(P[k]))
      BY <1>4, <1>6, <2>3, PlanFacts
    <3>2. Between(P, h, stream, w, reader')
      BY <1>6, <2>2, <2>3, <3>1 DEF Between
    <3> QED
      BY <2>2, <2>3, <3>2 DEF Reading, InStep, w
  <2>4. CASE reader.rc = CWP_RC_END_OF_INPUT /\ Ended(limit, reader)
    BY <1>7, <2>2, <2>4 DEF Reading, Ended
  <2> QED
    BY <1>5, <2>3, <2>4
<1>10. CASE skipNextObject
  <2> DEFINE next == Behind(k) - 1
             rs   == Append(reader.results, SKIPPED)
  <2>1. /\ reader.rc = CWP_RC_OK /\ reader.pos < limit /\ ~HasLabels
        /\ \/ next <= limit /\ reader' = [reader EXCEPT !.pos = next, !.results = rs]
           \/ reader' = [reader EXCEPT !.pos = limit, !.rc = CWP_RC_END_OF_INPUT]
    BY <1>10 DEF skipNextObject
  <2> HIDE DEF next, rs
  <2>2. CASE next <= limit /\ reader' = [reader EXCEPT !.pos = next, !.results = rs]
    <3> DEFINE e == Behind(k)
    <3>1. k \in 1 .. Len(stream)
      BY <1>2, <1>3, <2>1
    <3>2. e \in k .. Len(stream) + 2
      BY <1>3, <3>1, BehindIn
    <3>3. e <= Len(stream) + 1 /\ e - 1 <= limit /\ next = e - 1
      BY <1>3, <2>2, <3>1, <3>2 DEF next
    <3>4. e \in DOMAIN P /\ e \in k + 1 .. Len(stream) + 1
      BY <1>6, <2>1, <3>1, <3>3, BehindPlanned
    <3> HIDE DEF e
    <3>5. \A j \in Defs(stream) : ~(k <= j /\ j < e)
      <4>1. ASSUME NEW j \in Defs(stream), k <= j, j < e PROVE FALSE
        <5>1. j \in Nat /\ stream[j].type = "MARKER" /\ stream[j].label # 0
          BY <1>3, <4>1 DEF Defs, Marks
        <5>2. j \in 1 .. limit
          BY <1>2, <1>3, <3>1, <3>3, <3>4, <4>1, <5>1
        <5> QED
          BY <2>1, <5>1, <5>2 DEF HasLabels
      <4> QED
        BY <4>1
    <3>6. Entries(stream, e, us, ps)
      <4>1. k \in Int /\ e \in Int /\ k <= e
        BY <3>1, <3>4
      <4> QED
        BY <1>3, <1>6, <2>1, <3>5, <4>1, EntriesOn
    <3>7. /\ reader'.pos + 1 = e /\ reader'.rc = CWP_RC_OK /\ ~reader'.raised
          /\ reader'.stack = <<>> /\ reader'.userReferences = us /\ reader'.packerReferences = ps
      <4>1. reader'.pos = next
        BY <1>2, <2>2 DEF Readers
      <4>2. /\ reader'.rc = reader.rc /\ ~reader'.raised /\ reader'.stack = <<>>
            /\ reader'.userReferences = us /\ reader'.packerReferences = ps
        BY <1>1, <1>2, <1>5, <2>2 DEF Readers
      <4> QED
        BY <2>1, <3>3, <3>4, <4>1, <4>2
    <3>8. Waiting(h, w, <<>>, P[e], Len(P[e]))
      BY <1>4, <3>4, PlanFacts
    <3>9. Between(P, h, stream, w, reader')
      BY <3>4, <3>6, <3>7, <3>8 DEF Between
    <3> QED
      BY <3>7, <3>9 DEF Reading, InStep, w
  <2>3. CASE reader' = [reader EXCEPT !.pos = limit, !.rc = CWP_RC_END_OF_INPUT]
    <3> DEFINE c == CWP_RC_END_OF_INPUT
    <3>1. reader' = [reader EXCEPT !.pos = limit, !.rc = c]
      BY <2>3
    <3> HIDE DEF c
    <3>2. reader'.pos = limit /\ reader'.rc = c /\ ~reader'.raised /\ reader'.stack = <<>>
      BY <1>1, <1>2, <1>5, <3>1 DEF Readers
    <3> QED
      BY <1>7, <3>2 DEF Reading, Ended, c
  <2> QED
    BY <2>1, <2>2, <2>3
<1> QED
  BY <1>8, <1>9, <1>10

\* Each step of the reader goes on with what was packed.
LEMMA StepReads ==
    ASSUME Agreed, ~SkipsLabelled, NEW P, NEW h, Finished(P, h, stream),
           Legible(stream, limit), SetsWhole(stream, limit),
           CleanReader(stream, limit, reader), Reading(P, h, stream, limit, reader),
           UnpackerAtWork \/ UnpackerCalled
    PROVE  Reading(P, h, stream, limit, reader')
<1>1. UnpackerAtWork => UnpackStep
  BY DEF UnpackerAtWork
<1>2. UnpackerCalled => unpackNextObject \/ Unpacked \/ skipNextObject
  BY DEF UnpackerCalled
<1> QED
  BY <1>1, <1>2, ObjectReads, FirstReads, ClassReads, LoopReads, SubReads, ClientReads
     DEF UnpackStep

-------------------------------------------------------------------------------
(* Only what was packed is read.                                           *)

\* The reader stands where it can in a stream that was packed; or it has found
\* nothing that is no item in a stream of someone else; or it has not begun.
RInv ==
    /\ foreign => /\ Legible(stream, limit) /\ limit \in Nat
                  /\ CleanReader(stream, limit, reader)
    /\ ~foreign /\ limit = PACKING => reader = NewReader
    /\ ~foreign /\ limit # PACKING =>
         /\ Legible(stream, limit) /\ SetsWhole(stream, limit)
         /\ CleanReader(stream, limit, reader)
         /\ \E P : Finished(P, heap, stream) /\ Reading(P, heap, stream, limit, reader)

\* A stream that was packed is legible as far as it is handed over.
LEMMA HandedLegible ==
    ASSUME ~CutsAnywhere, NEW P, NEW h, Finished(P, h, stream),
           NEW l \in 0 .. Len(stream), CanEnd(l)
    PROVE  Legible(stream, l) /\ SetsWhole(stream, l)
<1>1. stream \in Seq(Items) /\ Len(stream) \in Nat
  BY PlanFacts
<1>2. /\ \A k \in 1 .. Len(stream) : stream[k] # CWP_ITEM_STR("garbage")
      /\ Len(stream) > 0 => \A j \in Places : stream[Len(stream)] # CWP_ITEM_ARRAY(j)
  BY WholeLegible
<1>3. l < Len(stream) =>
        /\ l > 0 => stream[l].type # "ARRAY" \/ stream[l].size = 0
        /\ \A k \in 1 .. l : stream[k] # CWP_ITEM_STR("NSSet")
  BY DEF CanEnd
<1>4. \A j \in Places : CWP_ITEM_ARRAY(j).type = "ARRAY" /\ CWP_ITEM_ARRAY(j).size = j /\ j # 0
  BY DEF CWP_ITEM_ARRAY, Places
<1>5. l > 0 => \A j \in Places : stream[l] # CWP_ITEM_ARRAY(j)
  <2>1. CASE l < Len(stream)
    BY <1>3, <1>4, <2>1
  <2>2. CASE ~(l < Len(stream))
    <3>1. l = Len(stream)
      BY <1>1, <2>2
    <3> QED
      BY <1>2, <3>1
  <2> QED
    BY <2>1, <2>2
<1>6. \A k \in 1 .. l : k \in 1 .. Len(stream)
  BY <1>1
<1> QED
  BY <1>1, <1>2, <1>3, <1>5, <1>6 DEF Legible, SetsWhole

\* A new reader stands ahead of the first part.
LEMMA NewReads ==
    ASSUME NEW P, NEW h, NEW s, Finished(P, h, s), NEW l
    PROVE  Reading(P, h, s, l, NewReader)
<1> DEFINE r == NewReader
           w == l = Len(s)
<1>1. /\ r.pos = 0 /\ r.rc = CWP_RC_OK /\ r.raised = FALSE /\ r.stack = <<>>
      /\ r.userReferences = <<NSNull>> /\ r.packerReferences = <<NSNull>>
  BY DEF NewReader
<1>2. 1 \in DOMAIN P /\ s \in Seq(Items) /\ P[1] \in Seq(Packable) /\ Len(s) \in Nat
  BY PlanFacts
<1> HIDE DEF r, w
<1>3. Entries(s, 1, <<NSNull>>, <<NSNull>>)
  <2>1. \A j \in Defs(s) : ~(j < 1)
    BY <1>2 DEF Defs, Marks
  <2>2. Before(s, 1, 1) = {} /\ Before(s, 1, -1) = {}
    BY <2>1 DEF Before, Signed
  <2> DEFINE us == <<NSNull>>
  <2>3. Cardinality({}) = 0 /\ Len(us) = 1
    BY FS_EmptySet
  <2> HIDE DEF us
  <2>4. /\ Len(us) = 1 + Cardinality(Before(s, 1, 1))
        /\ Len(us) = 1 + Cardinality(Before(s, 1, -1))
    BY <2>2, <2>3
  <2>5. Entries(s, 1, us, us)
    BY <2>1, <2>4 DEF Entries
  <2> QED
    BY <2>5 DEF us
<1>4. Waiting(h, w, <<>>, P[1], Len(P[1]))
  <2>1. Len(P[1]) \in Nat /\ Len(P[1]) <= Len(P[1])
    BY <1>2, LenProperties
  <2> QED
    BY <2>1, WaitingNone
<1>5. Between(P, h, s, w, r)
  <2>1. r.pos + 1 = 1
    BY <1>1
  <2> QED
    BY <1>1, <1>2, <1>3, <1>4, <2>1 DEF Between
<1> QED
  BY <1>1, <1>5 DEF Reading, InStep, w, r

LEMMA InitReads ==
    ASSUME \A s \in ForeignStreams : Legible(s, Len(s)), Init
    PROVE  RInv
<1>1. reader = NewReader
  BY DEF Init
<1>2. CASE foreign
  <2>1. stream \in ForeignStreams /\ limit = Len(stream)
    BY <1>2 DEF Init
  <2>2. Legible(stream, limit)
    BY <2>1
  <2>3. limit \in Nat
    BY <2>1, <2>2, LenProperties DEF Legible
  <2>4. CleanReader(stream, limit, reader)
    BY <1>1, <2>3, NewClean
  <2> QED
    BY <1>2, <2>2, <2>3, <2>4 DEF RInv
<1>3. CASE ~foreign
  BY <1>1, <1>3 DEF RInv, Init
<1> QED
  BY <1>2, <1>3

LEMMA NextReads ==
    ASSUME Agreed, ~CutsAnywhere, ~SkipsLabelled, IInv, PInv, RInv, [Next]_vars
    PROVE  RInv'
<1>1. PACKING \notin Nat
  BY DEF PACKING
<1>2. CASE HandOver
  <2>1. /\ limit = PACKING /\ packer.todo = <<>> /\ limit' \in 0 .. Len(stream) /\ CanEnd(limit')
        /\ stream' = stream /\ heap' = heap /\ reader' = reader /\ foreign' = foreign
    BY <1>2 DEF HandOver, packVars
  <2>2. ~foreign /\ reader = NewReader
    BY <1>1, <2>1 DEF RInv
  <2>3. Sound(heap, packer, stream) /\ PlanOf(heap, packer, stream)
    BY <2>2 DEF IInv, PInv
  <2>4. PICK P : Planned(P, heap, packer, stream)
    BY <2>3 DEF PlanOf
  <2>5. Finished(P, heap, stream)
    BY <2>1, <2>3, <2>4 DEF Finished, Sound
  <2>6. Legible(stream, limit') /\ SetsWhole(stream, limit')
    BY <2>1, <2>5, HandedLegible
  <2>7. Reading(P, heap, stream, limit', reader)
    BY <2>2, <2>5, NewReads
  <2>8. limit' \in Nat
    BY <2>1, <2>5, PlanFacts
  <2>9. CleanReader(stream, limit', reader)
    BY <2>2, <2>8, NewClean
  <2> QED
    BY <1>1, <2>1, <2>2, <2>5, <2>6, <2>7, <2>8, <2>9 DEF RInv
<1>3. CASE Pack
  <2>1. limit = PACKING /\ limit' = limit /\ reader' = reader /\ foreign' = foreign
    BY <1>3 DEF Pack, packObject, setUseLabels, PackObjectStep, PackPart, PackReference,
                PackLabelled, PackPlain, Packing, Packs
  <2>2. ~foreign /\ reader = NewReader
    BY <1>1, <2>1 DEF RInv
  <2> QED
    BY <2>1, <2>2 DEF RInv
<1>4. CASE UnpackerAtWork \/ UnpackerCalled
  <2>1. /\ stream' = stream /\ limit' = limit /\ heap' = heap /\ foreign' = foreign
    BY <1>4 DEF UnpackerAtWork, UnpackerCalled, packVars
  <2>2. limit # PACKING
    BY <1>4 DEF UnpackerAtWork, UnpackerCalled, UnpackStep, cwUnpackNextObjectSub, FirstItem,
                ClassName, NextPart, TakePart, TakeKeyOrValue, TakeMember, cwUnpackSub,
                unpackNextObject, Unpacked, skipNextObject, Running, Idle
  <2>3. CASE foreign
    <3>1. Legible(stream, limit) /\ limit \in Nat /\ CleanReader(stream, limit, reader)
      BY <2>3 DEF RInv
    <3>2. CleanReader(stream, limit, reader')
      BY <1>4, <3>1, StepClean
    <3> QED
      BY <2>1, <2>3, <3>1, <3>2 DEF RInv
  <2>4. CASE ~foreign
    <3>1. PICK P : /\ Legible(stream, limit) /\ SetsWhole(stream, limit)
                   /\ CleanReader(stream, limit, reader)
                   /\ Finished(P, heap, stream) /\ Reading(P, heap, stream, limit, reader)
      BY <2>2, <2>4 DEF RInv
    <3>2. CleanReader(stream, limit, reader')
      BY <1>4, <3>1, StepClean
    <3>3. Reading(P, heap, stream, limit, reader')
      BY <1>4, <3>1, StepReads
    <3> QED
      BY <2>1, <2>2, <2>4, <3>1, <3>2, <3>3 DEF RInv
  <2> QED
    BY <2>3, <2>4
<1>5. CASE UNCHANGED <<stream, limit, heap, reader, foreign>>
  BY <1>5 DEF RInv
<1> QED
  BY <1>2, <1>3, <1>4, <1>5 DEF Next, vars, packVars, DumpStart, DumperAtWork, Done

LEMMA ReadsOnly == RInv => OnlyWhatWasPacked
<1> SUFFICES ASSUME RInv PROVE OnlyWhatWasPacked
  OBVIOUS
<1>1. CASE ~foreign /\ limit = PACKING
  <2>1. reader = NewReader
    BY <1>1 DEF RInv
  <2>2. /\ reader.made = <<>> /\ reader.rc = CWP_RC_OK /\ reader.raised = FALSE
        /\ CWP_RC_OK # CWP_RC_END_OF_INPUT
    BY <2>1 DEF NewReader, CWP_RC_OK, CWP_RC_END_OF_INPUT
  <2>3. DOMAIN reader.made = {}
    BY <2>2
  <2> QED
    BY <2>2, <2>3 DEF OnlyWhatWasPacked
<1>2. CASE foreign \/ limit # PACKING
  <2>1. CleanReader(stream, limit, reader)
    BY <1>2 DEF RInv
  <2>2. \A i \in DOMAIN reader.made : reader.made[i].class # "garbage"
    BY <2>1 DEF CleanReader, Clean
  <2>3. ASSUME ~foreign
        PROVE  /\ reader.rc \in {CWP_RC_OK, CWP_RC_END_OF_INPUT}
               /\ reader.raised => KeyRefused(reader)
               /\ reader.rc = CWP_RC_END_OF_INPUT => reader.pos = limit
    <3>1. PICK P : Reading(P, heap, stream, limit, reader)
      BY <1>2, <2>3 DEF RInv
    <3>2. CWP_RC_OK # CWP_RC_END_OF_INPUT
      BY DEF CWP_RC_OK, CWP_RC_END_OF_INPUT
    <3> QED
      BY <3>1, <3>2 DEF Reading, Ended
  <2> QED
    BY <2>2, <2>3 DEF OnlyWhatWasPacked
<1> QED
  BY <1>1, <1>2

\* The unpacker makes no object of what is no item, whoever has written the stream;
\* and reading what CWPackContext has packed, to its end or, where no set is read and
\* the last item is no header of an array with parts, to an earlier end, it raises
\* no exception but that of a map's key that cannot be copied, and meets no error
\* but END_OF_INPUT, and that one where the input ends: cwUnpackNextObjectSub,
\* cwUnpackObject and the classes' cwUnpackSub ask for the items that packObject and
\* cwPackSub wrote, and find each reference in the place of its label.  It holds of
\* clients that agree on their classes and skip nothing in streams with labels, of
\* maps with keys of any kind, and of streams of others that end with no header of
\* an array with parts.
THEOREM OnlyWhatWasPackedIsRead ==
    ASSUME Agreed, ~CutsAnywhere, ~SkipsLabelled,
           \A s \in ForeignStreams : Legible(s, Len(s))
    PROVE  Spec => []OnlyWhatWasPacked
<1>1. Init => IInv /\ PInv /\ RInv
  BY InitInvariant, InitPlanned, InitReads
<1>2. IInv /\ PInv /\ RInv /\ [Next]_vars => (IInv /\ PInv /\ RInv)'
  BY NextInvariant, NextPlanned, NextReads
<1>3. RInv => OnlyWhatWasPacked
  BY ReadsOnly
<1> QED
  BY <1>1, <1>2, <1>3, PTL DEF Spec
===============================================================================
