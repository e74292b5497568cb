----------------------------- MODULE ObjectChannel ------------------------------
(***************************************************************************)
(* CWPackContext, CWUnpackContext and cwpack_dump joined by a stream: a    *)
(* client packs objects, or someone else has written the items; then the   *)
(* stream, or the first part of it, is unpacked and then dumped.           *)
(***************************************************************************)
EXTENDS ObjectPack, ObjectUnpack, Dump

CONSTANTS
    ForeignStreams,  \* item streams of other writers
    CutHeaps,        \* the graphs whose streams may end too early
    CutsAnywhere     \* whether a stream may end right behind the header of an
                     \* array, or within a set

VARIABLE foreign     \* whether the stream is someone else's

vars == <<stream, limit, heap, packer, reader, options, dump, foreign>>

AnyHeap == CHOOSE h \in Heaps : TRUE

Init ==
    /\ \/ /\ foreign = FALSE /\ stream = <<>> /\ limit = PACKING
          /\ heap \in Heaps
       \/ /\ foreign = TRUE /\ stream \in ForeignStreams /\ limit = Len(stream)
          /\ heap = AnyHeap
    /\ PackInit
    /\ reader = NewReader
    /\ options = DefaultOptions /\ dump = NewDump

\* The stream can end with its last item, or too early.
CanEnd(n) ==
    n < Len(stream) =>
        /\ heap \in CutHeaps /\ Len(packer.packed) = 1
        /\ \/ CutsAnywhere
           \/ /\ n > 0 => stream[n].type # "ARRAY" \/ stream[n].size = 0
              /\ \A k \in 1 .. n : stream[k] # CWP_ITEM_STR("NSSet")

HandOver ==
    /\ limit = PACKING /\ packer.todo = <<>>
    /\ packer.packed # <<>>
    /\ limit' \in {n \in 0 .. Len(stream) : CanEnd(n)}
    /\ UNCHANGED <<stream, packVars, reader, options, dump, foreign>>

Pack ==
    /\ packObject \/ setUseLabels \/ PackObjectStep
    /\ UNCHANGED <<reader, options, dump, foreign>>

UnpackerAtWork == UnpackStep /\ UNCHANGED <<stream, limit, packVars, options, dump, foreign>>

UnpackerCalled ==
    /\ unpackNextObject \/ Unpacked \/ skipNextObject
    /\ UNCHANGED <<stream, limit, packVars, options, dump, foreign>>

\* The unpacker's client stops at the first error.
Unpacked_All == reader.raised \/ (Idle /\ reader.ret = NONE /\ reader.rc # CWP_RC_OK)

\* cwpack_dump, with or without -r and -t; one dump of a short session is
\* enough, for a dump keeps nothing from one item to the next.
DumpStart ==
    /\ Unpacked_All /\ ~dump.started
    /\ Len(packer.packed) <= 1
    /\ Start
    /\ UNCHANGED <<stream, limit, packVars, reader, foreign>>

DumperAtWork ==
    /\ DumpStep
    /\ UNCHANGED <<stream, limit, packVars, reader, options, foreign>>

Done == /\ Unpacked_All
        /\ dump.done \/ Len(packer.packed) > 1
        /\ UNCHANGED vars

Next ==
    \/ HandOver \/ Pack
    \/ UnpackerAtWork \/ UnpackerCalled
    \/ DumpStart \/ DumperAtWork
    \/ Done

\* A routine that was called goes on; nobody need call one.
Fairness == /\ WF_vars(PackObjectStep /\ UNCHANGED <<reader, options, dump, foreign>>)
            /\ WF_vars(UnpackerAtWork)
            /\ WF_vars(DumperAtWork)

Spec == Init /\ [][Next]_vars /\ Fairness

-------------------------------------------------------------------------------
(* Properties of the packer.                                               *)

Markers(n)     == {k \in 2 .. n : stream[k].type = "MARKER" /\ stream[k].label # 0}
References(n)  == {k \in Markers(n) : stream[k - 1] = CWP_ITEM_ARRAY(1)}
Definitions(n) == Markers(n) \ References(n)
SameSign(i, j) == (i < 0) = (j < 0)

\* Where the stream's items at the top begin, up to the n-th.
TopItems ==
    LET at[j \in Nat] == IF j = 0 THEN 1
                         ELSE IF at[j - 1] > Len(stream) THEN at[j - 1] ELSE Behind(at[j - 1])
    IN  at

TopItem(n) == TopItems[n]

\* The objects that pack as many items as they tell: no NSNumber of char type
\* that is 0, no counted set with members.  A map's parts come in pairs, and
\* values and NSNull have none.
CountsRight(h) ==
    \A o \in Objects :
        LET parts == h[o].parts
        IN  /\ h[o].class # "zero"
            /\ h[o].class = "map" => Len(parts) % 2 = 0
            /\ h[o].class \in {"value", "null", "NSCountedSet"} => parts = <<>>

\* The keys of maps are strings, as src/goodies/objC/README.md:89 demands.
StringKeys(h) ==
    \A o \in Objects :
        h[o].class = "map" =>
            \A i \in DOMAIN h[o].parts : i % 2 = 1 =>
                h[o].parts[i] \in Objects /\ h[h[o].parts[i]].class = "value"

\* A part that a set can take.
Firm(h, x) == x # Nil /\ (x \in Objects => h[x].class # "null")

\* What is packed as an object of class name with these parts is what the class
\* of that name reads.
Suits(h, name, parts) ==
    /\ name # "garbage"
    /\ name = "NSSet" => \A i \in 1 .. Len(parts) : Firm(h, parts[i])
    /\ name \in DOMAIN KnownClasses =>
          /\ Len(KnownClasses[name]) = Len(parts)
          /\ \A i \in 1 .. Len(parts) : KnownClasses[name][i] = "number" => parts[i] = Raw

\* What the clients on the two sides have to agree on: objects pack as many
\* items as they tell, an object of a class that the reader knows packs what
\* that class reads, the members of a set are neither nil nor NSNull, and none of
\* the classes has the name that stands for what is no item.
Agreed ==
    /\ {Nil, Raw} \cap Objects = {}
    /\ KnownClasses \in [DOMAIN KnownClasses -> Seq({"object", "number"})]
    /\ "NSSet" \notin DOMAIN KnownClasses
    /\ \A h \in Heaps :
          /\ CountsRight(h)
          /\ \A o \in Objects : h[o].class \notin PackerClasses =>
                Suits(h, h[o].class, h[o].parts)

\* Each call of packObject adds one item with all its parts, no less and no
\* more: the numbers of parts told ahead are the numbers packed, through all
\* nesting, so that a reader stays in step.
OneItemPerCall ==
    ~foreign /\ packer.todo = <<>> =>
        /\ TopItem(Len(packer.packed)) = Len(stream) + 1
        /\ \A j \in 1 .. Len(packer.packed) : TopItem(j - 1) <= Len(stream)

\* Labels are given in the order 1, 2, ... and -1, -2, ... in which the objects
\* appear, once each, and no reference comes before the object it refers to:
\* what the two reference arrays of the reader count on.
LabelsInOrder ==
    ~foreign =>
        /\ \A k \in Definitions(Len(stream)) :
            LET l == stream[k].label
            IN  (IF l < 0 THEN -l ELSE l) =
                1 + Cardinality({j \in Definitions(k - 1) : SameSign(stream[j].label, l)})
        /\ \A k \in References(Len(stream)) :
            \E j \in Definitions(k - 1) : stream[j] = stream[k]

-------------------------------------------------------------------------------
(* Properties of the unpacker.                                             *)

\* The results that are objects, when no error was met.
Whole(k) == /\ k \in DOMAIN packer.packed \cap DOMAIN reader.results
            /\ reader.results[k] # SKIPPED
            /\ k < Len(reader.results) \/ reader.rc = CWP_RC_OK

\* Which packed parts correspond to which unpacked ones, from the roots on.
Corresponding(roots) ==
    LET c[n \in Nat] ==
            IF n = 0 THEN roots
            ELSE c[n - 1] \cup
                 UNION {LET p == heap[e[1]].parts
                            q == reader.made[e[2]].parts
                        IN  {<<p[k], q[k]>> : k \in DOMAIN p \cap DOMAIN q} :
                        e \in {e \in c[n - 1] : e[1] \in Objects /\ e[2] > 0}}
    IN  c[Cardinality(Objects)]

Roots(labelled) ==
    {<<packer.packed[k].object, reader.results[k]>> :
        k \in {k \in DOMAIN packer.packed :
                   Whole(k) /\ (labelled => packer.packed[k].labelled)}}

Same(part, made) ==
    CASE part = Nil -> made \in {NIL, NSNull}
      [] part = Raw -> made = NUMBER
                       \/ (made > 0 /\ reader.made[made].value = Raw)
      [] OTHER -> IF heap[part].class = "null" THEN made \in {NIL, NSNull}
                  ELSE /\ made > 0
                       /\ reader.made[made].class = heap[part].class
                       /\ heap[part].class = "value" => reader.made[made].value = part
                       /\ Len(reader.made[made].parts) = Len(heap[part].parts)

\* Where the keys of maps are strings, no exception is raised, and the unpacked
\* objects are the packed ones: of the same classes, with the same parts in the
\* same order; and among objects packed with labels, in one call or in several,
\* two are the same after exactly when they were before, through all sharing
\* and all cycles.
GraphRebuilt ==
    ~foreign /\ StringKeys(heap) =>
        /\ ~reader.raised
        /\ reader.stack = <<>> /\ reader.ret = NONE =>
            /\ \A e \in Corresponding(Roots(FALSE)) : Same(e[1], e[2])
            /\ LET objects == {e \in Corresponding(Roots(TRUE)) :
                                  e[1] \in Objects /\ heap[e[1]].class # "null"}
               IN  \A e, f \in objects : (e[1] = f[1]) = (e[2] = f[2])

\* A map was given a key that cannot be copied.
KeyRefused(r) ==
    /\ r.stack # <<>> /\ Head(r.stack).call = "map"
    /\ Head(r.stack).key # NONE /\ ~Copies(r, Head(r.stack).key)

\* Nothing is made of items that were not there, and reading what was packed
\* ends with END_OF_INPUT and nothing else, also when the end comes early; the
\* only exception is the one of a map's key that cannot be copied.
OnlyWhatWasPacked ==
    /\ \A n \in DOMAIN reader.made : reader.made[n].class # "garbage"
    /\ ~foreign => /\ reader.rc \in {CWP_RC_OK, CWP_RC_END_OF_INPUT}
                   /\ reader.raised => KeyRefused(reader)
                   /\ reader.rc = CWP_RC_END_OF_INPUT => reader.pos = limit

-------------------------------------------------------------------------------
(* Properties of the dump.                                                 *)

\* The part of the stream that is read ends with a whole item.
EndsWhole == \E n \in 0 .. limit : TopItem(n) = limit + 1

\* What a dump of n items from item k on is: each line tells the offset of its
\* first item, or of the end of a container.
Shown ==
    LET line(i, offset) ==
            IF options.tabs THEN <<[line |-> offset]>>
            ELSE IF i > 0 THEN <<Text(" ")>> ELSE <<>>
        last(offset)  == IF options.tabs THEN <<[line |-> offset]>> ELSE <<>>
        shown[k \in Nat, n \in Nat, i \in Nat, in \in {"", "[", "{", "(", "->"}] ==
            IF n = 0 THEN <<>>
            ELSE LET item    == stream[k]
                     size    == PartsOf(item)
                     object  == /\ options.recognizeObjects /\ item.type = "ARRAY"
                                /\ size > 0 /\ stream[k + 1].type = "MARKER"
                     label   == stream[k + 1].label
                     before  ==
                        CASE in = ""  -> <<[line |-> k - 1]>>
                          [] in \in {"[", "("} -> line(i, k - 1)
                          [] in = "{" -> IF i % 2 = 1 THEN <<Text(":")>> ELSE line(i, k - 1)
                          [] OTHER    -> <<>>
                     text    ==
                        IF object /\ size = 1 THEN <<Text("->"), Label(label)>>
                        ELSE IF object /\ label < 0
                        THEN <<Label(label), Text("->")>> \o shown[k + 2, 1, 0, "->"]
                        ELSE IF object
                        THEN (IF label = 0 THEN <<>> ELSE <<Label(label), Text("->")>>)
                             \o <<Text(stream[k + 2].of), Text("(")>>
                             \o shown[k + 3, size - 2, 0, "("]
                             \o last(Behind(k) - 1) \o <<Text(")")>>
                        ELSE IF item = CWP_ITEM_ARRAY(0) THEN <<Text("[]")>>
                        ELSE IF item = CWP_ITEM_MAP(0) THEN <<Text("{}")>>
                        ELSE IF item.type = "ARRAY"
                        THEN <<Text("[")>> \o shown[k + 1, size, 0, "["]
                             \o last(Behind(k) - 1) \o <<Text("]")>>
                        ELSE IF item.type = "MAP"
                        THEN <<Text("{")>> \o shown[k + 1, size, 0, "{"]
                             \o last(Behind(k) - 1) \o <<Text("}")>>
                        ELSE <<Scalar(item)>>
                 IN  before \o text
                     \o (IF in = "" /\ Behind(k) > limit THEN <<>>
                         ELSE shown[Behind(k), n - 1, i + 1, in])
    IN  IF limit = 0 THEN <<[line |-> 0]>>
        ELSE shown[1, limit, 0, ""] \o <<[line |-> limit]>>

\* A line of a dump.
IsLine(printed) == "line" \in DOMAIN printed

\* What was printed, but for the offset on the line of an array's first item.
WithoutFirst(out) ==
    [n \in DOMAIN out |->
        IF n > 1 /\ out[n - 1] = Text("[") /\ IsLine(out[n]) THEN [line |-> NONE] ELSE out[n]]

\* A dump of a whole stream that was packed here, with or without -r and -t, is
\* that stream, and its lines tell offsets of items, as src/goodies/dump/README.md
\* has them, but for one: DumpTellsOffsets.
DumpIsStream ==
    dump.done /\ ~foreign /\ EndsWhole => WithoutFirst(dump.out) = WithoutFirst(Shown)

\* src/goodies/dump/README.md:13: "Each line starts with a file offset (hex) of
\* the first item on the line", also the line of an array's first item: line 28
\* shows 1 for it.
DumpTellsOffsets ==
    dump.done /\ ~foreign /\ EndsWhole => dump.out = Shown

\* The class name of each user object is a string, right behind the marker:
\* neither labelled nor a reference to an earlier one.
NamedPlainly ==
    \A k \in 2 .. limit :
        (/\ stream[k].type = "MARKER" /\ stream[k].label >= 0
         /\ stream[k - 1].type = "ARRAY" /\ stream[k - 1].size > 1)
        => k < limit /\ stream[k + 1].type = "STR"

\* What the unpacker accepts, of any writer that names classes plainly, dump -r
\* prints to the end: the two tell references, labelled items and user objects
\* apart in the same way.
ReadersAgree ==
    dump.done /\ options.recognizeObjects /\ EndsWhole /\ NamedPlainly
        /\ reader.rc = CWP_RC_END_OF_INPUT /\ ~reader.raised
        /\ SKIPPED \notin SeqRange(reader.results) =>
        dump.rc = CWP_RC_END_OF_INPUT /\ dump.pos = limit

\* Packing, unpacking and dumping end, also for objects that contain
\* themselves and for streams that end too early.
CallsEnd ==
    /\ packer.todo # <<>> ~> packer.todo = <<>>
    /\ reader.stack # <<>> ~> reader.stack = <<>> \/ reader.raised
    /\ dump.started ~> dump.done
===============================================================================
