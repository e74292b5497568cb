---------------------------- MODULE MCObjectChannel -----------------------------
(***************************************************************************)
(* Instances of ObjectChannel for TLC.                                     *)
(***************************************************************************)
EXTENDS ObjectChannel

\* README.md's MyClass has a level and a link; the reader has never heard of
\* OtherClass.
Classes == [MyClass |-> <<"number", "object">>]

Object(class, parts) == [class |-> class, parts |-> parts]

\* Two objects that may have parts, and a leaf.
GraphObjects == {"a", "b", "s"}

Inner == {"a", "b"}

Forms ==
    {Object("array", parts) : parts \in
        {<<>>} \cup {<<x>> : x \in GraphObjects} \cup {<<x, y>> : x, y \in GraphObjects}} \cup
    {Object("map", parts) : parts \in {<<>>, <<"b", "s">>} \cup {<<"s", x>> : x \in GraphObjects}} \cup
    {Object("MyClass", <<Raw, x>>) : x \in GraphObjects \cup {Nil}} \cup
    {Object("OtherClass", parts) : parts \in
        {<<>>, <<"a", "b">>, <<"b", "a">>, <<Raw, "b">>}
        \cup {<<x>> : x \in GraphObjects \cup {Nil}}} \cup
    {Object("NSSet", parts) : parts \in {<<>>, <<"s">>, <<"a">>, <<"b">>, <<"a", "s">>, <<"s", "b">>}}

\* The keys of a map are strings, but for an array or an object of a class that
\* the reader does not know; the members of a set are no containers, and none is
\* NSNull.
Legal(h) ==
    \A o \in DOMAIN h :
        /\ h[o].class = "map" /\ h[o].parts # <<>> =>
            h[h[o].parts[1]].class \in {"value", "array", "OtherClass"}
        /\ h[o].class = "NSSet" =>
            \A k \in DOMAIN h[o].parts :
                h[h[o].parts[k]].class \in {"value", "MyClass", "OtherClass"}

Graph(a, b, leaf) ==
    [o \in GraphObjects |->
        CASE o = "a" -> a [] o = "b" -> b [] OTHER -> Object(leaf, <<>>)]

\* What b can be when a can be anything.
FewForms ==
    {Object("array", <<>>), Object("array", <<"a">>), Object("array", <<"s", "b">>),
     Object("map", <<"s", "a">>), Object("MyClass", <<Raw, "a">>),
     Object("OtherClass", <<>>), Object("OtherClass", <<"b", "a">>),
     Object("NSSet", <<"s", "a">>), Object("NSSet", <<"b">>)}

Graphs ==
    {h \in {Graph(a, b, leaf) : a \in Forms, b \in FewForms, leaf \in {"value", "null"}} :
        Legal(h) /\ (h["s"].class = "null" => h["a"].class = "array")}

\* A cycle, a shared array, a map in itself, and a set.
RepeatGraphs ==
    {h \in {Graph(a, b, "value") :
                a \in {Object("array", <<"b", "s">>), Object("map", <<"s", "a">>),
                      Object("MyClass", <<Raw, "b">>), Object("OtherClass", <<"b", "a">>),
                      Object("NSSet", <<"s", "b">>)},
                b \in FewForms} : Legal(h)}

\* Objects of the two classes that pack another number of items than they tell:
\* a counted set, and an NSNumber of char type that is 0.
Miscounting ==
    {Graph(Object("array", <<"b", "s">>), Object("NSCountedSet", <<"s", Raw>>), "value"),
     Graph(Object("array", <<"s">>), Object("MyClass", <<Raw, "s">>), "zero")}

ASSUME /\ \A h \in Graphs : CountsRight(h)
       /\ \A h \in Miscounting : ~CountsRight(h)
       /\ Heaps = Graphs => Agreed

\* Two strings in an array, to see the offsets of.
OneArray == {Graph(Object("array", <<"s", "s">>), Object("array", <<>>), "value")}

\* Everything two and three items with an object marker among them can mean.
Alphabet ==
    {CWP_ITEM_ARRAY(n) : n \in 1 .. 3} \cup {CWP_ITEM_OBJECT_MARKER(l) : l \in -1 .. 1} \cup
    {CWP_ITEM_STR("OtherClass"), CWP_ITEM_NIL}

ShortStreams == UNION {[1 .. n -> Alphabet] : n \in 1 .. 3}

\* An object with or without a label, and what can follow: a class name, the
\* class name labelled or a reference, and attributes.
ObjectStreams ==
    {<<CWP_ITEM_ARRAY(2), CWP_ITEM_OBJECT_MARKER(l)>> \o rest :
        l \in 0 .. 1, rest \in UNION {[1 .. n -> Alphabet] : n \in 2 .. 3}}

\* Keys of all kinds: equal ones, a container, and an object that cannot be copied.
KeyStreams ==
    {<<CWP_ITEM_MAP(2), k, CWP_ITEM_NIL, j, CWP_ITEM_STR("OtherClass")>> :
        j, k \in {CWP_ITEM_NIL, CWP_ITEM_STR("OtherClass"), CWP_ITEM_ARRAY(0)}} \cup
    {<<CWP_ITEM_MAP(1), CWP_ITEM_ARRAY(2), CWP_ITEM_OBJECT_MARKER(l),
       CWP_ITEM_STR("OtherClass"), CWP_ITEM_NIL>> : l \in -1 .. 1}

\* Members of all kinds: one that a set cannot take, equal ones, and containers.
SetStreams ==
    {<<CWP_ITEM_ARRAY(4), CWP_ITEM_OBJECT_MARKER(0), CWP_ITEM_STR("NSSet"), x, y>> :
        x \in {CWP_ITEM_NIL, CWP_ITEM_STR("OtherClass"), CWP_ITEM_MAP(0)},
        y \in {CWP_ITEM_NIL, CWP_ITEM_STR("OtherClass"), CWP_ITEM_MAP(0)}}

\* Streams that do not end with the header of an array.
AllStreams ==
    {s \in ShortStreams \cup ObjectStreams \cup KeyStreams \cup SetStreams :
        s[Len(s)].type # "ARRAY"}
===============================================================================
