---------------------------- MODULE MCCodecChannel -----------------------------
(***************************************************************************)
(* Instances of CodecChannel for TLC.                                      *)
(***************************************************************************)
EXTENDS CodecChannel

Word(bytes) == ZeroExtended(bytes)

\* The two's complement of a word: -n is the complement of n - 1.
Complement(v) == [k \in 1 .. 8 |-> 255 - v[k]]

\* On both sides of every boundary between two unsigned formats, and of
\* every limit of a signed type.
UnsignedWords ==
    {Word(<<n>>) : n \in {0, 127, 128, 255}} \cup
    {Word(bytes) : bytes \in {<<1, 0>>, <<127, 255>>, <<128, 0>>, <<255, 255>>,
        <<1, 0, 0>>, <<127, 255, 255, 255>>, <<128, 0, 0, 0>>,
        <<255, 255, 255, 255>>, <<1, 0, 0, 0, 0>>,
        <<127, 255, 255, 255, 255, 255, 255, 255>>,
        <<128, 0, 0, 0, 0, 0, 0, 0>>,
        <<255, 255, 255, 255, 255, 255, 255, 255>>}}

\* The complements are -1, -32, -33, -128, ...
SignedWords ==
    {v \in UnsignedWords : ~Negative(v)} \cup
    {Complement(Word(bytes)) : bytes \in {<<0>>, <<31>>, <<32>>, <<127>>, <<128>>,
        <<127, 255>>, <<128, 0>>, <<127, 255, 255, 255>>, <<128, 0, 0, 0>>,
        <<127, 255, 255, 255, 255, 255, 255, 255>>}}

Lengths == {0, 1, 15, 16, 31, 32, 255, 256, 65535, 65536}

\* Seconds on both sides of the timestamp formats' limits, and before 1970.
Seconds == {Word(<<0>>), Word(<<255, 255, 255, 255>>), Word(<<1, 0, 0, 0, 0>>),
            Word(<<3, 255, 255, 255, 255>>), Word(<<4, 0, 0, 0, 0>>),
            Complement(Word(<<0>>))}

Values ==
    {[op |-> "unsigned", v |-> v] : v \in UnsignedWords} \cup
    {[op |-> "signed", v |-> v] : v \in SignedWords} \cup
    {[op |-> "ext_integer", type |-> 9, v |-> v] : v \in SignedWords} \cup
    {[op |-> "nil"], [op |-> "boolean", b |-> TRUE], [op |-> "boolean", b |-> FALSE],
     [op |-> "float", bits |-> <<63, 128, 0, 1>>],
     [op |-> "double", bits |-> <<63, 240, 0, 0, 0, 0, 0, 1>>],
     [op |-> "ext_float", type |-> 9, bits |-> <<63, 128, 0, 1>>],
     [op |-> "ext_double", type |-> 9, bits |-> <<63, 240, 0, 0, 0, 0, 0, 1>>]} \cup
    {[op |-> op, n |-> n] : op \in {"array_size", "map_size"}, n \in Lengths} \cup
    {[op |-> op, l |-> l] : op \in {"str", "bin"}, l \in Lengths} \cup
    {[op |-> "ext", type |-> type, l |-> l] :
        type \in {0, 127, -2, -128}, l \in Lengths \cup {2, 3, 4, 8}} \cup
    {[op |-> "time", sec |-> sec, nsec |-> nsec] :
        sec \in Seconds, nsec \in {0, 1, 999999999, 1000000000}}

AllExpectations ==
    {[kind |-> kind, w |-> w] : kind \in {"signed", "unsigned"}, w \in {1, 2, 4, 8}} \cup
    {[kind |-> kind] : kind \in DOMAIN Accepted \cup NumericKinds}

\* Reals for the optimising routines: -0.0, 1, -32768 and the integers one
\* beyond 16 and 32 bits, 37.25, 3.14, 2^53 + 2 and 10^300.
Zeros(n) == [k \in 1 .. n |-> 0]
Real(double, float, int) ==
    [double |-> double \o Zeros(8 - Len(double)),
     float |-> IF float = <<>> THEN <<>> ELSE float \o Zeros(4 - Len(float)), int |-> int]

Reals ==
    {Real(<<128>>, <<128>>, Word(<<0>>)),
     Real(<<63, 240>>, <<63, 128>>, Word(<<1>>)),
     Real(<<192, 224>>, <<199>>, Complement(Word(<<127, 255>>))),
     Real(<<192, 224, 0, 32>>, <<199, 0, 1>>, Complement(Word(<<128, 0>>))),
     Real(<<64, 239, 255, 224>>, <<71, 127, 255>>, Word(<<255, 255>>)),
     Real(<<64, 240>>, <<71, 128>>, Word(<<1, 0, 0>>)),
     Real(<<65, 223, 255, 255, 255, 192>>, <<>>, Word(<<127, 255, 255, 255>>)),
     Real(<<65, 224>>, <<79>>, Word(<<128, 0, 0, 0>>)),
     Real(<<193, 224>>, <<207>>, Complement(Word(<<127, 255, 255, 255>>))),
     Real(<<193, 224, 0, 0, 0, 32>>, <<>>, Complement(Word(<<128, 0, 0, 0>>))),
     Real(<<64, 66, 160>>, <<66, 21>>, <<>>),
     Real(<<64, 9, 30, 184, 81, 235, 133, 31>>, <<>>, <<>>),
     Real(<<67, 64, 0, 0, 0, 0, 0, 1>>, <<>>, Word(<<32, 0, 0, 0, 0, 0, 2>>)),
     Real(<<126, 55, 228, 60, 136, 0, 117, 156>>, <<>>, <<>>)}

\* -0.5 and 0.25 seconds, and a time just before 1970.
Intervals ==
    {[floor |-> Complement(Word(<<0>>)), product |-> 500000000],
     [floor |-> Word(<<0>>), product |-> 250000000],
     [floor |-> Complement(Word(<<0>>)), product |-> 1000000000]}

UtilCalls ==
    {[op |-> "double_opt", d |-> d] : d \in Reals} \cup
    {[op |-> "float_opt", d |-> d] : d \in {d \in Reals : d.float # <<>>}} \cup
    {[op |-> "time_interval", ti |-> ti] : ti \in Intervals}

\* Items to build containers from.
Nested == {[op |-> "nil"], [op |-> "array_size", n |-> 2],
           [op |-> "array_size", n |-> 0], [op |-> "map_size", n |-> 1],
           [op |-> "array_size", n |-> 16],
           [op |-> "ext", type |-> 5, l |-> 3]}

\* Formats the library reads but does not write: integers and lengths in
\* more bytes than they need, empty ext, a timestamp in ext 16 and one of
\* the wrong length, and the byte MessagePack does not use.
Foreign ==
    {[header |-> header, payload |-> payload, children |-> 0] :
        <<header, payload>> \in {
            <<<<205, 0, 7>>, 0>>, <<<<208, 5>>, 0>>, <<<<209, 255, 255>>, 0>>, <<<<219, 0, 0, 0, 1>>, 1>>,
            <<<<199, 0, 5>>, 0>>, <<<<200, 0, 12, 255>>, 12>>, <<<<213, 255>>, 2>>,
            <<<<201, 0, 0, 0, 2, 5>>, 2>>, <<<<193>>, 0>>}} \cup
    {[header |-> <<220, 0, 1>>, payload |-> 0, children |-> 1],
     [header |-> <<223, 0, 0, 0, 1>>, payload |-> 0, children |-> 2]}

\* One client packs a single value of any kind in either mode, one nests
\* containers, and one reads what others have written, mixed with its own.
ValueClient ==
    [calls |-> Values \cup UtilCalls, foreign |-> {}, expected |-> AllExpectations,
     skips |-> {1}, modes |-> BOOLEAN, items |-> 1]

ContainerClient ==
    [calls |-> Nested, foreign |-> {}, expected |-> {},
     skips |-> {1, 2}, modes |-> {}, items |-> 4]

ForeignClient ==
    [calls |-> Nested, foreign |-> Foreign, expected |-> {},
     skips |-> {1, 2}, modes |-> {}, items |-> 2]

AllClients ==
    [values |-> ValueClient, containers |-> ContainerClient,
     others |-> ForeignClient]
===============================================================================
