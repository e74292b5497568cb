----------------------------- MODULE MCJsonExample ------------------------------
(***************************************************************************)
(* An instance of JsonExample for TLC.                                     *)
(***************************************************************************)
EXTENDS JsonExample, FiniteSets

Value(kind)         == [kind |-> kind]
NumberValue(kind, n) == [kind |-> kind, number |-> n]
StringValue(codes)  == [kind |-> "STRING", codes |-> codes]
Parts(kind, parts)  == [kind |-> kind, parts |-> parts]

\* On both sides of every limit of UTF-8 within 16 bits, and what is escaped.
Codes == {1, 9, 34, 47, 92, 97, 127, 128, 233, 2047, 2048, 8364, 4095, 4096, 65533}

Strings == {StringValue(<<>>)} \cup {StringValue(<<c, d>>) : c, d \in Codes}

Scalars ==
    {Value(k) : k \in {"NIL", "TRUE", "FALSE", "BIN"}}
    \cup {NumberValue("INTEGER", n) : n \in {-8, -1, 0, 7, 8}}
    \cup {NumberValue("REAL", n) : n \in {-3, 1, 2, 3, 4}}

Sample == {StringValue(<<97>>), NumberValue("INTEGER", 7), NumberValue("REAL", 3)}

Sequences(S, n) == UNION {[1 .. k -> S] : k \in 0 .. n}

\* Containers of up to two parts, those within those of up to one ...
Inner == {Parts(k, p) : k \in {"ARRAY"}, p \in Sequences(Sample, 1)}
         \cup {Parts("MAP", <<StringValue(<<97>>), s>>) : s \in Sample} \cup {Parts("MAP", <<>>)}

Middle == {Parts("ARRAY", p) : p \in Sequences(Inner \cup {StringValue(<<98>>)}, 2)}
          \cup {Parts("MAP", <<StringValue(<<97>>), x, StringValue(<<98>>), y>>) :
                    x, y \in Inner \cup {Value("NIL")}}

\* ... and a third level around them.
Deep == {Parts("ARRAY", <<x, y>>) : x \in Middle, y \in Inner}
        \cup {Parts("MAP", <<StringValue(<<97>>), x, StringValue(<<99>>), Value("TRUE")>>) :
                    x \in Middle}

SomeValues == Strings \cup Scalars \cup {Parts("ARRAY", <<s>>) : s \in Scalars}
              \cup Inner \cup Middle \cup Deep
===============================================================================
