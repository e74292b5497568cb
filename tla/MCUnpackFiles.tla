----------------------------- MODULE MCUnpackFiles -----------------------------
(***************************************************************************)
(* Files for the unpack contexts: short byte strings, each byte with what  *)
(* the routines of UnpackCodec make of it as a tag.                        *)
(***************************************************************************)
EXTENDS UnpackCodec

\* The input from byte k on.
From(bytes, k) ==
    [i \in 0 .. 17 |-> IF k + i <= Len(bytes) THEN bytes[k + i] ELSE 0]

AsTag(b) ==
    [next     |-> UnpackAsks(b),
     next_rc  |-> ItemError(b),
     skip     |-> SkipAsks(b),
     skip_rc  |-> IF TagType(b[0]) = CWP_NOT_AN_ITEM
                  THEN CWP_RC_MALFORMED_INPUT ELSE CWP_RC_OK,
     children |-> Children(b),
     ahead    |-> IF Peek(b) = 1 THEN <<1>> ELSE <<1, Peek(b)>>]

FileOf(bytes) == [k \in DOMAIN bytes |-> AsTag(From(bytes, k))]

\* An array of a str 8 of three bytes and an ext 8 of one; a nil.
Nested == <<146, 217, 3, 192, 192, 192, 199, 1, 5, 192, 192>>

\* A map of two nils, then an ext 16 of no bytes.
Mapped == <<129, 192, 192, 200, 0, 0, 5>>

\* A byte MessagePack does not use behind a positive fixint.
Malformed == <<7, 193, 7>>

WholeFiles == {FileOf(bytes) : bytes \in {Nested, Mapped, Malformed, <<>>}}

\* Files that end within an item, or within a container.
CutFiles ==
    {FileOf(SubSeq(Nested, 1, n)) : n \in {2, 4, 6, 8, 9}} \cup
    {FileOf(SubSeq(Mapped, 1, n)) : n \in {2, 5}}
===============================================================================
