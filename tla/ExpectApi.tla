------------------------------- MODULE ExpectApi -------------------------------
(***************************************************************************)
(* The routines that unpack an item the client expects: the expect API of  *)
(* cwpack_utils.c, and the readers of numeric_extensions.c.  Each         *)
(* looks at the item cw_unpack_next has left, and either answers a value   *)
(* or stops the context.                                                   *)
(*                                                                         *)
(* An expectation is a record: kind, and for integers the width w in bytes *)
(* of the type asked for.                                                  *)
(***************************************************************************)
EXTENDS UnpackCodec

Answer(value)   == [rc |-> CWP_RC_OK, value |-> value]
NoAnswer(code)  == [rc |-> code, value |-> <<>>]
TypeError       == NoAnswer(CWP_RC_TYPE_ERROR)
ValueError      == NoAnswer(CWP_RC_VALUE_ERROR)

\* u64 <= INTn_MAX, u64 <= UINTn_MAX and i64 >= INTn_MIN for n = 8w.
UpToSignedMax(v, w)     == FitsUnsigned(v, w) /\ v[9 - w] < 128
UpToUnsignedMax(v, w)   == FitsUnsigned(v, w)
DownToSignedMin(v, w)   == FitsNegative(v, w)

\* Mutant: a negative integer is not compared with the type's minimum.
Signed_NoMinimum(item, w) ==
    CASE item.type = CWP_ITEM_POSITIVE_INTEGER ->
            IF UpToSignedMax(item.as, w) THEN Answer(item.as) ELSE ValueError
      [] item.type = CWP_ITEM_NEGATIVE_INTEGER -> Answer(item.as)
      [] OTHER -> TypeError

\* cw_unpack_next_signed8 .. cw_unpack_next_signed64
Signed(item, w) ==
    CASE item.type = CWP_ITEM_POSITIVE_INTEGER ->
            IF UpToSignedMax(item.as, w) THEN Answer(item.as) ELSE ValueError
      [] item.type = CWP_ITEM_NEGATIVE_INTEGER ->
            IF w = 8 \/ DownToSignedMin(item.as, w) THEN Answer(item.as) ELSE ValueError
      [] OTHER -> TypeError

\* cw_unpack_next_unsigned8 .. cw_unpack_next_unsigned64
Unsigned(item, w) ==
    IF item.type # CWP_ITEM_POSITIVE_INTEGER THEN TypeError
    ELSE IF UpToUnsignedMax(item.as, w) THEN Answer(item.as) ELSE ValueError

\* The item types the other routines accept.
Accepted ==
    [nil           |-> {CWP_ITEM_NIL},
     boolean       |-> {CWP_ITEM_BOOLEAN},
     real          |-> {CWP_ITEM_POSITIVE_INTEGER, CWP_ITEM_NEGATIVE_INTEGER,
                        CWP_ITEM_FLOAT, CWP_ITEM_DOUBLE},
     time_interval |-> {CWP_ITEM_TIMESTAMP},
     str_length    |-> {CWP_ITEM_STR},
     bin_length    |-> {CWP_ITEM_BIN},
     array_size    |-> {CWP_ITEM_ARRAY},
     map_size      |-> {CWP_ITEM_MAP}]

NumericKinds == {"ext_integer", "ext_float", "ext_double"}

\* What a client may expect.
Expectations ==
    [kind : {"signed", "unsigned"}, w : {1, 2, 4, 8}] \cup
    [kind : DOMAIN Accepted \cup NumericKinds]

\* get_ext_integer reads the content of an ext item of the widths an
\* integer has; content is the item's blob.
get_ext_integer(item, content) ==
    IF item.type > CWP_ITEM_MAX_USER_EXT THEN TypeError
    ELSE CASE item.as.length = 0            -> Answer(ZeroExtended(<<0>>))
           [] item.as.length \in {1, 2, 4, 8} -> Answer(SignExtended(content))
           [] OTHER                         -> ValueError

\* get_ext_float and get_ext_double read one of w bytes.
get_ext_real(item, content, w) ==
    IF item.type > CWP_ITEM_MAX_USER_EXT THEN TypeError
    ELSE IF item.as.length # w THEN ValueError
    ELSE Answer(content)

\* What is told of an accepted item.  The floating-point value the integers,
\* the reals and the time are converted to is left out.
Told(kind, item) ==
    CASE kind \in {"boolean", "array_size", "map_size"} -> item.as
      [] kind \in {"str_length", "bin_length"}          -> item.as.length
      [] kind \in {"nil", "real", "time_interval"}      -> <<>>

\* What the routine for an expectation makes of an item; content is the
\* item's blob, which only the numeric extensions look at.
Expect(expected, item, content) ==
    CASE expected.kind = "signed"      -> Signed(item, expected.w)
      [] expected.kind = "unsigned"    -> Unsigned(item, expected.w)
      [] expected.kind = "ext_integer" -> get_ext_integer(item, content)
      [] expected.kind = "ext_float"   -> get_ext_real(item, content, 4)
      [] expected.kind = "ext_double"  -> get_ext_real(item, content, 8)
      [] OTHER -> IF item.type \in Accepted[expected.kind]
                  THEN Answer(Told(expected.kind, item)) ELSE TypeError
===============================================================================
