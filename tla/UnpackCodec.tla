------------------------------ MODULE UnpackCodec ------------------------------
(***************************************************************************)
(* How the unpacking routines of cwpack.c read an item, as pure operators. *)
(*                                                                         *)
(* b is the input from the routine's first byte on: b[0] is the tag.  A    *)
(* routine asks for bytes in steps (cw_unpack_assert_space), first one for *)
(* the tag, then for what tag and length fields call for: the sequence of  *)
(* these asks decides what is consumed, and what a truncated input does.   *)
(*                                                                         *)
(* Lengths and sizes are numbers below 2^31 (bound).                       *)
(***************************************************************************)
EXTENDS PackCodec

CWP_ITEM_TIMESTAMP        == -1
CWP_ITEM_MAX_USER_EXT     == 127
CWP_ITEM_NIL              == 300
CWP_ITEM_BOOLEAN          == 301
CWP_ITEM_POSITIVE_INTEGER == 302
CWP_ITEM_NEGATIVE_INTEGER == 303
CWP_ITEM_FLOAT            == 304
CWP_ITEM_DOUBLE           == 305
CWP_ITEM_STR              == 306
CWP_ITEM_BIN              == 307
CWP_ITEM_ARRAY            == 308
CWP_ITEM_MAP              == 309
CWP_ITEM_EXT              == 310
CWP_NOT_AN_ITEM           == 999

\* The sum of the first k numbers of asks, for each k.
Sums(asks) ==
    LET sum[k \in 0 .. Len(asks)] == IF k = 0 THEN 0 ELSE sum[k - 1] + asks[k]
    IN  sum

Total(asks) == Sums(asks)[Len(asks)]

-------------------------------------------------------------------------------
(* Fields.                                                                 *)

Field(b, i, w) == [k \in 1 .. w |-> b[i + k - 1]]

\* The value of cw_load16 and cw_load32.
Number(bytes) ==
    LET n[k \in 0 .. Len(bytes)] == IF k = 0 THEN 0 ELSE 256 * n[k - 1] + bytes[k]
    IN  n[Len(bytes)]

\* The cast of an unsigned field to uint64_t, of a signed one to int64_t.
ZeroExtended(bytes) == [k \in 1 .. 8 - Len(bytes) |-> 0] \o bytes

\* Mutant: the sign is not extended.
SignExtended_AsUnsigned(bytes) == ZeroExtended(bytes)

SignExtended(bytes) ==
    [k \in 1 .. 8 - Len(bytes) |-> IF bytes[1] >= 128 THEN 255 ELSE 0] \o bytes

\* The cast of a byte to int8_t.
Signed8(x) == IF x >= 128 THEN x - 256 ELSE x

FixStr    == 160 .. 191
FixMap    == 128 .. 143
FixArray  == 144 .. 159
StrOrBin  == 196 .. 198 \cup 217 .. 219
Ext       == 199 .. 201
FixExt    == 212 .. 216
Container == 220 .. 223
Numeric   == 202 .. 211

\* The width of the field behind the tag: a value, a length or a size.
Width ==
    [c \in 196 .. 211 \cup 217 .. 223 |->
        CASE c \in {196, 199, 204, 208, 217}                -> 1
          [] c \in {197, 200, 205, 209, 218, 220, 222}      -> 2
          [] c \in {198, 201, 202, 206, 210, 219, 221, 223} -> 4
          [] c \in {203, 207, 211}                          -> 8]

FixExtLength ==
    [c \in FixExt |->
        CASE c = 212 -> 1 [] c = 213 -> 2 [] c = 214 -> 4 [] c = 215 -> 8 [] c = 216 -> 16]

\* The length or size that follows the tag.
Count(b) == Number(Field(b, 1, Width[b[0]]))

-------------------------------------------------------------------------------
(* cw_unpack_next.                                                         *)

UnpackAsks(b) ==
    LET c == b[0]
    IN  CASE c \in FixStr              -> <<1, c - 160>>
          [] c \in StrOrBin            -> <<1, Width[c], Count(b)>>
          [] c \in FixExt              -> <<1, FixExtLength[c] + 1>>
          [] c \in Ext                 ->
                IF c = 199 /\ Signed8(b[2]) = CWP_ITEM_TIMESTAMP
                THEN IF Count(b) = 12 THEN <<1, 1, 1, 4, 8>> ELSE <<1, 1, 1>>
                ELSE <<1, Width[c], 1, Count(b)>>
          [] c \in Numeric \cup Container -> <<1, Width[c]>>
          [] OTHER                     -> <<1>>

\* The type byte of an ext item.
ExtType(b) == Signed8(b[IF b[0] \in FixExt THEN 1 ELSE 1 + Width[b[0]]])

TagType(c) ==
    CASE c \in 0 .. 127 \cup 204 .. 207      -> CWP_ITEM_POSITIVE_INTEGER
      [] c \in 224 .. 255 \cup 208 .. 211    -> CWP_ITEM_NEGATIVE_INTEGER
      [] c \in FixMap \cup {222, 223}        -> CWP_ITEM_MAP
      [] c \in FixArray \cup {220, 221}      -> CWP_ITEM_ARRAY
      [] c \in FixStr \cup 217 .. 219        -> CWP_ITEM_STR
      [] c \in 196 .. 198                    -> CWP_ITEM_BIN
      [] c \in Ext \cup FixExt               -> CWP_ITEM_EXT
      [] c = 192                             -> CWP_ITEM_NIL
      [] c \in {194, 195}                    -> CWP_ITEM_BOOLEAN
      [] c = 202                             -> CWP_ITEM_FLOAT
      [] c = 203                             -> CWP_ITEM_DOUBLE
      [] OTHER                               -> CWP_NOT_AN_ITEM

\* Only fixext and ext 8 are checked for the timestamp type.
Timestamp(b) == b[0] \in FixExt \cup {199} /\ ExtType(b) = CWP_ITEM_TIMESTAMP

\* The error an item stops the context with once its bytes are there.
ItemError(b) ==
    IF TagType(b[0]) = CWP_NOT_AN_ITEM THEN CWP_RC_MALFORMED_INPUT
    ELSE IF Timestamp(b)
            /\ UnpackAsks(b) \notin {<<1, 5>>, <<1, 9>>, <<1, 1, 1, 4, 8>>}
    THEN CWP_RC_WRONG_TIMESTAMP_LENGTH
    ELSE CWP_RC_OK

\* Seconds and nanoseconds of the three timestamp formats.
TimeValue(b) ==
    CASE b[0] = 214 -> [sec |-> ZeroExtended(Field(b, 2, 4)), nsec |-> 0]
      [] b[0] = 215 ->
            [sec  |-> ZeroExtended(<<b[5] % 4>> \o Field(b, 6, 4)),
             nsec |-> b[2] * 4194304 + b[3] * 16384 + b[4] * 64 + b[5] \div 4]
      [] b[0] = 199 -> [sec  |-> Field(b, 7, 8),
                        nsec |-> Number(Field(b, 3, 4))]

Integer(b) ==
    LET c == b[0]
    IN  CASE c \in 0 .. 127   -> ZeroExtended(<<c>>)
          [] c \in 224 .. 255 -> SignExtended(<<c>>)
          [] c \in 204 .. 207 -> ZeroExtended(Field(b, 1, Width[c]))
          [] c \in 208 .. 211 -> SignExtended(Field(b, 1, Width[c]))

\* A blob's length, and its start as an offset from the tag.
Blob(b) == LET asks == UnpackAsks(b)
               n    == IF b[0] \in FixExt THEN FixExtLength[b[0]]
                                          ELSE asks[Len(asks)]
           IN  [length |-> n, start |-> Total(asks) - n]

\* The item cw_unpack_next leaves: the field type and the member of the
\* union it selects.  A signed integer that is not negative is positive.
UnpackItem(b) ==
    LET c == b[0]
        type == IF c \in Ext \cup FixExt THEN ExtType(b)
                ELSE IF c \in 208 .. 211 /\ ~Negative(Integer(b))
                THEN CWP_ITEM_POSITIVE_INTEGER
                ELSE TagType(c)
        as   == CASE TagType(c) \in {CWP_ITEM_POSITIVE_INTEGER,
                                     CWP_ITEM_NEGATIVE_INTEGER} -> Integer(b)
                  [] c \in FixStr \cup StrOrBin          -> Blob(b)
                  [] c \in Ext \cup FixExt               ->
                        IF Timestamp(b) THEN TimeValue(b) ELSE Blob(b)
                  [] c \in FixMap \cup FixArray          -> c % 16
                  [] c \in Container                     -> Count(b)
                  [] c \in {194, 195}                    -> c = 195
                  [] c \in {202, 203}                    -> Field(b, 1, Width[c])
                  [] OTHER                               -> <<>>
    IN  [type |-> type, as |-> as]

NotAnItem == [type |-> CWP_NOT_AN_ITEM, as |-> <<>>]

-------------------------------------------------------------------------------
(* cw_skip_items and cw_look_ahead.                                        *)

\* What skipping asks for: length and type of an ext in one step.
SkipAsks(b) ==
    LET c == b[0]
    IN  CASE c \in FixStr              -> <<1, c - 160>>
          [] c \in StrOrBin            -> <<1, Width[c], Count(b)>>
          [] c \in FixExt              -> <<1, FixExtLength[c] + 1>>
          [] c \in Ext                 -> <<1, Width[c], Count(b) + 1>>
          [] c \in Numeric \cup Container -> <<1, Width[c]>>
          [] OTHER                     -> <<1>>

\* Mutant: the keys of a small map are not counted.
Children_WithoutKeys(b) ==
    LET c == b[0]
    IN  CASE c \in FixMap \cup FixArray -> c % 16
          [] c \in {220, 221} -> Count(b)
          [] c \in {222, 223} -> 2 * Count(b)
          [] OTHER            -> 0

\* The items a container adds to those still to be skipped.
Children(b) ==
    LET c == b[0]
    IN  CASE c \in FixMap     -> 2 * (c % 16)
          [] c \in FixArray   -> c % 16
          [] c \in {220, 221} -> Count(b)
          [] c \in {222, 223} -> 2 * Count(b)
          [] OTHER            -> 0

\* Mutant: ext 16 is taken for ext 8.
Peek_Ext16AsExt8(b) ==
    CASE b[0] \in {199, 200} -> 3 [] b[0] = 201 -> 6 [] b[0] \in FixExt -> 2
      [] OTHER -> 1

\* How far cw_look_ahead looks past the tag's first byte: to the type byte
\* of an ext, with the bytes before it.  Nothing is consumed.
Peek(b) ==
    LET c == b[0]
    IN  CASE c = 199 -> 3 [] c = 200 -> 4 [] c = 201 -> 6
          [] c \in FixExt -> 2
          [] OTHER -> 1

AheadType(b) ==
    IF b[0] \in Ext \cup FixExt THEN Signed8(b[Peek(b) - 1]) ELSE TagType(b[0])

-------------------------------------------------------------------------------
(* Asking a context that has nothing behind its buffer: available bytes    *)
(* are left.  What is consumed, and the return code the asks leave.        *)

Satisfied(asks, available) ==
    CHOOSE k \in 0 .. Len(asks) :
        /\ Sums(asks)[k] <= available
        /\ k < Len(asks) => Sums(asks)[k + 1] > available

Consumed(asks, available) == Sums(asks)[Satisfied(asks, available)]

\* Mutant: the end of the buffer is END_OF_INPUT wherever it comes.
AskCode_AlwaysEnd(asks, available, error) ==
    IF Satisfied(asks, available) < Len(asks) THEN CWP_RC_END_OF_INPUT ELSE error

\* buffer_end_return_code: END_OF_INPUT before an item, BUFFER_UNDERFLOW
\* within one; otherwise the item's own error.
AskCode(asks, available, error) ==
    LET k == Satisfied(asks, available)
    IN  IF k = 0 THEN CWP_RC_END_OF_INPUT
        ELSE IF k < Len(asks) THEN CWP_RC_BUFFER_UNDERFLOW
        ELSE error
===============================================================================
