------------------------------- MODULE PackCodec -------------------------------
(***************************************************************************)
(* The bytes each packing routine of cwpack.c and numeric_extensions.c     *)
(* produces, as pure operators.                                            *)
(*                                                                         *)
(* A 64 bit integer is the tuple of its eight bytes, most significant      *)
(* first: the order in which cw_store16/32/64 put them on the wire, on     *)
(* every byte order the library is built for.  A negative int64_t is its   *)
(* two's complement, as in the C union.  The payload of a blob (str, bin,  *)
(* ext) is only counted: the routine copies it unchanged after the header. *)
(***************************************************************************)
EXTENDS ReturnCodes, Sequences, FiniteSetsExt

Byte   == 0 .. 255

Word64 == [1 .. 8 -> Byte]

\* 256^k: what a byte counts for with k bytes behind it.
Place ==
    [k \in 0 .. 3 |->
        CASE k = 0 -> 1 [] k = 1 -> 256 [] k = 2 -> 65536 [] k = 3 -> 16777216]

\* The last w bytes of a word: what the cast to a narrower type keeps.
Low(v, w) == SubSeq(v, 9 - w, 8)

\* An unsigned number below 2^31 as w bytes (cw_store16, cw_store32).
BigEndian(n, w) == [k \in 1 .. w |-> (n \div Place[w - k]) % 256]

FitsUnsigned(v, w) == \A k \in 1 .. 8 - w : v[k] = 0

Negative(v) == v[1] >= 128

\* v, taken as an int64_t below zero, is at least -2^(8w-1).
FitsNegative(v, w) == v[9 - w] >= 128 /\ \A k \in 1 .. 8 - w : v[k] = 255

-------------------------------------------------------------------------------
(* The result of a packing routine: the return code it leaves, the bytes   *)
(* of its header and the number of payload bytes copied behind them.       *)

Encoded(header, payload) ==
    [rc |-> CWP_RC_OK, header |-> header, payload |-> payload]

Refused(code) == [rc |-> code, header |-> <<>>, payload |-> 0]

\* The tag for each width, in bytes, of the length or value field.
UnsignedTag ==
    [w \in {1, 2, 4, 8} |->
        CASE w = 1 -> 204 [] w = 2 -> 205 [] w = 4 -> 206 [] w = 8 -> 207]
SignedTag ==
    [w \in {1, 2, 4, 8} |->
        CASE w = 1 -> 208 [] w = 2 -> 209 [] w = 4 -> 210 [] w = 8 -> 211]
StrTag ==
    [w \in {1, 2, 4} |->
        CASE w = 1 -> 217 [] w = 2 -> 218 [] w = 4 -> 219]
BinTag ==
    [w \in {1, 2, 4} |->
        CASE w = 1 -> 196 [] w = 2 -> 197 [] w = 4 -> 198]
ExtTag ==
    [w \in {1, 2, 4} |->
        CASE w = 1 -> 199 [] w = 2 -> 200 [] w = 4 -> 201]
FixExtTag ==
    [w \in {1, 2, 4, 8, 16} |->
        CASE w = 1 -> 212 [] w = 2 -> 213 [] w = 4 -> 214
          [] w = 8 -> 215 [] w = 16 -> 216]
ArrayTag ==
    [w \in {2, 4} |->
        CASE w = 2 -> 220 [] w = 4 -> 221]
MapTag ==
    [w \in {2, 4} |->
        CASE w = 2 -> 222 [] w = 4 -> 223]

\* Tag and length field, the narrowest of the widths in tags that holds n.
SizedHeader(tags, n) ==
    LET w == Min({k \in DOMAIN tags : k = 4 \/ n < Place[k]})
    IN  <<tags[w]>> \o BigEndian(n, w)

\* Mutant: 127 is not packed as a fixint.
unsigned_OffByOne(v) ==
    IF FitsUnsigned(v, 1) /\ v[8] < 127
    THEN Encoded(Low(v, 1), 0)
    ELSE LET w == Min({k \in {1, 2, 4, 8} : FitsUnsigned(v, k)})
         IN  Encoded(<<UnsignedTag[w]>> \o Low(v, w), 0)

cw_pack_unsigned(v) ==
    IF FitsUnsigned(v, 1) /\ v[8] < 128
    THEN Encoded(Low(v, 1), 0)
    ELSE LET w == Min({k \in {1, 2, 4, 8} : FitsUnsigned(v, k)})
         IN  Encoded(<<UnsignedTag[w]>> \o Low(v, w), 0)

cw_pack_signed(v) ==
    IF ~Negative(v) THEN cw_pack_unsigned(v)
    ELSE IF FitsNegative(v, 1) /\ v[8] >= 224
    THEN Encoded(Low(v, 1), 0)
    ELSE LET w == Min({k \in {1, 2, 4, 8} : FitsNegative(v, k)})
         IN  Encoded(<<SignedTag[w]>> \o Low(v, w), 0)

cw_pack_array_size(n) ==
    Encoded(IF n < 16 THEN <<144 + n>> ELSE SizedHeader(ArrayTag, n), 0)

cw_pack_map_size(n) ==
    Encoded(IF n < 16 THEN <<128 + n>> ELSE SizedHeader(MapTag, n), 0)

\* Mutant: str 8 in both modes.
str_Str8Always(l, be_compatible) ==
    Encoded(IF l < 32 THEN <<160 + l>> ELSE SizedHeader(StrTag, l), l)

\* In compatibility mode there is no str 8.
cw_pack_str(l, be_compatible) ==
    LET tags == [w \in DOMAIN StrTag \ (IF be_compatible THEN {1} ELSE {}) |-> StrTag[w]]
    IN  Encoded(IF l < 32 THEN <<160 + l>> ELSE SizedHeader(tags, l), l)

\* In compatibility mode a bin is packed as a str.
cw_pack_bin(l, be_compatible) ==
    IF be_compatible THEN cw_pack_str(l, TRUE)
                     ELSE Encoded(SizedHeader(BinTag, l), l)

cw_pack_ext(type, l, be_compatible) ==
    IF be_compatible THEN Refused(CWP_RC_ILLEGAL_CALL)
    ELSE LET tag == IF l \in DOMAIN FixExtTag THEN <<FixExtTag[l]>>
                                              ELSE SizedHeader(ExtTag, l)
         IN  Encoded(Append(tag, type % 256), l)

\* nsec << 34 | sec, for sec below 2^34: the seconds take the low 34 bits,
\* so nsec begins in the middle of a byte (nsec >> 22, >> 14, >> 6, << 2).
TimeData64(sec, nsec) ==
    <<nsec \div 4194304, (nsec \div 16384) % 256, (nsec \div 64) % 256,
      (nsec % 64) * 4 + sec[4]>> \o Low(sec, 4)

\* In nanoseconds.
SECOND == 1000000000

cw_pack_time(sec, nsec, be_compatible) ==
    LET far    == sec[4] >= 4 \/ \E k \in 1 .. 3 : sec[k] # 0
        data64 == TimeData64(sec, nsec)
    IN  IF be_compatible THEN Refused(CWP_RC_ILLEGAL_CALL)
        ELSE IF nsec >= SECOND THEN Refused(CWP_RC_VALUE_ERROR)
        ELSE IF far
        THEN Encoded(<<199, 12, 255>> \o BigEndian(nsec, 4) \o sec, 0)
        ELSE IF FitsUnsigned(data64, 4)
        THEN Encoded(<<214, 255>> \o Low(data64, 4), 0)
        ELSE Encoded(<<215, 255>> \o data64, 0)

\* numeric_extensions.c: a two's complement integer as a fixext, whatever
\* the compatibility mode is.
cw_pack_ext_integer(type, v) ==
    LET w == Min({k \in {1, 2, 4, 8} :
                    IF Negative(v) THEN FitsNegative(v, k)
                    ELSE FitsUnsigned(v, k) /\ v[9 - k] < 128})
    IN  Encoded(<<FixExtTag[w], type % 256>> \o Low(v, w), 0)

-------------------------------------------------------------------------------
(* One packing call: its name and its arguments.                           *)

Encode(call, be_compatible) ==
    CASE call.op = "nil"         -> Encoded(<<192>>, 0)
      [] call.op = "boolean"     -> Encoded(<<IF call.b THEN 195 ELSE 194>>, 0)
      [] call.op = "unsigned"    -> cw_pack_unsigned(call.v)
      [] call.op = "signed"      -> cw_pack_signed(call.v)
      [] call.op = "float"       -> Encoded(<<202>> \o call.bits, 0)
      [] call.op = "double"      -> Encoded(<<203>> \o call.bits, 0)
      [] call.op = "array_size"  -> cw_pack_array_size(call.n)
      [] call.op = "map_size"    -> cw_pack_map_size(call.n)
      [] call.op = "str"         -> cw_pack_str(call.l, be_compatible)
      [] call.op = "bin"         -> cw_pack_bin(call.l, be_compatible)
      [] call.op = "ext"         -> cw_pack_ext(call.type, call.l, be_compatible)
      [] call.op = "time"        -> cw_pack_time(call.sec, call.nsec, be_compatible)
      [] call.op = "ext_integer" -> cw_pack_ext_integer(call.type, call.v)
      [] call.op = "ext_float"   -> Encoded(<<214, call.type % 256>> \o call.bits, 0)
      [] call.op = "ext_double"  -> Encoded(<<215, call.type % 256>> \o call.bits, 0)

\* What a call asks of a context, in each compatibility mode: the error it
\* stops the context with, or the space it reserves.
Demand(call) ==
    [be_compatible \in BOOLEAN |->
        LET e == Encode(call, be_compatible)
        IN  [rc |-> e.rc, size |-> Len(e.header) + e.payload]]
===============================================================================
