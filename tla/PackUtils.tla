------------------------------- MODULE PackUtils --------------------------------
(***************************************************************************)
(* The packing routines of cwpack_utils.c, which choose among those of     *)
(* cwpack.c.  A number d is given by its forms: double, float (empty when  *)
(* no float has its value) and int (empty when it is no integer of 64      *)
(* bits).  A time interval is given by its floor and by what the product   *)
(* of the rest and 10^9 comes to: 10^9 itself, when the rest rounds to 1.  *)
(***************************************************************************)
EXTENDS PackCodec

\* (int)d is d; it is undefined for others, whatever it is then is not d.
IsInt32(d) ==
    d.int # <<>> /\ IF Negative(d.int) THEN FitsNegative(d.int, 4)
                    ELSE FitsUnsigned(d.int, 4) /\ d.int[5] < 128

InShortRange(v) == IF Negative(v) THEN FitsNegative(v, 2) ELSE FitsUnsigned(v, 2)

cw_pack_double_opt(d) ==
    IF IsInt32(d) THEN cw_pack_signed(d.int)
    ELSE IF d.float # <<>> THEN Encoded(<<202>> \o d.float, 0)
    ELSE Encoded(<<203>> \o d.double, 0)

cw_pack_float_opt(f) ==
    IF IsInt32(f) /\ InShortRange(f.int) THEN cw_pack_signed(f.int)
    ELSE Encoded(<<202>> \o f.float, 0)

cw_pack_time_interval(ti, be_compatible) ==
    cw_pack_time(ti.floor, ti.product, be_compatible)

\* A packing call of the library or of these.
EncodeAny(call, be_compatible) ==
    CASE call.op = "double_opt"    -> cw_pack_double_opt(call.d)
      [] call.op = "float_opt"     -> cw_pack_float_opt(call.d)
      [] call.op = "time_interval" -> cw_pack_time_interval(call.ti, be_compatible)
      [] OTHER                     -> Encode(call, be_compatible)

-------------------------------------------------------------------------------
(* The calls a client may make.  Type -1 is that of the timestamps, which  *)
(* cw_pack_time packs; a string of bytes is shorter than 2^31 (bound).     *)

Lengths31 == {n \in Nat : n <= 2147483647}

ExtTypes == -128 .. 127 \ {-1}

Bits32 == [1 .. 4 -> Byte]

\* The forms of a real, when it has a float's value and when it may not.
Floats  == [double : Word64, float : Bits32, int : Word64 \cup {<<>>}]
Doubles == [double : Word64, float : Bits32 \cup {<<>>}, int : Word64 \cup {<<>>}]

PackingCalls ==
    [op : {"nil"}] \cup
    [op : {"boolean"}, b : BOOLEAN] \cup
    [op : {"unsigned", "signed"}, v : Word64] \cup
    [op : {"float"}, bits : Bits32] \cup
    [op : {"double"}, bits : Word64] \cup
    [op : {"array_size", "map_size"}, n : Lengths31] \cup
    [op : {"str", "bin"}, l : Lengths31] \cup
    [op : {"ext"}, type : ExtTypes, l : Lengths31] \cup
    [op : {"time"}, sec : Word64, nsec : Lengths31] \cup
    [op : {"ext_integer"}, type : ExtTypes, v : Word64] \cup
    [op : {"ext_float"}, type : ExtTypes, bits : Bits32] \cup
    [op : {"ext_double"}, type : ExtTypes, bits : Word64] \cup
    [op : {"double_opt"}, d : Doubles] \cup
    [op : {"float_opt"}, d : Floats] \cup
    [op : {"time_interval"}, ti : [floor : Word64, product : Lengths31]]
===============================================================================
