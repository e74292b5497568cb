------------------------------ MODULE MCPackCalls ------------------------------
(***************************************************************************)
(* The packing calls the runs of the pack contexts make, as the demands    *)
(* PackCodec computes for them.                                            *)
(***************************************************************************)
EXTENDS PackCodec

Byte8(n) == <<0, 0, 0, 0, 0, 0, 0, n>>

\* One byte; two bytes; three; three or, in compatibility mode, two; four or
\* an illegal call; a value error.
SmallCalls == {
    Demand([op |-> "nil"]),
    Demand([op |-> "unsigned", v |-> Byte8(200)]),
    Demand([op |-> "str", l |-> 2]),
    Demand([op |-> "bin", l |-> 1]),
    Demand([op |-> "ext", type |-> 7, l |-> 2]),
    Demand([op |-> "time", sec |-> Byte8(0), nsec |-> 1000000000]) }
===============================================================================
