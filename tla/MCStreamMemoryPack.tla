--------------------------- MODULE MCStreamMemoryPack ---------------------------
(***************************************************************************)
(* Instances of StreamPack and MemoryPack for TLC, side by side: a client  *)
(* uses a context of one kind or the other.                                *)
(***************************************************************************)
EXTENDS StreamPack, MemoryPack

Demands == INSTANCE MCPackCalls

PackCalls == Demands!SmallCalls

VARIABLE used  \* the kind of context the client uses

UsedInit ==
    /\ Init /\ MemoryInit
    /\ used \in {"stream", "memory"}
    /\ spc.byte_order = mpc.byte_order

UsedNext ==
    \/ used = "stream" /\ Next /\ UNCHANGED <<mpc, used>>
    \/ used = "memory" /\ MemoryNext /\ UNCHANGED <<spc, used>>

UsedSpec == UsedInit /\ [][UsedNext]_<<spc, mpc, used>>
===============================================================================
