------------------------------ MODULE ObjectItems -------------------------------
(***************************************************************************)
(* What CWPackContext.m and cwpack_dump.c share: the items of a stream,    *)
(* as far as they tell them apart, and the stream itself.                  *)
(*                                                                         *)
(* An item is ARRAY or MAP with its size, MARKER (an ext item of type 127) *)
(* with the label in it, STR with a class name, VALUE with the scalar it   *)
(* stands for, or NIL.                                                     *)
(***************************************************************************)
EXTENDS ReturnCodes, Sequences

VARIABLES
    stream,  \* the items packed so far
    limit    \* how many of them the readers get, PACKING before they start

PACKING == -1

CWP_ITEM_ARRAY(n)             == [type |-> "ARRAY", size |-> n]
CWP_ITEM_MAP(n)               == [type |-> "MAP", size |-> n]
CWP_ITEM_OBJECT_MARKER(label) == [type |-> "MARKER", label |-> label]
CWP_ITEM_STR(name)            == [type |-> "STR", of |-> name]
CWP_ITEM_VALUE(v)             == [type |-> "VALUE", of |-> v]
CWP_ITEM_NIL                  == [type |-> "NIL"]
CWP_NOT_AN_ITEM               == [type |-> "NOT_AN_ITEM"]

\* cw_unpack_next, for a reader at pos with the return code rc.  A stopped
\* context is left as it is, the item CWP_NOT_AN_ITEM included.
Fetch(pos, rc) ==
    IF rc # CWP_RC_OK THEN [pos |-> pos, rc |-> rc, item |-> CWP_NOT_AN_ITEM]
    ELSE IF pos >= limit
    THEN [pos |-> pos, rc |-> CWP_RC_END_OF_INPUT, item |-> CWP_NOT_AN_ITEM]
    ELSE [pos |-> pos + 1, rc |-> CWP_RC_OK, item |-> stream[pos + 1]]

\* How many items follow an item as parts of it.
PartsOf(item) ==
    CASE item.type = "ARRAY" -> item.size
      [] item.type = "MAP"   -> 2 * item.size
      [] OTHER               -> 0

\* The place behind item k of the stream and everything in it.  A container
\* that is cut short ends behind the stream's last item.
Behinds ==
    LET past == Len(stream) + 2
        behind[j \in 1 .. past] ==
            [n \in Nat |->
                IF n = 0 \/ j = past THEN j
                ELSE IF j = past - 1 THEN past
                ELSE behind[behind[j + 1][PartsOf(stream[j])]][n - 1]]
    IN  behind

Behind(k) == Behinds[k][1]
===============================================================================
