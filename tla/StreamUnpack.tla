----------------------------- MODULE StreamUnpack ------------------------------
(***************************************************************************)
(* stream_unpack_context of basic_contexts.c: an unpack context that reads *)
(* a C stream.  Its handler calls fread once and answers OK when that gave *)
(* any bytes at all.                                                       *)
(***************************************************************************)
EXTENDS UnpackCore

CONSTANT PartialReads  \* fread may give some bytes before it meets an error

ASSUME StreamUnpackAssumption == PartialReads \in BOOLEAN

\* What memmove takes to the start: the bytes not consumed yet.
Remains(c) == SubSeq(c.window, c.current + 1, Len(c.window))

\* handle_stream_unpack_underflow up to fread.  There is no barrier.
handle_stream_unpack_underflow(c) == MakeRoom(c, {Remains(c)})

\* fread gives all there is room for, or what is left of the stream; less
\* only when it then meets an error.
Fread ==
    /\ call.reading
    /\ \/ /\ Remaining(uc) > 0
          /\ \E l \in (IF PartialReads THEN 1 ELSE Remaining(uc)) .. Remaining(uc) :
                Granted(Filled(uc, l))
       \/ Remaining(uc) = 0 /\ Stopped(uc, CWP_RC_END_OF_INPUT)
    /\ UNCHANGED file

FreadFails ==
    /\ call.reading
    /\ Stopped(uc, CWP_RC_ERROR_IN_HANDLER)
    /\ UNCHANGED file

StreamUnderflow == CallHandler(handle_stream_unpack_underflow(uc))

StreamRoutine == AssertSpace \/ StreamUnderflow \/ Fread

StreamNext ==
    \/ init_unpack_context
    \/ cw_unpack_next
    \/ cw_skip_items
    \/ cw_look_ahead
    \/ StreamRoutine
    \/ FreadFails
    \/ terminate_unpack_context

\* The thread that runs a routine goes on, and fread returns.
StreamSpec == Init /\ [][StreamNext]_vars /\ WF_vars(StreamRoutine)
-------------------------------------------------------------------------------
(* Input that ends with an item.  The handler answers OK when fread gave   *)
(* fewer bytes than were asked for, so the properties hold only of streams *)
(* no item of which is cut off.                                            *)

\* The bytes of asks, taken one after the other from position p of f on, are
\* there, and the last of them ends in ends.
Lands(asks, p, f, ends) ==
    \E at \in [0 .. Len(asks) -> 0 .. Len(f)] :
        /\ at[0] = p
        /\ \A i \in 1 .. Len(asks) : at[i] = at[i - 1] + asks[i]
        /\ at[Len(asks)] \in ends

\* Behind an item there is one of B, unless the item is refused.
Behind(rc, f, B) == IF rc = CWP_RC_OK THEN B ELSE 0 .. Len(f)

\* B is a set of positions between items of f: the start is one, and an item
\* that begins at one ends at one, whichever routine reads it.
BetweenItems(f, B) ==
    /\ 0 \in B
    /\ \A k \in B \ {Len(f)} :
        LET b == f[k + 1]
        IN  /\ Lands(Tail(b.next), k + 1, f, Behind(b.next_rc, f, B))
            /\ Lands(Tail(b.skip), k + 1, f, Behind(b.skip_rc, f, B))
            /\ \A i \in 1 .. Len(b.ahead) : k + b.ahead[i] <= Len(f)

EndsWithItem(f) == \E B \in SUBSET (0 .. Len(f)) : BetweenItems(f, B)
===============================================================================
