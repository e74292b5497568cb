------------------------------- MODULE PackCore --------------------------------
(***************************************************************************)
(* The part of a pack context that cwpack.c owns: how a packing routine    *)
(* claims space in the buffer, when it calls the overflow handler, and     *)
(* what it does with the handler's answer.  The contexts of                *)
(* basic_contexts.c (FilePack, StreamPack, MemoryPack) supply the handlers *)
(* and turn these operators into actions.                                  *)
(*                                                                         *)
(* A context is a record.  The fields used here are                        *)
(*   content        the bytes between start and current                    *)
(*   end            end - start, the size of the buffer                    *)
(*   return_code, be_compatible                                            *)
(*   packed         (history) the bytes accepted since initialisation      *)
(* The k-th byte accepted since initialisation is the number k: a lost,    *)
(* repeated or displaced byte shows as a gap in the numbering.             *)
(***************************************************************************)
EXTENDS ReturnCodes, Buffers

CONSTANTS
    Calls,        \* packing calls, each given by what it demands of a context
                  \* in each compatibility mode (PackCodec!Demand)
    InsertSizes,  \* lengths given to cw_pack_insert
    MaxPacked,    \* bound: bytes packed in a session
    InsertWhenStopped
                  \* the client calls cw_pack_insert without looking at
                  \* return_code first

DemandCodes == {CWP_RC_OK, CWP_RC_ILLEGAL_CALL, CWP_RC_VALUE_ERROR}

ASSUME CallsAssumption ==
    /\ Calls \subseteq [BOOLEAN -> [rc : DemandCodes, size : Nat]]
    /\ InsertSizes \subseteq Nat
    /\ MaxPacked \in Nat
    /\ InsertWhenStopped \in BOOLEAN

-------------------------------------------------------------------------------
\* Store n more bytes at current, without a look at the end of the buffer.
Put(c, n) ==
    [c EXCEPT !.content = @ \o [k \in 1 .. n |-> c.packed + k],
              !.packed  = @ + n]

\* What a handler can do: its return code and the context it leaves.
Outcome(code, c) == [rc |-> code, ctx |-> c]

\* A context initialised without an overflow handler.
no_overflow_handler(c, more) == {Outcome(CWP_RC_BUFFER_OVERFLOW, c)}

\* Mutant: what does not fit is left out, and the context goes on.
cw_pack_reserve_space_LeavesOut(c, more, overflow) ==
    IF Len(c.content) + more <= c.end
    THEN {Put(c, more)}
    ELSE {IF o.rc = CWP_RC_OK THEN Put(o.ctx, more) ELSE o.ctx :
             o \in overflow[more]}

\* cw_pack_reserve_space, and tryMove0 for more = 1.  overflow is the field
\* handle_pack_overflow: what the handler can do for each number of bytes
\* wanted.  It is asked only when the bytes do not fit; when it answers OK
\* the bytes are stored without a second look, otherwise its answer stops
\* the context.
cw_pack_reserve_space(c, more, overflow) ==
    IF Len(c.content) + more <= c.end
    THEN {Put(c, more)}
    ELSE {IF o.rc = CWP_RC_OK
          THEN Put(o.ctx, more)
          ELSE [o.ctx EXCEPT !.return_code = o.rc] : o \in overflow[more]}

\* Mutant: the routine does not look at return_code.
pack_item_Unguarded(c, call, overflow) ==
    LET demand == call[c.be_compatible]
    IN  IF demand.rc # CWP_RC_OK THEN {[c EXCEPT !.return_code = demand.rc]}
        ELSE cw_pack_reserve_space(c, demand.size, overflow)

\* Any packing routine but cw_pack_insert: nothing on a stopped context, an
\* error for an illegal call or value, otherwise the item's bytes.
pack_item(c, call, overflow) ==
    LET demand == call[c.be_compatible]
    IN  IF c.return_code # CWP_RC_OK THEN {c}
        ELSE IF demand.rc # CWP_RC_OK THEN {[c EXCEPT !.return_code = demand.rc]}
        ELSE cw_pack_reserve_space(c, demand.size, overflow)

\* cw_pack_insert does not look at return_code.
cw_pack_insert(c, l, overflow) == cw_pack_reserve_space(c, l, overflow)

\* Mutant: a stopped context is flushed again.
flush_Unguarded(c, flush) == {[o.ctx EXCEPT !.return_code = o.rc] : o \in flush}

\* flush is what the flush handler can do.
cw_pack_flush(c, flush) ==
    IF c.return_code = CWP_RC_OK
    THEN {[o.ctx EXCEPT !.return_code = o.rc] : o \in flush}
    ELSE {c}

\* A context initialised without a flush handler.
no_flush_handler(c) == {Outcome(CWP_RC_ILLEGAL_CALL, c)}

cw_pack_set_compatibility(c, be_compatible) ==
    [c EXCEPT !.be_compatible = be_compatible]

\* cw_pack_context_init: length bytes of buffer; code is what
\* test_byte_order finds in this build.
cw_pack_context_init(c, length, code) ==
    [c EXCEPT !.content       = <<>>,
              !.end           = length,
              !.be_compatible = FALSE,
              !.return_code   = code]

ByteOrderCodes == {CWP_RC_OK, CWP_RC_WRONG_BYTE_ORDER}

-------------------------------------------------------------------------------
\* Bounds: the call stays below MaxPacked whatever the mode.
PackBound(c, size) == c.packed + size <= MaxPacked

\* The client's discipline for cw_pack_insert.  On a context whose
\* initialisation failed there is no buffer to insert into.
MayInsert(c) ==
    \/ c.return_code = CWP_RC_OK
    \/ InsertWhenStopped /\ c.return_code # CWP_RC_MALLOC_ERROR
===============================================================================
