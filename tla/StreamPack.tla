------------------------------ MODULE StreamPack -------------------------------
(***************************************************************************)
(* stream_pack_context of basic_contexts.c: a pack context that writes to  *)
(* a C stream.                                                             *)
(*                                                                         *)
(* spc is the context.  To the fields of PackCore it adds                  *)
(*   open            between init and terminate                            *)
(*   file            what fwrite() has accepted since init                 *)
(*   blocks          malloc'ed buffers of this session not yet freed       *)
(*   write_failed    (history) an fwrite was refused or cut short          *)
(*   byte_order      what test_byte_order() finds in this build            *)
(***************************************************************************)
EXTENDS PackCore

CONSTANTS
    InitialLengths,  \* buffer lengths a client asks for
    DefaultBuffer,   \* 4096 in the code
    FlushesContent   \* the client calls cw_pack_flush while the buffer holds
                     \* bytes

ASSUME StreamPackAssumption ==
    /\ InitialLengths \subseteq Nat
    /\ DefaultBuffer \in Nat \ {0}
    /\ FlushesContent \in BOOLEAN

VARIABLE spc

vars == <<spc>>

Init ==
    \E code \in ByteOrderCodes :
        spc = [open          |-> FALSE,
               content       |-> <<>>,
               end           |-> 0,
               return_code   |-> CWP_RC_OK,
               be_compatible |-> FALSE,
               packed        |-> 0,
               file          |-> <<>>,
               blocks        |-> 0,
               write_failed  |-> FALSE,
               byte_order    |-> code]

-------------------------------------------------------------------------------
(* The handlers.                                                           *)

\* The flush writes the content and leaves it in the buffer.
flush_stream_pack_context(c) ==
    {Outcome(CWP_RC_OK, [c EXCEPT !.file = @ \o c.content])}
    \cup
    {Outcome(CWP_RC_ERROR_IN_HANDLER,
        [c EXCEPT !.file = @ \o SubSeq(c.content, 1, written),
                  !.write_failed = TRUE]) :
        written \in 0 .. Len(c.content) - 1}

\* free(pc->start).
FreeOld(c) == [c EXCEPT !.blocks = @ - 1]

\* Mutant: the flushed bytes stay in the buffer when the item fits.
ReuseBuffer_KeepsContent(c, more) ==
    IF Len(c.content) + more <= c.end
    THEN {Outcome(CWP_RC_OK, c)}
    ELSE {Outcome(CWP_RC_OK, [c EXCEPT !.end = length]) :
             length \in Doubled(c.end, Len(c.content) + more)}

\* Mutant: the replaced buffer is not freed.
ReuseBuffer_Leaks(c, more) ==
    IF c.end >= more
    THEN {Outcome(CWP_RC_OK, [c EXCEPT !.content = <<>>])}
    ELSE {Outcome(CWP_RC_OK, [c EXCEPT !.blocks  = @ + 1,
                                       !.end     = length,
                                       !.content = <<>>]) :
             length \in Doubled(c.end, more)}

\* A buffer too small for one item is replaced: the new one is malloc'ed,
\* the old one freed.  Only here does current go back to start.
ReuseBuffer(c, more) ==
    IF c.end >= more
    THEN {Outcome(CWP_RC_OK, [c EXCEPT !.content = <<>>])}
    ELSE {Outcome(CWP_RC_BUFFER_OVERFLOW, c)} \cup
         {Outcome(CWP_RC_OK, FreeOld([c EXCEPT !.blocks  = @ + 1,
                                               !.end     = length,
                                               !.content = <<>>])) :
             length \in Doubled(c.end, more)}

handle_stream_pack_overflow(c, more) ==
    UNION {IF o.rc = CWP_RC_OK THEN ReuseBuffer(o.ctx, more) ELSE {o} :
              o \in flush_stream_pack_context(c)}

\* The handler the context is initialised with.
handle_pack_overflow(c) == [more \in Nat |-> handle_stream_pack_overflow(c, more)]

-------------------------------------------------------------------------------
(* The client's calls.                                                     *)

\* Mutant: the asked length is taken as it is.
BufferLength_AsAsked(asked) == asked

BufferLength(asked) == IF asked > 0 THEN asked ELSE DefaultBuffer

\* A new stream starts a new session: nothing packed, nothing written.
NewSession(c) ==
    [c EXCEPT !.open = TRUE, !.packed = 0, !.file = <<>>, !.blocks = 0,
              !.write_failed = FALSE]

\* When malloc fails nothing but the return code is set.
init_stream_pack_context ==
    /\ ~spc.open
    /\ \/ spc' = [NewSession(spc) EXCEPT !.return_code = CWP_RC_MALLOC_ERROR]
       \/ \E asked \in InitialLengths :
            spc' = cw_pack_context_init([NewSession(spc) EXCEPT !.blocks = 1],
                                        BufferLength(asked), spc.byte_order)

Pack ==
    /\ spc.open
    /\ \E call \in Calls :
        /\ PackBound(spc, call[spc.be_compatible].size)
        /\ spc' \in pack_item(spc, call, handle_pack_overflow(spc))

Insert ==
    /\ spc.open
    /\ MayInsert(spc)
    /\ \E l \in InsertSizes :
        /\ PackBound(spc, l)
        /\ spc' \in cw_pack_insert(spc, l, handle_pack_overflow(spc))

\* The file may hold the content any number of times: FlushBound keeps
\* the model finite.
FlushBound == Len(spc.file) <= 2 * MaxPacked

Flush ==
    /\ spc.open
    /\ FlushesContent \/ spc.content = <<>>
    /\ FlushBound
    /\ spc' \in cw_pack_flush(spc, flush_stream_pack_context(spc))

SetCompatibility ==
    /\ spc.open
    /\ \E b \in BOOLEAN : spc' = cw_pack_set_compatibility(spc, b)

\* Mutant: the last buffer is not written.
terminate_WithoutFlush ==
    /\ spc.open
    /\ spc' = [FreeOld(spc) EXCEPT !.open = FALSE]

\* The rest of the buffer is flushed and start is freed.
terminate_stream_pack_context ==
    /\ spc.open
    /\ \E c \in cw_pack_flush(spc, flush_stream_pack_context(spc)) :
        spc' = [IF c.return_code = CWP_RC_MALLOC_ERROR THEN c ELSE FreeOld(c)
                    EXCEPT !.open = FALSE]

Next ==
    \/ init_stream_pack_context
    \/ Pack
    \/ Insert
    \/ Flush
    \/ SetCompatibility
    \/ terminate_stream_pack_context

Spec == Init /\ [][Next]_vars

-------------------------------------------------------------------------------
(* Properties.                                                             *)

Running == spc.open /\ spc.return_code # CWP_RC_MALLOC_ERROR

\* The handler's answer OK means room: no packing routine stores a byte
\* past the end of the buffer, however much larger than it the item is.
WithinBuffer == Running => Len(spc.content) <= spc.end

\* While the context runs, stream and buffer together are exactly the bytes
\* packed: none lost between two overflows, none written twice, no part of
\* an item whose packing was refused.
NoByteLost ==
    Running /\ spc.return_code = CWP_RC_OK =>
        spc.file \o spc.content = Upto(spc.packed)

\* Whatever fails, the stream holds a prefix of what was packed, in order:
\* the buffer that was flushed is not flushed again.
FileIsPrefix ==
    /\ Len(spc.file) <= spc.packed
    /\ spc.file = Upto(Len(spc.file))

\* Every call returns: the loop that doubles the buffer length ends.
HandlerReturns ==
    Running /\ spc.return_code = CWP_RC_OK =>
        \A more \in 1 .. MaxPacked :
            \E o \in handle_stream_pack_overflow(spc, more) : o.rc = CWP_RC_OK

\* Exactly one buffer is alive in a session and none after it, however
\* often it was replaced and whatever failed.
OneBuffer == spc.blocks = IF Running THEN 1 ELSE 0

\* The context implements a packing stream whose sink is the C stream.
Stream == INSTANCE PackStream WITH
    open <- spc.open, return_code <- spc.return_code,
    packed <- spc.packed, sink <- spc.file

ImplementsStream == Stream!Spec
===============================================================================
