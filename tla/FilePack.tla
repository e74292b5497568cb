------------------------------- MODULE FilePack --------------------------------
(***************************************************************************)
(* file_pack_context of basic_contexts.c: a pack context that writes to a  *)
(* file descriptor, with a barrier behind which nothing is written.        *)
(*                                                                         *)
(* fpc is the context and what it owns outside itself.  To the fields of   *)
(* PackCore it adds                                                        *)
(*   open            between init and terminate                            *)
(*   barrier         offset of the barrier from start, or NULL             *)
(*   file            what write() has accepted since init                  *)
(*   blocks          malloc'ed buffers of this session not yet freed       *)
(*   mark            (history) bytes packed before the barrier was set     *)
(*   write_failed    (history) a write was refused or cut short            *)
(*   byte_order      what test_byte_order() finds in this build            *)
(***************************************************************************)
EXTENDS PackCore

CONSTANTS
    InitialLengths,       \* buffer lengths a client asks for
    MinBuffer,            \* 32 in the code
    DefaultBuffer,        \* 4096 in the code
    MemcpyHandlesOverlap  \* memcpy on overlapping areas acts as memmove

ASSUME FilePackAssumption ==
    /\ InitialLengths \subseteq Nat
    /\ MinBuffer \in Nat
    /\ DefaultBuffer \in Nat /\ DefaultBuffer > MinBuffer
    /\ MemcpyHandlesOverlap \in BOOLEAN

NULL == -1

VARIABLE fpc

vars == <<fpc>>

Init ==
    \E code \in ByteOrderCodes :
        fpc = [open          |-> FALSE,
               content       |-> <<>>,
               end           |-> 0,
               return_code   |-> CWP_RC_OK,
               be_compatible |-> FALSE,
               packed        |-> 0,
               barrier       |-> NULL,
               file          |-> <<>>,
               blocks        |-> 0,
               mark          |-> 0,
               write_failed  |-> FALSE,
               byte_order    |-> code]

-------------------------------------------------------------------------------
(* The handlers.                                                           *)

\* Mutant: the flush takes the whole buffer.
FlushPoint_NoBarrier(c) == Len(c.content)

\* bStart - start: everything before it goes to the file.
FlushPoint(c) == IF c.barrier = NULL THEN Len(c.content) ELSE c.barrier

\* Mutant: current stays where it is after a flush.
flush_KeepsContent(c) ==
    {Outcome(CWP_RC_OK, [c EXCEPT !.file = @ \o SubSeq(c.content, 1, FlushPoint(c))])}

\* Mutant: the result of write() is not looked at.
flush_IgnoresShortWrite(c) ==
    {Outcome(CWP_RC_OK,
        [c EXCEPT !.file    = @ \o SubSeq(c.content, 1, written),
                  !.content = rest,
                  !.barrier = IF @ = NULL THEN NULL ELSE 0]) :
        rest \in Moved(c.content, FlushPoint(c), MemcpyHandlesOverlap), written \in 0 .. FlushPoint(c)}

\* A short write leaves its bytes in the file and the buffer as it was.
flush_file_pack_context(c) ==
    LET n == FlushPoint(c)
    IN  {Outcome(CWP_RC_OK,
            [c EXCEPT !.file    = @ \o SubSeq(c.content, 1, n),
                      !.content = rest,
                      !.barrier = IF @ = NULL THEN NULL ELSE 0]) :
            rest \in Moved(c.content, n, MemcpyHandlesOverlap)}
        \cup
        {Outcome(CWP_RC_ERROR_IN_HANDLER,
            [c EXCEPT !.file = @ \o SubSeq(c.content, 1, written),
                      !.write_failed = TRUE]) :
            written \in 0 .. n - 1}

\* Mutant: what is kept behind the barrier is not counted.
GrowFileBuffer_WithoutKept(c, more) ==
    IF c.end >= more
    THEN {Outcome(CWP_RC_OK, c)}
    ELSE {Outcome(CWP_RC_OK, [c EXCEPT !.end = length, !.blocks = @ + 1]) :
             length \in Doubled(c.end, more)}

\* After the flush only bytes behind the barrier are left, at the start of
\* the buffer.  The old buffer is not freed when a larger one is allocated.
GrowFileBuffer(c, more) ==
    LET need == more + Len(c.content)
    IN  IF c.end >= need
        THEN {Outcome(CWP_RC_OK, c)}
        ELSE {Outcome(CWP_RC_BUFFER_OVERFLOW, c)} \cup
             {Outcome(CWP_RC_OK, [c EXCEPT !.end = length, !.blocks = @ + 1]) :
                 length \in Doubled(c.end, need)}

handle_file_pack_overflow(c, more) ==
    UNION {IF o.rc = CWP_RC_OK THEN GrowFileBuffer(o.ctx, more) ELSE {o} :
              o \in flush_file_pack_context(c)}

\* The handler the context is initialised with.
handle_pack_overflow(c) == [more \in Nat |-> handle_file_pack_overflow(c, more)]

-------------------------------------------------------------------------------
(* The client's calls.                                                     *)

BufferLength(asked) == IF asked > MinBuffer THEN asked ELSE DefaultBuffer

\* A new descriptor starts a new session: nothing packed, nothing written.
NewSession(c) ==
    [c EXCEPT !.open = TRUE, !.packed = 0, !.file = <<>>, !.blocks = 0,
              !.mark = 0, !.write_failed = FALSE]

\* When malloc fails nothing but the return code is set.
init_file_pack_context ==
    /\ ~fpc.open
    /\ \/ fpc' = [NewSession(fpc) EXCEPT !.return_code = CWP_RC_MALLOC_ERROR]
       \/ \E asked \in InitialLengths :
            LET c == [NewSession(fpc) EXCEPT !.blocks = 1, !.barrier = NULL]
            IN  fpc' = cw_pack_context_init(c, BufferLength(asked), fpc.byte_order)

Pack ==
    /\ fpc.open
    /\ \E call \in Calls :
        /\ PackBound(fpc, call[fpc.be_compatible].size)
        /\ fpc' \in pack_item(fpc, call, handle_pack_overflow(fpc))

Insert ==
    /\ fpc.open
    /\ MayInsert(fpc)
    /\ \E l \in InsertSizes :
        /\ PackBound(fpc, l)
        /\ fpc' \in cw_pack_insert(fpc, l, handle_pack_overflow(fpc))

Flush ==
    /\ fpc.open
    /\ fpc' \in cw_pack_flush(fpc, flush_file_pack_context(fpc))

SetCompatibility ==
    /\ fpc.open
    /\ \E b \in BOOLEAN : fpc' = cw_pack_set_compatibility(fpc, b)

file_pack_context_set_barrier ==
    /\ fpc.open
    /\ fpc' = [fpc EXCEPT !.barrier = Len(fpc.content), !.mark = fpc.packed]

file_pack_context_release_barrier ==
    /\ fpc.open
    /\ fpc' = [fpc EXCEPT !.barrier = NULL]

\* Mutant: the last buffer is not written.
terminate_WithoutFlush ==
    /\ fpc.open
    /\ fpc' = [fpc EXCEPT !.open = FALSE, !.barrier = NULL, !.blocks = @ - 1]

\* Mutant: start is freed also when there was no buffer.
terminate_FreesAlways ==
    /\ fpc.open
    /\ LET released == [fpc EXCEPT !.barrier = NULL]
       IN  \E c \in cw_pack_flush(released, flush_file_pack_context(released)) :
        fpc' = [c EXCEPT !.open = FALSE, !.blocks = @ - 1]

\* The barrier goes, the rest of the buffer is flushed and start is freed.
terminate_file_pack_context ==
    /\ fpc.open
    /\ LET released == [fpc EXCEPT !.barrier = NULL]
       IN  \E c \in cw_pack_flush(released, flush_file_pack_context(released)) :
        fpc' = [c EXCEPT !.open   = FALSE,
                         !.blocks = IF c.return_code = CWP_RC_MALLOC_ERROR
                                    THEN @ ELSE @ - 1]

Next ==
    \/ init_file_pack_context
    \/ Pack
    \/ Insert
    \/ Flush
    \/ SetCompatibility
    \/ file_pack_context_set_barrier
    \/ file_pack_context_release_barrier
    \/ terminate_file_pack_context

Spec == Init /\ [][Next]_vars

-------------------------------------------------------------------------------
(* Properties.                                                             *)

Context ==
    [open : BOOLEAN, content : Seq(Nat), end : Nat,
     return_code : ReturnCodes, be_compatible : BOOLEAN, packed : Nat,
     barrier : Nat \cup {NULL}, file : Seq(Nat), blocks : Nat, mark : Nat,
     write_failed : BOOLEAN, byte_order : ByteOrderCodes]

\* The type of the context.
TypeOK == fpc \in Context

Running == fpc.open /\ fpc.return_code # CWP_RC_MALLOC_ERROR

\* The handler's answer OK means room: no packing routine stores a byte
\* past the end of the buffer, and the barrier lies inside the content.
WithinBuffer ==
    Running => /\ Len(fpc.content) <= fpc.end
               /\ fpc.barrier <= Len(fpc.content)

\* Until a write fails, file and buffer together are exactly the bytes
\* packed: none lost between two flushes, none written twice, no part of an
\* item whose packing was refused.
NoByteLost ==
    Running /\ ~fpc.write_failed => fpc.file \o fpc.content = Upto(fpc.packed)

\* Whatever fails, the file holds a prefix of what was packed, in order.
FileIsPrefix ==
    /\ Len(fpc.file) <= fpc.packed
    /\ fpc.file = Upto(Len(fpc.file))

\* While a barrier is set nothing packed behind it has been written, and it
\* is all in the buffer from the barrier on, for the client to change.
BarrierHolds ==
    Running /\ fpc.barrier # NULL =>
        /\ Len(fpc.file) <= fpc.mark
        /\ SubSeq(fpc.content, fpc.barrier + 1, Len(fpc.content))
              = [k \in 1 .. fpc.packed - fpc.mark |-> fpc.mark + k]

\* A session that ends without an error code has written every byte.
CompleteAtEnd ==
    ~fpc.open /\ fpc.return_code = CWP_RC_OK => fpc.file = Upto(fpc.packed)

\* A stopped context never comes back to OK before it is initialised again.
\* No packing routine, flush, barrier call or terminate changes its return
\* code, buffer or file, also after a handler that failed half way; only
\* cw_pack_insert, which does not look at the code, does (cwpack.c:429).
StoppedStaysStopped ==
    [][fpc.open /\ fpc.return_code # CWP_RC_OK =>
          /\ fpc'.return_code # CWP_RC_OK
          /\ \/ Insert
             \/ /\ fpc'.return_code = fpc.return_code
                /\ fpc'.content = fpc.content
                /\ fpc'.packed = fpc.packed
                /\ fpc'.file = fpc.file]_vars

\* What src/README.md:67 says of any call: "When an error is detected in a
\* context, the context is stopped and all future calls to that context are
\* immediatly returned without any actions."
StoppedIsInert ==
    [][fpc.open /\ fpc.return_code # CWP_RC_OK =>
          /\ fpc'.return_code = fpc.return_code
          /\ fpc'.content = fpc.content
          /\ fpc'.packed = fpc.packed
          /\ fpc'.file = fpc.file]_vars

\* The context implements a packing stream whose sink is the file.
Stream == INSTANCE PackStream WITH
    open <- fpc.open, return_code <- fpc.return_code,
    packed <- fpc.packed, sink <- fpc.file

ImplementsStream == Stream!Spec
===============================================================================
