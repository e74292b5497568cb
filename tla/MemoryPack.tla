------------------------------ MODULE MemoryPack -------------------------------
(***************************************************************************)
(* Pack contexts that keep everything in memory: the buffer a client gives *)
(* to cw_pack_context_init without handlers, and the malloc'ed buffer of   *)
(* dynamic_memory_pack_context, which grows by realloc.  The client may go *)
(* on inserting into a stopped context.                                    *)
(*                                                                         *)
(* mpc is the context.  To the fields of PackCore it adds                  *)
(*   open            between init and free                                 *)
(*   dynamic         initialised by init_dynamic_memory_pack_context       *)
(*   blocks          malloc'ed buffers of this session not yet freed       *)
(*   asked           (history) bytes the client's calls have asked for:    *)
(*                   the legal ones on a running context, and insertions   *)
(*   byte_order      what test_byte_order() finds in this build            *)
(***************************************************************************)
EXTENDS PackCore

CONSTANTS
    MemoryLengths,  \* buffer lengths a client asks for or has
    DefaultMemory    \* 1024 in the code

ASSUME MemoryPackAssumption ==
    /\ MemoryLengths \subseteq Nat
    /\ DefaultMemory \in Nat \ {0}

VARIABLE mpc

memoryVars == <<mpc>>

MemoryInit ==
    \E code \in ByteOrderCodes :
        mpc = [open          |-> FALSE,
               dynamic       |-> FALSE,
               content       |-> <<>>,
               end           |-> 0,
               return_code   |-> CWP_RC_OK,
               be_compatible |-> FALSE,
               packed        |-> 0,
               blocks        |-> 0,
               asked         |-> 0,
               byte_order    |-> code]

-------------------------------------------------------------------------------
(* The handler.                                                            *)

\* Mutant: the new length does not count what the buffer contains.
handle_memory_WithoutContained(c, more) ==
    {Outcome(CWP_RC_OK, [c EXCEPT !.end = length]) : length \in Doubled(c.end, more)}

\* realloc keeps the content; when it fails the old buffer stays.
handle_memory_pack_overflow(c, more) ==
    {Outcome(CWP_RC_BUFFER_OVERFLOW, c)} \cup
    {Outcome(CWP_RC_OK, [c EXCEPT !.end = length]) :
        length \in Doubled(c.end, Len(c.content) + more)}

\* Mutant: every context gets the handler.
memory_handle_pack_overflow_Always(c) ==
    [more \in Nat |-> handle_memory_pack_overflow(c, more)]

\* The handler the context was initialised with.
memory_handle_pack_overflow(c) ==
    [more \in Nat |-> IF c.dynamic THEN handle_memory_pack_overflow(c, more)
                                   ELSE no_overflow_handler(c, more)]

-------------------------------------------------------------------------------
(* The client's calls.                                                     *)

MemoryBufferLength(asked) == IF asked > 0 THEN asked ELSE DefaultMemory

NewMemorySession(c, dynamic) ==
    [c EXCEPT !.open = TRUE, !.dynamic = dynamic, !.packed = 0, !.blocks = 0,
              !.asked = 0]

\* When malloc fails nothing but the return code is set.
init_dynamic_memory_pack_context ==
    /\ ~mpc.open
    /\ \/ mpc' = [NewMemorySession(mpc, TRUE) EXCEPT !.return_code = CWP_RC_MALLOC_ERROR]
       \/ \E asked \in MemoryLengths :
            mpc' = cw_pack_context_init([NewMemorySession(mpc, TRUE) EXCEPT !.blocks = 1],
                                        MemoryBufferLength(asked), mpc.byte_order)

\* The client's own buffer, without handlers.
InitStatic ==
    /\ ~mpc.open
    /\ \E length \in MemoryLengths :
        mpc' = cw_pack_context_init(NewMemorySession(mpc, FALSE), length, mpc.byte_order)

Asked(c, n) == [c EXCEPT !.asked = @ + n]

\* The context of a client that makes a call with this demand.
Called(c, demand) ==
    IF c.return_code = CWP_RC_OK /\ demand.rc = CWP_RC_OK
    THEN Asked(c, demand.size) ELSE c

AskBound(size) == mpc.asked + size <= MaxPacked

PackInMemory ==
    /\ mpc.open
    /\ \E call \in Calls :
        LET c == Called(mpc, call[mpc.be_compatible])
        IN  /\ AskBound(call[mpc.be_compatible].size)
            /\ mpc' \in pack_item(c, call, memory_handle_pack_overflow(c))

\* There is no buffer to insert into when initialisation has failed.
InsertInMemory ==
    /\ mpc.open
    /\ mpc.return_code # CWP_RC_MALLOC_ERROR
    /\ \E l \in InsertSizes :
        LET c == Asked(mpc, l)
        IN  /\ AskBound(l)
            /\ mpc' \in cw_pack_insert(c, l, memory_handle_pack_overflow(c))

FlushMemory ==
    /\ mpc.open
    /\ mpc' \in cw_pack_flush(mpc, no_flush_handler(mpc))

SetMemoryCompatibility ==
    /\ mpc.open
    /\ \E b \in BOOLEAN : mpc' = cw_pack_set_compatibility(mpc, b)

free_dynamic_memory_pack_context ==
    /\ mpc.open /\ mpc.dynamic
    /\ mpc' = [mpc EXCEPT !.open = FALSE,
                          !.blocks = IF mpc.return_code = CWP_RC_MALLOC_ERROR
                                     THEN @ ELSE @ - 1]

\* The client is done with its own buffer.
LeaveStatic ==
    /\ mpc.open /\ ~mpc.dynamic
    /\ mpc' = [mpc EXCEPT !.open = FALSE]

MemoryNext ==
    \/ init_dynamic_memory_pack_context
    \/ InitStatic
    \/ PackInMemory
    \/ InsertInMemory
    \/ FlushMemory
    \/ SetMemoryCompatibility
    \/ free_dynamic_memory_pack_context
    \/ LeaveStatic

MemorySpec == MemoryInit /\ [][MemoryNext]_memoryVars

-------------------------------------------------------------------------------
(* Properties.                                                             *)

MemoryRunning == mpc.open /\ mpc.return_code # CWP_RC_MALLOC_ERROR

\* The buffer holds exactly the bytes packed, within its end, also after
\* the call that did not fit: an item is stored whole or not at all.
BufferIsExact ==
    MemoryRunning => /\ mpc.content = Upto(mpc.packed)
               /\ Len(mpc.content) <= mpc.end

\* A client's own buffer is never replaced.  While the code is OK it holds all
\* that was asked for, no item left out; the call that changes the code stores
\* nothing, not even the part that would fit; and it is BUFFER_OVERFLOW when,
\* and only when, more was asked for than the buffer takes: any other code is
\* for a call that asked for no bytes.
StaticStaysFixed ==
    [][mpc.open /\ ~mpc.dynamic /\ mpc'.open =>
          /\ mpc'.end = mpc.end
          /\ mpc'.return_code = CWP_RC_OK => mpc'.packed = mpc'.asked
          /\ mpc'.return_code # mpc.return_code =>
                /\ mpc'.content = mpc.content
                /\ IF mpc'.asked # mpc.asked
                   THEN /\ mpc'.return_code = CWP_RC_BUFFER_OVERFLOW
                        /\ mpc'.asked > mpc.end
                   ELSE mpc'.return_code \in {CWP_RC_ILLEGAL_CALL,
                                              CWP_RC_VALUE_ERROR}]_memoryVars
===============================================================================
