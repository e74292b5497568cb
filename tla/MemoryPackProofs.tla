---------------------------- MODULE MemoryPackProofs ----------------------------
(***************************************************************************)
(* Proofs about the pack contexts that keep everything in memory, for      *)
(* every set of calls, buffer lengths and bounds.  Nothing is assumed of   *)
(* the client: also one that goes on inserting into a stopped context      *)
(* finds in the buffer the bytes it packed.                                *)
(***************************************************************************)
EXTENDS MemoryPack, BufferProofs

Context ==
    [open : BOOLEAN, dynamic : BOOLEAN, content : Seq(Nat), end : Nat,
     return_code : ReturnCodes, be_compatible : BOOLEAN, packed : Nat,
     blocks : Nat, asked : Nat, byte_order : ByteOrderCodes]

\* The content is what was packed, and fits; a dynamic context has a buffer.
Exact(c) ==
    /\ c \in Context
    /\ Numbered(c.content, 0)
    /\ Len(c.content) = c.packed
    /\ Len(c.content) <= c.end
    /\ c.dynamic => c.blocks = 1

\* While a static context is OK nothing asked of it was left out; when it is
\* stopped it holds no more than was asked.
Counted(c) ==
    ~c.dynamic => /\ c.packed <= c.asked
                  /\ c.return_code = CWP_RC_OK => c.packed = c.asked

\* The client has a buffer: only an allocation can have failed.
Buffered == mpc.open /\ (mpc.dynamic => mpc.return_code # CWP_RC_MALLOC_ERROR)

\* The inductive invariant.
IInv ==
    /\ mpc \in Context
    /\ Buffered => Exact(mpc) /\ Counted(mpc)

\* What a call makes of a static context.
StaysFixed(c, d) ==
    /\ d.end = c.end
    /\ d.return_code = CWP_RC_OK => d.packed = d.asked
    /\ d.return_code # c.return_code =>
          /\ d.content = c.content
          /\ IF d.asked # c.asked
             THEN d.return_code = CWP_RC_BUFFER_OVERFLOW /\ d.asked > c.end
             ELSE d.return_code \in {CWP_RC_ILLEGAL_CALL, CWP_RC_VALUE_ERROR}

\* What reserving n bytes makes of a static context: they are stored, or the
\* context is stopped because they do not fit.
Reserved(c, n, d) ==
    /\ d.end = c.end /\ d.open = c.open /\ d.asked = c.asked
    /\ ~d.dynamic
    /\ \/ d.return_code = c.return_code /\ d.packed = c.packed + n
       \/ /\ d.return_code = CWP_RC_BUFFER_OVERFLOW
          /\ d.content = c.content /\ d.packed = c.packed
          /\ c.packed + n > c.end

LEMMA CodesDiffer ==
    /\ {CWP_RC_OK, CWP_RC_BUFFER_OVERFLOW, CWP_RC_ILLEGAL_CALL,
        CWP_RC_VALUE_ERROR, CWP_RC_MALLOC_ERROR} \subseteq ReturnCodes
    /\ ByteOrderCodes \subseteq ReturnCodes
    /\ CWP_RC_OK \notin {CWP_RC_BUFFER_OVERFLOW, CWP_RC_ILLEGAL_CALL,
                         CWP_RC_VALUE_ERROR, CWP_RC_MALLOC_ERROR}
    /\ CWP_RC_MALLOC_ERROR \notin {CWP_RC_BUFFER_OVERFLOW, CWP_RC_ILLEGAL_CALL,
                                   CWP_RC_VALUE_ERROR}
BY DEF ByteOrderCodes, ReturnCodes, CWP_RC_OK, CWP_RC_WRONG_BYTE_ORDER,
       CWP_RC_MALLOC_ERROR, CWP_RC_BUFFER_OVERFLOW, CWP_RC_ILLEGAL_CALL,
       CWP_RC_VALUE_ERROR

-------------------------------------------------------------------------------
(* The handlers and the packing routines.                                  *)

\* Whichever handler a context has: when it answers OK there is room, when it
\* does not the context is as it was.
LEMMA OverflowExact ==
    ASSUME NEW c, Exact(c), NEW more \in Nat,
           NEW o \in memory_handle_pack_overflow(c)[more]
    PROVE  /\ Exact(o.ctx)
           /\ o.rc \in {CWP_RC_OK, CWP_RC_BUFFER_OVERFLOW}
           /\ o.ctx.open = c.open /\ o.ctx.dynamic = c.dynamic
           /\ o.ctx.packed = c.packed /\ o.ctx.return_code = c.return_code
           /\ o.rc = CWP_RC_OK => Len(o.ctx.content) + more <= o.ctx.end
           /\ ~c.dynamic => o.rc # CWP_RC_OK /\ o.ctx = c
<1>1. c \in Context /\ Len(c.content) \in Nat /\ c.end \in Nat
  BY LenProperties DEF Exact, Context
<1>2. \/ o = Outcome(CWP_RC_BUFFER_OVERFLOW, c)
      \/ c.dynamic /\ \E length \in Doubled(c.end, Len(c.content) + more) :
                         o = Outcome(CWP_RC_OK, [c EXCEPT !.end = length])
  BY DEF memory_handle_pack_overflow, handle_memory_pack_overflow, no_overflow_handler
<1>3. CASE o = Outcome(CWP_RC_BUFFER_OVERFLOW, c)
  BY <1>3, CodesDiffer DEF Outcome
<1>4. ASSUME c.dynamic, NEW length \in Doubled(c.end, Len(c.content) + more),
             o = Outcome(CWP_RC_OK, [c EXCEPT !.end = length])
      PROVE  /\ Exact(o.ctx) /\ o.rc = CWP_RC_OK
             /\ o.ctx.open = c.open /\ o.ctx.dynamic = c.dynamic
             /\ o.ctx.packed = c.packed /\ o.ctx.return_code = c.return_code
             /\ Len(o.ctx.content) + more <= o.ctx.end
  <2>1. length \in Nat /\ length >= Len(c.content) + more
    BY <1>1, DoubledBound
  <2>2. o.rc = CWP_RC_OK /\ o.ctx = [c EXCEPT !.end = length]
    BY <1>4 DEF Outcome
  <2>3. /\ o.ctx \in Context /\ o.ctx.end = length
        /\ o.ctx.content = c.content /\ o.ctx.packed = c.packed
        /\ o.ctx.open = c.open /\ o.ctx.dynamic = c.dynamic
        /\ o.ctx.return_code = c.return_code /\ o.ctx.blocks = c.blocks
    BY <1>1, <2>1, <2>2 DEF Context
  <2>4. Len(c.content) <= length
    BY <1>1, <2>1
  <2> QED
    BY <2>1, <2>2, <2>3, <2>4 DEF Exact
<1> QED
  BY <1>2, <1>3, <1>4, CodesDiffer

\* Bytes stored where there is room for them.
LEMMA PutExact ==
    ASSUME NEW c, Exact(c), NEW n \in Nat, Len(c.content) + n <= c.end
    PROVE  /\ Exact(Put(c, n))
           /\ Put(c, n).open = c.open /\ Put(c, n).dynamic = c.dynamic
           /\ Put(c, n).end = c.end /\ Put(c, n).return_code = c.return_code
           /\ Put(c, n).packed = c.packed + n /\ Put(c, n).asked = c.asked
<1> DEFINE t == c.content \o [k \in 1 .. n |-> c.packed + k]
           packed == c.packed + n
           d == [c EXCEPT !.content = t, !.packed = packed]
<1>1. /\ c \in Context /\ c.content \in Seq(Nat) /\ Len(c.content) \in Nat
      /\ c.packed \in Nat /\ c.end \in Nat
  BY LenProperties DEF Exact, Context
<1>2. t \in Seq(Nat) /\ Len(t) = Len(c.content) + n /\ Numbered(t, 0)
  <2>1. [k \in 1 .. n |-> c.packed + k] = [k \in 1 .. n |-> 0 + Len(c.content) + k]
    BY <1>1 DEF Exact
  <2>2. t = c.content \o [k \in 1 .. n |-> 0 + Len(c.content) + k]
    BY <2>1
  <2> HIDE DEF t
  <2> QED
    BY <1>1, <2>2, StoreNumbered DEF Exact
<1>3. Put(c, n) = d
  BY DEF Put
<1>4. packed \in Nat /\ packed = c.packed + n
  BY <1>1
<1> HIDE DEF t, packed
<1>5. /\ d \in Context /\ d.content = t /\ d.packed = packed /\ d.end = c.end
      /\ d.open = c.open /\ d.dynamic = c.dynamic
      /\ d.return_code = c.return_code /\ d.blocks = c.blocks
      /\ d.asked = c.asked
  BY <1>1, <1>2, <1>4 DEF Context
<1> HIDE DEF d
<1>6. Len(d.content) = d.packed /\ Len(d.content) <= d.end
  BY <1>1, <1>2, <1>4, <1>5 DEF Exact
<1> QED
  BY <1>2, <1>3, <1>4, <1>5, <1>6 DEF Exact

\* Only the return code changes.
LEMMA StopExact ==
    ASSUME NEW c, Exact(c), NEW code \in ReturnCodes
    PROVE  LET d == [c EXCEPT !.return_code = code]
           IN  /\ Exact(d) /\ d.return_code = code /\ d.end = c.end
               /\ d.open = c.open /\ d.dynamic = c.dynamic
               /\ d.content = c.content /\ d.packed = c.packed
               /\ d.asked = c.asked
<1> DEFINE d == [c EXCEPT !.return_code = code]
<1>1. /\ d \in Context /\ d.content = c.content /\ d.packed = c.packed
      /\ d.end = c.end /\ d.open = c.open /\ d.dynamic = c.dynamic
      /\ d.return_code = code /\ d.blocks = c.blocks /\ d.asked = c.asked
  BY DEF Exact, Context
<1> HIDE DEF d
<1> QED
  BY <1>1 DEF Exact, d

\* Space is reserved, or the handler's answer stops the context.
LEMMA ReserveExact ==
    ASSUME NEW c, Exact(c), NEW n \in Nat,
           NEW d \in cw_pack_reserve_space(c, n, memory_handle_pack_overflow(c))
    PROVE  /\ Exact(d) /\ d.dynamic = c.dynamic
           /\ ~c.dynamic => Reserved(c, n, d)
<1>1. CASE Len(c.content) + n <= c.end
  BY <1>1, PutExact DEF cw_pack_reserve_space, Reserved
<1>2. CASE ~(Len(c.content) + n <= c.end)
  <2>1. PICK o \in memory_handle_pack_overflow(c)[n] :
          d = IF o.rc = CWP_RC_OK THEN Put(o.ctx, n)
              ELSE [o.ctx EXCEPT !.return_code = o.rc]
    BY <1>2 DEF cw_pack_reserve_space
  <2>2. /\ Exact(o.ctx) /\ o.ctx.dynamic = c.dynamic
        /\ o.rc \in {CWP_RC_OK, CWP_RC_BUFFER_OVERFLOW}
        /\ o.rc = CWP_RC_OK => Len(o.ctx.content) + n <= o.ctx.end
        /\ ~c.dynamic => o.rc # CWP_RC_OK /\ o.ctx = c
    BY OverflowExact
  <2>3. CASE o.rc = CWP_RC_OK
    <3>1. d = Put(o.ctx, n)
      BY <2>1, <2>3
    <3> QED
      BY <2>2, <2>3, <3>1, PutExact
  <2>4. CASE o.rc # CWP_RC_OK
    <3>1. d = [o.ctx EXCEPT !.return_code = CWP_RC_BUFFER_OVERFLOW]
      BY <2>1, <2>2, <2>4
    <3>2. /\ Exact(d) /\ d.return_code = CWP_RC_BUFFER_OVERFLOW
          /\ d.end = o.ctx.end /\ d.open = o.ctx.open
          /\ d.dynamic = o.ctx.dynamic /\ d.asked = o.ctx.asked
          /\ d.content = o.ctx.content /\ d.packed = o.ctx.packed
      BY <2>2, <3>1, StopExact, CodesDiffer
    <3>3. ~(c.packed + n <= c.end) /\ c.packed + n \in Nat /\ c.end \in Nat
      BY <1>2 DEF Exact, Context
    <3>4. c.packed + n > c.end
      BY <3>3
    <3> QED
      BY <2>2, <3>2, <3>4 DEF Reserved
  <2> QED
    BY <2>3, <2>4
<1> QED
  BY <1>1, <1>2

\* The client's call is counted before it is made.
LEMMA AskedExact ==
    ASSUME NEW c, Exact(c), NEW n \in Nat
    PROVE  LET d == Asked(c, n)
           IN  /\ Exact(d) /\ d.asked = c.asked + n
               /\ d.end = c.end /\ d.open = c.open /\ d.dynamic = c.dynamic
               /\ d.packed = c.packed /\ d.return_code = c.return_code
               /\ d.content = c.content /\ d.be_compatible = c.be_compatible
<1> DEFINE m == c.asked + n
           d == [c EXCEPT !.asked = m]
<1>1. c \in Context /\ m \in Nat
  BY DEF Exact, Context
<1>2. Asked(c, n) = d
  BY DEF Asked
<1> HIDE DEF m
<1>3. /\ d \in Context /\ d.content = c.content /\ d.packed = c.packed
      /\ d.end = c.end /\ d.open = c.open /\ d.dynamic = c.dynamic
      /\ d.return_code = c.return_code /\ d.blocks = c.blocks
      /\ d.be_compatible = c.be_compatible /\ d.asked = m
  BY <1>1 DEF Context
<1> HIDE DEF d
<1> QED
  BY <1>2, <1>3 DEF Exact, m

\* What is asked for is stored, or does not fit and stops the context.
LEMMA AskedStays ==
    ASSUME NEW c, Exact(c), Counted(c), NEW n \in Nat,
           NEW d \in cw_pack_reserve_space(Asked(c, n), n,
                                           memory_handle_pack_overflow(Asked(c, n)))
    PROVE  Exact(d) /\ Counted(d) /\ (~c.dynamic => StaysFixed(c, d))
<1> DEFINE a == Asked(c, n)
<1>1. /\ Exact(a) /\ a.asked = c.asked + n
      /\ a.end = c.end /\ a.open = c.open /\ a.dynamic = c.dynamic
      /\ a.packed = c.packed /\ a.return_code = c.return_code
      /\ a.content = c.content
  BY AskedExact
<1>2. d \in cw_pack_reserve_space(a, n, memory_handle_pack_overflow(a))
  OBVIOUS
<1> HIDE DEF a
<1>3. Exact(d) /\ d.dynamic = a.dynamic /\ (~a.dynamic => Reserved(a, n, d))
  BY <1>1, <1>2, ReserveExact
<1>4. CASE c.dynamic
  BY <1>1, <1>3, <1>4 DEF Counted
<1>5. CASE ~c.dynamic
  <2>1. Reserved(a, n, d) /\ ~d.dynamic
    BY <1>1, <1>3, <1>5
  <2>2. c.packed \in Nat /\ c.asked \in Nat /\ c.end \in Nat /\ c.packed <= c.asked
    BY <1>5 DEF Exact, Context, Counted
  <2>3. CASE d.return_code = a.return_code /\ d.packed = a.packed + n
    BY <1>1, <1>3, <1>5, <2>1, <2>2, <2>3 DEF Counted, StaysFixed, Reserved
  <2>4. CASE /\ d.return_code = CWP_RC_BUFFER_OVERFLOW
             /\ d.content = a.content /\ d.packed = a.packed
             /\ a.packed + n > a.end
    <3>1. c.packed <= c.end
      BY DEF Exact
    <3>2. c.asked + n > c.end /\ n # 0
      BY <1>1, <2>2, <2>4, <3>1
    <3>3. d.asked > c.end /\ d.asked # c.asked /\ d.packed <= d.asked
      BY <1>1, <2>1, <2>2, <2>4, <3>2 DEF Reserved
    <3> QED
      BY <1>1, <1>3, <2>1, <2>4, <3>3, CodesDiffer DEF Counted, StaysFixed, Reserved
  <2> QED
    BY <2>1, <2>3, <2>4 DEF Reserved
<1> QED
  BY <1>4, <1>5

-------------------------------------------------------------------------------
(* The steps.                                                              *)

\* A call that stops the context for what the call itself was.
LEMMA RefusedStays ==
    ASSUME NEW c, Exact(c), Counted(c),
           NEW code \in {CWP_RC_ILLEGAL_CALL, CWP_RC_VALUE_ERROR}
    PROVE  LET d == [c EXCEPT !.return_code = code]
           IN  Exact(d) /\ Counted(d) /\ (~c.dynamic => StaysFixed(c, d))
<1> DEFINE d == [c EXCEPT !.return_code = code]
<1>1. code # CWP_RC_OK /\ code \in ReturnCodes
  BY CodesDiffer
<1>2. /\ Exact(d) /\ d.return_code = code /\ d.end = c.end
      /\ d.dynamic = c.dynamic
      /\ d.content = c.content /\ d.packed = c.packed /\ d.asked = c.asked
  BY <1>1, StopExact
<1> HIDE DEF d
<1>3. Exact(d) /\ Counted(d) /\ (~c.dynamic => StaysFixed(c, d))
  BY <1>1, <1>2 DEF Counted, StaysFixed
<1> QED
  BY <1>3 DEF d

\* A packing routine or cw_pack_insert, also on a stopped context.
LEMMA CallStep ==
    ASSUME IInv, PackInMemory \/ InsertInMemory
    PROVE  IInv' /\ (~mpc.dynamic => StaysFixed(mpc, mpc'))
<1>0. mpc \in Context /\ mpc.open
  BY DEF IInv, PackInMemory, InsertInMemory
<1>1. ASSUME mpc' = mpc PROVE IInv' /\ (~mpc.dynamic => StaysFixed(mpc, mpc'))
  BY <1>0, <1>1 DEF IInv, Buffered, StaysFixed, Counted
<1>2. ASSUME Exact(mpc'), Counted(mpc') PROVE IInv'
  BY <1>2 DEF IInv, Exact
<1>3. CASE PackInMemory
  <2>1. PICK call \in Calls :
          mpc' \in pack_item(Called(mpc, call[mpc.be_compatible]), call,
                     memory_handle_pack_overflow(Called(mpc, call[mpc.be_compatible])))
    BY <1>3 DEF PackInMemory
  <2> DEFINE demand == call[mpc.be_compatible]
  <2>2. demand.rc \in DemandCodes /\ demand.size \in Nat
    <3>1. demand \in [rc : DemandCodes, size : Nat]
      BY <1>0, CallsAssumption DEF Context
    <3> QED
      BY <3>1
  <2>3. CASE mpc.return_code # CWP_RC_OK
    <3>1. Called(mpc, demand) = mpc
      BY <2>3 DEF Called
    <3> QED
      BY <1>1, <2>1, <2>3, <3>1 DEF pack_item
  <2>4. CASE mpc.return_code = CWP_RC_OK /\ demand.rc # CWP_RC_OK
    <3>1. Exact(mpc) /\ Counted(mpc)
      BY <1>0, <2>4, CodesDiffer DEF IInv, Buffered
    <3>2. Called(mpc, demand) = mpc
      BY <2>4 DEF Called
    <3>3. mpc' = [mpc EXCEPT !.return_code = demand.rc]
      BY <2>1, <2>4, <3>2 DEF pack_item
    <3>4. demand.rc \in {CWP_RC_ILLEGAL_CALL, CWP_RC_VALUE_ERROR}
      BY <2>2, <2>4 DEF DemandCodes
    <3> HIDE DEF demand
    <3> QED
      BY <1>2, <3>1, <3>3, <3>4, RefusedStays
  <2>5. CASE mpc.return_code = CWP_RC_OK /\ demand.rc = CWP_RC_OK
    <3> DEFINE a == Asked(mpc, demand.size)
    <3>1. Exact(mpc) /\ Counted(mpc)
      BY <1>0, <2>5, CodesDiffer DEF IInv, Buffered
    <3>2. Called(mpc, demand) = a
      BY <2>5 DEF Called
    <3>3. a.return_code = CWP_RC_OK /\ a.be_compatible = mpc.be_compatible
      BY <2>2, <2>5, <3>1, AskedExact
    <3>4. mpc' \in pack_item(a, call, memory_handle_pack_overflow(a))
      BY <2>1, <3>2
    <3>5. mpc' \in cw_pack_reserve_space(a, demand.size, memory_handle_pack_overflow(a))
      <4> HIDE DEF a
      <4> QED
        BY <2>5, <3>3, <3>4 DEF pack_item
    <3> HIDE DEF demand
    <3> QED
      BY <1>2, <2>2, <3>1, <3>5, AskedStays
  <2> QED
    BY <2>3, <2>4, <2>5
<1>4. CASE InsertInMemory
  <2>1. PICK l \in InsertSizes :
          mpc' \in cw_pack_insert(Asked(mpc, l), l, memory_handle_pack_overflow(Asked(mpc, l)))
    BY <1>4 DEF InsertInMemory
  <2>2. l \in Nat
    BY CallsAssumption
  <2>3. Exact(mpc) /\ Counted(mpc)
    BY <1>4 DEF InsertInMemory, IInv, Buffered
  <2> QED
    BY <1>2, <2>1, <2>2, <2>3, AskedStays DEF cw_pack_insert
<1> QED
  BY <1>3, <1>4

\* There is nothing to flush to: the call is an error.
LEMMA FlushStep ==
    ASSUME IInv, FlushMemory
    PROVE  IInv' /\ (~mpc.dynamic => StaysFixed(mpc, mpc'))
<1>1. mpc.open /\ mpc' \in cw_pack_flush(mpc, no_flush_handler(mpc))
  BY DEF FlushMemory
<1>2. CASE mpc.return_code # CWP_RC_OK
  <2>1. mpc' = mpc
    BY <1>1, <1>2 DEF cw_pack_flush
  <2> QED
    BY <1>1, <1>2, <2>1 DEF IInv, Buffered, StaysFixed
<1>3. CASE mpc.return_code = CWP_RC_OK
  <2>1. mpc' = [mpc EXCEPT !.return_code = CWP_RC_ILLEGAL_CALL]
    BY <1>1, <1>3 DEF cw_pack_flush, no_flush_handler, Outcome
  <2>2. Exact(mpc) /\ Counted(mpc)
    BY <1>1, <1>3, CodesDiffer DEF IInv, Buffered
  <2>3. /\ Exact(mpc') /\ Counted(mpc')
        /\ ~mpc.dynamic => StaysFixed(mpc, mpc')
    BY <2>1, <2>2, RefusedStays
  <2> QED
    BY <2>3 DEF IInv, Exact
<1> QED
  BY <1>2, <1>3

LEMMA SetCompatibilityStep ==
    ASSUME IInv, SetMemoryCompatibility
    PROVE  IInv' /\ (~mpc.dynamic => StaysFixed(mpc, mpc'))
<1>1. PICK b \in BOOLEAN : mpc' = [mpc EXCEPT !.be_compatible = b]
  BY DEF SetMemoryCompatibility, cw_pack_set_compatibility
<1>2. mpc \in Context /\ mpc.open
  BY DEF IInv, SetMemoryCompatibility
<1>3. /\ mpc' \in Context /\ mpc'.content = mpc.content /\ mpc'.end = mpc.end
      /\ mpc'.packed = mpc.packed /\ mpc'.open = mpc.open
      /\ mpc'.return_code = mpc.return_code /\ mpc'.asked = mpc.asked
      /\ mpc'.dynamic = mpc.dynamic /\ mpc'.blocks = mpc.blocks
  BY <1>1, <1>2 DEF Context
<1> QED
  BY <1>2, <1>3 DEF IInv, Buffered, Exact, Counted, StaysFixed

LEMMA NewSessionContext ==
    ASSUME NEW c \in Context, NEW b \in BOOLEAN
    PROVE  /\ NewMemorySession(c, b) \in Context
           /\ NewMemorySession(c, b).packed = 0 /\ NewMemorySession(c, b).asked = 0
           /\ NewMemorySession(c, b).dynamic = b
<1> DEFINE e == [c EXCEPT !.open = TRUE, !.packed = 0, !.blocks = 0, !.asked = 0]
           d == [e EXCEPT !.dynamic = b]
<1>1. e \in Context /\ e.packed = 0 /\ e.asked = 0
  BY DEF Context
<1>2. NewMemorySession(c, b) = d
  BY DEF NewMemorySession, Context
<1> HIDE DEF e
<1>3. d \in Context /\ d.packed = 0 /\ d.asked = 0 /\ d.dynamic = b
  BY <1>1 DEF Context
<1> QED
  BY <1>2, <1>3

\* The two ways to begin, and the two ways to end.
LEMMA SessionStep ==
    ASSUME IInv,
           \/ init_dynamic_memory_pack_context \/ InitStatic
           \/ free_dynamic_memory_pack_context \/ LeaveStatic
    PROVE  IInv' /\ ~(mpc.open /\ mpc'.open)
<1>1. mpc \in Context /\ mpc.byte_order \in ByteOrderCodes
      /\ <<>> \in Seq(Nat) /\ Len(<<>>) = 0
  BY EmptySeq DEF IInv, Context
<1>2. ASSUME NEW new \in Context, new.packed = 0, new.asked = 0, NEW length \in Nat,
             new.dynamic => new.blocks = 1,
             mpc' = cw_pack_context_init(new, length, mpc.byte_order)
      PROVE  IInv'
  <2>1. /\ mpc' \in Context /\ mpc'.content = <<>> /\ mpc'.packed = 0 /\ mpc'.asked = 0
        /\ mpc'.end = length
        /\ mpc'.dynamic = new.dynamic /\ mpc'.blocks = new.blocks
    BY <1>1, <1>2, CodesDiffer DEF cw_pack_context_init, Context
  <2>2. Len(mpc'.content) = 0
    BY <1>1, <2>1
  <2> QED
    BY <1>2, <2>1, <2>2 DEF IInv, Exact, Counted, Numbered
<1>3. CASE init_dynamic_memory_pack_context
  <2> DEFINE new == NewMemorySession(mpc, TRUE)
  <2>1. new \in Context /\ new.packed = 0 /\ new.asked = 0 /\ new.dynamic
    BY <1>1, NewSessionContext
  <2> HIDE DEF new
  <2>2. /\ [new EXCEPT !.blocks = 1] \in Context
        /\ [new EXCEPT !.blocks = 1].packed = 0
        /\ [new EXCEPT !.blocks = 1].asked = 0
        /\ [new EXCEPT !.blocks = 1].blocks = 1
    BY <2>1 DEF Context
  <2>3. CASE mpc' = [new EXCEPT !.return_code = CWP_RC_MALLOC_ERROR]
    <3>1. /\ mpc' \in Context /\ mpc'.return_code = CWP_RC_MALLOC_ERROR
          /\ mpc'.dynamic
      BY <2>1, <2>3, CodesDiffer DEF Context
    <3> QED
      BY <1>3, <3>1 DEF IInv, Buffered, init_dynamic_memory_pack_context
  <2>4. ASSUME NEW asked \in MemoryLengths,
               mpc' = cw_pack_context_init([new EXCEPT !.blocks = 1],
                                           MemoryBufferLength(asked), mpc.byte_order)
        PROVE  IInv'
    <3>1. MemoryBufferLength(asked) \in Nat
      BY MemoryPackAssumption DEF MemoryBufferLength
    <3> QED
      BY <1>2, <2>2, <2>4, <3>1
  <2> QED
    BY <1>3, <2>3, <2>4 DEF new, init_dynamic_memory_pack_context
<1>4. CASE InitStatic
  <2>1. PICK length \in MemoryLengths :
          mpc' = cw_pack_context_init(NewMemorySession(mpc, FALSE), length, mpc.byte_order)
    BY <1>4 DEF InitStatic
  <2>2. /\ NewMemorySession(mpc, FALSE) \in Context
        /\ NewMemorySession(mpc, FALSE).packed = 0
        /\ NewMemorySession(mpc, FALSE).asked = 0 /\ ~NewMemorySession(mpc, FALSE).dynamic
    BY <1>1, NewSessionContext
  <2>3. length \in Nat
    BY MemoryPackAssumption
  <2> QED
    BY <1>2, <1>4, <2>1, <2>2, <2>3 DEF InitStatic
<1>5. CASE free_dynamic_memory_pack_context
  <2> DEFINE blocks == IF mpc.return_code = CWP_RC_MALLOC_ERROR
                       THEN mpc.blocks ELSE mpc.blocks - 1
  <2>1. blocks \in Nat
    <3>1. /\ mpc.blocks \in Nat
          /\ mpc.return_code # CWP_RC_MALLOC_ERROR => mpc.blocks = 1
      BY <1>1, <1>5 DEF free_dynamic_memory_pack_context, IInv, Buffered, Exact, Context
    <3> QED
      BY <3>1
  <2>2. mpc' = [mpc EXCEPT !.open = FALSE, !.blocks = blocks]
    BY <1>5 DEF free_dynamic_memory_pack_context
  <2> HIDE DEF blocks
  <2>3. mpc' \in Context /\ mpc'.open = FALSE
    BY <1>1, <2>1, <2>2 DEF Context
  <2> QED
    BY <2>3 DEF IInv, Buffered
<1>6. CASE LeaveStatic
  <2>1. mpc' \in Context /\ mpc'.open = FALSE
    BY <1>1, <1>6 DEF LeaveStatic, Context
  <2> QED
    BY <2>1 DEF IInv, Buffered
<1> QED
  BY <1>3, <1>4, <1>5, <1>6

-------------------------------------------------------------------------------
(* The theorems.                                                           *)

LEMMA InitInvariant == MemoryInit => IInv
<1> SUFFICES ASSUME MemoryInit PROVE IInv
  OBVIOUS
<1>1. mpc \in Context /\ mpc.open = FALSE
  BY EmptySeq, CodesDiffer DEF MemoryInit, Context
<1> QED
  BY <1>1 DEF IInv, Buffered

LEMMA NextInvariant == IInv /\ [MemoryNext]_memoryVars => IInv'
<1> SUFFICES ASSUME IInv, [MemoryNext]_memoryVars PROVE IInv'
  OBVIOUS
<1>1. CASE mpc' = mpc
  BY <1>1 DEF IInv, Buffered
<1> QED
  BY <1>1, CallStep, FlushStep, SetCompatibilityStep, SessionStep DEF MemoryNext, memoryVars

LEMMA InvariantHolds == MemorySpec => []IInv
BY InitInvariant, NextInvariant, PTL DEF MemorySpec

\* The buffer holds exactly the bytes packed, within its end, whatever fails
\* and whatever the client goes on to insert.
THEOREM BufferAlwaysExact == MemorySpec => []BufferIsExact
<1>1. IInv => BufferIsExact
  <2> SUFFICES ASSUME IInv, MemoryRunning
               PROVE  /\ mpc.content = Upto(mpc.packed)
                      /\ Len(mpc.content) <= mpc.end
    BY DEF BufferIsExact
  <2>1. Exact(mpc) /\ mpc.content \in Seq(Nat)
    BY DEF IInv, Buffered, MemoryRunning, Context
  <2> QED
    BY <2>1, NumberedIsUpto DEF Exact
<1> QED
  BY <1>1, InvariantHolds, PTL

\* A client's own buffer is never replaced, no item is left out while the code
\* is OK, and the call that does not fit stops the context with BUFFER_OVERFLOW.
THEOREM StaticAlwaysFixed == MemorySpec => StaticStaysFixed
<1> DEFINE Fixed == mpc.open /\ ~mpc.dynamic /\ mpc'.open =>
              /\ mpc'.end = mpc.end
              /\ mpc'.return_code = CWP_RC_OK => mpc'.packed = mpc'.asked
              /\ mpc'.return_code # mpc.return_code =>
                    /\ mpc'.content = mpc.content
                    /\ IF mpc'.asked # mpc.asked
                       THEN /\ mpc'.return_code = CWP_RC_BUFFER_OVERFLOW
                            /\ mpc'.asked > mpc.end
                       ELSE mpc'.return_code \in {CWP_RC_ILLEGAL_CALL,
                                                  CWP_RC_VALUE_ERROR}
<1>1. IInv /\ MemoryNext => Fixed
  BY CallStep, FlushStep, SetCompatibilityStep, SessionStep DEF MemoryNext, StaysFixed
<1>2. IInv /\ [MemoryNext]_memoryVars => [Fixed]_memoryVars
  BY <1>1
<1> QED
  BY <1>2, InvariantHolds, PTL DEF MemorySpec, StaticStaysFixed
===============================================================================
