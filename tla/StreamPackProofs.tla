---------------------------- MODULE StreamPackProofs ----------------------------
(***************************************************************************)
(* Proofs about the stream pack context, for every set of calls, buffer    *)
(* lengths and bounds.  That the buffer is never overrun and never leaked  *)
(* holds whatever the client does.  That the stream gets each byte once    *)
(* needs a client that does not insert into a stopped context and does not *)
(* flush a buffer that holds bytes: the run stream_pack_repeat shows what  *)
(* such a flush does.                                                      *)
(***************************************************************************)
EXTENDS StreamPack, BufferProofs

Context ==
    [open : BOOLEAN, content : Seq(Nat), end : Nat, return_code : ReturnCodes,
     be_compatible : BOOLEAN, packed : Nat, file : Seq(Nat), blocks : Nat,
     write_failed : BOOLEAN, byte_order : ByteOrderCodes]

\* A context with its one buffer, which is not empty and within which the
\* content lies.
Held(c) ==
    /\ c \in Context
    /\ c.blocks = 1 /\ c.end >= 1
    /\ Len(c.content) <= c.end

\* The stream has a prefix of what was packed.
Prefix(c) == Numbered(c.file, 0) /\ Len(c.file) <= c.packed

\* What the stream has not got is in the buffer.
Exact(c) ==
    /\ Prefix(c)
    /\ Len(c.content) <= c.packed
    /\ Len(c.file) = c.packed - Len(c.content)
    /\ Numbered(c.content, c.packed - Len(c.content))

\* The inductive invariants: of the buffer, and of what is in it.
BInv ==
    /\ spc \in Context
    /\ IF Running THEN Held(spc) ELSE spc.blocks = 0

FInv ==
    /\ Prefix(spc)
    /\ Running /\ spc.return_code = CWP_RC_OK => Exact(spc)

IInv == BInv /\ FInv

\* The client of a stream that is to be a prefix of what was packed.
CarefulClient == ~FlushesContent /\ ~InsertWhenStopped

-------------------------------------------------------------------------------
(* The handlers.                                                           *)

\* A flush changes nothing but the stream.
LEMMA FlushHeld ==
    ASSUME NEW c \in Context, NEW o \in flush_stream_pack_context(c)
    PROVE  /\ o.rc \in {CWP_RC_OK, CWP_RC_ERROR_IN_HANDLER}
           /\ o.ctx \in Context
           /\ o.ctx.content = c.content /\ o.ctx.end = c.end
           /\ o.ctx.blocks = c.blocks /\ o.ctx.open = c.open
           /\ o.ctx.packed = c.packed /\ o.ctx.return_code = c.return_code
           /\ \/ o.rc = CWP_RC_OK /\ o.ctx.file = c.file \o c.content
              \/ /\ o.rc = CWP_RC_ERROR_IN_HANDLER
                 /\ \E w \in 0 .. Len(c.content) - 1 :
                       o.ctx.file = c.file \o SubSeq(c.content, 1, w)
<1>1. c.file \in Seq(Nat) /\ c.content \in Seq(Nat) /\ Len(c.content) \in Nat
  BY LenProperties DEF Context
<1>2. CASE o = Outcome(CWP_RC_OK, [c EXCEPT !.file = @ \o c.content])
  <2> DEFINE f == c.file \o c.content
  <2>1. f \in Seq(Nat)
    BY <1>1, ConcatProperties
  <2> HIDE DEF f
  <2>2. o.rc = CWP_RC_OK /\ o.ctx = [c EXCEPT !.file = f]
    BY <1>2 DEF Outcome, f
  <2>3. /\ o.ctx \in Context /\ o.ctx.file = f
        /\ o.ctx.content = c.content /\ o.ctx.end = c.end
        /\ o.ctx.blocks = c.blocks /\ o.ctx.open = c.open
        /\ o.ctx.packed = c.packed /\ o.ctx.return_code = c.return_code
    BY <2>1, <2>2 DEF Context
  <2> QED
    BY <2>2, <2>3 DEF f
<1>3. ASSUME NEW w \in 0 .. Len(c.content) - 1,
             o = Outcome(CWP_RC_ERROR_IN_HANDLER,
                         [c EXCEPT !.file = @ \o SubSeq(c.content, 1, w),
                                   !.write_failed = TRUE])
      PROVE  /\ o.rc = CWP_RC_ERROR_IN_HANDLER
             /\ o.ctx \in Context
             /\ o.ctx.content = c.content /\ o.ctx.end = c.end
             /\ o.ctx.blocks = c.blocks /\ o.ctx.open = c.open
             /\ o.ctx.packed = c.packed /\ o.ctx.return_code = c.return_code
             /\ o.ctx.file = c.file \o SubSeq(c.content, 1, w)
  <2> DEFINE f == c.file \o SubSeq(c.content, 1, w)
  <2>1. f \in Seq(Nat)
    <3>1. \A i \in 1 .. w : c.content[i] \in Nat
      BY <1>1, ElementOfSeq
    <3>2. SubSeq(c.content, 1, w) \in Seq(Nat)
      BY <1>1, <3>1, SubSeqProperties
    <3> QED
      BY <1>1, <3>2, ConcatProperties
  <2> HIDE DEF f
  <2>2. /\ o.rc = CWP_RC_ERROR_IN_HANDLER
        /\ o.ctx = [c EXCEPT !.file = f, !.write_failed = TRUE]
    BY <1>3 DEF Outcome, f
  <2>3. /\ o.ctx \in Context /\ o.ctx.file = f
        /\ o.ctx.content = c.content /\ o.ctx.end = c.end
        /\ o.ctx.blocks = c.blocks /\ o.ctx.open = c.open
        /\ o.ctx.packed = c.packed /\ o.ctx.return_code = c.return_code
    BY <2>1, <2>2 DEF Context
  <2> QED
    BY <2>2, <2>3 DEF f
<1> QED
  BY <1>2, <1>3 DEF flush_stream_pack_context

\* A flush of the bytes the stream has not got leaves a prefix there, and
\* all of them when it is complete.
LEMMA FlushExact ==
    ASSUME NEW c \in Context, Exact(c), NEW o \in flush_stream_pack_context(c)
    PROVE  /\ Prefix(o.ctx)
           /\ Len(o.ctx.file) >= Len(c.file)
           /\ o.rc = CWP_RC_OK => Len(o.ctx.file) = c.packed
<1>1. /\ c.file \in Seq(Nat) /\ c.content \in Seq(Nat) /\ c.packed \in Nat
      /\ Len(c.content) \in Nat /\ Len(c.file) \in Nat
  BY LenProperties DEF Context
<1>2. /\ Numbered(c.file, 0) /\ Numbered(c.content, Len(c.file))
      /\ Len(c.file) = c.packed - Len(c.content)
  BY DEF Exact, Prefix
<1>3. /\ o.ctx.packed = c.packed
      /\ \/ o.rc = CWP_RC_OK /\ o.ctx.file = c.file \o c.content
         \/ /\ o.rc = CWP_RC_ERROR_IN_HANDLER
            /\ \E w \in 0 .. Len(c.content) - 1 :
                  o.ctx.file = c.file \o SubSeq(c.content, 1, w)
  BY FlushHeld
<1>4. ASSUME NEW w \in 0 .. Len(c.content),
             o.ctx.file = c.file \o SubSeq(c.content, 1, w)
      PROVE  Prefix(o.ctx) /\ Len(o.ctx.file) = Len(c.file) + w
  <2>1. Len(o.ctx.file) = Len(c.file) + w /\ Numbered(o.ctx.file, 0)
    BY <1>1, <1>2, <1>4, WriteNumbered
  <2> QED
    BY <1>1, <1>2, <1>3, <2>1 DEF Prefix
<1>5. CASE o.rc = CWP_RC_OK
  <2>0. CWP_RC_OK # CWP_RC_ERROR_IN_HANDLER
    BY DEF CWP_RC_OK, CWP_RC_ERROR_IN_HANDLER
  <2>1. o.ctx.file = c.file \o c.content
    BY <1>3, <1>5, <2>0, Zenon
  <2>2. SubSeq(c.content, 1, Len(c.content)) = c.content
    BY <1>1, SubSeqFull
  <2>3. /\ o.ctx.file = c.file \o SubSeq(c.content, 1, Len(c.content))
        /\ Len(c.content) \in 0 .. Len(c.content)
    <3>1. o.ctx.file = c.file \o SubSeq(c.content, 1, Len(c.content))
      BY <2>1, <2>2, Zenon
    <3> QED
      BY <1>1, <3>1
  <2>4. Prefix(o.ctx) /\ Len(o.ctx.file) = Len(c.file) + Len(c.content)
    BY <1>4, <2>3
  <2> QED
    BY <1>1, <1>2, <2>4
<1>6. CASE o.rc # CWP_RC_OK
  <2>1. PICK w \in 0 .. Len(c.content) - 1 :
          o.ctx.file = c.file \o SubSeq(c.content, 1, w)
    BY <1>3, <1>6
  <2>2. w \in 0 .. Len(c.content) /\ w \in Nat
    BY <1>1
  <2>3. Prefix(o.ctx) /\ Len(o.ctx.file) = Len(c.file) + w
    BY <1>4, <2>1, <2>2
  <2> QED
    BY <1>1, <1>6, <2>2, <2>3
<1> QED
  BY <1>5, <1>6

\* The flushed buffer is used again or replaced by one in which the item
\* fits; when malloc fails it stays.
LEMMA ReuseHeld ==
    ASSUME NEW c, Held(c), NEW more \in Nat, NEW o \in ReuseBuffer(c, more)
    PROVE  /\ o.rc \in {CWP_RC_OK, CWP_RC_BUFFER_OVERFLOW}
           /\ Held(o.ctx)
           /\ o.ctx.open = c.open /\ o.ctx.packed = c.packed
           /\ o.ctx.return_code = c.return_code /\ o.ctx.file = c.file
           /\ o.rc = CWP_RC_OK => /\ o.ctx.content = <<>>
                                  /\ Len(o.ctx.content) + more <= o.ctx.end
<1>1. /\ c \in Context /\ c.end \in Nat /\ c.blocks = 1
      /\ <<>> \in Seq(Nat) /\ Len(<<>>) = 0
      /\ CWP_RC_OK # CWP_RC_BUFFER_OVERFLOW
  BY EmptySeq DEF Held, Context, CWP_RC_OK, CWP_RC_BUFFER_OVERFLOW
<1>2. CASE c.end >= more /\ o = Outcome(CWP_RC_OK, [c EXCEPT !.content = <<>>])
  <2>1. o.rc = CWP_RC_OK /\ o.ctx = [c EXCEPT !.content = <<>>]
    BY <1>2 DEF Outcome
  <2>2. /\ o.ctx \in Context /\ o.ctx.content = <<>> /\ o.ctx.end = c.end
        /\ o.ctx.blocks = 1 /\ o.ctx.open = c.open /\ o.ctx.packed = c.packed
        /\ o.ctx.return_code = c.return_code /\ o.ctx.file = c.file
    BY <1>1, <2>1 DEF Context
  <2>3. Len(o.ctx.content) = 0
    BY <1>1, <2>2
  <2> QED
    BY <1>1, <1>2, <2>1, <2>2, <2>3 DEF Held
<1>3. CASE o = Outcome(CWP_RC_BUFFER_OVERFLOW, c)
  BY <1>1, <1>3 DEF Outcome
<1>4. ASSUME NEW length \in Doubled(c.end, more),
             o = Outcome(CWP_RC_OK, FreeOld([c EXCEPT !.blocks  = @ + 1,
                                                      !.end     = length,
                                                      !.content = <<>>]))
      PROVE  /\ o.rc = CWP_RC_OK
             /\ Held(o.ctx)
             /\ o.ctx.open = c.open /\ o.ctx.packed = c.packed
             /\ o.ctx.return_code = c.return_code /\ o.ctx.file = c.file
             /\ o.ctx.content = <<>>
             /\ Len(o.ctx.content) + more <= o.ctx.end
  <2>1. length \in Nat /\ length >= more /\ length >= 1
    <3>1. c.end >= 1
      BY DEF Held
    <3>2. length \in Nat /\ length >= more /\ length >= c.end
      BY <1>1, DoubledBound
    <3> QED
      BY <1>1, <3>1, <3>2
  <2> DEFINE new == [c EXCEPT !.blocks = 2, !.end = length, !.content = <<>>]
  <2>2. o.rc = CWP_RC_OK /\ o.ctx = FreeOld(new)
    BY <1>1, <1>4 DEF Outcome
  <2>3. /\ new \in Context /\ new.blocks = 2 /\ new.end = length
        /\ new.content = <<>> /\ new.open = c.open /\ new.packed = c.packed
        /\ new.return_code = c.return_code /\ new.file = c.file
    BY <1>1, <2>1 DEF Context
  <2> HIDE DEF new
  <2>4. o.ctx = [new EXCEPT !.blocks = 1]
    BY <2>2, <2>3 DEF FreeOld
  <2>5. /\ o.ctx \in Context /\ o.ctx.blocks = 1 /\ o.ctx.end = length
        /\ o.ctx.content = <<>> /\ o.ctx.open = c.open /\ o.ctx.packed = c.packed
        /\ o.ctx.return_code = c.return_code /\ o.ctx.file = c.file
    BY <2>3, <2>4 DEF Context
  <2>6. Len(o.ctx.content) = 0
    BY <1>1, <2>5
  <2> QED
    BY <2>1, <2>2, <2>5, <2>6 DEF Held
<1> QED
  BY <1>1, <1>2, <1>3, <1>4 DEF ReuseBuffer

\* The overflow handler keeps the one buffer, and makes room when it answers
\* OK.
LEMMA OverflowHeld ==
    ASSUME NEW c, Held(c), NEW more \in Nat,
           NEW o \in handle_stream_pack_overflow(c, more)
    PROVE  /\ o.rc \in {CWP_RC_OK, CWP_RC_ERROR_IN_HANDLER, CWP_RC_BUFFER_OVERFLOW}
           /\ Held(o.ctx)
           /\ o.ctx.open = c.open /\ o.ctx.packed = c.packed
           /\ o.ctx.return_code = c.return_code
           /\ o.rc = CWP_RC_OK => Len(o.ctx.content) + more <= o.ctx.end
           /\ Exact(c) => /\ Prefix(o.ctx) /\ Len(o.ctx.file) >= Len(c.file)
                          /\ o.rc = CWP_RC_OK => Exact(o.ctx)
<1>1. PICK f \in flush_stream_pack_context(c) :
        o \in IF f.rc = CWP_RC_OK THEN ReuseBuffer(f.ctx, more) ELSE {f}
  BY DEF handle_stream_pack_overflow
<1>2. c \in Context /\ c.packed \in Nat
  BY DEF Held, Context
<1>3. /\ f.rc \in {CWP_RC_OK, CWP_RC_ERROR_IN_HANDLER}
      /\ Held(f.ctx)
      /\ f.ctx.open = c.open /\ f.ctx.packed = c.packed
      /\ f.ctx.return_code = c.return_code
  BY <1>2, FlushHeld DEF Held
<1>4. Exact(c) => /\ Prefix(f.ctx)
                  /\ Len(f.ctx.file) >= Len(c.file)
                  /\ f.rc = CWP_RC_OK => Len(f.ctx.file) = c.packed
  BY <1>2, FlushExact
<1>5. CASE f.rc # CWP_RC_OK
  BY <1>1, <1>3, <1>4, <1>5
<1>6. CASE f.rc = CWP_RC_OK
  <2>1. o \in ReuseBuffer(f.ctx, more)
    BY <1>1, <1>6
  <2>2. /\ o.rc \in {CWP_RC_OK, CWP_RC_BUFFER_OVERFLOW}
        /\ Held(o.ctx)
        /\ o.ctx.open = f.ctx.open /\ o.ctx.packed = f.ctx.packed
        /\ o.ctx.return_code = f.ctx.return_code /\ o.ctx.file = f.ctx.file
        /\ o.rc = CWP_RC_OK => /\ o.ctx.content = <<>>
                               /\ Len(o.ctx.content) + more <= o.ctx.end
    BY <1>3, <2>1, ReuseHeld
  <2>3. Exact(c) => Prefix(o.ctx) /\ Len(o.ctx.file) >= Len(c.file)
    BY <1>3, <1>4, <2>2 DEF Prefix
  <2>4. ASSUME Exact(c), o.rc = CWP_RC_OK PROVE Exact(o.ctx)
    <3>1. Len(o.ctx.content) = 0 /\ Len(o.ctx.file) = c.packed /\ o.ctx.packed = c.packed
      BY <1>3, <1>4, <1>6, <2>2, <2>4, EmptySeq
    <3>2. Numbered(o.ctx.content, o.ctx.packed - Len(o.ctx.content))
      BY <3>1 DEF Numbered
    <3> QED
      BY <1>2, <2>3, <2>4, <3>1, <3>2 DEF Exact
  <2> QED
    BY <1>3, <2>2, <2>3, <2>4
<1> QED
  BY <1>5, <1>6

-------------------------------------------------------------------------------
(* The packing routines.                                                   *)

\* Bytes stored where there is room for them.
LEMMA PutHeld ==
    ASSUME NEW c, Held(c), NEW n \in Nat, Len(c.content) + n <= c.end
    PROVE  LET d == Put(c, n)
           IN  /\ Held(d)
               /\ d.open = c.open /\ d.packed = c.packed + n
               /\ d.return_code = c.return_code /\ d.file = c.file
               /\ Exact(c) => Exact(d)
<1> DEFINE t == c.content \o [k \in 1 .. n |-> c.packed + k]
           packed == c.packed + n
           d == [c EXCEPT !.content = t, !.packed = packed]
<1>1. /\ c \in Context /\ c.content \in Seq(Nat) /\ Len(c.content) \in Nat
      /\ c.packed \in Nat /\ c.end \in Nat /\ Len(c.file) \in Nat
  BY LenProperties DEF Held, Context
<1>2. t \in Seq(Nat) /\ Len(t) = Len(c.content) + n
  <2> DEFINE new == [k \in 1 .. n |-> c.packed + k]
  <2>1. new \in [1 .. n -> Nat]
    BY <1>1
  <2>2. new \in Seq(Nat)
    BY <2>1, SeqDef
  <2>3. Len(new) = n
    BY <2>1, <2>2, LenProperties
  <2> HIDE DEF new
  <2> QED
    BY <1>1, <2>2, <2>3, ConcatProperties
<1>3. Exact(c) => Numbered(t, c.packed - Len(c.content))
  <2> SUFFICES ASSUME Exact(c) PROVE Numbered(t, c.packed - Len(c.content))
    OBVIOUS
  <2> DEFINE base == c.packed - Len(c.content)
  <2>1. base \in Nat /\ c.packed = base + Len(c.content) /\ Numbered(c.content, base)
    BY <1>1 DEF Exact
  <2>2. t = c.content \o [k \in 1 .. n |-> base + Len(c.content) + k]
    BY <2>1
  <2> HIDE DEF t, base
  <2>3. Numbered(t, base)
    BY <1>1, <2>1, <2>2, StoreNumbered
  <2> QED
    BY <2>3 DEF base
<1>4. Put(c, n) = d
  BY DEF Put
<1>5. packed \in Nat /\ packed = c.packed + n
  BY <1>1
<1> HIDE DEF t, packed
<1>6. /\ d \in Context /\ d.content = t /\ d.packed = packed /\ d.end = c.end
      /\ d.blocks = c.blocks /\ d.open = c.open
      /\ d.return_code = c.return_code /\ d.file = c.file
  BY <1>1, <1>2, <1>5 DEF Context
<1> HIDE DEF d
<1>7. Held(d)
  BY <1>2, <1>6 DEF Held
<1>8. ASSUME Exact(c) PROVE Exact(d)
  <2>1. d.packed - Len(d.content) = c.packed - Len(c.content)
    <3>1. d.packed - Len(d.content) = (c.packed + n) - (Len(c.content) + n)
      BY <1>2, <1>5, <1>6, Zenon
    <3>2. (c.packed + n) - (Len(c.content) + n) = c.packed - Len(c.content)
      BY <1>1
    <3> QED
      BY <3>1, <3>2
  <2>2. Len(d.content) <= d.packed /\ Len(d.file) <= d.packed
    BY <1>1, <1>2, <1>5, <1>6, <1>8 DEF Exact, Prefix
  <2> QED
    BY <1>3, <1>6, <1>8, <2>1, <2>2 DEF Exact, Prefix
<1> QED
  BY <1>4, <1>5, <1>6, <1>7, <1>8

\* Only the return code changes.
LEMMA StopHeld ==
    ASSUME NEW c, Held(c), NEW code \in ReturnCodes
    PROVE  LET d == [c EXCEPT !.return_code = code]
           IN  /\ Held(d) /\ d.return_code = code
               /\ d.open = c.open /\ d.packed = c.packed
               /\ d.file = c.file /\ d.content = c.content
               /\ Prefix(c) => Prefix(d)
               /\ Exact(c) => Exact(d)
<1> DEFINE d == [c EXCEPT !.return_code = code]
<1>1. /\ d \in Context /\ d.content = c.content /\ d.packed = c.packed
      /\ d.end = c.end /\ d.blocks = c.blocks /\ d.open = c.open
      /\ d.return_code = code /\ d.file = c.file
  BY DEF Held, Context
<1> HIDE DEF d
<1>2. Held(d) /\ (Prefix(c) => Prefix(d)) /\ (Exact(c) => Exact(d))
  BY <1>1 DEF Held, Prefix, Exact
<1> QED
  BY <1>1, <1>2 DEF d

\* The codes of the handlers and calls, none of which is MALLOC_ERROR.
HandlerCodes == {CWP_RC_ERROR_IN_HANDLER, CWP_RC_BUFFER_OVERFLOW,
                 CWP_RC_ILLEGAL_CALL, CWP_RC_VALUE_ERROR}

LEMMA CodesDiffer ==
    /\ HandlerCodes \subseteq ReturnCodes
    /\ CWP_RC_OK \in ReturnCodes
    /\ CWP_RC_OK \notin HandlerCodes
    /\ CWP_RC_MALLOC_ERROR \notin HandlerCodes
    /\ CWP_RC_MALLOC_ERROR # CWP_RC_OK
    /\ DemandCodes \subseteq HandlerCodes \cup {CWP_RC_OK}
BY DEF HandlerCodes, DemandCodes, ReturnCodes, CWP_RC_OK, CWP_RC_MALLOC_ERROR,
       CWP_RC_ERROR_IN_HANDLER, CWP_RC_BUFFER_OVERFLOW, CWP_RC_ILLEGAL_CALL,
       CWP_RC_VALUE_ERROR

\* What a call makes of a context that has its buffer: it keeps it; and when
\* the content was exact, the call has accepted the bytes, or has stopped
\* the context and accepted none.
After(c, d) ==
    /\ Held(d) /\ d.open = c.open
    /\ d.return_code \in {c.return_code} \cup HandlerCodes
    /\ Exact(c) /\ c.return_code = CWP_RC_OK =>
          /\ Prefix(d)
          /\ d.return_code = CWP_RC_OK => Exact(d)
          /\ d.packed >= c.packed
          /\ Len(d.file) >= Len(c.file)
          /\ d.return_code # CWP_RC_OK => d.packed = c.packed

\* Space is reserved, or the handler's answer stops the context.
LEMMA ReserveAfter ==
    ASSUME NEW c, Held(c), NEW n \in Nat,
           NEW d \in cw_pack_reserve_space(c, n, handle_pack_overflow(c))
    PROVE  After(c, d)
<1>1. c \in Context /\ c.packed \in Nat /\ Len(c.file) \in Nat
  BY LenProperties DEF Held, Context
<1>2. CASE Len(c.content) + n <= c.end
  <2>1. d = Put(c, n)
    BY <1>2 DEF cw_pack_reserve_space
  <2>2. /\ Held(d)
        /\ d.open = c.open /\ d.packed = c.packed + n
        /\ d.return_code = c.return_code /\ d.file = c.file
        /\ Exact(c) => Exact(d)
    BY <1>2, <2>1, PutHeld
  <2> QED
    BY <1>1, <2>2 DEF After, Exact
<1>3. CASE ~(Len(c.content) + n <= c.end)
  <2>1. PICK o \in handle_stream_pack_overflow(c, n) :
          d = IF o.rc = CWP_RC_OK THEN Put(o.ctx, n)
              ELSE [o.ctx EXCEPT !.return_code = o.rc]
    BY <1>3 DEF cw_pack_reserve_space, handle_pack_overflow
  <2>2. /\ o.rc \in {CWP_RC_OK, CWP_RC_ERROR_IN_HANDLER, CWP_RC_BUFFER_OVERFLOW}
        /\ Held(o.ctx)
        /\ o.ctx.open = c.open /\ o.ctx.packed = c.packed
        /\ o.ctx.return_code = c.return_code
        /\ o.rc = CWP_RC_OK => Len(o.ctx.content) + n <= o.ctx.end
        /\ Exact(c) => /\ Prefix(o.ctx) /\ Len(o.ctx.file) >= Len(c.file)
                       /\ o.rc = CWP_RC_OK => Exact(o.ctx)
    BY OverflowHeld
  <2>3. CASE o.rc = CWP_RC_OK
    <3>1. d = Put(o.ctx, n)
      BY <2>1, <2>3
    <3>2. /\ Held(d)
          /\ d.open = c.open /\ d.packed = c.packed + n
          /\ d.return_code = c.return_code /\ d.file = o.ctx.file
          /\ Exact(c) => Exact(d)
      BY <2>2, <2>3, <3>1, PutHeld
    <3> QED
      BY <1>1, <2>2, <3>2 DEF After, Exact
  <2>4. CASE o.rc # CWP_RC_OK
    <3>1. d = [o.ctx EXCEPT !.return_code = o.rc] /\ o.rc \in HandlerCodes
      BY <2>1, <2>2, <2>4 DEF HandlerCodes
    <3>2. /\ Held(d) /\ d.return_code = o.rc
          /\ d.open = o.ctx.open /\ d.packed = o.ctx.packed /\ d.file = o.ctx.file
          /\ Prefix(o.ctx) => Prefix(d)
      BY <2>2, <3>1, StopHeld, CodesDiffer
    <3> QED
      BY <1>1, <2>2, <2>4, <3>1, <3>2 DEF After
  <2> QED
    BY <2>3, <2>4
<1> QED
  BY <1>2, <1>3

\* A packing routine.
LEMMA PackAfter ==
    ASSUME NEW c, Held(c), NEW call \in Calls,
           NEW d \in pack_item(c, call, handle_pack_overflow(c))
    PROVE  After(c, d) /\ (c.return_code # CWP_RC_OK => d = c)
<1> DEFINE demand == call[c.be_compatible]
<1>1. c \in Context /\ c.packed \in Nat /\ Len(c.file) \in Nat
  BY LenProperties DEF Held, Context
<1>2. demand.rc \in DemandCodes /\ demand.size \in Nat
  <2>1. demand \in [rc : DemandCodes, size : Nat]
    BY <1>1, CallsAssumption DEF Context
  <2> QED
    BY <2>1
<1>3. CASE c.return_code # CWP_RC_OK
  BY <1>3 DEF pack_item, After
<1>4. CASE c.return_code = CWP_RC_OK /\ demand.rc # CWP_RC_OK
  <2>1. d = [c EXCEPT !.return_code = demand.rc]
    BY <1>4 DEF pack_item
  <2>2. demand.rc \in HandlerCodes
    BY <1>2, <1>4, CodesDiffer
  <2> HIDE DEF demand
  <2>3. /\ Held(d) /\ d.return_code = demand.rc
        /\ d.open = c.open /\ d.packed = c.packed /\ d.file = c.file
        /\ Prefix(c) => Prefix(d)
    BY <2>1, <2>2, StopHeld, CodesDiffer
  <2> QED
    BY <1>1, <1>4, <2>2, <2>3 DEF After, Exact
<1>5. CASE c.return_code = CWP_RC_OK /\ demand.rc = CWP_RC_OK
  <2>1. d \in cw_pack_reserve_space(c, demand.size, handle_pack_overflow(c))
    BY <1>5 DEF pack_item
  <2> HIDE DEF demand
  <2> QED
    BY <1>2, <1>5, <2>1, ReserveAfter
<1> QED
  BY <1>3, <1>4, <1>5

\* A flush by the client or at the end of the session.
LEMMA FlushStays ==
    ASSUME NEW c, Held(c),
           NEW d \in cw_pack_flush(c, flush_stream_pack_context(c))
    PROVE  /\ Held(d) /\ d.open = c.open /\ d.packed = c.packed
           /\ d.content = c.content
           /\ d.return_code \in {c.return_code} \cup HandlerCodes
           /\ c.return_code # CWP_RC_OK => d = c
           /\ Exact(c) /\ c.return_code = CWP_RC_OK =>
                 /\ Prefix(d)
                 /\ Len(d.file) >= Len(c.file)
                 /\ d.return_code = CWP_RC_OK => Len(d.file) = d.packed
<1>1. CASE c.return_code # CWP_RC_OK
  BY <1>1 DEF cw_pack_flush
<1>2. CASE c.return_code = CWP_RC_OK
  <2>1. PICK o \in flush_stream_pack_context(c) :
          d = [o.ctx EXCEPT !.return_code = o.rc]
    BY <1>2 DEF cw_pack_flush
  <2>2. /\ o.rc \in {CWP_RC_OK, CWP_RC_ERROR_IN_HANDLER}
        /\ Held(o.ctx)
        /\ o.ctx.content = c.content /\ o.ctx.open = c.open
        /\ o.ctx.packed = c.packed /\ o.ctx.return_code = c.return_code
    BY FlushHeld DEF Held
  <2>3. Exact(c) => /\ Prefix(o.ctx)
                    /\ Len(o.ctx.file) >= Len(c.file)
                    /\ o.rc = CWP_RC_OK => Len(o.ctx.file) = c.packed
    BY FlushExact DEF Held
  <2>4. o.rc \in ReturnCodes /\ o.rc \in {CWP_RC_OK} \cup HandlerCodes
    BY <2>2, CodesDiffer DEF HandlerCodes
  <2>5. /\ Held(d) /\ d.return_code = o.rc
        /\ d.open = o.ctx.open /\ d.packed = o.ctx.packed
        /\ d.file = o.ctx.file /\ d.content = o.ctx.content
        /\ Prefix(o.ctx) => Prefix(d)
    BY <2>1, <2>2, <2>4, StopHeld
  <2> QED
    BY <1>2, <2>2, <2>3, <2>4, <2>5
<1> QED
  BY <1>1, <1>2

\* When the buffer is empty such a flush is a call like any other.
LEMMA FlushAfter ==
    ASSUME NEW c, Held(c), c.content = <<>>,
           NEW d \in cw_pack_flush(c, flush_stream_pack_context(c))
    PROVE  After(c, d)
<1>1. /\ Held(d) /\ d.open = c.open /\ d.packed = c.packed
      /\ d.content = <<>>
      /\ d.return_code \in {c.return_code} \cup HandlerCodes
      /\ Exact(c) /\ c.return_code = CWP_RC_OK =>
            /\ Prefix(d)
            /\ Len(d.file) >= Len(c.file)
            /\ d.return_code = CWP_RC_OK => Len(d.file) = d.packed
  BY FlushStays
<1>2. c.packed \in Nat /\ Len(<<>>) = 0
  BY EmptySeq DEF Held, Context
<1>3. ASSUME Prefix(d), Len(d.file) = d.packed PROVE Exact(d)
  <2>1. Len(d.content) = 0 /\ d.packed \in Nat
    BY <1>1, <1>2
  <2> QED
    BY <1>3, <2>1 DEF Exact, Numbered
<1>4. d.packed >= c.packed
  BY <1>1, <1>2
<1> QED
  BY <1>1, <1>3, <1>4 DEF After

-------------------------------------------------------------------------------
(* The steps.                                                              *)

\* The invariants hold before the first session.
LEMMA InitInvariant == Init => IInv
<1> SUFFICES ASSUME Init PROVE IInv
  OBVIOUS
<1>1. <<>> \in Seq(Nat) /\ Len(<<>>) = 0
  BY EmptySeq
<1>2. /\ spc \in Context /\ ~spc.open /\ spc.file = <<>> /\ spc.packed = 0
      /\ spc.blocks = 0
  BY <1>1 DEF Init, Context, ReturnCodes, CWP_RC_OK, ByteOrderCodes
<1> QED
  BY <1>1, <1>2 DEF IInv, BInv, FInv, Running, Prefix, Numbered

\* A new session.
LEMMA InitStep ==
    ASSUME BInv, init_stream_pack_context
    PROVE  /\ IInv'
           /\ ~spc.open /\ spc'.open = TRUE /\ spc'.packed = 0 /\ spc'.file = <<>>
           /\ \/ spc'.return_code = CWP_RC_MALLOC_ERROR
              \/ spc'.return_code \in ByteOrderCodes
<1> DEFINE new == NewSession(spc)
<1>1. spc \in Context /\ ~spc.open /\ <<>> \in Seq(Nat) /\ Len(<<>>) = 0
  BY EmptySeq DEF BInv, init_stream_pack_context
<1>2. /\ new \in Context /\ new.open = TRUE /\ new.packed = 0 /\ new.file = <<>>
      /\ new.blocks = 0 /\ new.byte_order = spc.byte_order
  BY <1>1 DEF NewSession, Context
<1>3. spc.byte_order \in ByteOrderCodes /\ ByteOrderCodes \subseteq ReturnCodes
      /\ CWP_RC_MALLOC_ERROR \in ReturnCodes /\ CWP_RC_MALLOC_ERROR \notin ByteOrderCodes
  BY <1>1 DEF Context, ByteOrderCodes, ReturnCodes, CWP_RC_OK, CWP_RC_WRONG_BYTE_ORDER,
              CWP_RC_MALLOC_ERROR
<1> HIDE DEF new
<1>4. CASE spc' = [new EXCEPT !.return_code = CWP_RC_MALLOC_ERROR]
  <2>1. /\ spc' \in Context /\ spc'.open = TRUE /\ spc'.packed = 0
        /\ spc'.file = <<>> /\ spc'.blocks = 0
        /\ spc'.return_code = CWP_RC_MALLOC_ERROR
    BY <1>2, <1>3, <1>4 DEF Context
  <2> QED
    BY <1>1, <2>1, CodesDiffer DEF IInv, BInv, FInv, Running, Prefix, Numbered
<1>5. ASSUME NEW asked \in InitialLengths,
             spc' = cw_pack_context_init([new EXCEPT !.blocks = 1],
                                         BufferLength(asked), spc.byte_order)
      PROVE  /\ IInv'
             /\ spc'.open = TRUE /\ spc'.packed = 0 /\ spc'.file = <<>>
             /\ spc'.return_code \in ByteOrderCodes
  <2> DEFINE length == BufferLength(asked)
  <2>1. length \in Nat /\ length >= 1
    BY StreamPackAssumption DEF BufferLength
  <2>2. spc' = cw_pack_context_init([new EXCEPT !.blocks = 1], length, spc.byte_order)
    BY <1>5
  <2> HIDE DEF length
  <2>3. /\ spc' \in Context /\ spc'.open = TRUE /\ spc'.packed = 0
        /\ spc'.file = <<>> /\ spc'.content = <<>> /\ spc'.end = length
        /\ spc'.blocks = 1 /\ spc'.return_code = spc.byte_order
    BY <1>1, <1>2, <1>3, <2>1, <2>2 DEF cw_pack_context_init, Context
  <2>4. Held(spc')
    BY <1>1, <2>1, <2>3 DEF Held
  <2>5. Exact(spc')
    <3>1. Len(spc'.content) = 0 /\ Len(spc'.file) = 0 /\ spc'.packed = 0
      BY <1>1, <2>3
    <3> QED
      BY <3>1 DEF Exact, Prefix, Numbered
  <2>6. BInv'
    BY <1>3, <2>3, <2>4 DEF BInv, Running, Held
  <2>7. FInv'
    BY <2>5 DEF FInv, Exact, Prefix
  <2> QED
    BY <1>3, <2>3, <2>6, <2>7 DEF IInv
<1> QED
  BY <1>1, <1>4, <1>5 DEF init_stream_pack_context, new

\* What a call on a running context keeps.
LEMMA AfterStep ==
    ASSUME BInv, spc.open, spc.return_code # CWP_RC_MALLOC_ERROR, After(spc, spc')
    PROVE  /\ BInv'
           /\ FInv /\ spc.return_code = CWP_RC_OK => FInv'
<1>1. /\ Held(spc') /\ spc'.open /\ spc'.return_code # CWP_RC_MALLOC_ERROR
  BY CodesDiffer DEF After
<1>2. BInv'
  BY <1>1 DEF BInv, Running, Held
<1>3. ASSUME FInv, spc.return_code = CWP_RC_OK PROVE FInv'
  <2>1. Exact(spc)
    BY <1>3 DEF FInv, Running
  <2> QED
    BY <1>3, <2>1 DEF After, FInv, Prefix, Exact
<1> QED
  BY <1>2, <1>3

\* A packing routine or cw_pack_insert does nothing, or what After says; on a
\* stopped context only cw_pack_insert does anything, if the client calls it.
LEMMA PackOrInsert ==
    ASSUME BInv, Pack \/ Insert
    PROVE  /\ spc.open
           /\ \/ spc' = spc
              \/ /\ spc.return_code # CWP_RC_MALLOC_ERROR
                 /\ After(spc, spc')
                 /\ spc.return_code = CWP_RC_OK \/ InsertWhenStopped
<1>1. CASE Pack
  <2>1. PICK call \in Calls : spc' \in pack_item(spc, call, handle_pack_overflow(spc))
    BY <1>1 DEF Pack
  <2>2. CASE spc.return_code # CWP_RC_OK
    BY <1>1, <2>1, <2>2 DEF Pack, pack_item
  <2>3. CASE spc.return_code = CWP_RC_OK
    <3>1. Held(spc)
      BY <1>1, <2>3, CodesDiffer DEF BInv, Running, Pack
    <3> QED
      BY <1>1, <2>1, <2>3, <3>1, PackAfter, CodesDiffer DEF Pack
  <2> QED
    BY <2>2, <2>3
<1>2. CASE Insert
  <2>1. PICK l \in InsertSizes : spc' \in cw_pack_insert(spc, l, handle_pack_overflow(spc))
    BY <1>2 DEF Insert
  <2>2. l \in Nat
    BY CallsAssumption
  <2>3. /\ spc.open /\ spc.return_code # CWP_RC_MALLOC_ERROR
        /\ spc.return_code = CWP_RC_OK \/ InsertWhenStopped
    BY <1>2, CodesDiffer DEF Insert, MayInsert
  <2>4. Held(spc)
    BY <2>3 DEF BInv, Running
  <2>5. After(spc, spc')
    BY <2>1, <2>2, <2>4, ReserveAfter DEF cw_pack_insert
  <2> QED
    BY <2>3, <2>5
<1> QED
  BY <1>1, <1>2

\* A flush by the client.
LEMMA FlushStep ==
    ASSUME BInv, Flush
    PROVE  /\ BInv' /\ spc.open
           /\ \/ spc' = spc
              \/ /\ spc.return_code = CWP_RC_OK
                 /\ ~FlushesContent => After(spc, spc')
<1>1. spc.open /\ spc' \in cw_pack_flush(spc, flush_stream_pack_context(spc))
  BY DEF Flush
<1>2. CASE spc.return_code # CWP_RC_OK
  <2>1. spc' = spc
    BY <1>1, <1>2 DEF cw_pack_flush
  <2> QED
    BY <1>1, <2>1 DEF BInv, Running
<1>3. CASE spc.return_code = CWP_RC_OK
  <2>1. Held(spc)
    BY <1>1, <1>3, CodesDiffer DEF BInv, Running
  <2>2. /\ Held(spc') /\ spc'.open
        /\ spc'.return_code # CWP_RC_MALLOC_ERROR
    BY <1>1, <1>3, <2>1, FlushStays, CodesDiffer
  <2>3. BInv'
    BY <2>2 DEF BInv, Running, Held
  <2>4. ~FlushesContent => After(spc, spc')
    BY <1>1, <2>1, FlushAfter DEF Flush
  <2> QED
    BY <1>1, <1>3, <2>3, <2>4
<1> QED
  BY <1>2, <1>3

\* Setting the compatibility mode.
LEMMA SetCompatibilityStep ==
    ASSUME BInv, SetCompatibility
    PROVE  /\ BInv' /\ (FInv => FInv')
           /\ spc'.open = spc.open /\ spc'.return_code = spc.return_code
           /\ spc'.packed = spc.packed /\ spc'.file = spc.file
<1>1. PICK b \in BOOLEAN : spc' = [spc EXCEPT !.be_compatible = b]
  BY DEF SetCompatibility, cw_pack_set_compatibility
<1>2. spc \in Context
  BY DEF BInv
<1>3. /\ spc' \in Context /\ spc'.content = spc.content /\ spc'.end = spc.end
      /\ spc'.blocks = spc.blocks /\ spc'.open = spc.open
      /\ spc'.return_code = spc.return_code
      /\ spc'.packed = spc.packed /\ spc'.file = spc.file
  BY <1>1, <1>2 DEF Context
<1> QED
  BY <1>3 DEF BInv, FInv, Running, Held, Prefix, Exact

\* The end of a session: the buffer is freed, and without an error before or
\* in the last flush the stream has got everything.
LEMMA TerminateStep ==
    ASSUME BInv, terminate_stream_pack_context
    PROVE  /\ BInv' /\ (FInv => FInv')
           /\ spc.open /\ ~spc'.open /\ spc'.packed = spc.packed
           /\ spc.return_code # CWP_RC_OK =>
                 spc'.return_code = spc.return_code /\ spc'.file = spc.file
           /\ FInv => Len(spc'.file) >= Len(spc.file)
           /\ FInv /\ spc.return_code = CWP_RC_OK /\ spc'.return_code = CWP_RC_OK =>
                 Len(spc'.file) = spc'.packed
<1>1. PICK c \in cw_pack_flush(spc, flush_stream_pack_context(spc)) :
        spc' = [IF c.return_code = CWP_RC_MALLOC_ERROR THEN c ELSE FreeOld(c)
                    EXCEPT !.open = FALSE]
  BY DEF terminate_stream_pack_context
<1>2. spc.open /\ spc \in Context /\ spc.packed \in Nat /\ Len(spc.file) \in Nat
  BY LenProperties DEF terminate_stream_pack_context, BInv, Context
<1>3. CASE spc.return_code = CWP_RC_MALLOC_ERROR
  <2>1. c = spc
    BY <1>1, <1>3, CodesDiffer DEF cw_pack_flush
  <2>2. spc.blocks = 0
    BY <1>3 DEF BInv, Running
  <2>3. spc' = [spc EXCEPT !.open = FALSE]
    BY <1>1, <1>3, <2>1
  <2>4. /\ spc' \in Context /\ spc'.blocks = 0 /\ spc'.open = FALSE
        /\ spc'.return_code = spc.return_code
        /\ spc'.packed = spc.packed /\ spc'.file = spc.file
    BY <1>2, <2>2, <2>3 DEF Context
  <2> QED
    BY <1>2, <1>3, <2>4, CodesDiffer DEF BInv, FInv, Running, Prefix
<1>4. CASE spc.return_code # CWP_RC_MALLOC_ERROR
  <2>1. Held(spc)
    BY <1>2, <1>4 DEF BInv, Running
  <2>2. /\ Held(c) /\ c.packed = spc.packed
        /\ c.return_code # CWP_RC_MALLOC_ERROR
        /\ spc.return_code # CWP_RC_OK => c = spc
        /\ Exact(spc) /\ spc.return_code = CWP_RC_OK =>
              /\ Prefix(c)
              /\ Len(c.file) >= Len(spc.file)
              /\ c.return_code = CWP_RC_OK => Len(c.file) = c.packed
    BY <1>4, <2>1, FlushStays, CodesDiffer
  <2>3. c \in Context /\ c.blocks = 1
    BY <2>2 DEF Held
  <2>4. spc' = [c EXCEPT !.blocks = 0, !.open = FALSE]
    <3>1. FreeOld(c) = [c EXCEPT !.blocks = 0]
      BY <2>3 DEF FreeOld
    <3> QED
      BY <1>1, <2>2, <2>3, <3>1 DEF Context
  <2>5. /\ spc' \in Context /\ spc'.blocks = 0 /\ spc'.open = FALSE
        /\ spc'.return_code = c.return_code
        /\ spc'.packed = c.packed /\ spc'.file = c.file
    BY <2>3, <2>4 DEF Context
  <2>6. BInv'
    BY <2>5 DEF BInv, Running
  <2>7. ASSUME FInv PROVE Prefix(c) /\ Len(c.file) >= Len(spc.file)
    <3>1. CASE spc.return_code = CWP_RC_OK
      BY <1>2, <1>4, <2>2, <2>7, <3>1 DEF FInv, Running
    <3>2. CASE spc.return_code # CWP_RC_OK
      BY <1>2, <2>2, <2>7, <3>2 DEF FInv
    <3> QED
      BY <3>1, <3>2
  <2>8. FInv => FInv'
    BY <2>5, <2>7 DEF FInv, Running, Prefix
  <2>9. ASSUME FInv, spc.return_code = CWP_RC_OK, c.return_code = CWP_RC_OK
        PROVE  Len(c.file) = c.packed
    BY <1>2, <1>4, <2>2, <2>9 DEF FInv, Running
  <2> QED
    BY <1>2, <2>2, <2>5, <2>6, <2>7, <2>8, <2>9
<1> QED
  BY <1>3, <1>4

-------------------------------------------------------------------------------
(* The invariants.                                                         *)

\* Every step keeps the buffer, whatever the client does.
LEMMA NextBuffer == BInv /\ [Next]_vars => BInv'
<1> SUFFICES ASSUME BInv, [Next]_vars PROVE BInv'
  OBVIOUS
<1>1. ASSUME spc' = spc PROVE BInv'
  BY <1>1 DEF BInv, Running
<1>2. CASE init_stream_pack_context
  BY <1>2, InitStep DEF IInv
<1>3. CASE Pack \/ Insert
  BY <1>1, <1>3, PackOrInsert, AfterStep
<1>4. CASE Flush
  BY <1>4, FlushStep
<1>5. CASE SetCompatibility
  BY <1>5, SetCompatibilityStep
<1>6. CASE terminate_stream_pack_context
  BY <1>6, TerminateStep
<1> QED
  BY <1>1, <1>2, <1>3, <1>4, <1>5, <1>6 DEF Next, vars

\* With a careful client every step keeps what is in it, too.
LEMMA NextInvariant ==
    ASSUME CarefulClient
    PROVE  IInv /\ [Next]_vars => IInv'
<1> SUFFICES ASSUME IInv, [Next]_vars PROVE IInv'
  OBVIOUS
<1> SUFFICES FInv'
  BY NextBuffer DEF IInv
<1>1. BInv /\ FInv
  BY DEF IInv
<1>2. ASSUME spc' = spc PROVE FInv'
  BY <1>1, <1>2 DEF FInv, Running, Prefix, Exact
<1>3. CASE init_stream_pack_context
  BY <1>1, <1>3, InitStep DEF IInv
<1>4. CASE Pack \/ Insert
  BY <1>1, <1>2, <1>4, PackOrInsert, AfterStep, CodesDiffer DEF CarefulClient
<1>5. CASE Flush
  BY <1>1, <1>2, <1>5, FlushStep, AfterStep, CodesDiffer DEF CarefulClient
<1>6. CASE SetCompatibility
  BY <1>1, <1>6, SetCompatibilityStep
<1>7. CASE terminate_stream_pack_context
  BY <1>1, <1>7, TerminateStep
<1> QED
  BY <1>1, <1>2, <1>3, <1>4, <1>5, <1>6, <1>7 DEF Next, vars

\* In every reachable state.
LEMMA BufferInvariant == Spec => []BInv
<1>1. Init => BInv
  BY InitInvariant DEF IInv
<1> QED
  BY <1>1, NextBuffer, PTL DEF Spec

LEMMA InvariantHolds ==
    ASSUME CarefulClient
    PROVE  Spec => []IInv
BY InitInvariant, NextInvariant, PTL DEF Spec

\* No packing routine stores a byte past the end of the buffer, whatever the
\* client does and whatever fails.
THEOREM StaysWithinBuffer == Spec => []WithinBuffer
<1>1. BInv => WithinBuffer
  BY DEF BInv, WithinBuffer, Held
<1> QED
  BY <1>1, BufferInvariant, PTL

\* Exactly one buffer is alive in a session and none after it, whatever the
\* client does and whatever fails.
THEOREM OneBufferAlive == Spec => []OneBuffer
<1>1. BInv => OneBuffer
  BY DEF BInv, OneBuffer, Held
<1> QED
  BY <1>1, BufferInvariant, PTL

\* The overflow handler can answer OK whatever the item's length: the loop
\* that doubles the buffer ends.
THEOREM HandlerAlwaysReturns == Spec => []HandlerReturns
<1>1. BInv => HandlerReturns
  <2> SUFFICES ASSUME BInv, Running, NEW more \in 1 .. MaxPacked
               PROVE  \E o \in handle_stream_pack_overflow(spc, more) : o.rc = CWP_RC_OK
    BY DEF HandlerReturns
  <2> DEFINE f == Outcome(CWP_RC_OK, [spc EXCEPT !.file = @ \o spc.content])
  <2>1. f \in flush_stream_pack_context(spc) /\ f.rc = CWP_RC_OK
    BY DEF flush_stream_pack_context, Outcome
  <2>2. Held(spc) /\ more \in Nat
    BY CallsAssumption DEF BInv
  <2> HIDE DEF f
  <2>3. f.ctx.end \in Nat \ {0}
    <3>1. f.ctx.end = spc.end
      BY <2>1, <2>2, FlushHeld DEF Held
    <3> QED
      BY <2>2, <3>1 DEF Held, Context
  <2>4. \E o \in ReuseBuffer(f.ctx, more) : o.rc = CWP_RC_OK
    <3>1. CASE f.ctx.end >= more
      BY <3>1 DEF ReuseBuffer, Outcome
    <3>2. CASE ~(f.ctx.end >= more)
      <4>1. PICK length \in Doubled(f.ctx.end, more) : TRUE
        BY <2>2, <2>3, DoubledEnds
      <4>2. Outcome(CWP_RC_OK, FreeOld([f.ctx EXCEPT !.blocks  = @ + 1,
                                                     !.end     = length,
                                                     !.content = <<>>]))
              \in ReuseBuffer(f.ctx, more)
        BY <3>2, <4>1 DEF ReuseBuffer
      <4> QED
        BY <4>2 DEF Outcome
    <3> QED
      BY <3>1, <3>2
  <2> QED
    BY <2>1, <2>4 DEF handle_stream_pack_overflow
<1> QED
  BY <1>1, BufferInvariant, PTL

\* The stream holds a prefix of what was packed, whatever fails.
THEOREM FileAlwaysPrefix ==
    ASSUME CarefulClient
    PROVE  Spec => []FileIsPrefix
<1>1. IInv => FileIsPrefix
  <2> SUFFICES ASSUME IInv PROVE FileIsPrefix
    OBVIOUS
  <2>1. spc.file \in Seq(Nat) /\ Prefix(spc)
    BY DEF IInv, BInv, FInv, Context
  <2> QED
    BY <2>1, NumberedIsUpto DEF FileIsPrefix, Prefix
<1> QED
  BY <1>1, InvariantHolds, PTL

\* Stream and buffer together are the bytes packed, as long as no error has
\* stopped the context.
THEOREM NothingLost ==
    ASSUME CarefulClient
    PROVE  Spec => []NoByteLost
<1>1. IInv => NoByteLost
  <2> SUFFICES ASSUME IInv, Running, spc.return_code = CWP_RC_OK
               PROVE  spc.file \o spc.content = Upto(spc.packed)
    BY DEF NoByteLost
  <2>1. /\ Exact(spc)
        /\ spc.file \in Seq(Nat) /\ spc.content \in Seq(Nat) /\ spc.packed \in Nat
    BY DEF IInv, BInv, FInv, Context
  <2>2. Len(spc.file) \in Nat /\ Len(spc.content) \in Nat
    BY <2>1, LenProperties
  <2>3. /\ Numbered(spc.file, 0)
        /\ Len(spc.file) = spc.packed - Len(spc.content)
        /\ Numbered(spc.content, Len(spc.file))
    BY <2>1 DEF Exact, Prefix
  <2>4. spc.packed = Len(spc.file) + Len(spc.content)
    BY <2>1, <2>2, <2>3
  <2> QED
    BY <2>1, <2>3, <2>4, WholeNumbered
<1> QED
  BY <1>1, InvariantHolds, PTL

-------------------------------------------------------------------------------
(* Refinement.                                                             *)

\* A stream that has got a longer prefix has got what the abstract stream's
\* sink can be.
LEMMA SinkIsUpto ==
    ASSUME NEW f \in Seq(Nat), NEW g \in Seq(Nat), Numbered(g, 0),
           Len(g) >= Len(f), NEW n \in Nat, Len(g) <= n
    PROVE  \E m \in Len(f) .. n : g = Stream!Upto(m)
<1>1. Len(f) \in Nat /\ Len(g) \in Nat
  BY LenProperties
<1>2. g = Stream!Upto(Len(g))
  BY NumberedIsUpto DEF Upto, Stream!Upto
<1> QED
  BY <1>1, <1>2

\* The codes are those of the abstract stream.
LEMMA SameCodes ==
    /\ CWP_RC_OK = Stream!CWP_RC_OK
    /\ CWP_RC_MALLOC_ERROR = Stream!CWP_RC_MALLOC_ERROR
    /\ CWP_RC_WRONG_BYTE_ORDER = Stream!CWP_RC_WRONG_BYTE_ORDER
    /\ ReturnCodes = Stream!ReturnCodes
BY DEF CWP_RC_OK, Stream!CWP_RC_OK, CWP_RC_MALLOC_ERROR, Stream!CWP_RC_MALLOC_ERROR,
       CWP_RC_WRONG_BYTE_ORDER, Stream!CWP_RC_WRONG_BYTE_ORDER,
       ReturnCodes, Stream!ReturnCodes

\* A call on a running context is a call of the abstract stream.
LEMMA CallRefines ==
    ASSUME IInv, spc.open, spc.return_code = CWP_RC_OK, After(spc, spc')
    PROVE  Stream!Call
<1>1. /\ spc \in Context /\ spc.file \in Seq(Nat) /\ Exact(spc)
  BY CodesDiffer DEF IInv, BInv, FInv, Running, Context
<1>2. /\ spc' \in Context /\ spc'.open = spc.open
      /\ Prefix(spc') /\ spc'.packed >= spc.packed
      /\ Len(spc'.file) >= Len(spc.file)
      /\ spc'.return_code # CWP_RC_OK => spc'.packed = spc.packed
  BY <1>1 DEF After, Held
<1>3. /\ spc'.file \in Seq(Nat) /\ spc'.packed \in Nat
      /\ spc'.return_code \in ReturnCodes
      /\ Numbered(spc'.file, 0) /\ Len(spc'.file) <= spc'.packed
  BY <1>2 DEF Context, Prefix
<1>4. \E m \in Len(spc.file) .. spc'.packed : spc'.file = Stream!Upto(m)
  BY <1>1, <1>2, <1>3, SinkIsUpto
<1> QED
  BY <1>2, <1>3, <1>4, SameCodes DEF Stream!Call

\* Initialisation is the abstract stream's Open.
LEMMA OpenRefines ==
    ASSUME IInv, init_stream_pack_context
    PROVE  Stream!Open
<1>1. spc.open = FALSE
  BY DEF IInv, BInv, Context, init_stream_pack_context
<1>2. /\ spc'.open = TRUE /\ spc'.packed = 0 /\ spc'.file = <<>>
      /\ \/ spc'.return_code = CWP_RC_MALLOC_ERROR
         \/ spc'.return_code \in ByteOrderCodes
  BY InitStep DEF IInv
<1> QED
  BY <1>1, <1>2, SameCodes DEF Stream!Open, ByteOrderCodes

\* Termination is the abstract stream's Close.
LEMMA CloseRefines ==
    ASSUME IInv, terminate_stream_pack_context
    PROVE  Stream!Close
<1>1. /\ spc \in Context /\ spc.file \in Seq(Nat) /\ spc.packed \in Nat
      /\ spc.open \in BOOLEAN
  BY DEF IInv, BInv, Context
<1>2. /\ spc' \in Context /\ Prefix(spc')
      /\ spc.open /\ ~spc'.open /\ spc'.packed = spc.packed
      /\ spc.return_code # CWP_RC_OK =>
            spc'.return_code = spc.return_code /\ spc'.file = spc.file
      /\ Len(spc'.file) >= Len(spc.file)
      /\ spc.return_code = CWP_RC_OK /\ spc'.return_code = CWP_RC_OK =>
            Len(spc'.file) = spc'.packed
  BY TerminateStep DEF IInv, BInv, FInv
<1>3. /\ spc'.file \in Seq(Nat) /\ spc'.return_code \in ReturnCodes
      /\ spc'.open = FALSE
      /\ Numbered(spc'.file, 0) /\ Len(spc'.file) <= spc.packed
  BY <1>2 DEF Context, Prefix
<1>4. \E m \in Len(spc.file) .. spc.packed : spc'.file = Stream!Upto(m)
  BY <1>1, <1>2, <1>3, SinkIsUpto
<1>5. spc.return_code = CWP_RC_OK /\ spc'.return_code = CWP_RC_OK =>
         spc'.file = Stream!Upto(spc.packed)
  BY <1>2, <1>3, NumberedIsUpto DEF Upto, Stream!Upto
<1> QED
  BY <1>2, <1>3, <1>4, <1>5, SameCodes DEF Stream!Close

\* A step that changes nothing the abstract stream can see.
LEMMA StutterRefines ==
    ASSUME spc'.open = spc.open, spc'.return_code = spc.return_code,
           spc'.packed = spc.packed, spc'.file = spc.file
    PROVE  UNCHANGED Stream!vars
BY DEF Stream!vars

\* Every step is a step of the abstract stream, or changes nothing it sees.
LEMMA NextRefines ==
    ASSUME CarefulClient
    PROVE  IInv /\ [Next]_vars => [Stream!Next]_(Stream!vars)
<1> SUFFICES ASSUME IInv, [Next]_vars
             PROVE  Stream!Next \/ UNCHANGED Stream!vars
  OBVIOUS
<1>1. ASSUME spc' = spc PROVE UNCHANGED Stream!vars
  BY <1>1, StutterRefines
<1>2. CASE init_stream_pack_context
  BY <1>2, OpenRefines DEF Stream!Next
<1>3. CASE Pack \/ Insert
  BY <1>1, <1>3, PackOrInsert, CallRefines DEF Stream!Next, IInv, CarefulClient
<1>4. CASE Flush
  BY <1>1, <1>4, FlushStep, CallRefines DEF Stream!Next, IInv, CarefulClient
<1>5. CASE SetCompatibility
  BY <1>5, SetCompatibilityStep, StutterRefines DEF IInv
<1>6. CASE terminate_stream_pack_context
  BY <1>6, CloseRefines DEF Stream!Next
<1> QED
  BY <1>1, <1>2, <1>3, <1>4, <1>5, <1>6 DEF Next, vars

\* The stream pack context implements the abstract packing stream: every
\* behaviour of the code, seen through its descriptor, its return code and
\* the bytes it has accepted, is one of PackStream.
THEOREM StreamPackImplementsStream ==
    ASSUME CarefulClient
    PROVE  Spec => ImplementsStream
<1>1. Init => Stream!Init
  <2> SUFFICES ASSUME Init PROVE Stream!Init
    OBVIOUS
  <2>1. spc.open = FALSE /\ spc.return_code = CWP_RC_OK
        /\ spc.packed = 0 /\ spc.file = <<>>
    BY DEF Init
  <2> QED
    BY <2>1, SameCodes DEF Stream!Init
<1> QED
  BY <1>1, NextRefines, InvariantHolds, PTL DEF Spec, ImplementsStream, Stream!Spec
===============================================================================
