---------------------------- MODULE FilePackProofs -----------------------------
(***************************************************************************)
(* Proofs about the file pack context, for every set of calls, buffer      *)
(* lengths and bounds.  That no byte is stored outside the buffer and that *)
(* a stopped context stays stopped hold for every client and every memcpy. *)
(* The rest assumes a client that does not insert into a stopped context   *)
(* and a memcpy that moves overlapping areas right: the runs               *)
(* stopped_insert and file_pack_overlap show what happens otherwise.       *)
(***************************************************************************)
EXTENDS FilePack, BufferProofs

\* What the handlers and packing routines keep true of an initialised
\* context: the content is numbered up to packed, continues the file as long
\* as no write has failed, fits in the buffer and contains the barrier.
Sound(c) ==
    /\ c \in Context
    /\ Numbered(c.file, 0)
    /\ Len(c.content) <= c.packed
    /\ Numbered(c.content, c.packed - Len(c.content))
    /\ Len(c.file) <= c.packed
    /\ ~c.write_failed => Len(c.file) = c.packed - Len(c.content)
    /\ Len(c.content) <= c.end
    /\ c.blocks >= 1
    /\ c.barrier # NULL =>
          /\ c.barrier <= Len(c.content)
          /\ c.mark = (c.packed - Len(c.content)) + c.barrier
          /\ Len(c.file) <= c.mark

\* What of it does not depend on memcpy or on what the client inserts.
Held(c) ==
    /\ c \in Context
    /\ Len(c.content) <= c.end
    /\ c.blocks >= 1
    /\ c.barrier # NULL => c.barrier <= Len(c.content)

\* The inductive invariants: of what is in the buffer, and of the buffer.
IInv ==
    /\ TypeOK
    /\ Numbered(fpc.file, 0)
    /\ Len(fpc.file) <= fpc.packed
    /\ Running => Sound(fpc) /\ (fpc.write_failed => fpc.return_code # CWP_RC_OK)
    /\ ~fpc.open /\ fpc.return_code = CWP_RC_OK => Len(fpc.file) = fpc.packed

BInv ==
    /\ fpc \in Context
    /\ Running => Held(fpc)

-------------------------------------------------------------------------------
(* The handlers.                                                           *)

\* When memcpy moves right, the kept bytes are the rest of the content.
LEMMA MovedRight ==
    ASSUME MemcpyHandlesOverlap, NEW bytes, NEW n
    PROVE  Moved(bytes, n, MemcpyHandlesOverlap) = {SubSeq(bytes, n + 1, Len(bytes))}
BY DEF Moved

\* A flush, complete or cut short, leaves a sound context; a complete one
\* leaves only what is behind the barrier.
LEMMA FlushSound ==
    ASSUME MemcpyHandlesOverlap,
           NEW c, Sound(c), ~c.write_failed,
           NEW o \in flush_file_pack_context(c)
    PROVE  /\ o.rc \in {CWP_RC_OK, CWP_RC_ERROR_IN_HANDLER}
           /\ Sound(o.ctx)
           /\ o.ctx.open = c.open /\ o.ctx.packed = c.packed
           /\ o.ctx.return_code = c.return_code
           /\ (o.ctx.barrier = NULL) <=> (c.barrier = NULL)
           /\ Len(o.ctx.file) >= Len(c.file)
           /\ o.rc = CWP_RC_OK => /\ ~o.ctx.write_failed
                                  /\ c.barrier = NULL => Len(o.ctx.content) = 0
<1> DEFINE n == FlushPoint(c)
<1>1. c \in Context /\ Len(c.content) \in Nat /\ Len(c.file) \in Nat
  BY LenProperties DEF Sound, Context
<1>2. n \in 0 .. Len(c.content)
  BY <1>1 DEF FlushPoint, Sound, Context, NULL
<1>3. Numbered(c.content, Len(c.file)) /\ Len(c.file) = c.packed - Len(c.content)
  BY DEF Sound
<1>4. ASSUME NEW w \in 0 .. Len(c.content)
      PROVE  LET f == c.file \o SubSeq(c.content, 1, w)
             IN  /\ f \in Seq(Nat)
                 /\ Len(f) = Len(c.file) + w
                 /\ Numbered(f, 0)
  BY <1>1, <1>3, WriteNumbered DEF Sound, Context
<1> DEFINE rest == SubSeq(c.content, n + 1, Len(c.content))
           full == c.file \o SubSeq(c.content, 1, n)
           done == [c EXCEPT !.file    = full,
                             !.content = rest,
                             !.barrier = IF @ = NULL THEN NULL ELSE 0]
<1>5. full \in Seq(Nat) /\ Len(full) = Len(c.file) + n /\ Numbered(full, 0)
  BY <1>2, <1>4
<1>6. rest \in Seq(Nat) /\ Len(rest) = Len(c.content) - n
      /\ Numbered(rest, Len(c.file) + n)
  BY <1>1, <1>2, <1>3, RestNumbered DEF Context
<1>7. CASE o = Outcome(CWP_RC_OK, done)
  <2> HIDE DEF n, rest, full
  <2>1. o.rc = CWP_RC_OK /\ o.ctx = done
    BY <1>7 DEF Outcome
  <2>2. /\ done.file = full /\ done.content = rest
        /\ done.barrier = IF c.barrier = NULL THEN NULL ELSE 0
        /\ done.open = c.open /\ done.end = c.end
        /\ done.packed = c.packed /\ done.mark = c.mark
        /\ done.return_code = c.return_code
        /\ done.write_failed = c.write_failed /\ done.blocks = c.blocks
    BY <1>1 DEF Context
  <2>3. done \in Context
    BY <1>1, <1>5, <1>6 DEF Context, NULL
  <2>4. Len(rest) = IF c.barrier = NULL THEN 0 ELSE Len(c.content) - c.barrier
    BY <1>1, <1>6 DEF n, FlushPoint
  <2>5. c.packed \in Nat /\ c.end \in Nat /\ c.barrier \in Nat \cup {NULL}
    BY <1>1 DEF Context
  <2>6. Len(full) = c.packed - Len(rest)
    BY <1>1, <1>2, <1>3, <1>5, <1>6, <2>5
  <2>7. Numbered(rest, c.packed - Len(rest))
    BY <1>5, <1>6, <2>6
  <2>8. c.barrier # NULL => c.mark = Len(full)
    BY <1>1, <1>2, <1>3, <1>5, <2>5 DEF n, FlushPoint, Sound
  <2> HIDE DEF done
  <2>9. Len(rest) <= c.packed /\ Len(rest) <= c.end /\ Len(full) <= c.packed
    BY <1>1, <1>2, <1>3, <1>5, <1>6, <2>5, SMTT(30) DEF Sound
  <2>10. c.barrier # NULL => c.mark = (c.packed - Len(rest)) + 0
    BY <2>8, <2>6, <1>1, <1>2, <1>5
  <2>11. Sound(done)
    BY <1>1, <1>2, <1>5, <2>2, <2>3, <2>5, <2>6, <2>7, <2>8, <2>9, <2>10,
       <1>6, SMTT(30) DEF Sound, NULL
  <2> QED
    BY <1>1, <1>2, <1>5, <2>1, <2>2, <2>4, <2>5, <2>11 DEF NULL
<1>8. ASSUME NEW w \in 0 .. n - 1,
             o = Outcome(CWP_RC_ERROR_IN_HANDLER,
                         [c EXCEPT !.file = @ \o SubSeq(c.content, 1, w),
                                   !.write_failed = TRUE])
      PROVE  /\ o.rc = CWP_RC_ERROR_IN_HANDLER
             /\ Sound(o.ctx)
             /\ o.ctx.open = c.open /\ o.ctx.packed = c.packed
             /\ o.ctx.return_code = c.return_code
             /\ o.ctx.barrier = c.barrier
             /\ Len(o.ctx.file) >= Len(c.file)
  <2> DEFINE part == c.file \o SubSeq(c.content, 1, w)
             d == [c EXCEPT !.file = part, !.write_failed = TRUE]
  <2>1. o.rc = CWP_RC_ERROR_IN_HANDLER /\ o.ctx = d
    BY <1>8 DEF Outcome
  <2>2. w \in 0 .. Len(c.content) /\ w <= n
    BY <1>1, <1>2
  <2>3. part \in Seq(Nat) /\ Len(part) = Len(c.file) + w /\ Numbered(part, 0)
    BY <2>2, <1>4
  <2> HIDE DEF part, n
  <2>4. /\ d.file = part /\ d.content = c.content /\ d.barrier = c.barrier
        /\ d.open = c.open /\ d.end = c.end /\ d.packed = c.packed
        /\ d.mark = c.mark /\ d.return_code = c.return_code
        /\ d.write_failed = TRUE /\ d.blocks = c.blocks
    BY <1>1 DEF Context
  <2>5. d \in Context
    BY <1>1, <2>3 DEF Context
  <2>6. c.packed \in Nat /\ c.end \in Nat /\ c.barrier \in Nat \cup {NULL} /\ c.mark \in Nat
    BY <1>1 DEF Context
  <2>7. Len(part) <= c.packed
    BY <1>1, <1>3, <2>2, <2>3, <2>6
  <2>8. c.barrier # NULL => Len(part) <= c.mark
    BY <1>1, <1>3, <2>2, <2>3, <2>6 DEF n, FlushPoint, Sound
  <2> HIDE DEF d
  <2>9. Sound(d)
    BY <2>3, <2>4, <2>5, <2>7, <2>8 DEF Sound
  <2> QED
    BY <1>1, <2>1, <2>2, <2>3, <2>4, <2>9
<1>9. \/ o = Outcome(CWP_RC_OK, done)
      \/ \E w \in 0 .. n - 1 :
           o = Outcome(CWP_RC_ERROR_IN_HANDLER,
                       [c EXCEPT !.file = @ \o SubSeq(c.content, 1, w),
                                 !.write_failed = TRUE])
  BY MovedRight, ZenonT(30) DEF flush_file_pack_context
<1>10. CWP_RC_OK # CWP_RC_ERROR_IN_HANDLER
  BY DEF CWP_RC_OK, CWP_RC_ERROR_IN_HANDLER
<1> QED
  BY <1>7, <1>8, <1>9, <1>10

\* Growing the buffer changes nothing but its length and the block count.
LEMMA GrowSound ==
    ASSUME NEW c, Sound(c), NEW more \in Nat,
           NEW o \in GrowFileBuffer(c, more)
    PROVE  /\ o.rc \in {CWP_RC_OK, CWP_RC_BUFFER_OVERFLOW}
           /\ Sound(o.ctx)
           /\ o.ctx.open = c.open /\ o.ctx.packed = c.packed
           /\ o.ctx.return_code = c.return_code
           /\ o.ctx.write_failed = c.write_failed
           /\ o.ctx.file = c.file
           /\ o.rc = CWP_RC_OK => Len(o.ctx.content) + more <= o.ctx.end
<1> DEFINE need == more + Len(c.content)
<1>1. c \in Context /\ Len(c.content) \in Nat /\ need \in Nat
  BY LenProperties DEF Sound, Context
<1>2. c.end \in Nat /\ c.blocks \in Nat
  BY <1>1 DEF Context
<1>3. CASE c.end >= need /\ o = Outcome(CWP_RC_OK, c)
  BY <1>1, <1>2, <1>3 DEF Outcome
<1>4. CASE o = Outcome(CWP_RC_BUFFER_OVERFLOW, c)
  <2>1. o.rc = CWP_RC_BUFFER_OVERFLOW /\ o.ctx = c
    BY <1>4 DEF Outcome
  <2> QED
    BY <2>1 DEF CWP_RC_BUFFER_OVERFLOW, CWP_RC_OK
<1>5. ASSUME NEW length \in Doubled(c.end, need),
             o = Outcome(CWP_RC_OK, [c EXCEPT !.end = length, !.blocks = @ + 1])
      PROVE  /\ o.rc = CWP_RC_OK
             /\ Sound(o.ctx)
             /\ o.ctx.open = c.open /\ o.ctx.packed = c.packed
             /\ o.ctx.return_code = c.return_code
             /\ o.ctx.write_failed = c.write_failed
             /\ o.ctx.file = c.file
             /\ Len(o.ctx.content) + more <= o.ctx.end
  <2> DEFINE blocks == c.blocks + 1
             d == [c EXCEPT !.end = length, !.blocks = blocks]
  <2>1. o.rc = CWP_RC_OK /\ o.ctx = d
    BY <1>5 DEF Outcome
  <2>1a. blocks \in Nat /\ blocks >= 1
    BY <1>2
  <2> HIDE DEF blocks
  <2>2. length \in Nat /\ length >= need /\ length >= c.end
    BY <1>1, <1>2, DoubledBound
  <2>3. /\ d.file = c.file /\ d.content = c.content /\ d.barrier = c.barrier
        /\ d.open = c.open /\ d.end = length /\ d.packed = c.packed
        /\ d.mark = c.mark /\ d.return_code = c.return_code
        /\ d.write_failed = c.write_failed /\ d.blocks = blocks
    BY <1>1 DEF Context
  <2>4. d \in Context
    BY <1>1, <2>1a, <2>2 DEF Context
  <2> HIDE DEF d
  <2>5. Len(c.content) <= length
    BY <1>1, <1>2, <2>2 DEF Sound
  <2>6. Sound(d)
    BY <2>1a, <2>3, <2>4, <2>5 DEF Sound
  <2> QED
    BY <1>1, <2>1, <2>2, <2>3, <2>6
<1> QED
  BY <1>3, <1>4, <1>5 DEF GrowFileBuffer

\* The overflow handler leaves a sound context, with room when it answers OK.
LEMMA OverflowSound ==
    ASSUME MemcpyHandlesOverlap,
           NEW c, Sound(c), ~c.write_failed, NEW more \in Nat,
           NEW o \in handle_file_pack_overflow(c, more)
    PROVE  /\ o.rc \in {CWP_RC_OK, CWP_RC_ERROR_IN_HANDLER, CWP_RC_BUFFER_OVERFLOW}
           /\ Sound(o.ctx)
           /\ o.ctx.open = c.open /\ o.ctx.packed = c.packed
           /\ o.ctx.return_code = c.return_code
           /\ Len(o.ctx.file) >= Len(c.file)
           /\ o.rc = CWP_RC_OK => /\ ~o.ctx.write_failed
                                  /\ Len(o.ctx.content) + more <= o.ctx.end
<1>1. PICK f \in flush_file_pack_context(c) :
        o \in IF f.rc = CWP_RC_OK THEN GrowFileBuffer(f.ctx, more) ELSE {f}
  BY DEF handle_file_pack_overflow
<1>2. /\ f.rc \in {CWP_RC_OK, CWP_RC_ERROR_IN_HANDLER}
      /\ Sound(f.ctx)
      /\ f.ctx.open = c.open /\ f.ctx.packed = c.packed
      /\ f.ctx.return_code = c.return_code
      /\ Len(f.ctx.file) >= Len(c.file)
      /\ f.rc = CWP_RC_OK => ~f.ctx.write_failed
  BY FlushSound
<1>3. CASE f.rc # CWP_RC_OK
  BY <1>1, <1>2, <1>3
<1>4. CASE f.rc = CWP_RC_OK
  <2>1. o \in GrowFileBuffer(f.ctx, more)
    BY <1>1, <1>4
  <2>2. /\ o.rc \in {CWP_RC_OK, CWP_RC_BUFFER_OVERFLOW}
        /\ Sound(o.ctx)
        /\ o.ctx.open = f.ctx.open /\ o.ctx.packed = f.ctx.packed
        /\ o.ctx.return_code = f.ctx.return_code
        /\ o.ctx.write_failed = f.ctx.write_failed
        /\ o.ctx.file = f.ctx.file
        /\ o.rc = CWP_RC_OK => Len(o.ctx.content) + more <= o.ctx.end
    BY <1>2, <2>1, GrowSound
  <2> QED
    BY <1>2, <1>4, <2>2
<1> QED
  BY <1>3, <1>4

-------------------------------------------------------------------------------
(* The packing routines.                                                   *)

\* Bytes stored where there is room for them.
LEMMA PutSound ==
    ASSUME NEW c, Sound(c), NEW n \in Nat, Len(c.content) + n <= c.end
    PROVE  /\ Sound(Put(c, n))
           /\ Put(c, n).open = c.open
           /\ Put(c, n).packed = c.packed + n
           /\ Put(c, n).return_code = c.return_code
           /\ Put(c, n).write_failed = c.write_failed
           /\ Put(c, n).file = c.file
<1>1. c \in Context /\ Len(c.content) \in Nat /\ Len(c.file) \in Nat
  BY LenProperties DEF Sound, Context
<1>2. c.packed \in Nat /\ c.end \in Nat /\ c.barrier \in Nat \cup {NULL} /\ c.mark \in Nat
  BY <1>1 DEF Context
<1> DEFINE base == c.packed - Len(c.content)
           t == c.content \o [k \in 1 .. n |-> c.packed + k]
<1>3. base \in Nat /\ c.packed = base + Len(c.content)
  BY <1>1, <1>2 DEF Sound
<1>4. t \in Seq(Nat) /\ Len(t) = Len(c.content) + n /\ Numbered(t, base)
  <2>1. Numbered(c.content, base) /\ c.content \in Seq(Nat)
    BY <1>1 DEF Sound, Context
  <2>2. [k \in 1 .. n |-> c.packed + k]
          = [k \in 1 .. n |-> base + Len(c.content) + k]
    BY <1>3
  <2>3. t = c.content \o [k \in 1 .. n |-> base + Len(c.content) + k]
    BY <2>2
  <2> HIDE DEF base, t
  <2> QED
    BY <1>3, <2>1, <2>3, StoreNumbered
<1> DEFINE packed == c.packed + n
           d == [c EXCEPT !.content = t, !.packed = packed]
<1>5. Put(c, n) = d
  BY DEF Put
<1>5a. packed \in Nat /\ packed = c.packed + n
  BY <1>2
<1> HIDE DEF t, packed
<1>6. /\ d.file = c.file /\ d.content = t /\ d.barrier = c.barrier
      /\ d.open = c.open /\ d.end = c.end /\ d.packed = packed
      /\ d.mark = c.mark /\ d.return_code = c.return_code
      /\ d.write_failed = c.write_failed /\ d.blocks = c.blocks
  BY <1>1 DEF Context
<1>7. d \in Context
  BY <1>1, <1>4, <1>5a DEF Context
<1> HIDE DEF d
<1>8. (c.packed + n) - Len(t) = base
  BY <1>1, <1>2, <1>4
<1>9. /\ Len(t) <= c.packed + n /\ Len(t) <= c.end
      /\ Len(c.file) <= c.packed + n
      /\ Len(c.content) <= Len(t)
  BY <1>1, <1>2, <1>4 DEF Sound
<1>10. c.barrier # NULL => c.barrier <= Len(t) /\ c.mark = base + c.barrier
  BY <1>1, <1>2, <1>4, <1>9 DEF Sound
<1> HIDE DEF base
<1>11. /\ Numbered(c.file, 0) /\ c.blocks >= 1
       /\ ~c.write_failed => Len(c.file) = base
       /\ c.barrier # NULL => Len(c.file) <= c.mark
  BY DEF Sound, base
<1>12. Sound(d)
  BY <1>4, <1>5a, <1>6, <1>7, <1>8, <1>9, <1>10, <1>11 DEF Sound
<1> QED
  BY <1>5, <1>5a, <1>6, <1>12

\* Only the return code of a sound context changes.
LEMMA StopSound ==
    ASSUME NEW c, Sound(c), NEW code \in ReturnCodes
    PROVE  LET d == [c EXCEPT !.return_code = code]
           IN  /\ Sound(d)
               /\ d.open = c.open /\ d.packed = c.packed
               /\ d.return_code = code
               /\ d.write_failed = c.write_failed
               /\ d.file = c.file /\ d.content = c.content
<1> DEFINE d == [c EXCEPT !.return_code = code]
<1>1. c \in Context
  BY DEF Sound
<1>2. /\ d.file = c.file /\ d.content = c.content /\ d.barrier = c.barrier
      /\ d.open = c.open /\ d.end = c.end /\ d.packed = c.packed
      /\ d.mark = c.mark /\ d.return_code = code
      /\ d.write_failed = c.write_failed /\ d.blocks = c.blocks
  BY <1>1 DEF Context
<1>3. d \in Context
  BY <1>1 DEF Context
<1> HIDE DEF d
<1>4. Sound(d)
  BY <1>2, <1>3 DEF Sound
<1> QED
  BY <1>2, <1>4 DEF d

\* A context that has accepted the bytes or stopped, having accepted none.
LEMMA ReserveSound ==
    ASSUME MemcpyHandlesOverlap,
           NEW c, Sound(c), ~c.write_failed, c.return_code = CWP_RC_OK,
           NEW n \in Nat,
           NEW d \in cw_pack_reserve_space(c, n, handle_pack_overflow(c))
    PROVE  /\ Sound(d) /\ d.open = c.open
           /\ d.write_failed => d.return_code # CWP_RC_OK
           /\ d.return_code # CWP_RC_MALLOC_ERROR
           /\ d.packed >= c.packed
           /\ Len(d.file) >= Len(c.file)
           /\ d.return_code # CWP_RC_OK => d.packed = c.packed
<1>1. c \in Context /\ c.packed \in Nat /\ Len(c.file) \in Nat
  BY LenProperties DEF Sound, Context
<1>2. CASE Len(c.content) + n <= c.end
  <2>1. d = Put(c, n)
    BY <1>2 DEF cw_pack_reserve_space
  <2> QED
    BY <1>1, <1>2, <2>1, PutSound DEF CWP_RC_OK, CWP_RC_MALLOC_ERROR
<1>3. CASE ~(Len(c.content) + n <= c.end)
  <2>1. PICK o \in handle_file_pack_overflow(c, n) :
          d = IF o.rc = CWP_RC_OK THEN Put(o.ctx, n)
              ELSE [o.ctx EXCEPT !.return_code = o.rc]
    BY <1>3 DEF cw_pack_reserve_space, handle_pack_overflow
  <2>2. /\ o.rc \in {CWP_RC_OK, CWP_RC_ERROR_IN_HANDLER, CWP_RC_BUFFER_OVERFLOW}
        /\ Sound(o.ctx)
        /\ o.ctx.open = c.open /\ o.ctx.packed = c.packed
        /\ o.ctx.return_code = c.return_code
        /\ Len(o.ctx.file) >= Len(c.file)
        /\ o.rc = CWP_RC_OK => /\ ~o.ctx.write_failed
                               /\ Len(o.ctx.content) + n <= o.ctx.end
    BY OverflowSound
  <2>3. CASE o.rc = CWP_RC_OK
    <3>1. d = Put(o.ctx, n)
      BY <2>1, <2>3
    <3>2. /\ Sound(d)
          /\ d.open = o.ctx.open /\ d.packed = o.ctx.packed + n
          /\ d.return_code = o.ctx.return_code
          /\ d.write_failed = o.ctx.write_failed
          /\ d.file = o.ctx.file
      BY <2>2, <2>3, <3>1, PutSound
    <3>3. d.packed >= c.packed
      BY <1>1, <2>2, <3>2
    <3> QED
      BY <2>2, <2>3, <3>2, <3>3 DEF CWP_RC_OK, CWP_RC_MALLOC_ERROR
  <2>4. CASE o.rc # CWP_RC_OK
    <3>1. d = [o.ctx EXCEPT !.return_code = o.rc]
      BY <2>1, <2>4
    <3>2. o.rc \in ReturnCodes /\ o.rc # CWP_RC_MALLOC_ERROR
      BY <2>2 DEF ReturnCodes, CWP_RC_OK, CWP_RC_ERROR_IN_HANDLER,
                  CWP_RC_BUFFER_OVERFLOW, CWP_RC_MALLOC_ERROR
    <3> QED
      BY <1>1, <2>2, <2>4, <3>1, <3>2, StopSound
  <2> QED
    BY <2>3, <2>4
<1> QED
  BY <1>2, <1>3

-------------------------------------------------------------------------------
(* The invariant.                                                          *)

\* The invariant holds before the first session.
LEMMA InitInvariant == Init => IInv
<1> SUFFICES ASSUME Init PROVE IInv
  OBVIOUS
<1>1. <<>> \in Seq(Nat) /\ Len(<<>>) = 0
  BY EmptySeq
<1>2. fpc \in Context /\ ~fpc.open /\ fpc.file = <<>> /\ fpc.packed = 0
  BY <1>1 DEF Init, Context, ReturnCodes, CWP_RC_OK, NULL, ByteOrderCodes
<1> QED
  BY <1>1, <1>2 DEF IInv, TypeOK, Running, Numbered

\* A session starts with its history variables reset.
LEMMA NewSessionContext ==
    ASSUME NEW c \in Context
    PROVE  LET d == NewSession(c)
           IN  /\ d \in Context
               /\ d.open /\ d.packed = 0 /\ d.file = <<>> /\ d.blocks = 0
               /\ d.write_failed = FALSE /\ d.byte_order = c.byte_order
<1>1. <<>> \in Seq(Nat)
  BY EmptySeq
<1> QED
  BY <1>1 DEF NewSession, Context

\* init_file_pack_context starts a session that satisfies the invariant, also
\* when malloc fails.
LEMMA InitStep ==
    ASSUME IInv, init_file_pack_context
    PROVE  IInv'
<1> DEFINE new == NewSession(fpc)
<1>1. fpc \in Context /\ ~fpc.open
  BY DEF IInv, TypeOK, init_file_pack_context
<1>2. <<>> \in Seq(Nat) /\ Len(<<>>) = 0 /\ Numbered(<<>>, 0)
  BY EmptySeq DEF Numbered
<1>3. /\ new \in Context
      /\ new.open /\ new.packed = 0 /\ new.file = <<>> /\ new.blocks = 0
      /\ new.write_failed = FALSE /\ new.byte_order = fpc.byte_order
  BY <1>1, NewSessionContext
<1> HIDE DEF new
<1>4. CASE fpc' = [new EXCEPT !.return_code = CWP_RC_MALLOC_ERROR]
  <2>1. CWP_RC_MALLOC_ERROR \in ReturnCodes
    BY DEF ReturnCodes, CWP_RC_MALLOC_ERROR
  <2>2. fpc' \in Context
    BY <1>3, <1>4, <2>1 DEF Context
  <2>3. /\ fpc'.file = new.file /\ fpc'.open = new.open /\ fpc'.packed = new.packed
        /\ fpc'.return_code = CWP_RC_MALLOC_ERROR
    BY <1>3, <1>4 DEF Context
  <2>4. Numbered(fpc'.file, 0) /\ Len(fpc'.file) <= fpc'.packed
    BY <1>2, <1>3, <2>3
  <2> QED
    BY <1>3, <2>2, <2>3, <2>4 DEF IInv, TypeOK, Running
<1>5. ASSUME NEW asked \in InitialLengths,
             fpc' = cw_pack_context_init(
                       [new EXCEPT !.blocks = 1, !.barrier = NULL],
                       BufferLength(asked), fpc.byte_order)
      PROVE  IInv'
  <2> DEFINE c == [new EXCEPT !.blocks = 1, !.barrier = NULL]
             length == BufferLength(asked)
  <2>1. length \in Nat
    BY FilePackAssumption DEF BufferLength
  <2>2. /\ c \in Context
        /\ c.open /\ c.packed = 0 /\ c.file = <<>> /\ c.blocks = 1
        /\ c.write_failed = FALSE /\ c.barrier = NULL
    BY <1>3 DEF Context, NULL
  <2>3. fpc.byte_order \in ReturnCodes
    BY <1>1 DEF Context, ByteOrderCodes, ReturnCodes, CWP_RC_OK, CWP_RC_WRONG_BYTE_ORDER
  <2>4. fpc' = [c EXCEPT !.content = <<>>, !.end = length,
                         !.be_compatible = FALSE, !.return_code = fpc.byte_order]
    BY <1>5 DEF cw_pack_context_init
  <2> HIDE DEF c, length
  <2>5. /\ fpc' \in Context
        /\ fpc'.open /\ fpc'.file = <<>> /\ fpc'.content = <<>>
        /\ fpc'.packed = 0 /\ fpc'.blocks = 1 /\ fpc'.barrier = NULL
        /\ fpc'.write_failed = FALSE /\ fpc'.end = length
    BY <1>2, <2>1, <2>2, <2>3, <2>4 DEF Context
  <2>6. Len(fpc'.content) = 0 /\ Len(fpc'.file) = 0
    BY <1>2, <2>5
  <2>7. fpc'.packed - Len(fpc'.content) = 0
    <3>1. fpc'.packed = 0
      BY <2>5
    <3>2. ASSUME NEW p, NEW l, p = 0, l = 0 PROVE p - l = 0
      BY <3>2
    <3> QED
      BY <3>1, <3>2, <2>6
  <2>8. Numbered(fpc'.file, 0) /\ Numbered(fpc'.content, 0)
    BY <1>2, <2>5
  <2>9. Sound(fpc')
    BY <2>1, <2>5, <2>6, <2>7, <2>8 DEF Sound
  <2> QED
    BY <2>5, <2>9 DEF IInv, TypeOK, Running, Sound
<1> QED
  BY <1>4, <1>5 DEF init_file_pack_context, new

\* What a packing routine does to a running or a stopped context.
LEMMA PackItemStep ==
    ASSUME MemcpyHandlesOverlap, IInv, fpc.open,
           NEW call \in Calls,
           NEW d \in pack_item(fpc, call, handle_pack_overflow(fpc)),
           fpc.return_code = CWP_RC_OK
    PROVE  /\ Sound(d) /\ d.open
           /\ d.write_failed => d.return_code # CWP_RC_OK
           /\ d.packed >= fpc.packed
           /\ Len(d.file) >= Len(fpc.file)
           /\ d.return_code # CWP_RC_OK => d.packed = fpc.packed
<1> DEFINE demand == call[fpc.be_compatible]
<1>1. Running
  BY DEF Running, CWP_RC_OK, CWP_RC_MALLOC_ERROR
<1>2. /\ Sound(fpc) /\ ~fpc.write_failed /\ fpc \in Context
      /\ fpc.packed \in Nat /\ Len(fpc.file) \in Nat
  BY <1>1, LenProperties DEF IInv, TypeOK, Context
<1>3. demand.rc \in ReturnCodes /\ demand.size \in Nat
  <2>1. call \in [BOOLEAN -> [rc : DemandCodes, size : Nat]]
    BY CallsAssumption
  <2>2. fpc.be_compatible \in BOOLEAN
    BY <1>2 DEF Context
  <2>3. demand \in [rc : DemandCodes, size : Nat]
    BY <2>1, <2>2
  <2> QED
    BY <2>3 DEF DemandCodes, ReturnCodes, CWP_RC_OK, CWP_RC_ILLEGAL_CALL, CWP_RC_VALUE_ERROR
<1>4. CASE demand.rc # CWP_RC_OK
  <2>1. d = [fpc EXCEPT !.return_code = demand.rc]
    BY <1>4 DEF pack_item
  <2> HIDE DEF demand
  <2> QED
    BY <1>2, <1>3, <1>4, <2>1, StopSound
<1>5. CASE demand.rc = CWP_RC_OK
  <2>1. d \in cw_pack_reserve_space(fpc, demand.size, handle_pack_overflow(fpc))
    BY <1>5 DEF pack_item
  <2> HIDE DEF demand
  <2> QED
    BY <1>2, <1>3, <2>1, ReserveSound
<1> QED
  BY <1>4, <1>5

\* A packing routine keeps the invariant.
LEMMA PackStep ==
    ASSUME MemcpyHandlesOverlap, IInv, Pack
    PROVE  IInv'
<1>1. PICK call \in Calls : fpc' \in pack_item(fpc, call, handle_pack_overflow(fpc))
  BY DEF Pack
<1>2. fpc.open
  BY DEF Pack
<1>3. CASE fpc.return_code = CWP_RC_OK
  <2>1. /\ Sound(fpc') /\ fpc'.open
        /\ fpc'.write_failed => fpc'.return_code # CWP_RC_OK
    BY <1>1, <1>2, <1>3, PackItemStep
  <2> QED
    BY <2>1 DEF IInv, TypeOK, Running, Sound
<1>4. CASE fpc.return_code # CWP_RC_OK
  <2>1. fpc' = fpc
    BY <1>1, <1>4 DEF pack_item
  <2> QED
    BY <2>1 DEF IInv, TypeOK, Running
<1> QED
  BY <1>3, <1>4

\* cw_pack_insert, called on a running context, reserves space like a packing
\* routine.
LEMMA InsertReserves ==
    ASSUME ~InsertWhenStopped, IInv, Insert
    PROVE  /\ fpc.return_code = CWP_RC_OK
           /\ Sound(fpc) /\ ~fpc.write_failed
           /\ \E l \in Nat :
                 fpc' \in cw_pack_reserve_space(fpc, l, handle_pack_overflow(fpc))
<1>1. fpc.return_code = CWP_RC_OK /\ fpc.open
  BY DEF Insert, MayInsert
<1>2. PICK l \in InsertSizes : fpc' \in cw_pack_insert(fpc, l, handle_pack_overflow(fpc))
  BY DEF Insert
<1>3. l \in Nat
  BY CallsAssumption
<1>4. Running
  BY <1>1 DEF Running, CWP_RC_OK, CWP_RC_MALLOC_ERROR
<1> QED
  BY <1>1, <1>2, <1>3, <1>4 DEF IInv, cw_pack_insert

\* cw_pack_insert keeps the invariant.
LEMMA InsertStep ==
    ASSUME MemcpyHandlesOverlap, ~InsertWhenStopped, IInv, Insert
    PROVE  IInv'
<1>1. PICK l \in Nat : fpc' \in cw_pack_reserve_space(fpc, l, handle_pack_overflow(fpc))
  BY InsertReserves
<1>2. Sound(fpc) /\ ~fpc.write_failed /\ fpc.return_code = CWP_RC_OK /\ fpc.open
  BY InsertReserves DEF Insert
<1>3. /\ Sound(fpc') /\ fpc'.open
      /\ fpc'.write_failed => fpc'.return_code # CWP_RC_OK
  BY <1>1, <1>2, ReserveSound
<1> QED
  BY <1>3 DEF IInv, TypeOK, Running, Sound

\* A flush of a sound context, with or without its barrier.
LEMMA FlushedContext ==
    ASSUME MemcpyHandlesOverlap, NEW c, Sound(c), ~c.write_failed,
           c.return_code = CWP_RC_OK,
           NEW d \in cw_pack_flush(c, flush_file_pack_context(c))
    PROVE  /\ Sound(d) /\ d.open = c.open /\ d.packed = c.packed
           /\ d.write_failed => d.return_code # CWP_RC_OK
           /\ d.return_code # CWP_RC_MALLOC_ERROR
           /\ Len(d.file) >= Len(c.file)
           /\ d.return_code = CWP_RC_OK /\ c.barrier = NULL => Len(d.content) = 0
<1>1. PICK o \in flush_file_pack_context(c) : d = [o.ctx EXCEPT !.return_code = o.rc]
  BY DEF cw_pack_flush
<1>2. /\ o.rc \in {CWP_RC_OK, CWP_RC_ERROR_IN_HANDLER}
      /\ Sound(o.ctx)
      /\ o.ctx.open = c.open /\ o.ctx.packed = c.packed
      /\ Len(o.ctx.file) >= Len(c.file)
      /\ o.rc = CWP_RC_OK => /\ ~o.ctx.write_failed
                             /\ c.barrier = NULL => Len(o.ctx.content) = 0
  BY FlushSound
<1>3. o.rc \in ReturnCodes /\ o.rc # CWP_RC_MALLOC_ERROR
  BY <1>2 DEF ReturnCodes, CWP_RC_OK, CWP_RC_ERROR_IN_HANDLER, CWP_RC_MALLOC_ERROR
<1>4. /\ Sound(d)
      /\ d.open = o.ctx.open /\ d.packed = o.ctx.packed
      /\ d.return_code = o.rc
      /\ d.write_failed = o.ctx.write_failed
      /\ d.file = o.ctx.file /\ d.content = o.ctx.content
  BY <1>1, <1>2, <1>3, StopSound
<1> QED
  BY <1>2, <1>3, <1>4

\* cw_pack_flush keeps the invariant.
LEMMA FlushStep ==
    ASSUME MemcpyHandlesOverlap, IInv, Flush
    PROVE  IInv'
<1>1. fpc.open /\ fpc' \in cw_pack_flush(fpc, flush_file_pack_context(fpc))
  BY DEF Flush
<1>2. CASE fpc.return_code = CWP_RC_OK
  <2>1. Sound(fpc) /\ ~fpc.write_failed
    BY <1>1, <1>2 DEF IInv, Running, CWP_RC_OK, CWP_RC_MALLOC_ERROR
  <2>2. /\ Sound(fpc') /\ fpc'.open
        /\ fpc'.write_failed => fpc'.return_code # CWP_RC_OK
    BY <1>1, <1>2, <2>1, FlushedContext
  <2> QED
    BY <2>2 DEF IInv, TypeOK, Running, Sound
<1>3. CASE fpc.return_code # CWP_RC_OK
  <2>1. fpc' = fpc
    BY <1>1, <1>3 DEF cw_pack_flush
  <2> QED
    BY <2>1 DEF IInv, TypeOK, Running
<1> QED
  BY <1>2, <1>3

\* cw_pack_set_compatibility keeps the invariant.
LEMMA SetCompatibilityStep ==
    ASSUME IInv, SetCompatibility
    PROVE  IInv'
<1>1. PICK b \in BOOLEAN : fpc' = [fpc EXCEPT !.be_compatible = b]
  BY DEF SetCompatibility, cw_pack_set_compatibility
<1>2. fpc \in Context
  BY DEF IInv, TypeOK
<1>3. /\ fpc' \in Context
      /\ fpc'.open = fpc.open /\ fpc'.content = fpc.content /\ fpc'.end = fpc.end
      /\ fpc'.return_code = fpc.return_code /\ fpc'.packed = fpc.packed
      /\ fpc'.barrier = fpc.barrier /\ fpc'.file = fpc.file
      /\ fpc'.blocks = fpc.blocks /\ fpc'.mark = fpc.mark
      /\ fpc'.write_failed = fpc.write_failed
  BY <1>1, <1>2 DEF Context
<1>4. Sound(fpc) => Sound(fpc')
  BY <1>3 DEF Sound
<1> QED
  BY <1>3, <1>4 DEF IInv, TypeOK, Running, Sound

\* Setting the barrier at current keeps the invariant.
LEMMA SetBarrierStep ==
    ASSUME IInv, file_pack_context_set_barrier
    PROVE  IInv'
<1>1. fpc \in Context
  BY DEF IInv, TypeOK
<1>2. Len(fpc.content) \in Nat /\ fpc.packed \in Nat /\ Len(fpc.file) \in Nat
  BY <1>1, LenProperties DEF Context
<1>3. /\ fpc' \in Context
      /\ fpc'.open = fpc.open /\ fpc'.content = fpc.content /\ fpc'.end = fpc.end
      /\ fpc'.return_code = fpc.return_code /\ fpc'.packed = fpc.packed
      /\ fpc'.barrier = Len(fpc.content) /\ fpc'.file = fpc.file
      /\ fpc'.blocks = fpc.blocks /\ fpc'.mark = fpc.packed
      /\ fpc'.write_failed = fpc.write_failed
  BY <1>1, <1>2 DEF Context, file_pack_context_set_barrier
<1>4. fpc.packed = (fpc.packed - Len(fpc.content)) + Len(fpc.content)
  BY <1>2
<1>5. Sound(fpc) => Sound(fpc')
  BY <1>2, <1>3, <1>4 DEF Sound
<1> QED
  BY <1>3, <1>5 DEF IInv, TypeOK, Running, Sound

\* Without its barrier a sound context is still sound.
LEMMA ReleasedSound ==
    ASSUME NEW c \in Context
    PROVE  LET d == [c EXCEPT !.barrier = NULL]
           IN  /\ d \in Context
               /\ d.open = c.open /\ d.content = c.content /\ d.end = c.end
               /\ d.return_code = c.return_code /\ d.packed = c.packed
               /\ d.barrier = NULL /\ d.file = c.file
               /\ d.blocks = c.blocks /\ d.mark = c.mark
               /\ d.write_failed = c.write_failed
               /\ Sound(c) => Sound(d)
<1> DEFINE d == [c EXCEPT !.barrier = NULL]
<1>1. /\ d \in Context
      /\ d.open = c.open /\ d.content = c.content /\ d.end = c.end
      /\ d.return_code = c.return_code /\ d.packed = c.packed
      /\ d.barrier = NULL /\ d.file = c.file
      /\ d.blocks = c.blocks /\ d.mark = c.mark
      /\ d.write_failed = c.write_failed
  BY DEF Context
<1> HIDE DEF d
<1>2. Sound(c) => Sound(d)
  BY <1>1 DEF Sound
<1> QED
  BY <1>1, <1>2 DEF d

\* Releasing the barrier keeps the invariant.
LEMMA ReleaseBarrierStep ==
    ASSUME IInv, file_pack_context_release_barrier
    PROVE  IInv'
<1>1. fpc \in Context /\ fpc' = [fpc EXCEPT !.barrier = NULL]
  BY DEF IInv, TypeOK, file_pack_context_release_barrier
<1>2. /\ fpc' \in Context
      /\ fpc'.open = fpc.open /\ fpc'.file = fpc.file
      /\ fpc'.return_code = fpc.return_code /\ fpc'.packed = fpc.packed
      /\ fpc'.write_failed = fpc.write_failed
      /\ Sound(fpc) => Sound(fpc')
  BY <1>1, ReleasedSound
<1> QED
  BY <1>2 DEF IInv, TypeOK, Running, Sound

\* What termination leaves behind.
LEMMA TerminateEnds ==
    ASSUME MemcpyHandlesOverlap, IInv, terminate_file_pack_context
    PROVE  /\ fpc' \in Context
           /\ ~fpc'.open /\ fpc'.packed = fpc.packed
           /\ Numbered(fpc'.file, 0)
           /\ Len(fpc'.file) >= Len(fpc.file) /\ Len(fpc'.file) <= fpc'.packed
           /\ fpc.return_code # CWP_RC_OK =>
                 fpc'.return_code = fpc.return_code /\ fpc'.file = fpc.file
           /\ fpc'.return_code = CWP_RC_OK => Len(fpc'.file) = fpc'.packed
<1> DEFINE e == [fpc EXCEPT !.barrier = NULL]
<1>1. fpc \in Context /\ fpc.open /\ Len(fpc.file) \in Nat
  BY LenProperties DEF IInv, TypeOK, Context, terminate_file_pack_context
<1>2. /\ e \in Context
      /\ e.open = fpc.open /\ e.return_code = fpc.return_code
      /\ e.packed = fpc.packed /\ e.barrier = NULL /\ e.file = fpc.file
      /\ e.blocks = fpc.blocks /\ e.write_failed = fpc.write_failed
      /\ Sound(fpc) => Sound(e)
  BY <1>1, ReleasedSound
<1>3. PICK c \in cw_pack_flush(e, flush_file_pack_context(e)) :
         fpc' = [c EXCEPT !.open   = FALSE,
                          !.blocks = IF c.return_code = CWP_RC_MALLOC_ERROR
                                     THEN @ ELSE @ - 1]
  BY DEF terminate_file_pack_context
<1> HIDE DEF e
<1>4. ASSUME c \in Context, c.return_code # CWP_RC_MALLOC_ERROR => c.blocks >= 1
      PROVE  /\ fpc' \in Context /\ ~fpc'.open /\ fpc'.file = c.file
             /\ fpc'.packed = c.packed /\ fpc'.return_code = c.return_code
  <2> DEFINE blocks == IF c.return_code = CWP_RC_MALLOC_ERROR
                       THEN c.blocks ELSE c.blocks - 1
  <2>1. c.blocks \in Nat
    BY <1>4 DEF Context
  <2>2. blocks \in Nat
    BY <1>4, <2>1
  <2>3. fpc' = [c EXCEPT !.open = FALSE, !.blocks = blocks]
    BY <1>3
  <2> HIDE DEF blocks
  <2> QED
    BY <1>4, <2>2, <2>3 DEF Context
<1>5. CASE fpc.return_code # CWP_RC_OK
  <2>1. c = e
    BY <1>2, <1>3, <1>5 DEF cw_pack_flush
  <2>2. c.return_code # CWP_RC_MALLOC_ERROR => c.blocks >= 1
    BY <1>1, <1>2, <2>1 DEF IInv, Running, Sound
  <2> QED
    BY <1>1, <1>2, <1>4, <1>5, <2>1, <2>2 DEF IInv
<1>6. CASE fpc.return_code = CWP_RC_OK
  <2>1. Sound(e) /\ ~e.write_failed
    BY <1>1, <1>2, <1>6 DEF IInv, Running, CWP_RC_OK, CWP_RC_MALLOC_ERROR
  <2>2. /\ Sound(c) /\ c.packed = e.packed
        /\ c.write_failed => c.return_code # CWP_RC_OK
        /\ Len(c.file) >= Len(e.file)
        /\ c.return_code = CWP_RC_OK => Len(c.content) = 0
    BY <1>2, <1>3, <1>6, <2>1, FlushedContext
  <2>3. c \in Context /\ c.blocks >= 1
    BY <2>2 DEF Sound
  <2>4. c.packed \in Nat /\ Len(c.file) <= c.packed /\ Numbered(c.file, 0)
    BY <2>2, <2>3 DEF Sound, Context
  <2>5. c.return_code = CWP_RC_OK => Len(c.file) = c.packed
    BY <2>2, <2>4 DEF Sound
  <2>6. /\ fpc' \in Context /\ ~fpc'.open /\ fpc'.file = c.file
        /\ fpc'.packed = c.packed /\ fpc'.return_code = c.return_code
    BY <1>4, <2>3
  <2> QED
    BY <1>2, <1>6, <2>2, <2>4, <2>5, <2>6
<1> QED
  BY <1>5, <1>6

\* terminate_file_pack_context keeps the invariant.
LEMMA TerminateStep ==
    ASSUME MemcpyHandlesOverlap, IInv, terminate_file_pack_context
    PROVE  IInv'
BY TerminateEnds DEF IInv, TypeOK, Running

\* Every step of the program keeps the invariant.
LEMMA NextInvariant ==
    ASSUME MemcpyHandlesOverlap, ~InsertWhenStopped, IInv, [Next]_vars
    PROVE  IInv'
<1>1. CASE UNCHANGED vars
  BY <1>1 DEF vars, IInv, TypeOK, Running
<1> QED
  BY <1>1, InitStep, PackStep, InsertStep, FlushStep, SetCompatibilityStep,
     SetBarrierStep, ReleaseBarrierStep, TerminateStep DEF Next

-------------------------------------------------------------------------------
(* The buffer, whatever memcpy does and whatever the client inserts.       *)

\* A flush that moves what it keeps in whatever order.
LEMMA FlushHeld ==
    ASSUME NEW c, Held(c), NEW o \in flush_file_pack_context(c)
    PROVE  /\ o.rc \in {CWP_RC_OK, CWP_RC_ERROR_IN_HANDLER}
           /\ Held(o.ctx)
           /\ o.ctx.open = c.open /\ o.ctx.return_code = c.return_code
<1> DEFINE n == FlushPoint(c)
           Wrote(w) == c.file \o SubSeq(c.content, 1, w)
<1>1. /\ c \in Context /\ c.content \in Seq(Nat) /\ c.file \in Seq(Nat)
      /\ Len(c.content) \in Nat /\ c.end \in Nat /\ c.barrier \in Nat \cup {NULL}
  BY LenProperties DEF Held, Context
<1>2. n \in 0 .. Len(c.content)
  BY <1>1 DEF FlushPoint, Held, NULL
<1>3. \A w \in 0 .. Len(c.content) : Wrote(w) \in Seq(Nat)
  <2> SUFFICES ASSUME NEW w \in 0 .. Len(c.content) PROVE Wrote(w) \in Seq(Nat)
    OBVIOUS
  <2>1. \A i \in 1 .. w : c.content[i] \in Nat
    BY <1>1, ElementOfSeq
  <2>2. SubSeq(c.content, 1, w) \in Seq(Nat)
    BY <1>1, <2>1, SubSeqProperties
  <2> QED
    BY <1>1, <2>2, ConcatProperties
<1>4. ASSUME NEW rest \in Moved(c.content, n, MemcpyHandlesOverlap),
             o = Outcome(CWP_RC_OK,
                    [c EXCEPT !.file    = @ \o SubSeq(c.content, 1, n),
                              !.content = rest,
                              !.barrier = IF @ = NULL THEN NULL ELSE 0])
      PROVE  /\ o.rc = CWP_RC_OK /\ Held(o.ctx)
             /\ o.ctx.open = c.open /\ o.ctx.return_code = c.return_code
  <2>1. rest \in Seq(Nat) /\ Len(rest) = Len(c.content) - n
    BY <1>1, <1>2, <1>4, FilePackAssumption, MovedLength
  <2>2. Wrote(n) \in Seq(Nat)
    BY <1>2, <1>3
  <2> DEFINE f == Wrote(n)
             b == IF c.barrier = NULL THEN NULL ELSE 0
             d == [c EXCEPT !.file = f, !.content = rest, !.barrier = b]
  <2>3. o.rc = CWP_RC_OK /\ o.ctx = d
    BY <1>4 DEF Outcome
  <2>4. f \in Seq(Nat) /\ b \in Nat \cup {NULL} /\ (b # NULL => b = 0)
    BY <2>2 DEF NULL
  <2> HIDE DEF f, b, n
  <2>5. /\ d \in Context /\ d.content = rest /\ d.barrier = b
        /\ d.end = c.end /\ d.blocks = c.blocks
        /\ d.open = c.open /\ d.return_code = c.return_code
    BY <1>1, <2>1, <2>4 DEF Context
  <2> HIDE DEF d
  <2>6. Held(d)
    BY <1>1, <1>2, <2>1, <2>4, <2>5 DEF Held
  <2> QED
    BY <2>3, <2>5, <2>6
<1>5. ASSUME NEW w \in 0 .. n - 1,
             o = Outcome(CWP_RC_ERROR_IN_HANDLER,
                    [c EXCEPT !.file = @ \o SubSeq(c.content, 1, w),
                              !.write_failed = TRUE])
      PROVE  /\ o.rc = CWP_RC_ERROR_IN_HANDLER /\ Held(o.ctx)
             /\ o.ctx.open = c.open /\ o.ctx.return_code = c.return_code
  <2> DEFINE f == Wrote(w)
             d == [c EXCEPT !.file = f, !.write_failed = TRUE]
  <2>1. o.rc = CWP_RC_ERROR_IN_HANDLER /\ o.ctx = d
    BY <1>5 DEF Outcome
  <2>2. w \in 0 .. Len(c.content)
    BY <1>1, <1>2
  <2>3. f \in Seq(Nat)
    BY <1>3, <2>2
  <2> HIDE DEF f
  <2>4. /\ d \in Context /\ d.content = c.content /\ d.barrier = c.barrier
        /\ d.end = c.end /\ d.blocks = c.blocks
        /\ d.open = c.open /\ d.return_code = c.return_code
    BY <1>1, <2>3 DEF Context
  <2> HIDE DEF d
  <2>5. Held(d)
    BY <2>4 DEF Held
  <2> QED
    BY <2>1, <2>4, <2>5
<1> QED
  BY <1>4, <1>5 DEF flush_file_pack_context

\* The handler that answers OK has made room.
LEMMA OverflowHeld ==
    ASSUME NEW c, Held(c), NEW more \in Nat,
           NEW o \in handle_file_pack_overflow(c, more)
    PROVE  /\ o.rc \in {CWP_RC_OK, CWP_RC_ERROR_IN_HANDLER, CWP_RC_BUFFER_OVERFLOW}
           /\ Held(o.ctx)
           /\ o.ctx.open = c.open /\ o.ctx.return_code = c.return_code
           /\ o.rc = CWP_RC_OK => Len(o.ctx.content) + more <= o.ctx.end
<1>1. PICK f \in flush_file_pack_context(c) :
        o \in IF f.rc = CWP_RC_OK THEN GrowFileBuffer(f.ctx, more) ELSE {f}
  BY DEF handle_file_pack_overflow
<1> DEFINE e == f.ctx
           need == more + Len(e.content)
<1>2. /\ f.rc \in {CWP_RC_OK, CWP_RC_ERROR_IN_HANDLER} /\ Held(e)
      /\ e.open = c.open /\ e.return_code = c.return_code
  BY FlushHeld
<1>3. CASE f.rc # CWP_RC_OK
  BY <1>1, <1>2, <1>3
<1>4. CASE f.rc = CWP_RC_OK
  <2> HIDE DEF e
  <2>1. o \in GrowFileBuffer(e, more)
    BY <1>1, <1>4 DEF e
  <2>2. /\ e \in Context /\ Len(e.content) \in Nat /\ need \in Nat
        /\ e.end \in Nat /\ e.blocks \in Nat
    BY <1>2, LenProperties DEF Held, Context
  <2>3. CASE e.end >= need /\ o = Outcome(CWP_RC_OK, e)
    BY <1>2, <2>2, <2>3 DEF Outcome
  <2>4. CASE o = Outcome(CWP_RC_BUFFER_OVERFLOW, e)
    BY <1>2, <2>4 DEF Outcome, CWP_RC_BUFFER_OVERFLOW, CWP_RC_OK
  <2>5. ASSUME NEW length \in Doubled(e.end, need),
               o = Outcome(CWP_RC_OK, [e EXCEPT !.end = length, !.blocks = @ + 1])
        PROVE  /\ o.rc = CWP_RC_OK /\ Held(o.ctx)
               /\ o.ctx.open = e.open /\ o.ctx.return_code = e.return_code
               /\ Len(o.ctx.content) + more <= o.ctx.end
    <3> DEFINE blocks == e.blocks + 1
               d == [e EXCEPT !.end = length, !.blocks = blocks]
    <3>1. o.rc = CWP_RC_OK /\ o.ctx = d
      BY <2>5 DEF Outcome
    <3>2. blocks \in Nat /\ blocks >= 1
      BY <2>2
    <3>3. length \in Nat /\ length >= need
      BY <2>2, DoubledBound
    <3> HIDE DEF blocks
    <3>4. /\ d \in Context /\ d.content = e.content /\ d.barrier = e.barrier
          /\ d.end = length /\ d.blocks = blocks
          /\ d.open = e.open /\ d.return_code = e.return_code
      BY <2>2, <3>2, <3>3 DEF Context
    <3> HIDE DEF d
    <3>5. Len(e.content) + more <= length /\ Len(e.content) <= length
      BY <2>2, <3>3
    <3>6. Held(d)
      BY <1>2, <3>2, <3>4, <3>5 DEF Held
    <3> QED
      BY <3>1, <3>4, <3>5, <3>6
  <2> QED
    BY <1>2, <2>1, <2>3, <2>4, <2>5 DEF GrowFileBuffer
<1> QED
  BY <1>3, <1>4

\* Bytes stored where there is room.
LEMMA PutHeld ==
    ASSUME NEW c, Held(c), NEW n \in Nat, Len(c.content) + n <= c.end
    PROVE  /\ Held(Put(c, n))
           /\ Put(c, n).open = c.open /\ Put(c, n).return_code = c.return_code
<1> DEFINE new == [k \in 1 .. n |-> c.packed + k]
           t == c.content \o new
           packed == c.packed + n
           d == [c EXCEPT !.content = t, !.packed = packed]
<1>1. /\ c \in Context /\ c.content \in Seq(Nat) /\ Len(c.content) \in Nat
      /\ c.packed \in Nat /\ c.end \in Nat /\ c.barrier \in Nat \cup {NULL}
  BY LenProperties DEF Held, Context
<1>2. new \in Seq(Nat) /\ Len(new) = n
  <2>1. new \in [1 .. n -> Nat]
    BY <1>1
  <2> HIDE DEF new
  <2>2. new \in Seq(Nat)
    BY <2>1, SeqDef
  <2> QED
    BY <2>1, <2>2, LenProperties
<1>3. Put(c, n) = d
  BY DEF Put
<1>4. packed \in Nat
  BY <1>1
<1> HIDE DEF new, packed
<1>5. t \in Seq(Nat) /\ Len(t) = Len(c.content) + n
  BY <1>1, <1>2, ConcatProperties
<1> HIDE DEF t
<1>6. /\ d \in Context /\ d.content = t /\ d.barrier = c.barrier
      /\ d.end = c.end /\ d.blocks = c.blocks
      /\ d.open = c.open /\ d.return_code = c.return_code
  BY <1>1, <1>4, <1>5 DEF Context
<1> HIDE DEF d
<1>7. Held(d)
  BY <1>1, <1>5, <1>6 DEF Held
<1> QED
  BY <1>3, <1>6, <1>7

\* Only the return code changes.
LEMMA StopHeld ==
    ASSUME NEW c, Held(c), NEW code \in ReturnCodes
    PROVE  LET d == [c EXCEPT !.return_code = code]
           IN  Held(d) /\ d.open = c.open /\ d.return_code = code
<1> DEFINE d == [c EXCEPT !.return_code = code]
<1>1. c \in Context
  BY DEF Held
<1>2. /\ d \in Context /\ d.content = c.content /\ d.barrier = c.barrier
      /\ d.end = c.end /\ d.blocks = c.blocks
      /\ d.open = c.open /\ d.return_code = code
  BY <1>1 DEF Context
<1> HIDE DEF d
<1>3. Held(d)
  BY <1>2 DEF Held
<1> QED
  BY <1>2, <1>3 DEF d

\* Also on a context that has been stopped, as cw_pack_insert does it.
LEMMA ReserveHeld ==
    ASSUME NEW c, Held(c), NEW n \in Nat,
           NEW d \in cw_pack_reserve_space(c, n, handle_pack_overflow(c))
    PROVE  /\ Held(d) /\ d.open = c.open
           /\ c.return_code # CWP_RC_OK => d.return_code # CWP_RC_OK
<1>1. CASE Len(c.content) + n <= c.end
  <2>1. d = Put(c, n)
    BY <1>1 DEF cw_pack_reserve_space
  <2> QED
    BY <1>1, <2>1, PutHeld
<1>2. CASE ~(Len(c.content) + n <= c.end)
  <2>1. PICK o \in handle_file_pack_overflow(c, n) :
          d = IF o.rc = CWP_RC_OK THEN Put(o.ctx, n)
              ELSE [o.ctx EXCEPT !.return_code = o.rc]
    BY <1>2 DEF cw_pack_reserve_space, handle_pack_overflow
  <2>2. /\ o.rc \in {CWP_RC_OK, CWP_RC_ERROR_IN_HANDLER, CWP_RC_BUFFER_OVERFLOW}
        /\ Held(o.ctx) /\ o.ctx.open = c.open
        /\ o.ctx.return_code = c.return_code
        /\ o.rc = CWP_RC_OK => Len(o.ctx.content) + n <= o.ctx.end
    BY OverflowHeld
  <2>3. o.rc \in ReturnCodes
    BY <2>2 DEF ReturnCodes, CWP_RC_OK, CWP_RC_ERROR_IN_HANDLER, CWP_RC_BUFFER_OVERFLOW
  <2>4. CASE o.rc = CWP_RC_OK
    BY <2>1, <2>2, <2>4, PutHeld
  <2>5. CASE o.rc # CWP_RC_OK
    BY <2>1, <2>2, <2>3, <2>5, StopHeld
  <2> QED
    BY <2>4, <2>5
<1> QED
  BY <1>1, <1>2

\* A flush by the client or at the end.
LEMMA FlushedHeld ==
    ASSUME NEW c, Held(c), NEW d \in cw_pack_flush(c, flush_file_pack_context(c))
    PROVE  /\ Held(d) /\ d.open = c.open
           /\ c.return_code # CWP_RC_MALLOC_ERROR =>
                 d.return_code # CWP_RC_MALLOC_ERROR
<1>1. CASE c.return_code = CWP_RC_OK
  <2>1. PICK o \in flush_file_pack_context(c) : d = [o.ctx EXCEPT !.return_code = o.rc]
    BY <1>1 DEF cw_pack_flush
  <2>2. /\ o.rc \in {CWP_RC_OK, CWP_RC_ERROR_IN_HANDLER}
        /\ Held(o.ctx) /\ o.ctx.open = c.open
    BY FlushHeld
  <2>3. o.rc \in ReturnCodes /\ o.rc # CWP_RC_MALLOC_ERROR
    BY <2>2 DEF ReturnCodes, CWP_RC_OK, CWP_RC_ERROR_IN_HANDLER, CWP_RC_MALLOC_ERROR
  <2> QED
    BY <2>1, <2>2, <2>3, StopHeld
<1>2. CASE c.return_code # CWP_RC_OK
  BY <1>2 DEF cw_pack_flush
<1> QED
  BY <1>1, <1>2

\* A packing routine or cw_pack_insert.
LEMMA StoreBuffer ==
    ASSUME BInv, Pack \/ Insert
    PROVE  BInv'
<1>1. CASE Pack
  <2>1. PICK call \in Calls : fpc' \in pack_item(fpc, call, handle_pack_overflow(fpc))
    BY <1>1 DEF Pack
  <2> DEFINE demand == call[fpc.be_compatible]
  <2>2. CASE fpc.return_code # CWP_RC_OK
    BY <2>1, <2>2 DEF pack_item, BInv, Running
  <2>3. CASE fpc.return_code = CWP_RC_OK
    <3>1. Held(fpc)
      BY <1>1, <2>3 DEF BInv, Running, Pack, CWP_RC_OK, CWP_RC_MALLOC_ERROR
    <3>2. demand.rc \in ReturnCodes /\ demand.size \in Nat
      <4>1. call \in [BOOLEAN -> [rc : DemandCodes, size : Nat]]
        BY CallsAssumption
      <4>2. fpc.be_compatible \in BOOLEAN
        BY DEF BInv, Context
      <4>3. demand \in [rc : DemandCodes, size : Nat]
        BY <4>1, <4>2
      <4> QED
        BY <4>3 DEF DemandCodes, ReturnCodes, CWP_RC_OK, CWP_RC_ILLEGAL_CALL, CWP_RC_VALUE_ERROR
    <3>3. CASE demand.rc # CWP_RC_OK
      <4>1. fpc' = [fpc EXCEPT !.return_code = demand.rc]
        BY <2>1, <2>3, <3>3 DEF pack_item
      <4> HIDE DEF demand
      <4> QED
        BY <3>1, <3>2, <4>1, StopHeld DEF BInv, Held
    <3>4. CASE demand.rc = CWP_RC_OK
      <4>1. fpc' \in cw_pack_reserve_space(fpc, demand.size, handle_pack_overflow(fpc))
        BY <2>1, <2>3, <3>4 DEF pack_item
      <4> HIDE DEF demand
      <4>2. Held(fpc')
        BY <3>1, <3>2, <4>1, ReserveHeld
      <4> QED
        BY <4>2 DEF BInv, Held
    <3> QED
      BY <3>3, <3>4
  <2> QED
    BY <2>2, <2>3
<1>2. CASE Insert
  <2>1. PICK l \in InsertSizes : fpc' \in cw_pack_insert(fpc, l, handle_pack_overflow(fpc))
    BY <1>2 DEF Insert
  <2>2. l \in Nat
    BY CallsAssumption
  <2>3. Held(fpc)
    BY <1>2 DEF Insert, MayInsert, BInv, Running, CWP_RC_OK, CWP_RC_MALLOC_ERROR
  <2>4. Held(fpc')
    BY <2>1, <2>2, <2>3, ReserveHeld DEF cw_pack_insert
  <2> QED
    BY <2>4 DEF BInv, Held
<1> QED
  BY <1>1, <1>2

\* A session starts with an empty buffer and no barrier, or with none.
LEMMA InitBuffer ==
    ASSUME BInv, init_file_pack_context
    PROVE  BInv'
<1> DEFINE new == NewSession(fpc)
<1>1. fpc \in Context
  BY DEF BInv
<1>2. new \in Context
  BY <1>1, NewSessionContext
<1> HIDE DEF new
<1>3. CASE fpc' = [new EXCEPT !.return_code = CWP_RC_MALLOC_ERROR]
  <2>1. CWP_RC_MALLOC_ERROR \in ReturnCodes
    BY DEF ReturnCodes, CWP_RC_MALLOC_ERROR
  <2>2. fpc' \in Context /\ fpc'.return_code = CWP_RC_MALLOC_ERROR
    BY <1>2, <1>3, <2>1 DEF Context
  <2> QED
    BY <2>2 DEF BInv, Running
<1>4. ASSUME NEW asked \in InitialLengths,
             fpc' = cw_pack_context_init(
                       [new EXCEPT !.blocks = 1, !.barrier = NULL],
                       BufferLength(asked), fpc.byte_order)
      PROVE  BInv'
  <2> DEFINE c == [new EXCEPT !.blocks = 1, !.barrier = NULL]
             length == BufferLength(asked)
  <2>1. length \in Nat
    BY FilePackAssumption DEF BufferLength
  <2>2. c \in Context /\ c.blocks = 1 /\ c.barrier = NULL
    BY <1>2 DEF Context, NULL
  <2>3. fpc.byte_order \in ReturnCodes
    BY <1>1 DEF Context, ByteOrderCodes, ReturnCodes, CWP_RC_OK, CWP_RC_WRONG_BYTE_ORDER
  <2>4. fpc' = [c EXCEPT !.content = <<>>, !.end = length,
                         !.be_compatible = FALSE, !.return_code = fpc.byte_order]
    BY <1>4 DEF cw_pack_context_init
  <2>5. <<>> \in Seq(Nat) /\ Len(<<>>) = 0
    BY EmptySeq
  <2> HIDE DEF c, length
  <2>6. /\ fpc' \in Context /\ fpc'.content = <<>> /\ fpc'.end = length
        /\ fpc'.blocks = 1 /\ fpc'.barrier = NULL
    BY <2>1, <2>2, <2>3, <2>4, <2>5 DEF Context
  <2>7. Held(fpc')
    BY <2>1, <2>5, <2>6 DEF Held
  <2> QED
    BY <2>6, <2>7 DEF BInv
<1> QED
  BY <1>3, <1>4 DEF init_file_pack_context, new

\* The calls that touch the barrier or the mode only.
LEMMA SettingBuffer ==
    ASSUME BInv,
           \/ SetCompatibility
           \/ file_pack_context_set_barrier
           \/ file_pack_context_release_barrier
    PROVE  BInv'
<1>1. fpc \in Context /\ Len(fpc.content) \in Nat /\ fpc.packed \in Nat
  BY LenProperties DEF BInv, Context
<1>2. /\ fpc' \in Context /\ fpc'.content = fpc.content /\ fpc'.end = fpc.end
      /\ fpc'.blocks = fpc.blocks /\ fpc'.open = fpc.open
      /\ fpc'.return_code = fpc.return_code
      /\ fpc'.barrier \in {fpc.barrier, Len(fpc.content), NULL}
  <2>1. CASE SetCompatibility
    BY <1>1, <2>1 DEF SetCompatibility, cw_pack_set_compatibility, Context
  <2>2. CASE file_pack_context_set_barrier
    BY <1>1, <2>2 DEF file_pack_context_set_barrier, Context
  <2>3. CASE file_pack_context_release_barrier
    BY <1>1, <2>3 DEF file_pack_context_release_barrier, Context
  <2> QED
    BY <2>1, <2>2, <2>3
<1>3. Held(fpc) => Held(fpc')
  BY <1>1, <1>2 DEF Held
<1> QED
  BY <1>2, <1>3 DEF BInv, Running

\* Termination frees a buffer only where there is one.
LEMMA TerminateBuffer ==
    ASSUME BInv, terminate_file_pack_context
    PROVE  BInv'
<1> DEFINE e == [fpc EXCEPT !.barrier = NULL]
<1>1. fpc \in Context /\ fpc.open
  BY DEF BInv, terminate_file_pack_context
<1>2. PICK c \in cw_pack_flush(e, flush_file_pack_context(e)) :
         fpc' = [c EXCEPT !.open   = FALSE,
                          !.blocks = IF c.return_code = CWP_RC_MALLOC_ERROR
                                     THEN @ ELSE @ - 1]
  BY DEF terminate_file_pack_context
<1>3. /\ e \in Context /\ e.content = fpc.content /\ e.end = fpc.end
      /\ e.blocks = fpc.blocks /\ e.barrier = NULL
      /\ e.return_code = fpc.return_code
  BY <1>1, ReleasedSound
<1> HIDE DEF e
<1>4. c \in Context /\ (c.return_code # CWP_RC_MALLOC_ERROR => c.blocks >= 1)
  <2>1. CASE fpc.return_code = CWP_RC_MALLOC_ERROR
    <3>1. c = e
      BY <1>2, <1>3, <2>1 DEF cw_pack_flush, CWP_RC_OK, CWP_RC_MALLOC_ERROR
    <3> QED
      BY <1>3, <2>1, <3>1
  <2>2. CASE fpc.return_code # CWP_RC_MALLOC_ERROR
    <3>1. Held(e)
      BY <1>1, <1>3, <2>2 DEF BInv, Running, Held
    <3> QED
      BY <1>2, <3>1, FlushedHeld DEF Held
  <2> QED
    BY <2>1, <2>2
<1>5. fpc' \in Context /\ ~fpc'.open
  <2> DEFINE blocks == IF c.return_code = CWP_RC_MALLOC_ERROR
                       THEN c.blocks ELSE c.blocks - 1
  <2>1. c.blocks \in Nat
    BY <1>4 DEF Context
  <2>2. blocks \in Nat
    BY <1>4, <2>1
  <2>3. fpc' = [c EXCEPT !.open = FALSE, !.blocks = blocks]
    BY <1>2
  <2> HIDE DEF blocks
  <2> QED
    BY <1>4, <2>2, <2>3 DEF Context
<1> QED
  BY <1>5 DEF BInv, Running

\* Every step keeps the buffer.
LEMMA NextBuffer == BInv /\ [Next]_vars => BInv'
<1> SUFFICES ASSUME BInv, [Next]_vars PROVE BInv'
  OBVIOUS
<1>1. CASE Flush
  <2>1. CASE Held(fpc)
    <3>1. Held(fpc')
      BY <1>1, <2>1, FlushedHeld DEF Flush
    <3> QED
      BY <3>1 DEF BInv, Held
  <2>2. CASE ~Held(fpc)
    <3>1. fpc.return_code = CWP_RC_MALLOC_ERROR /\ fpc.return_code # CWP_RC_OK
      BY <1>1, <2>2 DEF Flush, BInv, Running, CWP_RC_OK, CWP_RC_MALLOC_ERROR
    <3> QED
      BY <1>1, <3>1 DEF Flush, cw_pack_flush, BInv, Running
  <2> QED
    BY <2>1, <2>2
<1>2. CASE UNCHANGED vars
  BY <1>2 DEF vars, BInv, Running
<1> QED
  BY <1>1, <1>2, InitBuffer, StoreBuffer, SettingBuffer, TerminateBuffer DEF Next

\* In every reachable state.
LEMMA BufferInvariant == Spec => []BInv
<1>1. Init => BInv
  <2> SUFFICES ASSUME Init PROVE BInv
    OBVIOUS
  <2>1. fpc \in Context
    BY InitInvariant DEF IInv, TypeOK
  <2>2. ~fpc.open
    BY DEF Init
  <2> QED
    BY <2>1, <2>2 DEF BInv, Running
<1> QED
  BY <1>1, NextBuffer, PTL DEF Spec

-------------------------------------------------------------------------------
(* The theorems.                                                           *)

\* The invariant holds in every state of every behaviour.
LEMMA InvariantHolds ==
    ASSUME MemcpyHandlesOverlap, ~InsertWhenStopped
    PROVE  Spec => []IInv
BY InitInvariant, NextInvariant, PTL DEF Spec

\* The context has its type in every state.
THEOREM TypeCorrect == Spec => []TypeOK
<1>1. BInv => TypeOK
  BY DEF BInv, TypeOK
<1> QED
  BY <1>1, BufferInvariant, PTL

\* No packing routine stores a byte past the end of the buffer and no flush
\* takes more than it contains, whatever memcpy leaves there, whatever write
\* and malloc do, and also when the client inserts into a stopped context.
THEOREM StaysWithinBuffer == Spec => []WithinBuffer
<1>1. BInv => WithinBuffer
  <2> SUFFICES ASSUME BInv, Running PROVE /\ Len(fpc.content) <= fpc.end
                                          /\ fpc.barrier <= Len(fpc.content)
    BY DEF WithinBuffer
  <2>1. Held(fpc) /\ fpc \in Context
    BY DEF BInv
  <2>2. Len(fpc.content) \in Nat
    BY <2>1, LenProperties DEF Context
  <2> QED
    BY <2>1, <2>2 DEF Held, NULL
<1> QED
  BY <1>1, BufferInvariant, PTL

\* Whatever fails, the file holds a prefix of the bytes packed, in order.
THEOREM FileAlwaysPrefix ==
    ASSUME MemcpyHandlesOverlap, ~InsertWhenStopped
    PROVE  Spec => []FileIsPrefix
<1>1. IInv => FileIsPrefix
  <2> SUFFICES ASSUME IInv PROVE FileIsPrefix
    OBVIOUS
  <2>1. fpc.file \in Seq(Nat) /\ Numbered(fpc.file, 0) /\ Len(fpc.file) <= fpc.packed
    BY DEF IInv, TypeOK, Context
  <2> QED
    BY <2>1, NumberedIsUpto DEF FileIsPrefix
<1> QED
  BY <1>1, InvariantHolds, PTL

\* Until a write fails, file and buffer together are the bytes packed: no
\* flush, growth or barrier loses or repeats one.
THEOREM NothingLost ==
    ASSUME MemcpyHandlesOverlap, ~InsertWhenStopped
    PROVE  Spec => []NoByteLost
<1>1. IInv => NoByteLost
  <2> SUFFICES ASSUME IInv, Running, ~fpc.write_failed
               PROVE  fpc.file \o fpc.content = Upto(fpc.packed)
    BY DEF NoByteLost
  <2>1. /\ Sound(fpc)
        /\ fpc.file \in Seq(Nat) /\ fpc.content \in Seq(Nat) /\ fpc.packed \in Nat
    BY DEF IInv, TypeOK, Context
  <2>2. Len(fpc.content) \in Nat /\ Len(fpc.file) \in Nat
    BY <2>1, LenProperties
  <2>3. /\ Numbered(fpc.file, 0)
        /\ Len(fpc.file) = fpc.packed - Len(fpc.content)
        /\ Numbered(fpc.content, Len(fpc.file))
    BY <2>1 DEF Sound
  <2>4. fpc.packed = Len(fpc.file) + Len(fpc.content)
    BY <2>1, <2>2, <2>3
  <2> QED
    BY <2>1, <2>3, <2>4, WholeNumbered
<1> QED
  BY <1>1, InvariantHolds, PTL

\* Nothing packed behind the barrier is written, and it is all in the buffer
\* at the barrier.
THEOREM BarrierIsKept ==
    ASSUME MemcpyHandlesOverlap, ~InsertWhenStopped
    PROVE  Spec => []BarrierHolds
<1>1. IInv => BarrierHolds
  <2> SUFFICES ASSUME IInv, Running, fpc.barrier # NULL
               PROVE  /\ Len(fpc.file) <= fpc.mark
                      /\ SubSeq(fpc.content, fpc.barrier + 1, Len(fpc.content))
                            = [k \in 1 .. fpc.packed - fpc.mark |-> fpc.mark + k]
    BY DEF BarrierHolds
  <2> DEFINE base == fpc.packed - Len(fpc.content)
             rest == SubSeq(fpc.content, fpc.barrier + 1, Len(fpc.content))
  <2>1. /\ Sound(fpc)
        /\ fpc.content \in Seq(Nat) /\ fpc.packed \in Nat
        /\ fpc.barrier \in Nat /\ fpc.mark \in Nat
    BY DEF IInv, TypeOK, Context
  <2>2. Len(fpc.content) \in Nat
    BY <2>1, LenProperties
  <2>3. /\ base \in Nat /\ Numbered(fpc.content, base)
        /\ fpc.barrier \in 0 .. Len(fpc.content)
        /\ fpc.mark = base + fpc.barrier
        /\ Len(fpc.file) <= fpc.mark
    BY <2>1, <2>2 DEF Sound
  <2>4. Len(fpc.content) - fpc.barrier = fpc.packed - fpc.mark
    BY <2>1, <2>2, <2>3
  <2> HIDE DEF base
  <2>5. /\ rest \in Seq(Nat)
        /\ Len(rest) = Len(fpc.content) - fpc.barrier
        /\ Numbered(rest, base + fpc.barrier)
    BY <2>1, <2>3, RestNumbered
  <2> HIDE DEF rest
  <2>6. /\ rest \in [1 .. fpc.packed - fpc.mark -> Nat]
        /\ \A k \in 1 .. fpc.packed - fpc.mark : rest[k] = fpc.mark + k
    <3>1. rest \in [1 .. Len(rest) -> Nat]
      BY <2>5, LenProperties
    <3> QED
      BY <2>3, <2>4, <2>5, <3>1 DEF Numbered
  <2>7. rest = [k \in 1 .. fpc.packed - fpc.mark |-> fpc.mark + k]
    BY <2>6
  <2> QED
    BY <2>3, <2>7 DEF rest
<1> QED
  BY <1>1, InvariantHolds, PTL

\* A session that ends without an error code has written every byte.
THEOREM SessionComplete ==
    ASSUME MemcpyHandlesOverlap, ~InsertWhenStopped
    PROVE  Spec => []CompleteAtEnd
<1>1. IInv => CompleteAtEnd
  <2> SUFFICES ASSUME IInv, ~fpc.open, fpc.return_code = CWP_RC_OK
               PROVE  fpc.file = Upto(fpc.packed)
    BY DEF CompleteAtEnd
  <2>1. /\ fpc.file \in Seq(Nat) /\ Numbered(fpc.file, 0)
        /\ Len(fpc.file) = fpc.packed
    BY DEF IInv, TypeOK, Context
  <2> QED
    BY <2>1, NumberedIsUpto
<1> QED
  BY <1>1, InvariantHolds, PTL

\* A stopped context stays stopped until it is initialised again, whatever
\* memcpy does, and nothing but an insertion changes its buffer or its file.
THEOREM StoppedStaysInert == Spec => StoppedStaysStopped
<1> DEFINE Inert == fpc.open /\ fpc.return_code # CWP_RC_OK =>
              /\ fpc'.return_code # CWP_RC_OK
              /\ \/ Insert
                 \/ /\ fpc'.return_code = fpc.return_code
                    /\ fpc'.content = fpc.content
                    /\ fpc'.packed = fpc.packed
                    /\ fpc'.file = fpc.file
<1>1. BInv /\ Next => Inert
  <2> SUFFICES ASSUME BInv, Next, fpc.open, fpc.return_code # CWP_RC_OK
               PROVE  /\ fpc'.return_code # CWP_RC_OK
                      /\ \/ Insert
                         \/ /\ fpc'.return_code = fpc.return_code
                            /\ fpc'.content = fpc.content
                            /\ fpc'.packed = fpc.packed
                            /\ fpc'.file = fpc.file
    OBVIOUS
  <2>1. fpc \in Context
    BY DEF BInv
  <2>2. ~init_file_pack_context
    BY DEF init_file_pack_context
  <2>3. CASE Pack
    BY <2>3 DEF Pack, pack_item
  <2>4. CASE Insert
    <3>1. PICK l \in InsertSizes :
            fpc' \in cw_pack_reserve_space(fpc, l, handle_pack_overflow(fpc))
      BY <2>4 DEF Insert, cw_pack_insert
    <3>2. l \in Nat
      BY CallsAssumption
    <3>3. Held(fpc)
      BY <2>4 DEF Insert, MayInsert, BInv, Running, CWP_RC_OK, CWP_RC_MALLOC_ERROR
    <3> QED
      BY <2>4, <3>1, <3>2, <3>3, ReserveHeld
  <2>5. CASE Flush
    BY <2>5 DEF Flush, cw_pack_flush
  <2>6. CASE SetCompatibility
    BY <2>1, <2>6 DEF SetCompatibility, cw_pack_set_compatibility, Context
  <2>7. CASE file_pack_context_set_barrier
    BY <2>1, <2>7 DEF file_pack_context_set_barrier, Context
  <2>8. CASE file_pack_context_release_barrier
    BY <2>1, <2>8 DEF file_pack_context_release_barrier, Context
  <2>9. CASE terminate_file_pack_context
    <3> DEFINE e == [fpc EXCEPT !.barrier = NULL]
    <3>1. /\ e \in Context /\ e.return_code = fpc.return_code
          /\ e.content = fpc.content /\ e.packed = fpc.packed /\ e.file = fpc.file
      BY <2>1, ReleasedSound
    <3>2. PICK c \in cw_pack_flush(e, flush_file_pack_context(e)) :
             fpc' = [c EXCEPT !.open   = FALSE,
                              !.blocks = IF c.return_code = CWP_RC_MALLOC_ERROR
                                         THEN @ ELSE @ - 1]
      BY <2>9 DEF terminate_file_pack_context
    <3> HIDE DEF e
    <3>3. c = e
      BY <3>1, <3>2 DEF cw_pack_flush
    <3> QED
      BY <3>1, <3>2, <3>3 DEF Context
  <2> QED
    BY <2>2, <2>3, <2>4, <2>5, <2>6, <2>7, <2>8, <2>9 DEF Next
<1>2. BInv /\ [Next]_vars => [Inert]_vars
  BY <1>1
<1> QED
  BY <1>2, BufferInvariant, PTL DEF Spec, StoppedStaysStopped

-------------------------------------------------------------------------------
(* Refinement.                                                             *)

\* The file, in a state that satisfies the invariant, is what the abstract
\* stream's sink can be.
LEMMA SinkIsUpto ==
    ASSUME NEW f \in Seq(Nat), Numbered(f, 0), NEW g \in Seq(Nat),
           Len(g) >= Len(f), Numbered(g, 0), NEW n \in Nat, Len(g) <= n
    PROVE  \E m \in Len(f) .. n : g = Stream!Upto(m)
<1>1. Len(f) \in Nat /\ Len(g) \in Nat
  BY LenProperties
<1>2. g = Stream!Upto(Len(g))
  BY NumberedIsUpto DEF Upto, Stream!Upto
<1> QED
  BY <1>1, <1>2

\* A step that leaves the context open, and either stops it without having
\* accepted a byte or has accepted some, is a call of the abstract stream.
LEMMA CallRefines ==
    ASSUME IInv, fpc.open, fpc.return_code = CWP_RC_OK,
           Sound(fpc'), fpc'.open,
           fpc'.packed >= fpc.packed,
           Len(fpc'.file) >= Len(fpc.file),
           fpc'.return_code # CWP_RC_OK => fpc'.packed = fpc.packed
    PROVE  Stream!Call
<1>1. /\ fpc \in Context /\ fpc.file \in Seq(Nat) /\ Numbered(fpc.file, 0)
  BY DEF IInv, TypeOK, Context
<1>2. /\ fpc' \in Context /\ fpc'.file \in Seq(Nat) /\ Numbered(fpc'.file, 0)
      /\ fpc'.packed \in Nat /\ fpc'.return_code \in ReturnCodes
      /\ Len(fpc'.file) <= fpc'.packed
  BY DEF Sound, Context
<1>3. \E m \in Len(fpc.file) .. fpc'.packed : fpc'.file = Stream!Upto(m)
  BY <1>1, <1>2, SinkIsUpto
<1>4. fpc'.open = fpc.open
  BY <1>1, <1>2 DEF Context
<1>5. CWP_RC_OK = Stream!CWP_RC_OK /\ ReturnCodes = Stream!ReturnCodes
  BY DEF CWP_RC_OK, Stream!CWP_RC_OK, ReturnCodes, Stream!ReturnCodes
<1> QED
  BY <1>2, <1>3, <1>4, <1>5 DEF Stream!Call

\* Initialisation is the abstract stream's Open.
LEMMA OpenRefines ==
    ASSUME IInv, init_file_pack_context
    PROVE  Stream!Open
<1> DEFINE new == NewSession(fpc)
<1>1. fpc \in Context /\ ~fpc.open
  BY DEF IInv, TypeOK, init_file_pack_context
<1>2. /\ new \in Context
      /\ new.open /\ new.packed = 0 /\ new.file = <<>>
  BY <1>1, NewSessionContext
<1> HIDE DEF new
<1>3. CASE fpc' = [new EXCEPT !.return_code = CWP_RC_MALLOC_ERROR]
  <2>1. /\ fpc'.file = new.file /\ fpc'.open = new.open /\ fpc'.packed = new.packed
        /\ fpc'.return_code = CWP_RC_MALLOC_ERROR
    BY <1>2, <1>3 DEF Context
  <2> QED
    BY <1>1, <1>2, <2>1 DEF Stream!Open, CWP_RC_MALLOC_ERROR, Stream!CWP_RC_MALLOC_ERROR,
       Context
<1>4. ASSUME NEW asked \in InitialLengths,
             fpc' = cw_pack_context_init(
                       [new EXCEPT !.blocks = 1, !.barrier = NULL],
                       BufferLength(asked), fpc.byte_order)
      PROVE  Stream!Open
  <2>1. /\ fpc'.file = new.file /\ fpc'.open = new.open /\ fpc'.packed = new.packed
        /\ fpc'.return_code = fpc.byte_order
    BY <1>2, <1>4 DEF Context, cw_pack_context_init
  <2>2. fpc.byte_order \in {Stream!CWP_RC_OK, Stream!CWP_RC_WRONG_BYTE_ORDER}
    BY <1>1 DEF Context, ByteOrderCodes, CWP_RC_OK, CWP_RC_WRONG_BYTE_ORDER,
                Stream!CWP_RC_OK, Stream!CWP_RC_WRONG_BYTE_ORDER
  <2> QED
    BY <1>1, <1>2, <2>1, <2>2 DEF Stream!Open, Context
<1> QED
  BY <1>3, <1>4 DEF init_file_pack_context, new

\* Termination is the abstract stream's Close.
LEMMA CloseRefines ==
    ASSUME MemcpyHandlesOverlap, IInv, terminate_file_pack_context
    PROVE  Stream!Close
<1>1. /\ fpc \in Context /\ fpc.open
      /\ fpc.file \in Seq(Nat) /\ Numbered(fpc.file, 0) /\ fpc.packed \in Nat
      /\ fpc.return_code \in ReturnCodes
  BY DEF IInv, TypeOK, Context, terminate_file_pack_context
<1>2. /\ fpc' \in Context
      /\ ~fpc'.open /\ fpc'.packed = fpc.packed
      /\ Numbered(fpc'.file, 0)
      /\ Len(fpc'.file) >= Len(fpc.file) /\ Len(fpc'.file) <= fpc'.packed
      /\ fpc.return_code # CWP_RC_OK =>
            fpc'.return_code = fpc.return_code /\ fpc'.file = fpc.file
      /\ fpc'.return_code = CWP_RC_OK => Len(fpc'.file) = fpc'.packed
  BY TerminateEnds
<1>3. fpc'.open = FALSE /\ fpc'.file \in Seq(Nat) /\ fpc'.return_code \in ReturnCodes
  BY <1>2 DEF Context
<1>4. \E m \in Len(fpc.file) .. fpc.packed : fpc'.file = Stream!Upto(m)
  BY <1>1, <1>2, <1>3, SinkIsUpto
<1>5. fpc'.return_code = CWP_RC_OK => fpc'.file = Stream!Upto(fpc.packed)
  BY <1>2, <1>3, NumberedIsUpto DEF Upto, Stream!Upto
<1>6. CWP_RC_OK = Stream!CWP_RC_OK /\ ReturnCodes = Stream!ReturnCodes
  BY DEF CWP_RC_OK, Stream!CWP_RC_OK, ReturnCodes, Stream!ReturnCodes
<1> QED
  BY <1>1, <1>2, <1>3, <1>4, <1>5, <1>6 DEF Stream!Close

\* A step that changes nothing the abstract stream can see.
LEMMA StutterRefines ==
    ASSUME fpc'.open = fpc.open, fpc'.return_code = fpc.return_code,
           fpc'.packed = fpc.packed, fpc'.file = fpc.file
    PROVE  UNCHANGED Stream!vars
BY DEF Stream!vars

\* Every step is a step of the abstract stream, or changes nothing it sees.
LEMMA NextRefines ==
    ASSUME MemcpyHandlesOverlap, ~InsertWhenStopped, IInv, Next
    PROVE  Stream!Next \/ UNCHANGED Stream!vars
<1>1. fpc \in Context /\ fpc.packed \in Nat
  BY DEF IInv, TypeOK, Context
<1>2. CASE init_file_pack_context
  BY <1>2, OpenRefines DEF Stream!Next
<1>3. CASE Pack
  <2>1. PICK call \in Calls : fpc' \in pack_item(fpc, call, handle_pack_overflow(fpc))
    BY <1>3 DEF Pack
  <2>2. fpc.open
    BY <1>3 DEF Pack
  <2>3. CASE fpc.return_code = CWP_RC_OK
    BY <2>1, <2>2, <2>3, PackItemStep, CallRefines DEF Stream!Next
  <2>4. CASE fpc.return_code # CWP_RC_OK
    <3>1. fpc' = fpc
      BY <2>1, <2>4 DEF pack_item
    <3> QED
      BY <3>1, StutterRefines
  <2> QED
    BY <2>3, <2>4
<1>4. CASE Insert
  <2>1. PICK l \in Nat : fpc' \in cw_pack_reserve_space(fpc, l, handle_pack_overflow(fpc))
    BY <1>4, InsertReserves
  <2>2. Sound(fpc) /\ ~fpc.write_failed /\ fpc.return_code = CWP_RC_OK /\ fpc.open
    BY <1>4, InsertReserves DEF Insert
  <2>3. /\ Sound(fpc') /\ fpc'.open
        /\ fpc'.packed >= fpc.packed /\ Len(fpc'.file) >= Len(fpc.file)
        /\ fpc'.return_code # CWP_RC_OK => fpc'.packed = fpc.packed
    BY <2>1, <2>2, ReserveSound
  <2> QED
    BY <2>2, <2>3, CallRefines DEF Stream!Next
<1>5. CASE Flush
  <2>1. fpc.open /\ fpc' \in cw_pack_flush(fpc, flush_file_pack_context(fpc))
    BY <1>5 DEF Flush
  <2>2. CASE fpc.return_code = CWP_RC_OK
    <3>1. Sound(fpc) /\ ~fpc.write_failed
      BY <2>1, <2>2 DEF IInv, Running, CWP_RC_OK, CWP_RC_MALLOC_ERROR
    <3>2. /\ Sound(fpc') /\ fpc'.open /\ fpc'.packed = fpc.packed
          /\ Len(fpc'.file) >= Len(fpc.file)
      BY <2>1, <2>2, <3>1, FlushedContext
    <3>3. fpc'.packed >= fpc.packed
      BY <1>1, <3>2
    <3> QED
      BY <2>1, <2>2, <3>2, <3>3, CallRefines DEF Stream!Next
  <2>3. CASE fpc.return_code # CWP_RC_OK
    <3>1. fpc' = fpc
      BY <2>1, <2>3 DEF cw_pack_flush
    <3> QED
      BY <3>1, StutterRefines
  <2> QED
    BY <2>2, <2>3
<1>6. CASE SetCompatibility
  <2>1. /\ fpc'.open = fpc.open /\ fpc'.return_code = fpc.return_code
        /\ fpc'.packed = fpc.packed /\ fpc'.file = fpc.file
    BY <1>1, <1>6 DEF SetCompatibility, cw_pack_set_compatibility, Context
  <2> QED
    BY <2>1, StutterRefines
<1>7. CASE file_pack_context_set_barrier \/ file_pack_context_release_barrier
  <2>1. /\ fpc'.open = fpc.open /\ fpc'.return_code = fpc.return_code
        /\ fpc'.packed = fpc.packed /\ fpc'.file = fpc.file
    BY <1>1, <1>7 DEF file_pack_context_set_barrier,
                      file_pack_context_release_barrier, Context
  <2> QED
    BY <2>1, StutterRefines
<1>8. CASE terminate_file_pack_context
  BY <1>8, CloseRefines DEF Stream!Next
<1> QED
  BY <1>2, <1>3, <1>4, <1>5, <1>6, <1>7, <1>8 DEF Next

\* The file pack context implements the abstract packing stream: every
\* behaviour of the code, seen through its descriptor, its return code and
\* the bytes it has accepted, is one of PackStream.
THEOREM FilePackImplementsStream ==
    ASSUME MemcpyHandlesOverlap, ~InsertWhenStopped
    PROVE  Spec => ImplementsStream
<1>1. Init => Stream!Init
  <2> SUFFICES ASSUME Init PROVE Stream!Init
    OBVIOUS
  <2>1. fpc.open = FALSE /\ fpc.return_code = CWP_RC_OK
        /\ fpc.packed = 0 /\ fpc.file = <<>>
    BY DEF Init
  <2> QED
    BY <2>1 DEF Stream!Init, CWP_RC_OK, Stream!CWP_RC_OK
<1>2. IInv /\ [Next]_vars => [Stream!Next]_(Stream!vars)
  BY NextRefines, StutterRefines DEF vars
<1> QED
  BY <1>1, <1>2, InvariantHolds, PTL DEF Spec, ImplementsStream, Stream!Spec
===============================================================================
