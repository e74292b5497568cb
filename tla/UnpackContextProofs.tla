-------------------------- MODULE UnpackContextProofs ---------------------------
(***************************************************************************)
(* Proofs about the unpack contexts that read a file, for all files,       *)
(* buffer lengths and counts: what every such context keeps true, whatever *)
(* its handler reads at a time (the steps of UnpackCore), and from that    *)
(* the theorems about the file and the stream unpack context.              *)
(***************************************************************************)
EXTENDS FileUnpack, StreamUnpack, BufferProofs


\* How far into the file start is.
Base(c) == c.read - Len(c.window)

\* What calls and handlers keep true of a context, however its bytes look:
\* the pointers are in order, the window lies within what was read of the
\* file, current is behind what was consumed, and the barrier is at its mark.
Sound(c) ==
    /\ c \in Context
    /\ c.current <= Len(c.window)
    /\ Len(c.window) <= c.buffer_length
    /\ Len(c.window) <= c.read
    /\ c.read <= Len(file)
    /\ c.barrier <= c.current
    /\ c.taken = Position(c)
    /\ c.barrier # NULL => c.mark = Base(c) + c.barrier

\* A routine is under way: the context runs, the routine knows what it asks
\* for, and a handler that reads has room for what is missing.
Engaged ==
    /\ uc.open /\ uc.return_code = CWP_RC_OK
    /\ call.asks # <<>>
    /\ call.tag = 0 => call.asks = <<1>>
    /\ call.tag <= Len(file)
    /\ call.left >= 1
    /\ call.reading => /\ ~Fits(uc)
                       /\ uc.current + Want <= uc.buffer_length

\* The inductive invariant.
IInv ==
    /\ file \in Seq(Byte)
    /\ \A k \in 1 .. Len(file) :
          file[k].next # <<>> /\ file[k].skip # <<>> /\ file[k].ahead # <<>>
    /\ Sound(uc)
    /\ uc.realloc_failed => uc.return_code # CWP_RC_OK
    /\ call \in Calls
    /\ IF call.op = "none" THEN call = Idle ELSE Engaged

\* The bytes of the window are those read last; the move that precedes a
\* failing realloc is the only thing that disturbs them.
WindowNumbered(c) == Numbered(c.window, Base(c))

WInv == ~uc.realloc_failed => WindowNumbered(uc)

-------------------------------------------------------------------------------
(* Session and calls.                                                      *)

\* A context that has read nothing is sound.
LEMMA FreshSound ==
    ASSUME file \in Seq(Byte), NEW c \in Context,
           c.window = <<>>, c.current = 0, c.barrier = NULL, c.read = 0, c.taken = 0
    PROVE  Sound(c)
<1>1. Len(<<>>) = 0 /\ Len(file) \in Nat
  BY EmptySeq, LenProperties
<1>2. c.buffer_length \in Nat /\ Len(c.window) = 0 /\ c.barrier = -1
  BY <1>1 DEF Context, NULL
<1>3. Position(c) = 0
  <2>1. c.read - Len(c.window) + c.current = 0 - 0 + 0
    BY <1>2, Zenon
  <2> QED
    BY <2>1 DEF Position
<1> QED
  BY <1>1, <1>2, <1>3 DEF Sound, NULL

\* The empty record of a context.
LEMMA ClosedContext == Closed \in Context
<1>1. <<>> \in Seq(Nat)
  BY EmptySeq
<1> QED
  BY <1>1 DEF Closed, Context, ReturnCodes, CWP_RC_OK, NULL

\* No routine is under way in Idle.
LEMMA IdleCall == Idle \in Calls /\ Idle.op = "none" /\ ~Idle.reading
<1>1. <<>> \in Seq(Nat)
  BY EmptySeq
<1> QED
  BY <1>1 DEF Idle, Calls

\* The invariant holds before the first session.
LEMMA InitInvariant == Init => IInv /\ WInv
<1> SUFFICES ASSUME Init PROVE IInv /\ WInv
  OBVIOUS
<1>1. file \in Seq(Byte) /\ Len(file) = 0
  BY EmptySeq DEF Init
<1>2. Sound(uc)
  BY <1>1, ClosedContext, FreshSound DEF Init, Closed
<1>3. WindowNumbered(uc) /\ uc.return_code = CWP_RC_OK /\ ~uc.realloc_failed
  BY EmptySeq DEF Init, Closed, WindowNumbered, Numbered
<1> QED
  BY <1>1, <1>2, <1>3, IdleCall DEF IInv, WInv, Init

\* The context init_unpack_context leaves.
LEMMA InitContext ==
    ASSUME init_unpack_context
    PROVE  /\ uc' \in Context
           /\ uc'.open /\ uc'.window = <<>> /\ uc'.current = 0 /\ uc'.barrier = NULL
           /\ uc'.read = 0 /\ uc'.taken = 0 /\ ~uc'.realloc_failed
           /\ uc'.return_code \in {CWP_RC_OK, CWP_RC_MALLOC_ERROR, CWP_RC_WRONG_BYTE_ORDER}
<1>1. {CWP_RC_OK, CWP_RC_MALLOC_ERROR, CWP_RC_WRONG_BYTE_ORDER} \subseteq ReturnCodes
  BY DEF ReturnCodes, CWP_RC_OK, CWP_RC_MALLOC_ERROR, CWP_RC_WRONG_BYTE_ORDER
<1>2. CASE uc' = [Closed EXCEPT !.open = TRUE, !.return_code = CWP_RC_MALLOC_ERROR]
  BY <1>1, <1>2, ClosedContext DEF Closed, Context
<1>3. ASSUME NEW asked \in InitialLengths, NEW code \in {CWP_RC_OK, CWP_RC_WRONG_BYTE_ORDER},
             uc' = [Closed EXCEPT !.open = TRUE, !.return_code = code,
                                  !.buffer_length = BufferLength(asked)]
      PROVE  /\ uc' \in Context
             /\ uc'.open /\ uc'.window = <<>> /\ uc'.current = 0 /\ uc'.barrier = NULL
             /\ uc'.read = 0 /\ uc'.taken = 0 /\ ~uc'.realloc_failed
             /\ uc'.return_code = code
  <2> DEFINE length == BufferLength(asked)
  <2>1. length \in Nat
    BY UnpackAssumption DEF BufferLength
  <2> HIDE DEF length
  <2>2. uc' = [Closed EXCEPT !.open = TRUE, !.return_code = code, !.buffer_length = length]
    BY <1>3 DEF length
  <2> QED
    BY <1>1, <2>1, <2>2, ClosedContext DEF Closed, Context
<1> QED
  BY <1>2, <1>3 DEF init_unpack_context

\* init_unpack_context starts a session that satisfies the invariant, also
\* when malloc fails.
LEMMA InitStep ==
    ASSUME IInv, init_unpack_context
    PROVE  IInv' /\ WInv'
<1>1. /\ uc' \in Context
      /\ uc'.open /\ uc'.window = <<>> /\ uc'.current = 0 /\ uc'.barrier = NULL
      /\ uc'.read = 0 /\ uc'.taken = 0 /\ ~uc'.realloc_failed
  BY InitContext
<1>2. /\ file' \in Seq(Byte)
      /\ \A k \in 1 .. Len(file') :
            file'[k].next # <<>> /\ file'[k].skip # <<>> /\ file'[k].ahead # <<>>
  BY UnpackAssumption DEF init_unpack_context
<1>3. Sound(uc)'
  <2>1. /\ Len(uc'.window) = 0 /\ Len(file') \in Nat
        /\ uc'.buffer_length \in Nat /\ uc'.barrier = -1
    BY <1>1, <1>2, EmptySeq, LenProperties DEF Context, NULL
  <2>2. Position(uc)' = 0
    <3>1. uc'.read - Len(uc'.window) + uc'.current = 0 - 0 + 0
      BY <1>1, <2>1, Zenon
    <3> QED
      BY <3>1 DEF Position
  <2> QED
    BY <1>1, <2>1, <2>2 DEF Sound, NULL
<1>4. call' = call /\ call = Idle
  BY IdleCall DEF init_unpack_context, IInv, Engaged
<1>5. WindowNumbered(uc)'
  BY <1>1, EmptySeq DEF WindowNumbered, Numbered
<1> QED
  BY <1>1, <1>2, <1>3, <1>4, <1>5, IdleCall DEF IInv, WInv

\* terminate_unpack_context keeps the invariant.
LEMMA TerminateStep ==
    ASSUME IInv, terminate_unpack_context
    PROVE  IInv' /\ (WInv => WInv')
<1>1. uc \in Context /\ uc' = [uc EXCEPT !.open = FALSE]
      /\ call' = call /\ file' = file /\ call = Idle
  BY DEF IInv, Sound, terminate_unpack_context
<1>2. /\ uc' \in Context
      /\ uc'.window = uc.window /\ uc'.current = uc.current
      /\ uc'.buffer_length = uc.buffer_length /\ uc'.barrier = uc.barrier
      /\ uc'.return_code = uc.return_code /\ uc'.read = uc.read
      /\ uc'.taken = uc.taken /\ uc'.mark = uc.mark
      /\ uc'.realloc_failed = uc.realloc_failed
  BY <1>1 DEF Context
<1>3. Sound(uc)'
  BY <1>1, <1>2 DEF IInv, Sound, Position, Base
<1>4. WindowNumbered(uc)' <=> WindowNumbered(uc)
  BY <1>2 DEF WindowNumbered, Base
<1> QED
  BY <1>1, <1>2, <1>3, <1>4, IdleCall DEF IInv, WInv

\* Calling a routine keeps the invariant.
LEMMA BeginStep ==
    ASSUME IInv, NEW op \in {"next", "skip", "ahead"}, NEW n \in Nat \ {0}, Begin(op, n)
    PROVE  IInv' /\ (WInv => WInv')
<1>1. uc.open /\ uc.return_code = CWP_RC_OK /\ uc' = uc /\ file' = file
      /\ call' = [op |-> op, asks |-> <<1>>, tag |-> 0, left |-> n, reading |-> FALSE]
  BY DEF Begin, Ready
<1>2. <<1>> \in Seq(Nat) /\ <<1>> # <<>>
  OBVIOUS
<1>3. call' \in Calls /\ call'.op # "none" /\ call'.asks = <<1>> /\ call'.tag = 0
      /\ call'.left = n /\ ~call'.reading
  BY <1>1, <1>2 DEF Calls
<1>4. Len(file) \in Nat
  BY LenProperties DEF IInv
<1>5. Engaged'
  BY <1>1, <1>2, <1>3, <1>4 DEF Engaged
<1>6. Sound(uc)'
  BY <1>1 DEF IInv, Sound, Position, Base
<1> QED
  BY <1>1, <1>3, <1>5, <1>6 DEF IInv, WInv, WindowNumbered, Base

\* The client calls a routine: nothing moves yet.
LEMMA CallStep ==
    ASSUME IInv, cw_unpack_next \/ cw_skip_items \/ cw_look_ahead
    PROVE  IInv' /\ (WInv => WInv') /\ uc' = uc /\ file' = file
<1>1. PICK op \in {"next", "skip", "ahead"}, n \in Nat \ {0} : Begin(op, n)
  BY UnpackAssumption DEF cw_unpack_next, cw_skip_items, cw_look_ahead
<1>2. uc' = uc /\ file' = file
  BY <1>1 DEF Begin
<1> QED
  BY <1>1, <1>2, BeginStep

\* A step that changes nothing.
LEMMA UnchangedStep ==
    ASSUME IInv, UNCHANGED vars
    PROVE  IInv' /\ (WInv => WInv')
<1>1. uc' = uc /\ call' = call /\ file' = file
  BY DEF vars
<1>2. Sound(uc)' /\ (Engaged => Engaged')
  BY <1>1 DEF IInv, Sound, Position, Base, Engaged, Fits, Want
<1> QED
  BY <1>1, <1>2 DEF IInv, WInv, WindowNumbered, Base

-------------------------------------------------------------------------------
(* The routine under way.                                                  *)

\* What a routine under way has.
LEMMA EngagedFacts ==
    ASSUME IInv, call.op # "none"
    PROVE  /\ Engaged /\ uc \in Context /\ Sound(uc) /\ ~uc.realloc_failed
           /\ call \in Calls /\ call.op \in {"next", "skip", "ahead"}
           /\ call.asks \in Seq(Nat) /\ Want \in Nat
           /\ call.tag \in Nat /\ call.left \in Nat \ {0}
           /\ call.tag = 0 => Want = 1
           /\ Len(file) \in Nat
<1>1. Engaged /\ Sound(uc) /\ call \in Calls /\ file \in Seq(Byte)
  BY DEF IInv
<1>2. call.asks \in Seq(Nat) /\ call.asks # <<>> /\ call.left >= 1
  BY <1>1 DEF Calls, Engaged
<1>3. Want \in Nat
  BY <1>2, HeadTailProperties DEF Want
<1>4. call.tag = 0 => Want = 1
  BY <1>1 DEF Engaged, Want
<1> QED
  BY <1>1, <1>2, <1>3, <1>4, LenProperties DEF IInv, Sound, Engaged, Calls

\* The tag byte of the item under way, once its bytes are granted.
TagOf(c) == IF call.tag = 0 THEN Position(c) + 1 ELSE call.tag

\* A routine finds its tag byte within the file.
LEMMA TagInFile ==
    ASSUME IInv, call.op # "none", NEW c, Sound(c), Fits(c)
    PROVE  TagOf(c) \in 1 .. Len(file) /\ file[TagOf(c)] \in Byte
<1>1. Engaged /\ Want \in Nat /\ call.tag \in Nat /\ (call.tag = 0 => Want = 1)
      /\ Len(file) \in Nat
  BY EngagedFacts
<1>2. c.current \in Nat /\ c.read \in Nat /\ Len(c.window) \in Nat
  BY LenProperties DEF Sound, Context
<1>3. ASSUME call.tag = 0 PROVE TagOf(c) \in 1 .. Len(file)
  BY <1>1, <1>2, <1>3 DEF Fits, Sound, Position, TagOf
<1>4. ASSUME call.tag # 0 PROVE TagOf(c) \in 1 .. Len(file)
  BY <1>1, <1>4 DEF Engaged, TagOf
<1>5. TagOf(c) \in 1 .. Len(file)
  BY <1>3, <1>4
<1> QED
  BY <1>5, ElementOfSeq DEF IInv

\* current moves over the bytes asked for, or stays where it is.
LEMMA StepSound ==
    ASSUME IInv, call.op # "none", NEW c, Sound(c), Fits(c), NEW code \in ReturnCodes
    PROVE  LET d == [Step(c) EXCEPT !.return_code = code]
           IN  /\ Sound(d)
               /\ d.open = c.open /\ d.window = c.window /\ d.read = c.read
               /\ d.buffer_length = c.buffer_length /\ d.barrier = c.barrier
               /\ d.mark = c.mark /\ d.realloc_failed = c.realloc_failed
               /\ d.return_code = code
               /\ Position(d) \in {Position(c), Position(c) + Want}
<1> DEFINE d == [Step(c) EXCEPT !.return_code = code]
           n == IF call.op = "ahead" THEN 0 ELSE Want
           current == c.current + n
           taken == c.taken + n
<1>1. c \in Context /\ c.current \in Nat /\ c.taken \in Nat /\ c.read \in Nat
      /\ Len(c.window) \in Nat /\ c.barrier \in Nat \cup {-1}
  BY LenProperties DEF Sound, Context, NULL
<1>2. Want \in Nat /\ n \in Nat /\ n <= Want
  BY EngagedFacts
<1>3. current \in Nat /\ taken \in Nat
  BY <1>1, <1>2
<1>4. d = [c EXCEPT !.current = current, !.taken = taken, !.return_code = code]
  <2>1. CASE call.op = "ahead"
    <3>1. c.current = current /\ c.taken = taken
      BY <1>1, <2>1
    <3>2. d = [c EXCEPT !.return_code = code]
      BY <2>1 DEF Step
    <3> HIDE DEF current, taken, d
    <3> QED
      BY <1>1, <3>1, <3>2 DEF Context
  <2>2. CASE call.op # "ahead"
    BY <2>2 DEF Step
  <2> QED
    BY <2>1, <2>2
<1>5. current = c.current + n /\ taken = c.taken + n
  OBVIOUS
<1> HIDE DEF current, taken, d
<1>6. /\ d \in Context
      /\ d.open = c.open /\ d.window = c.window /\ d.read = c.read
      /\ d.buffer_length = c.buffer_length /\ d.barrier = c.barrier
      /\ d.mark = c.mark /\ d.realloc_failed = c.realloc_failed
      /\ d.return_code = code /\ d.current = current /\ d.taken = taken
  BY <1>1, <1>3, <1>4 DEF Context
<1>7. Position(d) = Position(c) + n
  BY <1>1, <1>2, <1>5, <1>6 DEF Position
<1>8. d.current <= Len(d.window) /\ d.barrier <= d.current
  BY <1>1, <1>2, <1>5, <1>6 DEF Sound, Fits
<1>9. d.taken = Position(d)
  BY <1>1, <1>2, <1>5, <1>6, <1>7 DEF Sound
<1>10. Sound(d)
  BY <1>6, <1>8, <1>9 DEF Sound, Base
<1>11. n = 0 \/ n = Want
  OBVIOUS
<1>12. Position(c) \in Int
  BY <1>1 DEF Position
<1> HIDE DEF n
<1> QED
  BY <1>6, <1>7, <1>10, <1>11, <1>12 DEF d

\* An ask that is granted: on to the next, to the next item, or back to the
\* client with the item's error.
LEMMA GrantedStep ==
    ASSUME IInv, call.op # "none",
           NEW c, Sound(c), Fits(c), c.open, c.return_code = CWP_RC_OK, ~c.realloc_failed,
           Granted(c), file' = file
    PROVE  /\ IInv'
           /\ uc'.open = c.open /\ uc'.window = c.window /\ uc'.read = c.read
           /\ uc'.barrier = c.barrier /\ uc'.mark = c.mark
           /\ ~uc'.realloc_failed
           /\ uc'.return_code \in ItemErrors
           /\ Position(uc)' \in {Position(c), Position(c) + Want}
<1> DEFINE tag  == TagOf(c)
           b    == file[tag]
           all  == IF call.tag = 0 THEN Asks(b) ELSE call.asks
           rest == Tail(all)
           left == call.left - 1 + Children(b)
           code == IF rest = <<>> THEN Error(b) ELSE CWP_RC_OK
<1>1. /\ Engaged /\ call \in Calls /\ call.op \in {"next", "skip", "ahead"}
      /\ call.asks \in Seq(Nat) /\ call.left \in Nat \ {0} /\ Len(file) \in Nat
  BY EngagedFacts
<1>2. tag \in 1 .. Len(file) /\ b \in Byte
  BY TagInFile
<1>3. Asks(b) \in Seq(Nat) /\ Asks(b) # <<>> /\ Error(b) \in ItemErrors /\ Children(b) \in Nat
  <2>1. b.next # <<>> /\ b.skip # <<>> /\ b.ahead # <<>>
    BY <1>2 DEF IInv
  <2> HIDE DEF tag, b
  <2>2. CWP_RC_OK \in ItemErrors
    BY DEF ItemErrors
  <2> QED
    BY <1>1, <1>2, <2>1, <2>2 DEF Asks, Error, Children, Byte
<1>4. rest \in Seq(Nat)
  <2>1. all \in Seq(Nat) /\ all # <<>>
    BY <1>1, <1>3 DEF Engaged
  <2> HIDE DEF all
  <2> QED
    BY <2>1, HeadTailProperties
<1>5. left \in Nat
  BY <1>1, <1>3
<1>6. code \in ItemErrors /\ code \in ReturnCodes
  BY <1>3 DEF ItemErrors, ReturnCodes, CWP_RC_OK, CWP_RC_MALFORMED_INPUT,
              CWP_RC_WRONG_TIMESTAMP_LENGTH
<1>7. /\ uc' = [Step(c) EXCEPT !.return_code = code]
      /\ call' = IF rest # <<>>
                 THEN [call EXCEPT !.asks = rest, !.tag = tag, !.reading = FALSE]
                 ELSE IF code = CWP_RC_OK /\ left > 0
                 THEN [call EXCEPT !.asks = <<1>>, !.tag = 0, !.left = left,
                                   !.reading = FALSE]
                 ELSE Idle
  BY DEF Granted, TagOf
<1>7a. rest # <<>> => code = CWP_RC_OK
  OBVIOUS
<1> HIDE DEF rest, left, code, tag
<1>8. /\ Sound(uc')
      /\ uc'.open = c.open /\ uc'.window = c.window /\ uc'.read = c.read
      /\ uc'.buffer_length = c.buffer_length /\ uc'.barrier = c.barrier
      /\ uc'.mark = c.mark /\ uc'.realloc_failed = c.realloc_failed
      /\ uc'.return_code = code
      /\ Position(uc') \in {Position(c), Position(c) + Want}
  BY <1>6, <1>7, StepSound
<1>9. Sound(uc)' /\ Position(uc)' = Position(uc')
  BY <1>8 DEF Sound, Position, Base
<1>10. call' \in Calls /\ IF call'.op = "none" THEN call' = Idle ELSE Engaged'
  <2>1. CASE rest # <<>>
    <3>0. call' = [call EXCEPT !.asks = rest, !.tag = tag, !.reading = FALSE]
          /\ tag \in Nat
      BY <1>1, <1>2, <1>7, <2>1
    <3>1. /\ call' \in Calls /\ call'.op = call.op /\ call'.asks = rest
          /\ call'.tag = tag /\ call'.left = call.left /\ call'.reading = FALSE
      BY <1>1, <1>4, <3>0 DEF Calls
    <3>2. uc'.return_code = CWP_RC_OK /\ uc'.open
      BY <1>7a, <1>8, <2>1
    <3> QED
      BY <1>1, <1>2, <2>1, <3>1, <3>2 DEF Engaged
  <2>2. CASE rest = <<>> /\ code = CWP_RC_OK /\ left > 0
    <3>0. call' = [call EXCEPT !.asks = <<1>>, !.tag = 0, !.left = left,
                               !.reading = FALSE]
      BY <1>7, <2>2
    <3>1. /\ call' \in Calls /\ call'.op = call.op /\ call'.asks = <<1>>
          /\ call'.tag = 0 /\ call'.left = left /\ call'.reading = FALSE
      <4>1. <<1>> \in Seq(Nat)
        OBVIOUS
      <4> QED
        BY <1>1, <1>5, <3>0, <4>1 DEF Calls
    <3>2. uc'.return_code = CWP_RC_OK /\ uc'.open
      BY <1>8, <2>2
    <3> QED
      BY <1>1, <1>5, <2>2, <3>1, <3>2 DEF Engaged
  <2>3. CASE rest = <<>> /\ ~(code = CWP_RC_OK /\ left > 0)
    BY <1>7, <2>3, IdleCall
  <2> QED
    BY <2>1, <2>2, <2>3
<1>11. IInv'
  BY <1>8, <1>9, <1>10 DEF IInv
<1> QED
  BY <1>6, <1>8, <1>9, <1>11

\* The code a stopped context keeps.
Told(code) == IF code = CWP_RC_END_OF_INPUT /\ call.tag # 0
              THEN CWP_RC_BUFFER_UNDERFLOW ELSE code

\* The handler's answer stops the context where it stands.
LEMMA StoppedStep ==
    ASSUME IInv, NEW c, Sound(c), NEW code \in ReturnCodes \ {CWP_RC_OK},
           Stopped(c, code), file' = file
    PROVE  /\ IInv'
           /\ uc'.open = c.open /\ uc'.window = c.window /\ uc'.read = c.read
           /\ uc'.barrier = c.barrier /\ uc'.mark = c.mark /\ uc'.taken = c.taken
           /\ uc'.realloc_failed = c.realloc_failed
           /\ uc'.return_code = Told(code)
           /\ Position(uc)' = Position(c)
<1> DEFINE told == Told(code)
<1>1. told \in ReturnCodes /\ told # CWP_RC_OK
  BY DEF ReturnCodes, CWP_RC_OK, CWP_RC_BUFFER_UNDERFLOW, Told
<1>2. uc' = [c EXCEPT !.return_code = told] /\ call' = Idle
  BY DEF Stopped, Told
<1> HIDE DEF told
<1>3. /\ uc' \in Context
      /\ uc'.open = c.open /\ uc'.window = c.window /\ uc'.read = c.read
      /\ uc'.buffer_length = c.buffer_length /\ uc'.barrier = c.barrier
      /\ uc'.mark = c.mark /\ uc'.realloc_failed = c.realloc_failed
      /\ uc'.return_code = told /\ uc'.current = c.current /\ uc'.taken = c.taken
  BY <1>1, <1>2 DEF Sound, Context
<1>4. Sound(uc)' /\ Position(uc)' = Position(c)
  BY <1>3 DEF Sound, Position, Base
<1>5. IInv'
  BY <1>1, <1>2, <1>3, <1>4, IdleCall DEF IInv
<1> QED
  BY <1>3, <1>4, <1>5 DEF told

-------------------------------------------------------------------------------
(* The handlers.                                                           *)

\* How many bytes of the window the handler gives up.
LEMMA KeptFacts ==
    ASSUME NEW c, Sound(c)
    PROVE  /\ Kept(c) \in 0 .. c.current
           /\ c.barrier # NULL => Kept(c) = c.current - c.barrier
           /\ c.current \in Nat /\ Len(c.window) \in Nat /\ c.read \in Nat
           /\ c.buffer_length \in Nat
<1>1. /\ c.current \in Nat /\ c.barrier \in Nat \cup {NULL} /\ c.read \in Nat
      /\ c.buffer_length \in Nat /\ Len(c.window) \in Nat
  BY LenProperties DEF Sound, Context
<1>2. c.barrier <= c.current
  BY DEF Sound
<1> QED
  BY <1>1, <1>2 DEF Kept

\* Making room moves no byte of the file past the client: what is kept is
\* kept in front of current, and what is asked for fits the buffer unless
\* realloc has failed.
LEMMA MakeRoomSound ==
    ASSUME IInv, call.op # "none",
           NEW c, Sound(c), ~Fits(c), ~c.realloc_failed,
           NEW moved,
           \A m \in moved : m \in Seq(Nat)
                            /\ Len(m) = Len(c.window) - (c.current - Kept(c)),
           NEW o \in MakeRoom(c, moved)
    PROVE  /\ Sound(o.ctx)
           /\ o.ctx.open = c.open /\ o.ctx.return_code = c.return_code
           /\ o.ctx.read = c.read /\ o.ctx.taken = c.taken
           /\ (o.ctx.barrier = NULL) <=> (c.barrier = NULL)
           /\ o.ctx.mark = c.mark
           /\ \/ /\ o.rc = CWP_RC_OK /\ ~o.ctx.realloc_failed
                 /\ o.ctx.window \in moved
                 /\ o.ctx.current + Want <= o.ctx.buffer_length
                 /\ ~Fits(o.ctx)
              \/ o.rc = CWP_RC_BUFFER_UNDERFLOW /\ o.ctx.realloc_failed
<1>1. PICK rest \in moved, length \in Doubled(c.buffer_length, Need(c)) :
        \/ o = [rc  |-> CWP_RC_OK,
                ctx |-> [c EXCEPT !.window = rest, !.current = Kept(c),
                                  !.barrier = IF @ = NULL THEN NULL ELSE 0,
                                  !.buffer_length = length]]
        \/ o = [rc  |-> CWP_RC_BUFFER_UNDERFLOW,
                ctx |-> [c EXCEPT !.window = rest \o
                             SubSeq(@, Len(rest) + 1, Len(@)),
                         !.buffer_length = length,
                         !.realloc_failed = TRUE]]
  <2>1. PICK rest \in moved, length \in Doubled(c.buffer_length, Need(c)) :
           o \in Resized(c, rest, length)
    BY DEF MakeRoom
  <2> QED
    BY <2>1 DEF Resized
<1>2. /\ Kept(c) \in 0 .. c.current
      /\ c.barrier # NULL => Kept(c) = c.current - c.barrier
      /\ c.current \in Nat /\ Len(c.window) \in Nat /\ c.read \in Nat
      /\ c.buffer_length \in Nat /\ c \in Context
  BY KeptFacts DEF Sound
<1>3. Want \in Nat /\ Need(c) = Want + Kept(c)
  BY EngagedFacts DEF Need
<1>4. length \in Nat /\ length >= Want + Kept(c) /\ length >= c.buffer_length
  BY <1>2, <1>3, DoubledBound
<1>5. rest \in Seq(Nat) /\ Len(rest) = Len(c.window) - (c.current - Kept(c))
  BY <1>1
<1>6. /\ c.current <= Len(c.window) /\ Len(c.window) <= c.buffer_length
      /\ Len(c.window) <= c.read /\ c.current + Want > Len(c.window)
      /\ c.taken = c.read - Len(c.window) + c.current
  BY <1>2, <1>3 DEF Sound, Fits, Position
<1>7. CASE o = [rc  |-> CWP_RC_OK,
                ctx |-> [c EXCEPT !.window = rest, !.current = Kept(c),
                                  !.barrier = IF @ = NULL THEN NULL ELSE 0,
                                  !.buffer_length = length]]
  <2> DEFINE d == [c EXCEPT !.window = rest, !.current = Kept(c),
                            !.barrier = IF @ = NULL THEN NULL ELSE 0,
                            !.buffer_length = length]
  <2>1. o.rc = CWP_RC_OK /\ o.ctx = d
    BY <1>7
  <2>2. /\ d.window = rest /\ d.current = Kept(c) /\ d.buffer_length = length
        /\ d.barrier = IF c.barrier = NULL THEN NULL ELSE 0
        /\ d.open = c.open /\ d.return_code = c.return_code /\ d.read = c.read
        /\ d.taken = c.taken /\ d.mark = c.mark
        /\ d.realloc_failed = c.realloc_failed
    BY <1>2 DEF Context
  <2>3. d \in Context
    <3>1. Kept(c) \in Nat
      BY <1>2
    <3> QED
      BY <1>2, <1>4, <1>5, <3>1 DEF Context, NULL
  <2> HIDE DEF d
  <2>4. d.current <= Len(d.window) /\ Len(d.window) <= d.buffer_length
        /\ Len(d.window) <= d.read /\ d.taken = Position(d)
    <3>1. /\ d.current = Kept(c) /\ Len(d.window) = Len(c.window) - (c.current - Kept(c))
          /\ d.buffer_length = length /\ d.read = c.read /\ d.taken = c.taken
      BY <1>5, <2>2
    <3>2. /\ Kept(c) <= Len(c.window) - (c.current - Kept(c))
          /\ Len(c.window) - (c.current - Kept(c)) <= length
          /\ Len(c.window) - (c.current - Kept(c)) <= c.read
      BY <1>2, <1>4, <1>6, SMTT(30)
    <3>3. c.taken = c.read - (Len(c.window) - (c.current - Kept(c))) + Kept(c)
      BY <1>2, <1>6
    <3> QED
      BY <3>1, <3>2, <3>3 DEF Position
  <2>5. d.barrier <= d.current
    BY <1>2, <2>2 DEF NULL
  <2>6. d.barrier # NULL => d.mark = Base(d) + d.barrier
    <3> SUFFICES ASSUME d.barrier # NULL PROVE d.mark = Base(d) + d.barrier
      OBVIOUS
    <3>1. c.barrier # NULL /\ d.barrier = 0
      BY <2>2
    <3>2. c.mark = (c.read - Len(c.window)) + c.barrier /\ c.barrier \in Nat
      BY <1>2, <3>1 DEF Sound, Base, Context
    <3>3. Len(rest) = Len(c.window) - c.barrier
      BY <1>2, <1>5, <3>1, <3>2
    <3>4. c.mark = (c.read - Len(rest)) + 0
      BY <1>2, <3>2, <3>3
    <3> QED
      BY <2>2, <3>1, <3>4 DEF Base
  <2>7. Sound(d)
    BY <2>2, <2>3, <2>4, <2>5, <2>6 DEF Sound
  <2>8. d.current + Want <= d.buffer_length /\ ~Fits(d)
    BY <1>2, <1>3, <1>4, <1>5, <1>6, <2>2, SMTT(30) DEF Fits
  <2> QED
    BY <2>1, <2>2, <2>7, <2>8 DEF NULL
<1>8. CASE o = [rc  |-> CWP_RC_BUFFER_UNDERFLOW,
                ctx |-> [c EXCEPT !.window = rest \o
                             SubSeq(@, Len(rest) + 1, Len(@)),
                         !.buffer_length = length,
                         !.realloc_failed = TRUE]]
  <2> DEFINE tail == SubSeq(c.window, Len(rest) + 1, Len(c.window))
             window == rest \o tail
             d == [c EXCEPT !.window = window, !.buffer_length = length,
                            !.realloc_failed = TRUE]
  <2>1. o.rc = CWP_RC_BUFFER_UNDERFLOW /\ o.ctx = d
    BY <1>8
  <2>2. window \in Seq(Nat) /\ Len(window) = Len(c.window)
    <3>1. c.window \in Seq(Nat) /\ Len(rest) \in 0 .. Len(c.window)
      BY <1>2, <1>5 DEF Context
    <3>2. \A i \in Len(rest) + 1 .. Len(c.window) : c.window[i] \in Nat
      <4>1. Len(c.window) \in Nat /\ Len(rest) \in Nat
        BY <3>1
      <4>2. \A i \in 1 .. Len(c.window) : c.window[i] \in Nat
        BY <3>1, ElementOfSeq, Zenon
      <4> HIDE DEF tail
      <4>3. \A i \in Len(rest) + 1 .. Len(c.window) : i \in 1 .. Len(c.window)
        BY <4>1
      <4> QED
        BY <4>2, <4>3, Zenon
    <3>3. tail \in Seq(Nat) /\ Len(tail) = Len(c.window) - Len(rest)
      BY <1>2, <3>1, <3>2, SubSeqProperties
    <3> HIDE DEF tail
    <3>4. rest \o tail \in Seq(Nat) /\ Len(rest \o tail) = Len(rest) + Len(tail)
      BY <1>5, <3>3, ConcatProperties
    <3> QED
      BY <1>2, <3>1, <3>3, <3>4
  <2> HIDE DEF window
  <2>3. /\ d.window = window /\ d.current = c.current /\ d.buffer_length = length
        /\ d.barrier = c.barrier
        /\ d.open = c.open /\ d.return_code = c.return_code /\ d.read = c.read
        /\ d.taken = c.taken /\ d.mark = c.mark /\ d.realloc_failed = TRUE
    BY <1>2 DEF Context
  <2>4. d \in Context
    BY <1>2, <1>4, <2>2 DEF Context
  <2> HIDE DEF d
  <2>5. Len(d.window) <= d.buffer_length
    BY <1>2, <1>4, <1>6, <2>2, <2>3
  <2>6. Sound(d)
    BY <2>2, <2>3, <2>4, <2>5 DEF Sound, Position, Base
  <2> QED
    BY <2>1, <2>3, <2>6
<1> QED
  BY <1>1, <1>7, <1>8

\* Reading l bytes more into the room that is left.
LEMMA FilledSound ==
    ASSUME file \in Seq(Byte), NEW c, Sound(c), NEW l \in 0 .. Remaining(c)
    PROVE  LET d == Filled(c, l)
           IN  /\ Sound(d)
               /\ d.open = c.open /\ d.return_code = c.return_code
               /\ d.current = c.current /\ d.buffer_length = c.buffer_length
               /\ d.barrier = c.barrier /\ d.taken = c.taken /\ d.mark = c.mark
               /\ d.realloc_failed = c.realloc_failed
               /\ Len(d.window) = Len(c.window) + l /\ d.read = c.read + l
               /\ Position(d) = Position(c)
               /\ WindowNumbered(c) => WindowNumbered(d)
<1>1. /\ c \in Context /\ c.window \in Seq(Nat) /\ Len(c.window) \in Nat
      /\ c.read \in Nat /\ c.buffer_length \in Nat /\ c.current \in Nat
      /\ Len(file) \in Nat
  BY LenProperties DEF Sound, Context
<1>2. /\ Len(c.window) <= c.buffer_length /\ Len(c.window) <= c.read
      /\ c.read <= Len(file)
  BY DEF Sound
<1>3. /\ l \in Nat /\ Len(c.window) + l <= c.buffer_length
      /\ c.read + l <= Len(file)
  BY <1>1, <1>2 DEF Remaining, Room
<1> DEFINE new == [k \in 1 .. l |-> c.read + k]
           window == c.window \o new
           read == c.read + l
           d == [c EXCEPT !.window = window, !.read = read]
<1>4. window \in Seq(Nat) /\ Len(window) = Len(c.window) + l
  <2>1. new \in [1 .. l -> Nat]
    BY <1>1, <1>3
  <2>2. new \in Seq(Nat)
    BY <1>3, <2>1, SeqDef
  <2>3. Len(new) = l
    BY <1>3, <2>1, <2>2, LenProperties
  <2> HIDE DEF new
  <2> QED
    BY <1>1, <2>2, <2>3, ConcatProperties
<1>5. Numbered(c.window, Base(c)) => Numbered(window, Base(c))
  <2> SUFFICES ASSUME Numbered(c.window, Base(c)) PROVE Numbered(window, Base(c))
    OBVIOUS
  <2>1. Base(c) \in Nat /\ c.read = Base(c) + Len(c.window)
    BY <1>1, <1>2 DEF Base
  <2>2. window = c.window \o [k \in 1 .. l |-> Base(c) + Len(c.window) + k]
    BY <2>1
  <2> HIDE DEF window
  <2> QED
    BY <1>1, <1>3, <2>1, <2>2, StoreNumbered
<1>6. Filled(c, l) = d
  BY DEF Filled
<1>7. read \in Nat /\ read = c.read + l
  BY <1>1, <1>3
<1> HIDE DEF window, read
<1>8. /\ d \in Context
      /\ d.window = window /\ d.read = read
      /\ d.open = c.open /\ d.return_code = c.return_code
      /\ d.current = c.current /\ d.buffer_length = c.buffer_length
      /\ d.barrier = c.barrier /\ d.taken = c.taken /\ d.mark = c.mark
      /\ d.realloc_failed = c.realloc_failed
  BY <1>1, <1>4, <1>7 DEF Context
<1> HIDE DEF d
<1>9. Base(d) = Base(c) /\ Position(d) = Position(c)
  <2>1. d.read - Len(d.window) = (c.read + l) - (Len(c.window) + l)
    BY <1>4, <1>7, <1>8
  <2>2. (c.read + l) - (Len(c.window) + l) = c.read - Len(c.window)
    BY <1>1, <1>3
  <2> QED
    BY <1>8, <2>1, <2>2 DEF Base, Position
<1>10. d.current <= Len(d.window) /\ Len(d.window) <= d.read
  BY <1>1, <1>3, <1>4, <1>7, <1>8 DEF Sound
<1>11. Sound(d)
  BY <1>3, <1>4, <1>7, <1>8, <1>9, <1>10 DEF Sound
<1>12. WindowNumbered(c) => WindowNumbered(d)
  BY <1>5, <1>8, <1>9 DEF WindowNumbered
<1> QED
  BY <1>4, <1>6, <1>7, <1>8, <1>9, <1>11, <1>12

-------------------------------------------------------------------------------
(* The steps of a routine, whatever the handler.                           *)

\* The bytes asked for are in the buffer.
LEMMA AssertSpaceStep ==
    ASSUME IInv, AssertSpace
    PROVE  /\ IInv'
           /\ uc.open /\ uc.return_code = CWP_RC_OK /\ file' = file
           /\ uc'.open = uc.open /\ uc'.window = uc.window /\ uc'.read = uc.read
           /\ uc'.barrier = uc.barrier /\ uc'.mark = uc.mark
           /\ ~uc'.realloc_failed
           /\ uc'.return_code \in ItemErrors
           /\ uc'.taken >= uc.taken
           /\ WInv => WInv'
<1>1. call.op # "none" /\ Fits(uc) /\ Granted(uc) /\ file' = file
  BY DEF AssertSpace
<1>2. /\ Sound(uc) /\ uc.open /\ uc.return_code = CWP_RC_OK /\ ~uc.realloc_failed
      /\ Want \in Nat
  BY <1>1, EngagedFacts DEF Engaged
<1>3. /\ IInv'
      /\ uc'.open = uc.open /\ uc'.window = uc.window /\ uc'.read = uc.read
      /\ uc'.barrier = uc.barrier /\ uc'.mark = uc.mark
      /\ ~uc'.realloc_failed
      /\ uc'.return_code \in ItemErrors
      /\ Position(uc)' \in {Position(uc), Position(uc) + Want}
  BY <1>1, <1>2, GrantedStep
<1>4. uc'.taken >= uc.taken
  <2>1. uc'.taken = Position(uc)' /\ uc.taken = Position(uc) /\ uc.taken \in Nat
    BY <1>2, <1>3 DEF IInv, Sound, Context
  <2> QED
    BY <1>2, <1>3, <2>1
<1>5. WInv => WInv'
  BY <1>2, <1>3 DEF WInv, WindowNumbered, Base
<1> QED
  BY <1>1, <1>2, <1>3, <1>4, <1>5

\* The handler makes room, or its realloc fails.
LEMMA HandlerStep ==
    ASSUME IInv, NEW moved,
           \A m \in moved : m \in Seq(Nat)
                            /\ Len(m) = Len(uc.window) - (uc.current - Kept(uc)),
           CallHandler(MakeRoom(uc, moved))
    PROVE  /\ IInv'
           /\ uc.open /\ uc.return_code = CWP_RC_OK /\ file' = file
           /\ uc'.open = uc.open /\ uc'.read = uc.read /\ uc'.taken = uc.taken
           /\ (uc'.barrier = NULL) <=> (uc.barrier = NULL)
           /\ uc'.mark = uc.mark
           /\ uc'.return_code = CWP_RC_OK => call' = [call EXCEPT !.reading = TRUE]
           /\ \/ /\ uc'.return_code = CWP_RC_OK /\ ~uc'.realloc_failed
                 /\ uc'.window \in moved
              \/ uc'.return_code = CWP_RC_BUFFER_UNDERFLOW /\ uc'.realloc_failed
<1>1. /\ call.op # "none" /\ ~Fits(uc) /\ file' = file
  BY DEF CallHandler
<1>2. PICK o \in MakeRoom(uc, moved) :
         IF o.rc = CWP_RC_OK
         THEN uc' = o.ctx /\ call' = [call EXCEPT !.reading = TRUE]
         ELSE Stopped(o.ctx, o.rc)
  BY DEF CallHandler
<1>3. /\ Engaged /\ uc.open /\ uc.return_code = CWP_RC_OK /\ Sound(uc)
      /\ ~uc.realloc_failed
      /\ call \in Calls /\ call.op \in {"next", "skip", "ahead"}
  BY <1>1, EngagedFacts DEF Engaged
<1>4. /\ Sound(o.ctx)
      /\ o.ctx.open = uc.open /\ o.ctx.return_code = uc.return_code
      /\ o.ctx.read = uc.read /\ o.ctx.taken = uc.taken
      /\ (o.ctx.barrier = NULL) <=> (uc.barrier = NULL)
      /\ o.ctx.mark = uc.mark
      /\ \/ /\ o.rc = CWP_RC_OK /\ ~o.ctx.realloc_failed
            /\ o.ctx.window \in moved
            /\ o.ctx.current + Want <= o.ctx.buffer_length
            /\ ~Fits(o.ctx)
         \/ o.rc = CWP_RC_BUFFER_UNDERFLOW /\ o.ctx.realloc_failed
  BY <1>1, <1>3, MakeRoomSound
<1>5. CWP_RC_BUFFER_UNDERFLOW # CWP_RC_OK
      /\ CWP_RC_BUFFER_UNDERFLOW # CWP_RC_END_OF_INPUT
      /\ CWP_RC_BUFFER_UNDERFLOW \in ReturnCodes
  BY DEF CWP_RC_BUFFER_UNDERFLOW, CWP_RC_OK, CWP_RC_END_OF_INPUT, ReturnCodes
<1>6. CASE o.rc = CWP_RC_OK
  <2>1. uc' = o.ctx /\ call' = [call EXCEPT !.reading = TRUE]
    BY <1>2, <1>6
  <2>2. /\ call' \in Calls /\ call'.op = call.op /\ call'.asks = call.asks
        /\ call'.tag = call.tag /\ call'.left = call.left /\ call'.reading = TRUE
    BY <1>3, <2>1 DEF Calls
  <2>3. uc'.current + Want <= uc'.buffer_length /\ ~Fits(uc')
    BY <1>4, <1>5, <1>6, <2>1
  <2>4. Want' = Want /\ (Fits(uc)' <=> Fits(uc'))
    BY <2>2 DEF Want, Fits
  <2>5. Engaged'
    BY <1>1, <1>3, <1>4, <2>1, <2>2, <2>3, <2>4 DEF Engaged
  <2>6. Sound(uc)'
    BY <1>1, <1>4, <2>1 DEF Sound, Position, Base
  <2>7. IInv'
    BY <1>1, <1>3, <1>4, <1>5, <1>6, <2>1, <2>2, <2>5, <2>6 DEF IInv
  <2> QED
    BY <1>1, <1>3, <1>4, <1>5, <1>6, <2>1, <2>7
<1>7. CASE o.rc = CWP_RC_BUFFER_UNDERFLOW
  <2>1. Stopped(o.ctx, o.rc) /\ Told(o.rc) = o.rc
    BY <1>2, <1>5, <1>7 DEF Told
  <2>2. /\ IInv'
        /\ uc'.open = o.ctx.open /\ uc'.read = o.ctx.read
        /\ uc'.barrier = o.ctx.barrier /\ uc'.mark = o.ctx.mark
        /\ uc'.taken = o.ctx.taken /\ uc'.realloc_failed = o.ctx.realloc_failed
        /\ uc'.return_code = o.rc
    BY <1>1, <1>4, <1>5, <1>7, <2>1, StoppedStep
  <2> QED
    BY <1>1, <1>3, <1>4, <1>5, <1>7, <2>2
<1> QED
  BY <1>4, <1>6, <1>7

\* The handler has reached the end of the file: END_OF_INPUT is told when the
\* routine is at a tag, and then the whole file is consumed.
LEMMA EndStep ==
    ASSUME IInv, call.op # "none", call.reading,
           Remaining(uc) = 0, Stopped(uc, CWP_RC_END_OF_INPUT), file' = file
    PROVE  /\ IInv'
           /\ uc'.open = uc.open /\ uc'.window = uc.window /\ uc'.read = uc.read
           /\ uc'.barrier = uc.barrier /\ uc'.mark = uc.mark /\ uc'.taken = uc.taken
           /\ uc'.realloc_failed = uc.realloc_failed
           /\ uc'.read = Len(file)
           /\ IF call.tag = 0
              THEN uc'.return_code = CWP_RC_END_OF_INPUT /\ uc'.taken = Len(file)
              ELSE uc'.return_code = CWP_RC_BUFFER_UNDERFLOW
<1>1. /\ Engaged /\ Sound(uc) /\ Want \in Nat /\ Len(file) \in Nat
      /\ call.tag = 0 => Want = 1
  BY EngagedFacts
<1>2. CWP_RC_END_OF_INPUT \in ReturnCodes \ {CWP_RC_OK}
  BY DEF CWP_RC_END_OF_INPUT, ReturnCodes, CWP_RC_OK
<1>3. /\ IInv'
      /\ uc'.open = uc.open /\ uc'.window = uc.window /\ uc'.read = uc.read
      /\ uc'.barrier = uc.barrier /\ uc'.mark = uc.mark /\ uc'.taken = uc.taken
      /\ uc'.realloc_failed = uc.realloc_failed
      /\ uc'.return_code = Told(CWP_RC_END_OF_INPUT)
  BY <1>1, <1>2, StoppedStep
<1>4. /\ uc.current \in Nat /\ Len(uc.window) \in Nat /\ uc.read \in Nat
      /\ uc.buffer_length \in Nat
  BY <1>1, LenProperties DEF Sound, Context
<1>5. uc.current + Want > Len(uc.window) /\ uc.current + Want <= uc.buffer_length
  BY <1>1, <1>4 DEF Engaged, Fits
<1>6. /\ uc.read <= Len(file) /\ uc.current <= Len(uc.window)
      /\ uc.taken = uc.read - Len(uc.window) + uc.current
  BY <1>1 DEF Sound, Position
<1>7. uc.read = Len(file)
  BY <1>1, <1>4, <1>5, <1>6 DEF Remaining, Room
<1>8. call.tag = 0 => uc.taken = Len(file)
  BY <1>1, <1>4, <1>5, <1>6, <1>7
<1> QED
  BY <1>3, <1>7, <1>8 DEF Told

-------------------------------------------------------------------------------
(* Refinement.                                                             *)

\* The abstract stream's mark is the one the client has set.
MarkOf(c) == IF c.barrier = NULL THEN NULL ELSE c.mark

\* What the abstract stream sees of a sound context.
LEMMA ViewOfSound ==
    ASSUME NEW c, Sound(c)
    PROVE  /\ c.taken = Position(c)
           /\ MarkOf(c) = IF c.barrier = NULL THEN NULL
                          ELSE c.read - Len(c.window) + c.barrier
BY DEF Sound, MarkOf, Base

\* A step on a running context that goes on in the file or stops, and moves
\* no mark, is a step of the abstract stream.
LEMMA TakeRefines ==
    ASSUME IInv, IInv', file' = file, uc.open, uc'.open,
           uc.return_code = CWP_RC_OK,
           uc'.taken >= uc.taken, MarkOf(uc') = MarkOf(uc),
           uc'.return_code = CWP_RC_END_OF_INPUT => uc'.taken = Len(file)
    PROVE  Stream!Take
<1>1. Sound(uc) /\ Sound(uc')
  <2>1. Sound(uc)'
    BY DEF IInv
  <2> QED
    BY <2>1 DEF IInv, Sound, Position, Base
<1>2. /\ Position(uc) = uc.taken /\ Position(uc') = uc'.taken
      /\ uc'.taken \in Nat /\ uc'.taken <= Len(file)
      /\ uc'.return_code \in ReturnCodes /\ uc.open \in BOOLEAN /\ uc'.open \in BOOLEAN
  <2>1. /\ uc'.taken = uc'.read - Len(uc'.window) + uc'.current
        /\ uc'.current <= Len(uc'.window) /\ uc'.read <= Len(file)
    BY <1>1 DEF Sound, Position
  <2>2. uc'.read \in Nat /\ Len(uc'.window) \in Nat /\ uc'.current \in Nat
    BY <1>1, LenProperties DEF Sound, Context
  <2>3. Len(file) \in Nat
    BY LenProperties DEF IInv
  <2> QED
    BY <1>1, <2>1, <2>2, <2>3 DEF Sound, Context
<1>3. /\ Position(uc)' = Position(uc')
      /\ MarkOf(uc)' = MarkOf(uc')
  BY DEF Position, MarkOf
<1>4. CWP_RC_OK = Stream!CWP_RC_OK /\ ReturnCodes = Stream!ReturnCodes
      /\ CWP_RC_END_OF_INPUT = Stream!CWP_RC_END_OF_INPUT
  BY DEF CWP_RC_OK, Stream!CWP_RC_OK, ReturnCodes, Stream!ReturnCodes,
         CWP_RC_END_OF_INPUT, Stream!CWP_RC_END_OF_INPUT
<1>5. (IF uc'.barrier = NULL THEN NULL ELSE uc'.read - Len(uc'.window) + uc'.barrier)
        = (IF uc.barrier = NULL THEN NULL ELSE uc.read - Len(uc.window) + uc.barrier)
  BY <1>1, ViewOfSound
<1> QED
  BY <1>2, <1>3, <1>4, <1>5 DEF Stream!Take

\* A step that changes nothing the abstract stream sees.
LEMMA StutterRefines ==
    ASSUME IInv, IInv', file' = file, uc'.open = uc.open,
           uc'.return_code = uc.return_code,
           uc'.taken = uc.taken, MarkOf(uc') = MarkOf(uc)
    PROVE  UNCHANGED Stream!vars
<1>1. Sound(uc) /\ Sound(uc')
  <2>1. Sound(uc)'
    BY DEF IInv
  <2> QED
    BY <2>1 DEF IInv, Sound, Position, Base
<1>2. Position(uc)' = Position(uc)
  BY <1>1 DEF Sound, Position
<1>3. (IF uc'.barrier = NULL THEN NULL ELSE uc'.read - Len(uc'.window) + uc'.barrier)
        = (IF uc.barrier = NULL THEN NULL ELSE uc.read - Len(uc.window) + uc.barrier)
  BY <1>1, ViewOfSound
<1> QED
  BY <1>2, <1>3 DEF Stream!vars

\* Before the first session the abstract stream is in its initial state.
LEMMA InitRefines == Init => Stream!Init
<1> SUFFICES ASSUME Init PROVE Stream!Init
  OBVIOUS
<1>1. /\ uc.open = FALSE /\ uc.return_code = CWP_RC_OK /\ uc.barrier = NULL
      /\ uc.read = 0 /\ uc.window = <<>> /\ uc.current = 0
      /\ Len(file) = 0 /\ Len(uc.window) = 0
  BY EmptySeq DEF Init, Closed
<1>2. Position(uc) = 0
  <2>1. uc.read - Len(uc.window) + uc.current = 0 - 0 + 0
    BY <1>1, Zenon
  <2> QED
    BY <2>1 DEF Position
<1> QED
  BY <1>1, <1>2 DEF Stream!Init, Stream!NoMark, NULL, CWP_RC_OK, Stream!CWP_RC_OK

\* Initialisation is the abstract stream's Open.
LEMMA OpenRefines ==
    ASSUME IInv, IInv', init_unpack_context
    PROVE  Stream!Open
<1>1. /\ uc' \in Context
      /\ uc'.open /\ uc'.window = <<>> /\ uc'.current = 0 /\ uc'.barrier = NULL
      /\ uc'.read = 0 /\ uc'.taken = 0
      /\ uc'.return_code \in {CWP_RC_OK, CWP_RC_MALLOC_ERROR, CWP_RC_WRONG_BYTE_ORDER}
  BY InitContext
<1>2. ~uc.open /\ uc'.open = TRUE
  BY <1>1 DEF init_unpack_context, Context
<1>3. Position(uc)' = 0
  <2>1. uc'.taken = Position(uc)'
    BY DEF IInv, Sound
  <2> QED
    BY <1>1, <2>1
<1>4. Len(file)' \in Nat
  BY LenProperties DEF IInv
<1>5. uc'.return_code \in {Stream!CWP_RC_OK, Stream!CWP_RC_MALLOC_ERROR,
                           Stream!CWP_RC_WRONG_BYTE_ORDER}
  BY <1>1 DEF CWP_RC_OK, CWP_RC_MALLOC_ERROR, CWP_RC_WRONG_BYTE_ORDER,
              Stream!CWP_RC_OK, Stream!CWP_RC_MALLOC_ERROR, Stream!CWP_RC_WRONG_BYTE_ORDER
<1> QED
  BY <1>1, <1>2, <1>3, <1>4, <1>5 DEF Stream!Open, Stream!NoMark, NULL

\* Termination is the abstract stream's Close.
LEMMA CloseRefines ==
    ASSUME IInv, terminate_unpack_context
    PROVE  Stream!Close
<1>1. uc \in Context /\ uc.open /\ uc' = [uc EXCEPT !.open = FALSE] /\ file' = file
  BY DEF IInv, Sound, terminate_unpack_context
<1>2. /\ uc'.open = FALSE /\ uc'.window = uc.window /\ uc'.current = uc.current
      /\ uc'.barrier = uc.barrier /\ uc'.return_code = uc.return_code
      /\ uc'.read = uc.read
  BY <1>1 DEF Context
<1> QED
  BY <1>1, <1>2 DEF Stream!Close, Position

\* What a step of a routine does: the context goes on in the file or stops,
\* the mark stays, and what a stopped context tells of the end is true.
Advance ==
    /\ uc.open /\ uc.return_code = CWP_RC_OK /\ uc'.open /\ file' = file
    /\ uc'.taken >= uc.taken
    /\ MarkOf(uc') = MarkOf(uc)
    /\ uc'.return_code = CWP_RC_END_OF_INPUT => uc'.taken = Len(file)
    /\ uc'.return_code = CWP_RC_BUFFER_UNDERFLOW =>
          /\ call.tag # 0 \/ uc'.realloc_failed
          /\ uc'.realloc_failed \/ uc'.read = Len(file)

\* An item's own errors are not those of the end of the input.
LEMMA ItemErrorsDiffer ==
    /\ CWP_RC_END_OF_INPUT \notin ItemErrors
    /\ CWP_RC_BUFFER_UNDERFLOW \notin ItemErrors
BY DEF ItemErrors, CWP_RC_END_OF_INPUT, CWP_RC_BUFFER_UNDERFLOW, CWP_RC_OK,
       CWP_RC_MALFORMED_INPUT, CWP_RC_WRONG_TIMESTAMP_LENGTH

\* What is asked for is in the buffer.
LEMMA AssertSpaceAdvances ==
    ASSUME IInv, AssertSpace
    PROVE  IInv' /\ Advance /\ (WInv => WInv')
BY AssertSpaceStep, ItemErrorsDiffer DEF Advance, MarkOf

\* The handler has met the end of the file.
LEMMA EndAdvances ==
    ASSUME IInv, call.reading,
           Remaining(uc) = 0, Stopped(uc, CWP_RC_END_OF_INPUT), file' = file
    PROVE  IInv' /\ Advance /\ (WInv => WInv')
<1>1. call.op # "none"
  BY IdleCall DEF IInv
<1>2. /\ IInv'
      /\ uc'.open = uc.open /\ uc'.window = uc.window /\ uc'.read = uc.read
      /\ uc'.barrier = uc.barrier /\ uc'.mark = uc.mark /\ uc'.taken = uc.taken
      /\ uc'.realloc_failed = uc.realloc_failed
      /\ uc'.read = Len(file)
      /\ IF call.tag = 0
         THEN uc'.return_code = CWP_RC_END_OF_INPUT /\ uc'.taken = Len(file)
         ELSE uc'.return_code = CWP_RC_BUFFER_UNDERFLOW
  BY <1>1, EndStep
<1>3. /\ uc.open /\ uc.return_code = CWP_RC_OK /\ uc.taken \in Nat
  BY <1>1, EngagedFacts DEF Engaged, Context
<1>4. CWP_RC_BUFFER_UNDERFLOW # CWP_RC_END_OF_INPUT
  BY DEF CWP_RC_BUFFER_UNDERFLOW, CWP_RC_END_OF_INPUT
<1>5. Advance
  BY <1>2, <1>3, <1>4 DEF Advance, MarkOf
<1> QED
  BY <1>2, <1>5 DEF WInv, WindowNumbered, Base

\* The handler has met an error.
LEMMA ErrorAdvances ==
    ASSUME IInv, call.reading,
           Stopped(uc, CWP_RC_ERROR_IN_HANDLER), file' = file
    PROVE  IInv' /\ Advance /\ (WInv => WInv')
<1>1. call.op # "none"
  BY IdleCall DEF IInv
<1>2. Sound(uc) /\ uc.open /\ uc.return_code = CWP_RC_OK /\ uc.taken \in Nat
  BY <1>1, EngagedFacts DEF Engaged, Context
<1>3. /\ CWP_RC_ERROR_IN_HANDLER \in ReturnCodes \ {CWP_RC_OK}
      /\ CWP_RC_ERROR_IN_HANDLER # CWP_RC_END_OF_INPUT
      /\ CWP_RC_ERROR_IN_HANDLER # CWP_RC_BUFFER_UNDERFLOW
  BY DEF CWP_RC_ERROR_IN_HANDLER, ReturnCodes, CWP_RC_OK, CWP_RC_END_OF_INPUT,
         CWP_RC_BUFFER_UNDERFLOW
<1>4. /\ IInv'
      /\ uc'.open = uc.open /\ uc'.window = uc.window /\ uc'.read = uc.read
      /\ uc'.barrier = uc.barrier /\ uc'.mark = uc.mark /\ uc'.taken = uc.taken
      /\ uc'.realloc_failed = uc.realloc_failed
      /\ uc'.return_code = Told(CWP_RC_ERROR_IN_HANDLER)
  BY <1>2, <1>3, StoppedStep
<1>5. Advance
  BY <1>2, <1>3, <1>4 DEF Advance, MarkOf, Told
<1> QED
  BY <1>4, <1>5 DEF WInv, WindowNumbered, Base

\* Such a step is one of the abstract stream.
LEMMA AdvanceRefines ==
    ASSUME IInv, IInv', Advance
    PROVE  Stream!Take
BY TakeRefines DEF Advance

-------------------------------------------------------------------------------
(* What the invariant says about the properties.                           *)

\* The invariant is stronger than the type invariant, orders the pointers
\* and puts current behind what was consumed; with WInv it also says what
\* the window holds.
LEMMA InvariantImplies ==
    ASSUME IInv
    PROVE  TypeOK /\ PointersInOrder /\ NothingSkipped /\ (WInv => WindowIsFile)
<1>1. Sound(uc) /\ uc \in Context /\ call \in Calls
  BY DEF IInv, Sound
<1>2. TypeOK
  BY <1>1 DEF TypeOK, IInv, Engaged
<1>3. PointersInOrder
  <2> SUFFICES ASSUME call.reading PROVE Room(uc) > 0
    BY <1>1 DEF PointersInOrder, Sound
  <2>1. call.op # "none"
    BY IdleCall DEF IInv
  <2>2. Engaged /\ Want \in Nat
    BY <2>1, EngagedFacts
  <2>3. uc.current \in Nat /\ Len(uc.window) \in Nat /\ uc.buffer_length \in Nat
    BY <1>1, LenProperties DEF Context
  <2> QED
    BY <2>2, <2>3 DEF Engaged, Fits, Room
<1>4. NothingSkipped
  BY <1>1 DEF NothingSkipped, Sound
<1>5. WInv => WindowIsFile
  <2>1. DOMAIN uc.window = 1 .. Len(uc.window)
    BY <1>1, LenProperties DEF Context
  <2> QED
    BY <2>1 DEF WInv, WindowNumbered, Numbered, Base, WindowIsFile
<1> QED
  BY <1>2, <1>3, <1>4, <1>5


-------------------------------------------------------------------------------
(* The file unpack context, for whatever read() gives.  That the window    *)
(* holds the file's bytes needs a memcpy that moves overlapping areas      *)
(* right; the rest holds whatever memcpy does.                             *)

\* What memcpy can leave at the start is as long as what it was to move.
LEMMA HandlerMoves ==
    ASSUME IInv
    PROVE  \A m \in Moved(uc.window, BStart(uc), MemcpyHandlesOverlap) :
              m \in Seq(Nat) /\ Len(m) = Len(uc.window) - (uc.current - Kept(uc))
<1>1. /\ Sound(uc) /\ uc \in Context /\ uc.window \in Seq(Nat)
      /\ uc.barrier \in Nat \cup {NULL}
  BY DEF IInv, Sound, Context
<1>2. /\ uc.current \in Nat /\ Len(uc.window) \in Nat
      /\ uc.current <= Len(uc.window) /\ uc.barrier <= uc.current
  BY <1>1, KeptFacts DEF Sound
<1>3. BStart(uc) = uc.current - Kept(uc) /\ BStart(uc) \in 0 .. Len(uc.window)
  BY <1>1, <1>2 DEF BStart, Kept, NULL
<1> QED
  BY <1>1, <1>3, MovedLength, FileUnpackAssumption

\* The handler up to its loop keeps the invariant, and the numbering of the
\* window when memcpy moves right.
LEMMA FileUnderflowStep ==
    ASSUME IInv, FileUnderflow
    PROVE  /\ IInv'
           /\ uc.open /\ uc.return_code = CWP_RC_OK /\ file' = file
           /\ uc'.open = uc.open /\ uc'.read = uc.read /\ uc'.taken = uc.taken
           /\ MarkOf(uc') = MarkOf(uc)
           /\ \/ uc'.return_code = CWP_RC_OK /\ ~uc'.realloc_failed
              \/ uc'.return_code = CWP_RC_BUFFER_UNDERFLOW /\ uc'.realloc_failed
           /\ MemcpyHandlesOverlap /\ WInv => WInv'
<1> DEFINE moved == Moved(uc.window, BStart(uc), MemcpyHandlesOverlap)
<1>1. CallHandler(MakeRoom(uc, moved))
  BY DEF FileUnderflow, handle_file_unpack_underflow
<1>2. \A m \in moved : m \in Seq(Nat)
                       /\ Len(m) = Len(uc.window) - (uc.current - Kept(uc))
  BY HandlerMoves
<1> HIDE DEF moved
<1>3. /\ IInv'
      /\ uc.open /\ uc.return_code = CWP_RC_OK /\ file' = file
      /\ uc'.open = uc.open /\ uc'.read = uc.read /\ uc'.taken = uc.taken
      /\ (uc'.barrier = NULL) <=> (uc.barrier = NULL)
      /\ uc'.mark = uc.mark
      /\ \/ /\ uc'.return_code = CWP_RC_OK /\ ~uc'.realloc_failed
            /\ uc'.window \in moved
         \/ uc'.return_code = CWP_RC_BUFFER_UNDERFLOW /\ uc'.realloc_failed
  BY <1>1, <1>2, HandlerStep
<1>4. MarkOf(uc') = MarkOf(uc)
  BY <1>3 DEF MarkOf
<1>5. ASSUME MemcpyHandlesOverlap, WInv PROVE WInv'
  <2> SUFFICES ASSUME ~uc'.realloc_failed PROVE WindowNumbered(uc')
    BY DEF WInv, WindowNumbered, Base
  <2> DEFINE n == BStart(uc)
  <2>1. /\ Sound(uc) /\ uc.window \in Seq(Nat) /\ Len(uc.window) \in Nat
        /\ uc.read \in Nat /\ uc.current \in Nat /\ Len(uc.window) <= uc.read
        /\ uc.current <= Len(uc.window) /\ uc.barrier <= uc.current
        /\ uc.barrier \in Nat \cup {NULL}
    BY KeptFacts DEF IInv, Sound, Context
  <2>2. n \in 0 .. Len(uc.window)
    BY <2>1 DEF BStart, NULL
  <2>3. uc'.window = SubSeq(uc.window, n + 1, Len(uc.window))
    BY <1>3, <1>5 DEF moved, Moved
  <2>4. Base(uc) \in Nat /\ Numbered(uc.window, Base(uc))
    <3>1. ~uc.realloc_failed
      BY <1>3 DEF IInv
    <3> QED
      BY <1>5, <2>1, <3>1 DEF WInv, WindowNumbered, Base
  <2> HIDE DEF n
  <2>5. Len(uc'.window) = Len(uc.window) - n /\ Numbered(uc'.window, Base(uc) + n)
    BY <2>1, <2>2, <2>3, <2>4, RestNumbered
  <2>6. Base(uc') = Base(uc) + n
    BY <1>3, <2>1, <2>2, <2>5 DEF Base
  <2> QED
    BY <2>5, <2>6 DEF WindowNumbered
<1> QED
  BY <1>3, <1>4, <1>5

\* read() gives l bytes: the item goes on, or the handler reads again.
LEMMA FilledStep ==
    ASSUME IInv, call.op # "none", call.reading, NEW l \in 0 .. Remaining(uc),
           LET c == Filled(uc, l)
           IN  IF Fits(c) THEN Granted(c) ELSE uc' = c /\ UNCHANGED call,
           file' = file
    PROVE  IInv' /\ Advance /\ (WInv => WInv')
<1> DEFINE c == Filled(uc, l)
<1>1. /\ Engaged /\ Sound(uc) /\ ~uc.realloc_failed /\ file \in Seq(Byte)
      /\ uc.open /\ uc.return_code = CWP_RC_OK /\ Want \in Nat
  BY EngagedFacts DEF IInv, Engaged
<1>2. /\ Sound(c)
      /\ c.open = uc.open /\ c.return_code = uc.return_code
      /\ c.current = uc.current /\ c.buffer_length = uc.buffer_length
      /\ c.barrier = uc.barrier /\ c.taken = uc.taken /\ c.mark = uc.mark
      /\ c.realloc_failed = uc.realloc_failed
      /\ Position(c) = Position(uc)
      /\ WindowNumbered(uc) => WindowNumbered(c)
  BY <1>1, FilledSound
<1>3. IF Fits(c) THEN Granted(c) ELSE uc' = c /\ UNCHANGED call
  OBVIOUS
<1>4. uc.taken = Position(uc) /\ uc.taken \in Nat
  BY <1>1 DEF Sound, Context
<1> HIDE DEF c
<1>5. CASE Fits(c)
  <2>1. /\ IInv'
        /\ uc'.open = c.open /\ uc'.window = c.window /\ uc'.read = c.read
        /\ uc'.barrier = c.barrier /\ uc'.mark = c.mark
        /\ ~uc'.realloc_failed
        /\ uc'.return_code \in ItemErrors
        /\ Position(uc)' \in {Position(c), Position(c) + Want}
    BY <1>1, <1>2, <1>3, <1>5, GrantedStep
  <2>2. uc'.taken >= uc.taken
    <3>1. uc'.taken = Position(uc)'
      BY <2>1 DEF IInv, Sound
    <3> QED
      BY <1>1, <1>2, <1>4, <2>1, <3>1
  <2>3. Advance
    BY <1>1, <1>2, <2>1, <2>2, ItemErrorsDiffer DEF Advance, MarkOf
  <2>4. WInv => WInv'
    BY <1>1, <1>2, <2>1 DEF WInv, WindowNumbered, Base
  <2> QED
    BY <2>1, <2>3, <2>4
<1>6. CASE ~Fits(c)
  <2>1. uc' = c /\ call' = call
    BY <1>3, <1>6
  <2>2. Sound(uc)' /\ ~Fits(uc)' /\ Want' = Want
    BY <1>2, <1>6, <2>1 DEF Sound, Position, Base, Fits, Want
  <2>3. Engaged'
    BY <1>1, <1>2, <2>1, <2>2 DEF Engaged
  <2>4. IInv'
    BY <1>1, <1>2, <2>1, <2>2, <2>3 DEF IInv
  <2>5. Advance
    <3>1. uc'.taken >= uc.taken
      BY <1>2, <1>4, <2>1
    <3>2. uc'.return_code = CWP_RC_OK /\ CWP_RC_OK \in ItemErrors
      BY <1>1, <1>2, <2>1 DEF ItemErrors
    <3> QED
      BY <1>1, <1>2, <2>1, <3>1, <3>2, ItemErrorsDiffer DEF Advance, MarkOf
  <2>6. WInv => WInv'
    BY <1>1, <1>2, <2>1 DEF WInv, WindowNumbered, Base
  <2> QED
    BY <2>4, <2>5, <2>6
<1> QED
  BY <1>5, <1>6

\* One turn of the handler's loop.
LEMMA ReadStep ==
    ASSUME IInv, Read
    PROVE  IInv' /\ Advance /\ (WInv => WInv')
<1>1. call.reading /\ call.op # "none" /\ file' = file
  BY IdleCall DEF Read, IInv
<1>2. ASSUME NEW l \in 1 .. Remaining(uc),
             LET c == Filled(uc, l)
             IN  IF Fits(c) THEN Granted(c) ELSE uc' = c /\ UNCHANGED call
      PROVE  IInv' /\ Advance /\ (WInv => WInv')
  <2>1. l \in 0 .. Remaining(uc)
    OBVIOUS
  <2> QED
    BY <1>1, <1>2, <2>1, FilledStep
<1>3. ASSUME Remaining(uc) = 0, Stopped(uc, CWP_RC_END_OF_INPUT)
      PROVE  IInv' /\ Advance /\ (WInv => WInv')
  BY <1>1, <1>3, EndAdvances
<1> QED
  BY <1>2, <1>3 DEF Read

\* A step of the routine under way.  Only the handler's move needs a memcpy
\* that moves right.
LEMMA FileRoutineStep ==
    ASSUME IInv, FileRoutine \/ ReadFails
    PROVE  IInv' /\ Advance /\ (MemcpyHandlesOverlap /\ WInv => WInv')
<1>1. CASE AssertSpace
  BY <1>1, AssertSpaceAdvances
<1>2. CASE FileUnderflow
  <2>1. uc.taken \in Nat
    BY DEF IInv, Sound, Context
  <2>2. /\ CWP_RC_BUFFER_UNDERFLOW # CWP_RC_END_OF_INPUT
        /\ CWP_RC_OK # CWP_RC_END_OF_INPUT /\ CWP_RC_OK # CWP_RC_BUFFER_UNDERFLOW
    BY DEF CWP_RC_BUFFER_UNDERFLOW, CWP_RC_END_OF_INPUT, CWP_RC_OK
  <2> QED
    BY <1>2, <2>1, <2>2, FileUnderflowStep DEF Advance
<1>3. CASE Read
  BY <1>3, ReadStep
<1>4. CASE ReadFails
  BY <1>4, ErrorAdvances DEF ReadFails
<1> QED
  BY <1>1, <1>2, <1>3, <1>4 DEF FileRoutine

-------------------------------------------------------------------------------
(* The barrier.                                                            *)

\* A running context between calls is sound.
LEMMA IdleSound ==
    ASSUME IInv
    PROVE  /\ uc \in Context /\ Sound(uc) /\ uc.current \in Nat /\ uc.read \in Nat
           /\ Len(uc.window) \in Nat /\ uc.barrier \in Nat \cup {NULL}
           /\ uc.taken \in Nat
BY LenProperties DEF IInv, Sound, Context

\* A step that leaves the call, the file and the bytes of the window alone.
LEMMA ClientStep ==
    ASSUME IInv, Sound(uc'), call = Idle, UNCHANGED <<call, file>>,
           uc'.window = uc.window, uc'.read = uc.read,
           uc'.realloc_failed = uc.realloc_failed, uc'.return_code = uc.return_code
    PROVE  IInv' /\ (WInv => WInv')
<1>1. Sound(uc)'
  BY DEF Sound, Position, Base
<1>2. IInv'
  BY <1>1, IdleCall DEF IInv
<1> QED
  BY <1>2 DEF WInv, WindowNumbered, Base

\* Setting the barrier marks what has been consumed.
LEMMA SetBarrierStep ==
    ASSUME IInv, file_unpack_context_set_barrier
    PROVE  /\ IInv' /\ (WInv => WInv') /\ file' = file
           /\ uc.open /\ uc'.open = uc.open /\ uc'.return_code = uc.return_code
           /\ uc'.taken = uc.taken /\ MarkOf(uc') = uc.taken
<1>1. /\ uc.open /\ call = Idle /\ UNCHANGED <<call, file>>
      /\ uc' = [uc EXCEPT !.barrier = uc.current, !.mark = uc.taken]
  BY DEF file_unpack_context_set_barrier, Running
<1>2. /\ uc \in Context /\ Sound(uc) /\ uc.current \in Nat /\ uc.read \in Nat
      /\ Len(uc.window) \in Nat /\ uc.taken \in Nat
  BY IdleSound
<1>3. /\ uc' \in Context /\ uc'.barrier = uc.current /\ uc'.mark = uc.taken
      /\ uc'.open = uc.open /\ uc'.window = uc.window /\ uc'.current = uc.current
      /\ uc'.buffer_length = uc.buffer_length /\ uc'.return_code = uc.return_code
      /\ uc'.read = uc.read /\ uc'.taken = uc.taken
      /\ uc'.realloc_failed = uc.realloc_failed
  BY <1>1, <1>2 DEF Context
<1>4. Sound(uc')
  BY <1>2, <1>3 DEF Sound, Position, Base
<1>5. uc'.barrier # NULL
  BY <1>2, <1>3 DEF NULL
<1> QED
  BY <1>1, <1>3, <1>4, <1>5, ClientStep DEF MarkOf

\* Going back puts current where the barrier is, and the mark says where in
\* the file that is.
LEMMA RescanStep ==
    ASSUME IInv, file_unpack_context_rescan_from_barrier
    PROVE  /\ IInv' /\ (WInv => WInv') /\ file' = file
           /\ uc.open /\ uc'.open = uc.open /\ uc'.return_code = uc.return_code
           /\ uc.barrier # NULL
           /\ uc'.taken = MarkOf(uc) /\ MarkOf(uc') = MarkOf(uc)
<1>1. /\ uc.open /\ call = Idle /\ UNCHANGED <<call, file>> /\ uc.barrier # NULL
      /\ uc' = [uc EXCEPT !.current = uc.barrier, !.taken = uc.mark]
  BY DEF file_unpack_context_rescan_from_barrier, Running
<1>2. /\ uc \in Context /\ Sound(uc) /\ uc.current \in Nat /\ uc.read \in Nat
      /\ Len(uc.window) \in Nat /\ uc.barrier \in Nat
  BY <1>1, IdleSound
<1>3. /\ uc' \in Context /\ uc'.barrier = uc.barrier /\ uc'.mark = uc.mark
      /\ uc'.open = uc.open /\ uc'.window = uc.window /\ uc'.current = uc.barrier
      /\ uc'.buffer_length = uc.buffer_length /\ uc'.return_code = uc.return_code
      /\ uc'.read = uc.read /\ uc'.taken = uc.mark
      /\ uc'.realloc_failed = uc.realloc_failed
  BY <1>1, <1>2 DEF Context
<1>4. Sound(uc')
  <2>1. uc.mark = uc.read - Len(uc.window) + uc.barrier
    BY <1>1, <1>2 DEF Sound, Base
  <2>2. uc'.current <= Len(uc'.window) /\ uc'.barrier <= uc'.current
    BY <1>2, <1>3 DEF Sound
  <2>3. uc'.taken = Position(uc')
    BY <1>3, <2>1 DEF Position
  <2> QED
    BY <1>2, <1>3, <2>1, <2>2, <2>3 DEF Sound, Base
<1> QED
  BY <1>1, <1>3, <1>4, ClientStep DEF MarkOf

\* Releasing the barrier.
LEMMA ReleaseBarrierStep ==
    ASSUME IInv, file_unpack_context_release_barrier
    PROVE  /\ IInv' /\ (WInv => WInv') /\ file' = file
           /\ uc.open /\ uc'.open = uc.open /\ uc'.return_code = uc.return_code
           /\ uc'.taken = uc.taken /\ MarkOf(uc') = NULL
<1>1. /\ uc.open /\ call = Idle /\ UNCHANGED <<call, file>>
      /\ uc' = [uc EXCEPT !.barrier = NULL]
  BY DEF file_unpack_context_release_barrier, Running
<1>2. uc \in Context /\ Sound(uc) /\ uc.current \in Nat
  BY IdleSound
<1>3. /\ uc' \in Context /\ uc'.barrier = NULL /\ uc'.mark = uc.mark
      /\ uc'.open = uc.open /\ uc'.window = uc.window /\ uc'.current = uc.current
      /\ uc'.buffer_length = uc.buffer_length /\ uc'.return_code = uc.return_code
      /\ uc'.read = uc.read /\ uc'.taken = uc.taken
      /\ uc'.realloc_failed = uc.realloc_failed
  BY <1>1, <1>2 DEF Context
<1>4. Sound(uc')
  BY <1>2, <1>3 DEF Sound, Position, Base, NULL
<1> QED
  BY <1>1, <1>3, <1>4, ClientStep DEF MarkOf
-------------------------------------------------------------------------------
(* The invariant.                                                          *)

\* Every step keeps it, and when memcpy moves right the window's bytes too.
LEMMA FileNextInvariant ==
    ASSUME IInv, [FileNext]_vars
    PROVE  IInv' /\ (MemcpyHandlesOverlap /\ WInv => WInv')
<1>1. CASE init_unpack_context
  BY <1>1, InitStep
<1>2. CASE cw_unpack_next \/ cw_skip_items \/ cw_look_ahead
  BY <1>2, CallStep
<1>3. CASE FileRoutine \/ ReadFails
  BY <1>3, FileRoutineStep
<1>4. CASE file_unpack_context_set_barrier
  BY <1>4, SetBarrierStep
<1>5. CASE file_unpack_context_rescan_from_barrier
  BY <1>5, RescanStep
<1>6. CASE file_unpack_context_release_barrier
  BY <1>6, ReleaseBarrierStep
<1>7. CASE terminate_unpack_context
  BY <1>7, TerminateStep
<1>8. CASE UNCHANGED vars
  BY <1>8, UnchangedStep
<1> QED
  BY <1>1, <1>2, <1>3, <1>4, <1>5, <1>6, <1>7, <1>8 DEF FileNext

LEMMA FileInvariantHolds == FileSpec => []IInv
<1>1. Init => IInv
  BY InitInvariant
<1>2. IInv /\ [FileNext]_vars => IInv'
  BY FileNextInvariant
<1> QED
  BY <1>1, <1>2, PTL DEF FileSpec

\* The context, the call and what it asks for are of their types.
THEOREM FileTypeCorrect == FileSpec => []TypeOK
<1>1. IInv => TypeOK
  BY InvariantImplies
<1> QED
  BY <1>1, FileInvariantHolds, PTL

\* start, barrier, current, end and the end of the buffer stay in order in
\* a running context, and a handler never reads into a full buffer.
THEOREM FilePointersStayInOrder == FileSpec => []PointersInOrder
<1>1. IInv => PointersInOrder
  BY InvariantImplies
<1> QED
  BY <1>1, FileInvariantHolds, PTL

\* However often the handler moves, fills and enlarges the buffer and the
\* client goes back to its barrier, current stands right behind the bytes
\* consumed.
THEOREM FileNoByteSkipped == FileSpec => []NothingSkipped
<1>1. IInv => NothingSkipped
  BY InvariantImplies
<1> QED
  BY <1>1, FileInvariantHolds, PTL

\* Where memcpy moves overlapping areas right, the buffer holds the bytes of
\* the file, unchanged and in order.
THEOREM FileWindowStaysFile ==
    MemcpyHandlesOverlap => (FileSpec => []WindowIsFile)
<1> SUFFICES ASSUME MemcpyHandlesOverlap PROVE FileSpec => []WindowIsFile
  OBVIOUS
<1>1. Init => IInv /\ WInv
  BY InitInvariant
<1>2. (IInv /\ WInv) /\ [FileNext]_vars => (IInv /\ WInv)'
  BY FileNextInvariant
<1>3. IInv /\ WInv => WindowIsFile
  BY InvariantImplies
<1> QED
  BY <1>1, <1>2, <1>3, PTL DEF FileSpec

\* END_OF_INPUT is told only when the whole file is consumed, and
\* BUFFER_UNDERFLOW only within an item when the file has ended, or when
\* realloc has failed.
THEOREM FileEndToldRight == FileSpec => EndIsTold
<1> DEFINE Told1 == uc.return_code = CWP_RC_OK =>
              /\ uc'.return_code = CWP_RC_END_OF_INPUT => uc'.taken = Len(file)
              /\ uc'.return_code = CWP_RC_BUFFER_UNDERFLOW =>
                    /\ call.tag # 0 \/ uc'.realloc_failed
                    /\ uc'.realloc_failed \/ uc'.read = Len(file)
<1>1. IInv /\ [FileNext]_vars => [Told1]_vars
  <2> SUFFICES ASSUME IInv, [FileNext]_vars, ~(UNCHANGED vars) PROVE Told1
    OBVIOUS
  <2>1. /\ CWP_RC_OK \notin {CWP_RC_END_OF_INPUT, CWP_RC_BUFFER_UNDERFLOW}
        /\ CWP_RC_MALLOC_ERROR \notin {CWP_RC_END_OF_INPUT, CWP_RC_BUFFER_UNDERFLOW}
        /\ CWP_RC_WRONG_BYTE_ORDER \notin {CWP_RC_END_OF_INPUT, CWP_RC_BUFFER_UNDERFLOW}
    BY DEF CWP_RC_OK, CWP_RC_END_OF_INPUT, CWP_RC_BUFFER_UNDERFLOW,
           CWP_RC_MALLOC_ERROR, CWP_RC_WRONG_BYTE_ORDER
  <2>2. CASE init_unpack_context
    BY <2>1, <2>2, InitContext
  <2>3. CASE FileRoutine \/ ReadFails
    BY <2>3, FileRoutineStep DEF Advance
  <2>4. ASSUME uc'.return_code = uc.return_code PROVE Told1
    BY <2>1, <2>4
  <2>5. CASE cw_unpack_next \/ cw_skip_items \/ cw_look_ahead
    BY <2>4, <2>5, CallStep
  <2>6. CASE file_unpack_context_set_barrier
    BY <2>4, <2>6, SetBarrierStep
  <2>7. CASE file_unpack_context_rescan_from_barrier
    BY <2>4, <2>7, RescanStep
  <2>8. CASE file_unpack_context_release_barrier
    BY <2>4, <2>8, ReleaseBarrierStep
  <2>9. CASE terminate_unpack_context
    <3>1. uc \in Context /\ uc' = [uc EXCEPT !.open = FALSE]
      BY <2>9 DEF IInv, Sound, terminate_unpack_context
    <3>2. uc'.return_code = uc.return_code
      BY <3>1 DEF Context
    <3> QED
      BY <2>4, <3>2
  <2> HIDE DEF Told1
  <2> QED
    BY <2>2, <2>3, <2>5, <2>6, <2>7, <2>8, <2>9 DEF FileNext
<1> QED
  BY <1>1, FileInvariantHolds, PTL DEF FileSpec, EndIsTold

-------------------------------------------------------------------------------
(* Refinement.                                                             *)

\* The abstract stream's mark, in the terms of its instance.
LEMMA MarkInstance ==
    ASSUME IInv, IInv', file' = file
    PROVE  /\ Position(uc) = uc.taken /\ Position(uc)' = uc'.taken
           /\ (IF uc.barrier = NULL THEN NULL
               ELSE uc.read - Len(uc.window) + uc.barrier) = MarkOf(uc)
           /\ (IF uc'.barrier = NULL THEN NULL
               ELSE uc'.read - Len(uc'.window) + uc'.barrier) = MarkOf(uc')
<1>1. Sound(uc)
  BY DEF IInv
<1>2. Sound(uc)'
  BY DEF IInv
<1>3. Sound(uc')
  BY <1>2 DEF Sound, Position, Base
<1> QED
  BY <1>1, <1>2, <1>3, ViewOfSound DEF Sound

\* Every step is one of the abstract stream's, or changes nothing it sees.
LEMMA FileNextRefines ==
    ASSUME IInv, IInv', [FileNext]_vars
    PROVE  [Stream!Next]_Stream!vars
<1>1. CASE init_unpack_context
  BY <1>1, OpenRefines DEF Stream!Next
<1>2. CASE cw_unpack_next \/ cw_skip_items \/ cw_look_ahead
  BY <1>2, CallStep, StutterRefines
<1>3. CASE FileRoutine \/ ReadFails
  BY <1>3, FileRoutineStep, AdvanceRefines DEF Stream!Next
<1>4. CASE file_unpack_context_set_barrier
  <2>1. Stream!SetMark
    BY <1>4, SetBarrierStep, MarkInstance DEF Stream!SetMark
  <2> QED
    BY <2>1 DEF Stream!Next
<1>5. CASE file_unpack_context_rescan_from_barrier
  <2>1. MarkOf(uc) # NULL
    <3>1. uc.mark \in Nat /\ uc.barrier # NULL
      BY <1>5, RescanStep DEF IInv, Sound, Context
    <3> QED
      BY <3>1 DEF MarkOf, NULL
  <2>2. Stream!GoBack
    BY <1>5, <2>1, RescanStep, MarkInstance DEF Stream!GoBack, Stream!NoMark, NULL
  <2> QED
    BY <2>2 DEF Stream!Next
<1>6. CASE file_unpack_context_release_barrier
  <2>1. Stream!ReleaseMark
    BY <1>6, ReleaseBarrierStep, MarkInstance DEF Stream!ReleaseMark, Stream!NoMark, NULL
  <2> QED
    BY <2>1 DEF Stream!Next
<1>7. CASE terminate_unpack_context
  BY <1>7, CloseRefines DEF Stream!Next
<1>8. CASE UNCHANGED vars
  <2>1. uc' = uc /\ file' = file
    BY <1>8 DEF vars
  <2> QED
    BY <2>1, StutterRefines
<1> QED
  BY <1>1, <1>2, <1>3, <1>4, <1>5, <1>6, <1>7, <1>8 DEF FileNext

\* The context implements the abstract stream: whatever read() gives at a
\* time and wherever the handler moves the bytes, the client consumes the
\* file in order, goes back only to its barrier, and is told the end only at
\* the end.
THEOREM FileUnpackImplementsStream == FileSpec => ImplementsStream
<1>1. Init => Stream!Init
  BY InitRefines
<1>2. IInv /\ IInv' /\ [FileNext]_vars => [Stream!Next]_Stream!vars
  BY FileNextRefines
<1> QED
  BY <1>1, <1>2, FileInvariantHolds, PTL DEF FileSpec, ImplementsStream, Stream!Spec

-------------------------------------------------------------------------------
(* The stream unpack context.  Its handler answers OK when fread gave any  *)
(* bytes at all, so the results need input no item of which is cut off,    *)
(* and an fread that gives what there is: WholeInput.  The run             *)
(* stream_unpack_cut shows what happens without.                           *)

WholeInput == ~PartialReads /\ \A f \in Files : EndsWithItem(f)

\* A routine other than cw_look_ahead at a tag: where the item may end.
Ends(B) == Behind(Error(file[call.tag]), file, B)

\* Where a running context stands: between calls and at a tag between two
\* items, and within an item what is still to be asked for is in the file.
Placed(B) ==
    uc.return_code = CWP_RC_OK =>
        IF call.op = "none" \/ call.tag = 0 THEN uc.taken \in B
        ELSE IF call.op = "ahead"
        THEN /\ uc.taken \in B
             /\ \A i \in 1 .. Len(call.asks) : uc.taken + call.asks[i] <= Len(file)
        ELSE Lands(call.asks, uc.taken, file, Ends(B))

\* What the input adds to the invariant; there is never a barrier.
PInv ==
    /\ uc.barrier = NULL
    /\ \E B \in SUBSET (0 .. Len(file)) : BetweenItems(file, B) /\ Placed(B)

SInv == IInv /\ WInv /\ PInv

-------------------------------------------------------------------------------
(* Where the bytes asked for lie.                                          *)

\* After the first byte count the others still land where they did.
LEMMA LandsStep ==
    ASSUME NEW asks \in Seq(Nat), asks # <<>>, NEW p, NEW f, Len(f) \in Nat,
           NEW ends, Lands(asks, p, f, ends)
    PROVE  /\ Lands(Tail(asks), p + Head(asks), f, ends)
           /\ p + Head(asks) \in 0 .. Len(f)
<1> DEFINE n == Len(asks)
<1>1. /\ n \in Nat \ {0} /\ Head(asks) = asks[1]
      /\ Len(Tail(asks)) = n - 1
      /\ \A i \in 1 .. n - 1 : Tail(asks)[i] = asks[i + 1]
  BY HeadTailProperties, EmptySeq, LenProperties
<1>2. PICK at \in [0 .. n -> 0 .. Len(f)] :
         /\ at[0] = p
         /\ \A i \in 1 .. n : at[i] = at[i - 1] + asks[i]
         /\ at[n] \in ends
  BY DEF Lands
<1>3. at[1] = p + Head(asks) /\ at[1] \in 0 .. Len(f)
  <2>1. 1 \in 1 .. n /\ 1 - 1 = 0
    BY <1>1
  <2>2. at[1] = at[1 - 1] + asks[1]
    BY <1>2, <2>1
  <2>3. 1 \in 0 .. n
    BY <1>1
  <2> QED
    BY <1>1, <1>2, <2>1, <2>2, <2>3
<1> DEFINE next == [i \in 0 .. n - 1 |-> at[i + 1]]
<1>4. next \in [0 .. n - 1 -> 0 .. Len(f)]
  <2>1. \A i \in 0 .. n - 1 : i + 1 \in 0 .. n
    BY <1>1
  <2> QED
    BY <1>2, <2>1
<1>5. next[0] = p + Head(asks)
  BY <1>1, <1>3
<1>6. \A i \in 1 .. n - 1 : next[i] = next[i - 1] + Tail(asks)[i]
  <2> SUFFICES ASSUME NEW i \in 1 .. n - 1
               PROVE  next[i] = next[i - 1] + Tail(asks)[i]
    OBVIOUS
  <2>1. /\ i \in 0 .. n - 1 /\ i - 1 \in 0 .. n - 1
        /\ i + 1 \in 1 .. n /\ (i + 1) - 1 = i /\ (i - 1) + 1 = i
    BY <1>1
  <2>2. at[i + 1] = at[(i + 1) - 1] + asks[i + 1]
    BY <1>2, <2>1
  <2> QED
    BY <1>1, <2>1, <2>2
<1>7. next[n - 1] \in ends
  <2>1. n - 1 \in 0 .. n - 1 /\ (n - 1) + 1 = n
    BY <1>1
  <2> QED
    BY <1>2, <2>1
<1> HIDE DEF next, n
<1>8. Lands(Tail(asks), p + Head(asks), f, ends)
  BY <1>1, <1>4, <1>5, <1>6, <1>7 DEF Lands
<1> QED
  BY <1>3, <1>8

\* When nothing is left to ask for, the routine is where the item may end.
LEMMA LandsEmpty ==
    ASSUME NEW p, NEW f, NEW ends, Lands(<<>>, p, f, ends)
    PROVE  p \in ends
<1>1. Len(<<>>) = 0
  BY EmptySeq
<1> QED
  BY <1>1 DEF Lands

\* In an empty file the start is the only position.
LEMMA EmptyBetween == BetweenItems(<<>>, {0})
<1>1. Len(<<>>) = 0
  BY EmptySeq
<1> QED
  BY <1>1 DEF BetweenItems

-------------------------------------------------------------------------------
(* An ask that is granted.                                                 *)

\* Between calls, at a tag and within an item a routine is placed where the
\* input goes on as its items say.
LEMMA GrantedPlaced ==
    ASSUME IInv, call.op # "none",
           NEW B \in SUBSET (0 .. Len(file)), BetweenItems(file, B), Placed(B),
           NEW c, Sound(c), Fits(c), c.taken = uc.taken,
           Granted(c), file' = file
    PROVE  Placed(B)'
<1> DEFINE tag  == TagOf(c)
           b    == file[tag]
           all  == IF call.tag = 0 THEN Asks(b) ELSE call.asks
           rest == Tail(all)
           left == call.left - 1 + Children(b)
           code == IF rest = <<>> THEN Error(b) ELSE CWP_RC_OK
           n    == IF call.op = "ahead" THEN 0 ELSE Want
           T    == Behind(Error(b), file, B)
<1>1. /\ Engaged /\ call \in Calls /\ call.op \in {"next", "skip", "ahead"}
      /\ call.asks \in Seq(Nat) /\ call.asks # <<>> /\ call.tag \in Nat
      /\ Want \in Nat /\ Want = Head(call.asks) /\ (call.tag = 0 => Want = 1)
      /\ Len(file) \in Nat /\ uc.return_code = CWP_RC_OK
  BY EngagedFacts DEF Engaged, Want
<1>2. tag \in 1 .. Len(file) /\ b \in Byte
  BY TagInFile
<1>3. /\ Asks(b) \in Seq(Nat) /\ Asks(b) # <<>>
      /\ call.op = "next" => Asks(b) = b.next /\ Error(b) = b.next_rc
      /\ call.op = "skip" => Asks(b) = b.skip /\ Error(b) = b.skip_rc
      /\ call.op = "ahead" => Asks(b) = b.ahead
  <2>1. b.next # <<>> /\ b.skip # <<>> /\ b.ahead # <<>>
    BY <1>2 DEF IInv
  <2> HIDE DEF tag, b
  <2> QED
    BY <1>1, <1>2, <2>1 DEF Asks, Error, Byte
<1>4. c \in Context /\ uc.taken \in Nat /\ Position(c) = uc.taken
      /\ (call.tag = 0 => tag = uc.taken + 1) /\ (call.tag # 0 => tag = call.tag)
  BY DEF Sound, TagOf, IInv, Context
<1>5. /\ all \in Seq(Nat) /\ all # <<>> /\ rest \in Seq(Nat)
      /\ Len(rest) = Len(all) - 1 /\ Len(all) \in Nat \ {0}
      /\ \A i \in 1 .. Len(rest) : i + 1 \in 1 .. Len(all) /\ rest[i] = all[i + 1]
  <2>1. all \in Seq(Nat) /\ all # <<>>
    BY <1>1, <1>3
  <2> HIDE DEF all
  <2>2. /\ rest \in Seq(Nat) /\ Len(rest) = Len(all) - 1
        /\ \A i \in 1 .. Len(all) - 1 : rest[i] = all[i + 1]
    BY <2>1, HeadTailProperties
  <2>3. Len(all) \in Nat \ {0}
    BY <2>1, EmptySeq, LenProperties
  <2> QED
    BY <2>1, <2>2, <2>3
<1>6. uc'.return_code = code /\ uc'.taken = uc.taken + n
  <2>1. uc' = [Step(c) EXCEPT !.return_code = code]
    BY DEF Granted, TagOf
  <2> HIDE DEF code
  <2>2. CASE call.op = "ahead"
    BY <1>1, <1>4, <2>1, <2>2 DEF Step, Context
  <2>3. CASE call.op # "ahead"
    BY <1>1, <1>4, <2>1, <2>3 DEF Step, Context
  <2> QED
    BY <2>2, <2>3
<1>7. call' = IF rest # <<>>
              THEN [call EXCEPT !.asks = rest, !.tag = tag, !.reading = FALSE]
              ELSE IF code = CWP_RC_OK /\ left > 0
              THEN [call EXCEPT !.asks = <<1>>, !.tag = 0, !.left = left,
                                !.reading = FALSE]
              ELSE Idle
  BY DEF Granted, TagOf
<1>8. rest # <<>> => /\ call'.op = call.op /\ call'.asks = rest
                     /\ call'.tag = tag /\ call'.tag # 0
  <2> HIDE DEF rest, left, code, tag
  <2> QED
    BY <1>1, <1>2, <1>7 DEF Calls
<1>9. rest = <<>> => call'.op = "none" \/ call'.tag = 0
  <2> HIDE DEF rest, left, code, tag
  <2> QED
    BY <1>1, <1>7, IdleCall DEF Calls
<1>10. call.tag = 0 => /\ uc.taken \in B \ {Len(file)}
                       /\ b = file[uc.taken + 1]
  BY <1>1, <1>2, <1>4 DEF Placed
<1> HIDE DEF left
<1>11. CASE call.op = "ahead"
  <2>1. uc.taken \in B /\ n = 0
    BY <1>1, <1>11 DEF Placed
  <2>2. uc'.taken = uc.taken
    BY <1>4, <1>6, <2>1
  <2>3. \A i \in 1 .. Len(all) : uc.taken + all[i] <= Len(file)
    <3>1. CASE call.tag = 0
      BY <1>3, <1>10, <1>11, <3>1 DEF BetweenItems
    <3>2. CASE call.tag # 0
      BY <1>1, <1>11, <3>2 DEF Placed
    <3> QED
      BY <3>1, <3>2
  <2>4. \A i \in 1 .. Len(rest) : uc'.taken + rest[i] <= Len(file)
    BY <1>5, <2>2, <2>3
  <2> HIDE DEF rest, tag
  <2> QED
    BY <1>8, <1>9, <1>11, <2>1, <2>2, <2>4 DEF Placed
<1>12. CASE call.op # "ahead"
  <2>1. Lands(rest, uc'.taken, file, T)
    <3>1. uc'.taken = uc.taken + Want
      BY <1>6, <1>12
    <3>2. CASE call.tag = 0
      <4>1. uc'.taken = uc.taken + 1 /\ rest = Tail(Asks(b))
        BY <1>1, <3>1, <3>2
      <4>2. /\ Lands(Tail(b.next), uc.taken + 1, file, Behind(b.next_rc, file, B))
            /\ Lands(Tail(b.skip), uc.taken + 1, file, Behind(b.skip_rc, file, B))
        BY <1>10, <3>2 DEF BetweenItems
      <4> QED
        BY <1>1, <1>3, <1>12, <4>1, <4>2
    <3>3. CASE call.tag # 0
      <4>1. Lands(call.asks, uc.taken, file, T)
        BY <1>1, <1>4, <1>12, <3>3 DEF Placed, Ends
      <4>2. rest = Tail(call.asks)
        BY <3>3
      <4> HIDE DEF T, rest
      <4> QED
        BY <1>1, <3>1, <4>1, <4>2, LandsStep
    <3> QED
      BY <3>2, <3>3
  <2>2. CASE rest # <<>>
    <3>1. call'.op = call.op /\ call'.asks = rest /\ call'.tag = tag /\ call'.tag # 0
      BY <1>8, <2>2
    <3>2. Ends(B)' = T
      BY <1>12, <3>1 DEF Ends, Behind, Error
    <3> HIDE DEF T, rest
    <3> QED
      BY <1>1, <1>12, <2>1, <3>1, <3>2 DEF Placed
  <2>3. CASE rest = <<>>
    <3>1. uc'.taken \in T
      BY <2>1, <2>3, LandsEmpty
    <3>2. code = CWP_RC_OK => T = B
      BY <2>3 DEF Behind
    <3> HIDE DEF T, rest, code
    <3> QED
      BY <1>6, <1>9, <2>3, <3>1, <3>2 DEF Placed
  <2> QED
    BY <2>2, <2>3
<1> QED
  BY <1>11, <1>12

\* fread gave what there is, and no item of the file is cut off: the bytes
\* asked for have come.
LEMMA FreadFits ==
    ASSUME IInv, call.op # "none", call.reading, Remaining(uc) > 0,
           NEW B \in SUBSET (0 .. Len(file)), Placed(B)
    PROVE  Fits(Filled(uc, Remaining(uc)))
<1> DEFINE l == Remaining(uc)
           c == Filled(uc, l)
<1>1. /\ Engaged /\ Sound(uc) /\ uc \in Context /\ file \in Seq(Byte)
      /\ call \in Calls /\ call.asks \in Seq(Nat) /\ call.asks # <<>>
      /\ Want \in Nat /\ Want = Head(call.asks) /\ (call.tag = 0 => Want = 1)
      /\ Len(file) \in Nat /\ uc.return_code = CWP_RC_OK
      /\ uc.current + Want <= uc.buffer_length
  BY EngagedFacts DEF Engaged, Want, IInv
<1>2. /\ uc.current \in Nat /\ Len(uc.window) \in Nat /\ uc.read \in Nat
      /\ uc.buffer_length \in Nat /\ uc.taken \in Nat
      /\ uc.current <= Len(uc.window) /\ uc.read <= Len(file)
      /\ Len(uc.window) <= uc.buffer_length
      /\ uc.taken = uc.read - Len(uc.window) + uc.current
  BY <1>1, LenProperties DEF Sound, Context, Position
<1>3. /\ l \in Nat \ {0}
      /\ \/ l = uc.buffer_length - Len(uc.window)
         \/ l = Len(file) - uc.read
      /\ uc.read + l <= Len(file)
  <2> DEFINE room == uc.buffer_length - Len(uc.window)
             rest == Len(file) - uc.read
  <2>1. room \in Nat /\ rest \in Nat
    BY <1>1, <1>2, SMTT(30)
  <2>2. l = IF room < rest THEN room ELSE rest
    BY DEF Remaining, Room
  <2>3. l > 0
    OBVIOUS
  <2> HIDE DEF l, room, rest
  <2>4. l \in Nat \ {0} /\ (l = room \/ l = rest) /\ l <= rest
    BY <2>1, <2>2, <2>3
  <2>5. uc.read + l <= Len(file)
    BY <1>1, <1>2, <2>4 DEF rest
  <2> QED
    BY <2>4, <2>5 DEF room, rest
<1> HIDE DEF c, l
<1>4. uc.taken + Want <= Len(file)
  <2>1. CASE call.tag = 0
    <3> DEFINE length == Len(uc.window)
               size == Len(file)
    <3>1. /\ length \in Nat /\ size \in Nat /\ uc.read \in Nat /\ uc.current \in Nat
          /\ uc.taken = uc.read - length + uc.current /\ uc.current <= length
          /\ l \in Nat \ {0} /\ uc.read + l <= size /\ Want = 1
      BY <1>1, <1>2, <1>3, <2>1
    <3> HIDE DEF length, size
    <3>2. uc.taken <= uc.read /\ uc.taken + 1 <= size
      BY <3>1
    <3> QED
      BY <3>1, <3>2 DEF size
  <2>2. CASE call.tag # 0 /\ call.op = "ahead"
    <3>1. 1 \in 1 .. Len(call.asks) /\ Want = call.asks[1]
      BY <1>1, EmptySeq, LenProperties
    <3> QED
      BY <1>1, <2>2, <3>1 DEF Placed
  <2>3. CASE call.tag # 0 /\ call.op # "ahead"
    <3>1. Lands(call.asks, uc.taken, file, Ends(B))
      BY <1>1, <2>3 DEF Placed
    <3> QED
      BY <1>1, <3>1, LandsStep
  <2> QED
    BY <2>1, <2>2, <2>3
<1>5. c.current = uc.current /\ Len(c.window) = Len(uc.window) + l
  <2>1. l \in 0 .. Remaining(uc)
    BY <1>3 DEF l
  <2> QED
    BY <1>1, <2>1, FilledSound DEF c
<1>6. uc.current + Want <= Len(uc.window) + l
  <2> DEFINE length == Len(uc.window)
             size == Len(file)
  <2>1. /\ length \in Nat /\ size \in Nat /\ uc.read \in Nat /\ uc.current \in Nat
        /\ Want \in Nat /\ uc.buffer_length \in Nat /\ l \in Nat
        /\ (l = uc.buffer_length - length \/ l = size - uc.read)
        /\ uc.current + Want <= uc.buffer_length
        /\ (uc.read - length + uc.current) + Want <= size
    BY <1>1, <1>2, <1>3, <1>4
  <2> HIDE DEF length, size
  <2>2. uc.current + Want <= length + l
    BY <2>1, SMTT(30)
  <2> QED
    BY <2>2 DEF length
<1>7. Fits(c)
  BY <1>5, <1>6 DEF Fits
<1> QED
  BY <1>7 DEF c, l

-------------------------------------------------------------------------------
(* The steps.                                                              *)

\* A step that stops the context, or none at all in what Placed looks at.
LEMMA StaysPlaced ==
    ASSUME NEW B, Placed(B), file' = file, uc'.taken = uc.taken,
           \/ uc'.return_code # CWP_RC_OK
           \/ /\ uc'.return_code = uc.return_code
              /\ call'.op = call.op /\ call'.asks = call.asks /\ call'.tag = call.tag
    PROVE  Placed(B)'
BY DEF Placed, Ends, Behind, Error

\* init_unpack_context begins between two items of its file.
LEMMA InitPlaced ==
    ASSUME WholeInput, IInv, init_unpack_context
    PROVE  PInv'
<1>1. uc'.barrier = NULL /\ uc'.taken = 0
  BY InitContext
<1>2. EndsWithItem(file')
  BY DEF WholeInput, init_unpack_context
<1>3. PICK B \in SUBSET (0 .. Len(file')) : BetweenItems(file', B)
  BY <1>2 DEF EndsWithItem
<1>4. 0 \in B
  BY <1>3 DEF BetweenItems
<1>5. call' = Idle
  BY IdleCall DEF init_unpack_context, IInv, Engaged
<1>6. Placed(B)'
  BY <1>1, <1>4, <1>5, IdleCall DEF Placed
<1> QED
  BY <1>1, <1>3, <1>6 DEF PInv

\* The other steps of the client leave the context where it is.
LEMMA ClientPlaced ==
    ASSUME IInv, PInv,
           \/ cw_unpack_next \/ cw_skip_items \/ cw_look_ahead
           \/ terminate_unpack_context \/ UNCHANGED vars
    PROVE  PInv'
<1>1. PICK B \in SUBSET (0 .. Len(file)) : BetweenItems(file, B) /\ Placed(B)
  BY DEF PInv
<1>2. uc \in Context /\ uc.barrier = NULL
  BY DEF IInv, Sound, PInv
<1>3. /\ file' = file /\ uc'.barrier = NULL /\ uc'.taken = uc.taken
      /\ uc'.return_code = uc.return_code
  BY <1>2 DEF cw_unpack_next, cw_skip_items, cw_look_ahead, Begin,
              terminate_unpack_context, vars, Context
<1>4. Placed(B)'
  <2>1. CASE cw_unpack_next \/ cw_skip_items \/ cw_look_ahead
    <3>1. call.op = "none" /\ call'.tag = 0
      BY <2>1, IdleCall DEF cw_unpack_next, cw_skip_items, cw_look_ahead, Begin, Ready
    <3> QED
      BY <1>1, <1>3, <3>1 DEF Placed
  <2>2. CASE terminate_unpack_context \/ UNCHANGED vars
    <3>1. call' = call
      BY <2>2 DEF terminate_unpack_context, vars
    <3> QED
      BY <1>1, <1>3, <3>1, StaysPlaced
  <2> QED
    BY <2>1, <2>2
<1> QED
  BY <1>1, <1>3, <1>4 DEF PInv

\* The bytes asked for are in the buffer.
LEMMA AssertSpacePlaced ==
    ASSUME IInv, PInv, AssertSpace
    PROVE  PInv'
<1>1. PICK B \in SUBSET (0 .. Len(file)) : BetweenItems(file, B) /\ Placed(B)
  BY DEF PInv
<1>2. call.op # "none" /\ Fits(uc) /\ Granted(uc) /\ Sound(uc) /\ file' = file
  BY DEF AssertSpace, IInv
<1>3. Placed(B)'
  BY <1>1, <1>2, GrantedPlaced
<1>4. uc'.barrier = NULL
  BY AssertSpaceStep DEF PInv
<1> QED
  BY <1>1, <1>2, <1>3, <1>4 DEF PInv

\* memmove takes the bytes not consumed to the start.
LEMMA StreamUnderflowStep ==
    ASSUME IInv, WInv, PInv, StreamUnderflow
    PROVE  SInv' /\ Advance
<1>1. /\ Sound(uc) /\ uc.window \in Seq(Nat) /\ uc.barrier = NULL
      /\ uc.current \in Nat /\ Len(uc.window) \in Nat /\ uc.read \in Nat
      /\ uc.current <= Len(uc.window) /\ Len(uc.window) <= uc.read
      /\ uc.taken \in Nat /\ Kept(uc) = 0
  BY KeptFacts DEF IInv, Sound, Context, PInv, Kept
<1>2. CallHandler(MakeRoom(uc, {Remains(uc)}))
  BY DEF StreamUnderflow, handle_stream_unpack_underflow
<1>3. /\ Remains(uc) \in Seq(Nat)
      /\ Len(Remains(uc)) = Len(uc.window) - (uc.current - Kept(uc))
  <2>1. Remains(uc) \in Moved(uc.window, uc.current, TRUE)
    BY DEF Remains, Moved
  <2>2. uc.current \in 0 .. Len(uc.window)
    BY <1>1
  <2>3. Remains(uc) \in Seq(Nat) /\ Len(Remains(uc)) = Len(uc.window) - uc.current
    BY <1>1, <2>1, <2>2, MovedLength
  <2> QED
    BY <1>1, <2>3
<1>4. /\ IInv'
      /\ uc.open /\ uc.return_code = CWP_RC_OK /\ file' = file
      /\ uc'.open = uc.open /\ uc'.read = uc.read /\ uc'.taken = uc.taken
      /\ uc'.barrier = NULL
      /\ uc'.return_code = CWP_RC_OK => call' = [call EXCEPT !.reading = TRUE]
      /\ \/ /\ uc'.return_code = CWP_RC_OK /\ ~uc'.realloc_failed
            /\ uc'.window = Remains(uc)
         \/ uc'.return_code = CWP_RC_BUFFER_UNDERFLOW /\ uc'.realloc_failed
  BY <1>1, <1>2, <1>3, HandlerStep
<1>5. Advance
  <2>1. /\ CWP_RC_BUFFER_UNDERFLOW # CWP_RC_END_OF_INPUT
        /\ CWP_RC_OK # CWP_RC_END_OF_INPUT /\ CWP_RC_OK # CWP_RC_BUFFER_UNDERFLOW
    BY DEF CWP_RC_BUFFER_UNDERFLOW, CWP_RC_END_OF_INPUT, CWP_RC_OK
  <2> QED
    BY <1>1, <1>4, <2>1 DEF Advance, MarkOf
<1>6. WInv'
  <2> SUFFICES ASSUME ~uc'.realloc_failed PROVE WindowNumbered(uc')
    BY DEF WInv, WindowNumbered, Base
  <2>1. uc'.window = SubSeq(uc.window, uc.current + 1, Len(uc.window))
    BY <1>4 DEF Remains
  <2>2. Base(uc) \in Nat /\ Numbered(uc.window, Base(uc))
    <3>1. ~uc.realloc_failed
      BY <1>4 DEF IInv
    <3> QED
      BY <1>1, <3>1 DEF WInv, WindowNumbered, Base
  <2>3. /\ Len(uc'.window) = Len(uc.window) - uc.current
        /\ Numbered(uc'.window, Base(uc) + uc.current)
    <3>1. uc.current \in 0 .. Len(uc.window)
      BY <1>1
    <3> QED
      BY <1>1, <2>1, <2>2, <3>1, RestNumbered
  <2>4. Base(uc') = Base(uc) + uc.current
    BY <1>1, <1>4, <2>3 DEF Base
  <2> QED
    BY <2>3, <2>4 DEF WindowNumbered
<1>7. PInv'
  <2>1. PICK B \in SUBSET (0 .. Len(file)) : BetweenItems(file, B) /\ Placed(B)
    BY DEF PInv
  <2>2. CWP_RC_BUFFER_UNDERFLOW # CWP_RC_OK /\ call \in Calls
    BY DEF CWP_RC_BUFFER_UNDERFLOW, CWP_RC_OK, IInv
  <2>3. \/ uc'.return_code # CWP_RC_OK
        \/ /\ uc'.return_code = uc.return_code
           /\ call'.op = call.op /\ call'.asks = call.asks /\ call'.tag = call.tag
    BY <1>4, <2>2 DEF Calls
  <2>4. Placed(B)'
    BY <1>4, <2>1, <2>3, StaysPlaced
  <2> QED
    BY <1>4, <2>1, <2>4 DEF PInv
<1> QED
  BY <1>4, <1>5, <1>6, <1>7 DEF SInv

\* The handler stops the context.
LEMMA StoppedPlaced ==
    ASSUME IInv, PInv, NEW code \in ReturnCodes \ {CWP_RC_OK},
           Stopped(uc, code), file' = file
    PROVE  PInv'
<1>1. PICK B \in SUBSET (0 .. Len(file)) : BetweenItems(file, B) /\ Placed(B)
  BY DEF PInv
<1>2. /\ uc'.barrier = uc.barrier /\ uc'.taken = uc.taken
      /\ uc'.return_code = Told(code)
  BY StoppedStep DEF IInv
<1>3. Told(code) # CWP_RC_OK
  BY DEF Told, CWP_RC_OK, CWP_RC_BUFFER_UNDERFLOW
<1>4. Placed(B)'
  BY <1>1, <1>2, <1>3, StaysPlaced
<1> QED
  BY <1>1, <1>2, <1>4 DEF PInv

\* fread gives what there is.
LEMMA FreadStep ==
    ASSUME WholeInput, IInv, WInv, PInv, Fread
    PROVE  SInv' /\ Advance
<1>1. call.reading /\ call.op # "none" /\ file' = file
  BY IdleCall DEF Fread, IInv
<1>2. ASSUME Remaining(uc) > 0, Granted(Filled(uc, Remaining(uc)))
      PROVE  SInv' /\ Advance
  <2> DEFINE l == Remaining(uc)
             c == Filled(uc, l)
  <2>1. PICK B \in SUBSET (0 .. Len(file)) : BetweenItems(file, B) /\ Placed(B)
    BY DEF PInv
  <2>2. Fits(c)
    BY <1>1, <1>2, <2>1, FreadFits
  <2>3. /\ Sound(uc) /\ ~uc.realloc_failed /\ file \in Seq(Byte) /\ uc.open
        /\ uc.return_code = CWP_RC_OK /\ Want \in Nat /\ uc.taken \in Nat
    BY <1>1, EngagedFacts DEF Engaged, IInv, Context
  <2>4. l \in 0 .. Remaining(uc)
    <3>1. uc.buffer_length \in Nat /\ Len(uc.window) \in Nat /\ uc.read \in Nat
          /\ Len(file) \in Nat
      BY <2>3, LenProperties DEF Sound, Context
    <3> QED
      BY <1>2, <3>1 DEF Remaining, Room
  <2>5. /\ Sound(c)
        /\ c.open = uc.open /\ c.return_code = uc.return_code
        /\ c.barrier = uc.barrier /\ c.taken = uc.taken /\ c.mark = uc.mark
        /\ c.realloc_failed = uc.realloc_failed
        /\ Position(c) = Position(uc)
        /\ WindowNumbered(uc) => WindowNumbered(c)
    BY <2>3, <2>4, FilledSound
  <2>6. Granted(c)
    BY <1>2
  <2> HIDE DEF c, l
  <2>7. /\ IInv'
        /\ uc'.open = c.open /\ uc'.window = c.window /\ uc'.read = c.read
        /\ uc'.barrier = c.barrier /\ uc'.mark = c.mark
        /\ ~uc'.realloc_failed
        /\ uc'.return_code \in ItemErrors
        /\ Position(uc)' \in {Position(c), Position(c) + Want}
    BY <1>1, <2>2, <2>3, <2>5, <2>6, GrantedStep
  <2>8. uc'.taken >= uc.taken
    <3>1. uc'.taken = Position(uc)' /\ uc.taken = Position(uc)
      BY <2>3, <2>7 DEF IInv, Sound
    <3> QED
      BY <2>3, <2>5, <2>7, <3>1
  <2>9. Advance
    BY <1>1, <2>3, <2>5, <2>7, <2>8, ItemErrorsDiffer DEF Advance, MarkOf
  <2>10. WInv'
    BY <2>3, <2>5, <2>7 DEF WInv, WindowNumbered, Base
  <2>11. Placed(B)'
    BY <1>1, <2>1, <2>2, <2>5, <2>6, GrantedPlaced
  <2>12. PInv'
    BY <1>1, <2>1, <2>5, <2>7, <2>11 DEF PInv
  <2> QED
    BY <2>7, <2>9, <2>10, <2>12 DEF SInv
<1>3. ASSUME Remaining(uc) = 0, Stopped(uc, CWP_RC_END_OF_INPUT)
      PROVE  SInv' /\ Advance
  <2>1. CWP_RC_END_OF_INPUT \in ReturnCodes \ {CWP_RC_OK}
    BY DEF CWP_RC_END_OF_INPUT, ReturnCodes, CWP_RC_OK
  <2> QED
    BY <1>1, <1>3, <2>1, EndAdvances, StoppedPlaced DEF SInv
<1>4. \/ Remaining(uc) > 0 /\ Granted(Filled(uc, Remaining(uc)))
      \/ Remaining(uc) = 0 /\ Stopped(uc, CWP_RC_END_OF_INPUT)
  <2> DEFINE r == Remaining(uc)
  <2>1. r \in Int
    BY LenProperties DEF Remaining, Room, IInv, Sound, Context
  <2>2. \/ r > 0 /\ \E l \in r .. r : Granted(Filled(uc, l))
        \/ r = 0 /\ Stopped(uc, CWP_RC_END_OF_INPUT)
    BY DEF Fread, WholeInput
  <2> HIDE DEF r
  <2>3. \A l \in r .. r : l = r
    BY <2>1
  <2>4. \/ r > 0 /\ Granted(Filled(uc, r))
        \/ r = 0 /\ Stopped(uc, CWP_RC_END_OF_INPUT)
    BY <2>2, <2>3
  <2> QED
    BY <2>4 DEF r
<1> QED
  BY <1>2, <1>3, <1>4

\* fread meets an error before it gives any byte.
LEMMA FreadFailsStep ==
    ASSUME IInv, WInv, PInv, FreadFails
    PROVE  SInv' /\ Advance
<1>1. CWP_RC_ERROR_IN_HANDLER \in ReturnCodes \ {CWP_RC_OK}
  BY DEF CWP_RC_ERROR_IN_HANDLER, ReturnCodes, CWP_RC_OK
<1> QED
  BY <1>1, ErrorAdvances, StoppedPlaced DEF FreadFails, SInv

\* A step of the routine under way.
LEMMA StreamRoutineStep ==
    ASSUME WholeInput, SInv, StreamRoutine \/ FreadFails
    PROVE  SInv' /\ Advance
<1>1. CASE AssertSpace
  BY <1>1, AssertSpaceAdvances, AssertSpacePlaced DEF SInv
<1>2. CASE StreamUnderflow
  BY <1>2, StreamUnderflowStep DEF SInv
<1>3. CASE Fread
  BY <1>3, FreadStep DEF SInv
<1>4. CASE FreadFails
  BY <1>4, FreadFailsStep DEF SInv
<1> QED
  BY <1>1, <1>2, <1>3, <1>4 DEF StreamRoutine

-------------------------------------------------------------------------------
(* The invariant.                                                          *)

LEMMA InitSInv == Init => SInv
<1> SUFFICES ASSUME Init PROVE SInv
  OBVIOUS
<1>1. uc.barrier = NULL /\ uc.taken = 0 /\ file = <<>> /\ call = Idle
  BY DEF Init, Closed
<1>2. {0} \in SUBSET (0 .. Len(file)) /\ BetweenItems(file, {0})
  BY <1>1, EmptySeq, EmptyBetween
<1>3. Placed({0})
  BY <1>1, IdleCall DEF Placed
<1> QED
  BY <1>1, <1>2, <1>3, InitInvariant DEF SInv, PInv

LEMMA StreamNextInvariant ==
    ASSUME WholeInput, SInv, [StreamNext]_vars
    PROVE  SInv'
<1>1. CASE init_unpack_context
  BY <1>1, InitStep, InitPlaced DEF SInv
<1>2. CASE cw_unpack_next \/ cw_skip_items \/ cw_look_ahead
  BY <1>2, CallStep, ClientPlaced DEF SInv
<1>3. CASE StreamRoutine \/ FreadFails
  BY <1>3, StreamRoutineStep
<1>4. CASE terminate_unpack_context
  BY <1>4, TerminateStep, ClientPlaced DEF SInv
<1>5. CASE UNCHANGED vars
  BY <1>5, UnchangedStep, ClientPlaced DEF SInv
<1> QED
  BY <1>1, <1>2, <1>3, <1>4, <1>5 DEF StreamNext

LEMMA StreamInvariantHolds == WholeInput => (StreamSpec => []SInv)
<1> SUFFICES ASSUME WholeInput PROVE StreamSpec => []SInv
  OBVIOUS
<1>1. Init => SInv
  BY InitSInv
<1>2. SInv /\ [StreamNext]_vars => SInv'
  BY StreamNextInvariant
<1> QED
  BY <1>1, <1>2, PTL DEF StreamSpec

\* On input no item of which is cut off, current never passes end, end never
\* the end of the buffer, and fread is never asked for no bytes.
THEOREM StreamPointersStayInOrder == WholeInput => (StreamSpec => []PointersInOrder)
<1> SUFFICES ASSUME WholeInput PROVE StreamSpec => []PointersInOrder
  OBVIOUS
<1>1. SInv => PointersInOrder
  BY InvariantImplies DEF SInv
<1> QED
  BY <1>1, StreamInvariantHolds, PTL

\* The buffer holds the bytes of the stream read last, unchanged and in order,
\* through every move to the start and every realloc.
THEOREM StreamWindowStaysFile == WholeInput => (StreamSpec => []WindowIsFile)
<1> SUFFICES ASSUME WholeInput PROVE StreamSpec => []WindowIsFile
  OBVIOUS
<1>1. SInv => WindowIsFile
  BY InvariantImplies DEF SInv
<1> QED
  BY <1>1, StreamInvariantHolds, PTL

\* current stands right behind the bytes consumed, wherever the handler has
\* moved them: none is skipped or given twice.
THEOREM StreamNoByteSkipped == WholeInput => (StreamSpec => []NothingSkipped)
<1> SUFFICES ASSUME WholeInput PROVE StreamSpec => []NothingSkipped
  OBVIOUS
<1>1. SInv => NothingSkipped
  BY InvariantImplies DEF SInv
<1> QED
  BY <1>1, StreamInvariantHolds, PTL

\* END_OF_INPUT is told only when the whole stream is consumed, and
\* BUFFER_UNDERFLOW only within an item, or when realloc has failed.
THEOREM StreamEndToldRight == WholeInput => (StreamSpec => EndIsTold)
<1> SUFFICES ASSUME WholeInput PROVE StreamSpec => EndIsTold
  OBVIOUS
<1> DEFINE Told1 == uc.return_code = CWP_RC_OK =>
              /\ uc'.return_code = CWP_RC_END_OF_INPUT => uc'.taken = Len(file)
              /\ uc'.return_code = CWP_RC_BUFFER_UNDERFLOW =>
                    /\ call.tag # 0 \/ uc'.realloc_failed
                    /\ uc'.realloc_failed \/ uc'.read = Len(file)
<1>1. SInv /\ [StreamNext]_vars => [Told1]_vars
  <2> SUFFICES ASSUME SInv, [StreamNext]_vars, ~(UNCHANGED vars) PROVE Told1
    OBVIOUS
  <2>1. /\ CWP_RC_OK \notin {CWP_RC_END_OF_INPUT, CWP_RC_BUFFER_UNDERFLOW}
        /\ CWP_RC_MALLOC_ERROR \notin {CWP_RC_END_OF_INPUT, CWP_RC_BUFFER_UNDERFLOW}
        /\ CWP_RC_WRONG_BYTE_ORDER \notin {CWP_RC_END_OF_INPUT, CWP_RC_BUFFER_UNDERFLOW}
    BY DEF CWP_RC_OK, CWP_RC_END_OF_INPUT, CWP_RC_BUFFER_UNDERFLOW,
           CWP_RC_MALLOC_ERROR, CWP_RC_WRONG_BYTE_ORDER
  <2>2. CASE init_unpack_context
    BY <2>1, <2>2, InitContext
  <2>3. CASE StreamRoutine \/ FreadFails
    BY <2>3, StreamRoutineStep DEF Advance
  <2>4. ASSUME uc'.return_code = uc.return_code PROVE Told1
    BY <2>1, <2>4
  <2>5. CASE cw_unpack_next \/ cw_skip_items \/ cw_look_ahead
    BY <2>4, <2>5, CallStep DEF SInv
  <2>6. CASE terminate_unpack_context
    <3>1. uc \in Context /\ uc' = [uc EXCEPT !.open = FALSE]
      BY <2>6 DEF SInv, IInv, Sound, terminate_unpack_context
    <3>2. uc'.return_code = uc.return_code
      BY <3>1 DEF Context
    <3> QED
      BY <2>4, <3>2
  <2> HIDE DEF Told1
  <2> QED
    BY <2>2, <2>3, <2>5, <2>6 DEF StreamNext
<1> QED
  BY <1>1, StreamInvariantHolds, PTL DEF StreamSpec, EndIsTold

\* Every step is one of the abstract stream's, or changes nothing it sees.
LEMMA StreamNextRefines ==
    ASSUME WholeInput, SInv, SInv', [StreamNext]_vars
    PROVE  [Stream!Next]_Stream!vars
<1> USE DEF SInv
<1>1. CASE init_unpack_context
  BY <1>1, OpenRefines DEF Stream!Next
<1>2. CASE cw_unpack_next \/ cw_skip_items \/ cw_look_ahead
  BY <1>2, CallStep, StutterRefines
<1>3. CASE StreamRoutine \/ FreadFails
  BY <1>3, StreamRoutineStep, AdvanceRefines DEF Stream!Next
<1>4. CASE terminate_unpack_context
  BY <1>4, CloseRefines DEF Stream!Next
<1>5. CASE UNCHANGED vars
  <2>1. uc' = uc /\ file' = file
    BY <1>5 DEF vars
  <2> QED
    BY <2>1, StutterRefines
<1> QED
  BY <1>1, <1>2, <1>3, <1>4, <1>5 DEF StreamNext

\* On input no item of which is cut off the context implements the abstract
\* stream: the client consumes it in order, and is told the end only at the
\* end.
THEOREM StreamUnpackImplementsStream == WholeInput => (StreamSpec => ImplementsStream)
<1> SUFFICES ASSUME WholeInput PROVE StreamSpec => ImplementsStream
  OBVIOUS
<1>1. Init => Stream!Init
  BY InitRefines
<1>2. SInv /\ SInv' /\ [StreamNext]_vars => [Stream!Next]_Stream!vars
  BY StreamNextRefines
<1> QED
  BY <1>1, <1>2, StreamInvariantHolds, PTL DEF StreamSpec, ImplementsStream, Stream!Spec
===============================================================================
