------------------------------ MODULE UnpackCore -------------------------------
(***************************************************************************)
(* The part of an unpack context that cwpack.c owns: how a routine asks    *)
(* for the bytes of an item, step by step, and what it does when they are  *)
(* not in the buffer.  FileUnpack and StreamUnpack supply the underflow    *)
(* handler, whose system calls are steps of their own.                     *)
(*                                                                         *)
(* The k-th byte of the file is the number k.  What a routine makes of a   *)
(* byte it takes for a tag is given by file[k], a record:                  *)
(*   next, skip      the bytes cw_unpack_next and cw_skip_items ask for    *)
(*   next_rc, skip_rc  the item's own error                                *)
(*   children        items a container adds to those to be skipped         *)
(*   ahead           the bytes cw_look_ahead asks for                      *)
(***************************************************************************)
EXTENDS ReturnCodes, Buffers

CONSTANTS
    Files,           \* the files a session may read
    SkipCounts,      \* arguments of cw_skip_items; those below 1 do nothing
    InitialLengths,  \* buffer lengths a client asks for
    DefaultBuffer    \* 1024 in the code

\* What an item's bytes can be wrong with once they are all there.
ItemErrors == {CWP_RC_OK, CWP_RC_MALFORMED_INPUT, CWP_RC_WRONG_TIMESTAMP_LENGTH}

Byte == [next : Seq(Nat), next_rc : ItemErrors, skip : Seq(Nat),
         skip_rc : ItemErrors, children : Nat, ahead : Seq(Nat)]

ASSUME UnpackAssumption ==
    /\ Files \subseteq Seq(Byte)
    /\ \A f \in Files : \A k \in 1 .. Len(f) :
        f[k].next # <<>> /\ f[k].skip # <<>> /\ f[k].ahead # <<>>
    /\ SkipCounts \subseteq Nat \ {0}
    /\ InitialLengths \subseteq Nat
    /\ DefaultBuffer \in Nat \ {0}

VARIABLES
    uc,    \* the context:
           \*   open           between init and terminate
           \*   window         the bytes between start and end
           \*   current        current - start
           \*   buffer_length  the length of the buffer
           \*   barrier        barrier - start, or NULL
           \*   return_code
           \*   read           bytes of the file read so far
           \*   taken, mark    (history) bytes consumed, and at the barrier
           \*   realloc_failed (history)
    call,  \* the routine under way:
           \*   op       "next", "skip", "ahead", or "none"
           \*   asks     the bytes it has still to ask for; the first is the
           \*            one under way
           \*   tag      the number of its tag byte, 0 before it is taken
           \*   left     items to be skipped
           \*   reading  the handler has been called and reads
    file   \* what this session reads

vars == <<uc, call, file>>

NULL == -1

Idle == [op |-> "none", asks |-> <<>>, tag |-> 0, left |-> 0, reading |-> FALSE]

Closed == [open |-> FALSE, window |-> <<>>, current |-> 0, buffer_length |-> 0,
           barrier |-> NULL, return_code |-> CWP_RC_OK, read |-> 0,
           taken |-> 0, mark |-> 0, realloc_failed |-> FALSE]

Init == uc = Closed /\ call = Idle /\ file = <<>>

Running == uc.open /\ uc.return_code # CWP_RC_MALLOC_ERROR

\* How far into the file current is.
Position(c) == c.read - Len(c.window) + c.current

-------------------------------------------------------------------------------
(* A session.                                                              *)

BufferLength(asked) == IF asked > 0 THEN asked ELSE DefaultBuffer

\* When malloc fails only the return code is set: the other fields keep what
\* was there, which no call then reads.
init_unpack_context ==
    /\ ~uc.open
    /\ file' \in Files
    /\ \/ uc' = [Closed EXCEPT !.open = TRUE, !.return_code = CWP_RC_MALLOC_ERROR]
       \/ \E asked \in InitialLengths :
          \E code \in {CWP_RC_OK, CWP_RC_WRONG_BYTE_ORDER} :
            uc' = [Closed EXCEPT !.open = TRUE, !.return_code = code,
                                 !.buffer_length = BufferLength(asked)]
    /\ UNCHANGED call

terminate_unpack_context ==
    /\ uc.open /\ call = Idle
    /\ uc' = [uc EXCEPT !.open = FALSE]
    /\ UNCHANGED <<call, file>>

-------------------------------------------------------------------------------
(* Calls.  On a stopped context each returns at once.                      *)

\* Mutant: return_code is not looked at.
Ready_Always == uc.open /\ call = Idle

Ready == uc.open /\ call = Idle /\ uc.return_code = CWP_RC_OK

Begin(op, n) ==
    /\ Ready
    /\ call' = [op |-> op, asks |-> <<1>>, tag |-> 0, left |-> n, reading |-> FALSE]
    /\ UNCHANGED <<uc, file>>

cw_unpack_next == Begin("next", 1)
cw_skip_items  == \E n \in SkipCounts : Begin("skip", n)
cw_look_ahead  == Begin("ahead", 1)

Want == Head(call.asks)

Fits(c) == c.current + Want <= Len(c.window)

\* Mutant: looking ahead steps back though current has not moved.
Step_BackTwice(c) ==
    IF call.op = "ahead" THEN [c EXCEPT !.current = @ - Want]
    ELSE [c EXCEPT !.current = @ + Want, !.taken = @ + Want]

\* current moves over the bytes asked for; cw_look_ahead steps back.
Step(c) == IF call.op = "ahead" THEN c
           ELSE [c EXCEPT !.current = @ + Want, !.taken = @ + Want]

\* What a routine asks for once it has its tag, and how the item ends.
Asks(b)     == CASE call.op = "next" -> b.next [] call.op = "skip" -> b.skip
                 [] call.op = "ahead" -> b.ahead
Error(b)    == CASE call.op = "next" -> b.next_rc [] call.op = "skip" -> b.skip_rc
                 [] call.op = "ahead" -> CWP_RC_OK
Children(b) == IF call.op = "skip" THEN b.children ELSE 0

\* The bytes asked for are there (or the handler has said so): on to the
\* next ask, to the next item to be skipped, or back to the client.
Granted(c) ==
    LET tag  == IF call.tag = 0 THEN Position(c) + 1 ELSE call.tag
        b    == file[tag]
        rest == Tail(IF call.tag = 0 THEN Asks(b) ELSE call.asks)
        left == call.left - 1 + Children(b)
        code == IF rest = <<>> THEN Error(b) ELSE CWP_RC_OK
    IN  /\ uc' = [Step(c) EXCEPT !.return_code = code]
        /\ call' = IF rest # <<>>
                   THEN [call EXCEPT !.asks = rest, !.tag = tag, !.reading = FALSE]
                   ELSE IF code = CWP_RC_OK /\ left > 0
                   THEN [call EXCEPT !.asks = <<1>>, !.tag = 0, !.left = left,
                                     !.reading = FALSE]
                   ELSE Idle

\* Mutant: the handler's END_OF_INPUT is passed on wherever it comes.
Stopped_PassedOn(c, code) ==
    /\ uc' = [c EXCEPT !.return_code = code]
    /\ call' = Idle

\* The handler answers code.  END_OF_INPUT within an item is an underflow.
Stopped(c, code) ==
    /\ uc' = [c EXCEPT !.return_code = IF code = CWP_RC_END_OF_INPUT /\ call.tag # 0
                                       THEN CWP_RC_BUFFER_UNDERFLOW ELSE code]
    /\ call' = Idle

\* cw_unpack_assert_space, when the bytes are in the buffer ...
AssertSpace ==
    /\ call.op # "none" /\ ~call.reading
    /\ Fits(uc)
    /\ Granted(uc)
    /\ UNCHANGED file

\* ... and when they are not.  underflow is what the handler can do before
\* it reads: a code other than CWP_RC_OK is its answer.
CallHandler(underflow) ==
    /\ call.op # "none" /\ ~call.reading
    /\ ~Fits(uc)
    /\ \E o \in underflow :
        IF o.rc = CWP_RC_OK
        THEN uc' = o.ctx /\ call' = [call EXCEPT !.reading = TRUE]
        ELSE Stopped(o.ctx, o.rc)
    /\ UNCHANGED file

-------------------------------------------------------------------------------
(* What the handlers are made of.                                          *)

\* Mutant: the handler moves current to the start, barrier or not.
Kept_Nothing(c) == 0

\* current - bStart: what a barrier keeps in front of current.
Kept(c) == IF c.barrier = NULL THEN 0 ELSE c.current - c.barrier

\* Mutant: only the bytes wanted are counted.
Need_WithoutKept(c) == Want

Need(c) == Want + Kept(c)

\* What is left of the context when rest has been moved to the start and the
\* buffer is to have length bytes.  When realloc fails the bytes have been
\* moved and the length changed, but no pointer.
Resized(c, rest, length) ==
    {[rc  |-> CWP_RC_OK,
      ctx |-> [c EXCEPT !.window = rest, !.current = Kept(c),
                        !.barrier = IF @ = NULL THEN NULL ELSE 0,
                        !.buffer_length = length]]} \cup
    (IF length = c.buffer_length THEN {}
     ELSE {[rc  |-> CWP_RC_BUFFER_UNDERFLOW,
            ctx |-> [c EXCEPT !.window = rest \o
                         SubSeq(@, Len(rest) + 1, Len(@)),
                     !.buffer_length = length,
                     !.realloc_failed = TRUE]]})

\* The kept bytes are moved to the start and the buffer is doubled until
\* they fit; moved is what the move can leave.
MakeRoom(c, moved) ==
    UNION {Resized(c, rest, length) :
              rest \in moved, length \in Doubled(c.buffer_length, Need(c))}

\* Mutant: what is already in the buffer is not subtracted.
Room_WholeBuffer(c) == c.buffer_length

Room(c) == c.buffer_length - Len(c.window)

\* The bytes a read or fread can still give.
Remaining(c) == LET left == Len(file) - c.read
                IN  IF Room(c) < left THEN Room(c) ELSE left

\* l bytes more between end and the end of the buffer.
Filled(c, l) == [c EXCEPT !.window = @ \o [k \in 1 .. l |-> c.read + k],
                          !.read = @ + l]

-------------------------------------------------------------------------------
(* Properties.                                                             *)

Calls == [op : {"none", "next", "skip", "ahead"}, asks : Seq(Nat), tag : Nat,
          left : Nat, reading : BOOLEAN]

Context == [open : BOOLEAN, window : Seq(Nat), current : Nat,
            buffer_length : Nat, barrier : Nat \cup {NULL},
            return_code : ReturnCodes, read : Nat, taken : Nat, mark : Nat,
            realloc_failed : BOOLEAN]

\* The type of context and call.
TypeOK ==
    /\ uc \in Context
    /\ call \in Calls
    /\ call.op # "none" => call.asks # <<>>

\* The pointers are in order, barrier before current before end before the
\* end of the buffer, and a handler about to read has room for it: a read
\* of no bytes would be taken for the end of the input.
PointersInOrder ==
    Running => /\ uc.barrier <= uc.current
               /\ uc.current <= Len(uc.window)
               /\ Len(uc.window) <= uc.buffer_length
               /\ call.reading => Room(uc) > 0

\* The bytes between start and end are those read last, unchanged and in
\* order.
WindowIsFile ==
    Running /\ ~uc.realloc_failed =>
        \A k \in DOMAIN uc.window :
            uc.window[k] = uc.read - Len(uc.window) + k

\* Wherever the handler has moved current, it stands at the byte behind
\* those consumed: none is skipped, none consumed twice.
NothingSkipped == Running => Position(uc) = uc.taken

\* END_OF_INPUT is told only when the whole file is consumed, and
\* BUFFER_UNDERFLOW only within an item: when the file has been read to its
\* end without completing it, or a realloc failed.
EndIsTold ==
    [][uc.return_code = CWP_RC_OK =>
        /\ uc'.return_code = CWP_RC_END_OF_INPUT => uc'.taken = Len(file)
        /\ uc'.return_code = CWP_RC_BUFFER_UNDERFLOW =>
            /\ call.tag # 0 \/ uc'.realloc_failed
            /\ uc'.realloc_failed \/ uc'.read = Len(file)]_vars

\* Every call returns.
CallReturns == call.op # "none" ~> call.op = "none"

\* The context implements the abstract stream.
Stream == INSTANCE UnpackStream WITH
    open <- uc.open, return_code <- uc.return_code,
    size <- Len(file), position <- Position(uc),
    mark <- IF uc.barrier = NULL THEN NULL ELSE uc.read - Len(uc.window) + uc.barrier

ImplementsStream == Stream!Spec
===============================================================================
