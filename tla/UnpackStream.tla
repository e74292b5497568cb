----------------------------- MODULE UnpackStream ------------------------------
(***************************************************************************)
(* What an unpack context that reads a file promises its client, whatever  *)
(* its buffer and handler: the bytes of the file are consumed in order,    *)
(* none skipped or handed out twice, except that the client may go back to *)
(* a mark it has set; and the end of the input is told only at the end.    *)
(***************************************************************************)
EXTENDS ReturnCodes

VARIABLES open,         \* between initialisation and termination
          return_code,  \* the context's return code
          size,         \* length of the file
          position,     \* bytes consumed
          mark          \* position to go back to, or NoMark

vars == <<open, return_code, size, position, mark>>

NoMark == -1

Init ==
    /\ open = FALSE
    /\ return_code = CWP_RC_OK
    /\ size = 0
    /\ position = 0
    /\ mark = NoMark

Open ==
    /\ ~open
    /\ open' = TRUE
    /\ return_code' \in {CWP_RC_OK, CWP_RC_MALLOC_ERROR, CWP_RC_WRONG_BYTE_ORDER}
    /\ size' \in Nat
    /\ position' = 0
    /\ mark' = NoMark

\* A running context consumes bytes the file has, or stops.
Take ==
    /\ open /\ return_code = CWP_RC_OK
    /\ position' \in Nat /\ position <= position' /\ position' <= size
    /\ return_code' \in ReturnCodes
    /\ return_code' = CWP_RC_END_OF_INPUT => position' = size
    /\ UNCHANGED <<open, size, mark>>

SetMark ==
    /\ open
    /\ mark' = position
    /\ UNCHANGED <<open, return_code, size, position>>

GoBack ==
    /\ open /\ mark # NoMark
    /\ position' = mark
    /\ UNCHANGED <<open, return_code, size, mark>>

ReleaseMark ==
    /\ open
    /\ mark' = NoMark
    /\ UNCHANGED <<open, return_code, size, position>>

Close ==
    /\ open
    /\ open' = FALSE
    /\ UNCHANGED <<return_code, size, position, mark>>

Next == Open \/ Take \/ SetMark \/ GoBack \/ ReleaseMark \/ Close

Spec == Init /\ [][Next]_vars
===============================================================================
