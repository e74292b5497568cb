------------------------------ MODULE PackStream -------------------------------
(***************************************************************************)
(* What every packing context promises, whatever its buffer and handlers:  *)
(* the bytes that reach its sink are the bytes packed, in the order they   *)
(* were packed, each once, and after a session without error all of them.  *)
(*                                                                         *)
(* The k-th byte packed in a session is the number k, so that the sink of  *)
(* a correct context is always 1, 2, ..., n.                               *)
(***************************************************************************)
EXTENDS ReturnCodes, Sequences

VARIABLES open,         \* between initialisation and termination
          return_code,  \* the context's return code
          packed,       \* bytes accepted in this session
          sink          \* bytes the outside world has received

vars == <<open, return_code, packed, sink>>

Upto(n) == [k \in 1 .. n |-> k]

Init ==
    /\ open = FALSE
    /\ return_code = CWP_RC_OK
    /\ packed = 0
    /\ sink = <<>>

\* A new session starts with nothing packed and an empty sink.
Open ==
    /\ ~open
    /\ open' = TRUE
    /\ return_code' \in {CWP_RC_OK, CWP_RC_MALLOC_ERROR, CWP_RC_WRONG_BYTE_ORDER}
    /\ packed' = 0
    /\ sink' = <<>>

\* A call on a running context accepts some bytes and hands over some of
\* those accepted; a call that stops the context accepts nothing.
Call ==
    /\ open /\ return_code = CWP_RC_OK
    /\ UNCHANGED open
    /\ return_code' \in ReturnCodes
    /\ packed' \in Nat /\ packed' >= packed
    /\ return_code' # CWP_RC_OK => packed' = packed
    /\ \E n \in Len(sink) .. packed' : sink' = Upto(n)

\* Termination hands over the rest, unless the context has been stopped.
Close ==
    /\ open
    /\ open' = FALSE
    /\ UNCHANGED packed
    /\ \/ /\ return_code # CWP_RC_OK
          /\ UNCHANGED <<return_code, sink>>
       \/ /\ return_code = CWP_RC_OK
          /\ return_code' \in ReturnCodes
          /\ \E n \in Len(sink) .. packed : sink' = Upto(n)
          /\ return_code' = CWP_RC_OK => sink' = Upto(packed)

Next == Open \/ Call \/ Close

Spec == Init /\ [][Next]_vars
===============================================================================
