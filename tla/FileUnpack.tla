------------------------------ MODULE FileUnpack -------------------------------
(***************************************************************************)
(* file_unpack_context of basic_contexts.c: an unpack context that reads a *)
(* file descriptor, with a barrier its client can go back to.              *)
(***************************************************************************)
EXTENDS UnpackCore

CONSTANT MemcpyHandlesOverlap  \* memcpy on overlapping areas acts as memmove

ASSUME FileUnpackAssumption == MemcpyHandlesOverlap \in BOOLEAN

\* Mutant: the barrier is not looked at.
BStart_NoBarrier(c) == c.current

\* bStart - start: what comes before it is given up.
BStart(c) == IF c.barrier = NULL THEN c.current ELSE c.barrier

\* handle_file_unpack_underflow up to its loop ...
handle_file_unpack_underflow(c) ==
    MakeRoom(c, Moved(c.window, BStart(c), MemcpyHandlesOverlap))

\* Mutant: the loop goes on when read() gives nothing.
Read_UntilEnough ==
    /\ call.reading
    /\ \E l \in 0 .. Remaining(uc) :
        LET c == Filled(uc, l)
        IN  IF Fits(c) THEN Granted(c) ELSE uc' = c /\ UNCHANGED call
    /\ UNCHANGED file

\* ... and its loop: read() gives some bytes, or none at the end ...
Read ==
    /\ call.reading
    /\ \/ \E l \in 1 .. Remaining(uc) :
            LET c == Filled(uc, l)
            IN  IF Fits(c) THEN Granted(c) ELSE uc' = c /\ UNCHANGED call
       \/ Remaining(uc) = 0 /\ Stopped(uc, CWP_RC_END_OF_INPUT)
    /\ UNCHANGED file

\* ... or an error.
ReadFails ==
    /\ call.reading
    /\ Stopped(uc, CWP_RC_ERROR_IN_HANDLER)
    /\ UNCHANGED file

FileUnderflow == CallHandler(handle_file_unpack_underflow(uc))

-------------------------------------------------------------------------------
(* The barrier.  On a context whose initialisation failed there is no      *)
(* buffer to point into, and to rescan without a barrier sets current to   *)
(* NULL: the client does neither.                                          *)

file_unpack_context_set_barrier ==
    /\ Running /\ call = Idle
    /\ uc' = [uc EXCEPT !.barrier = uc.current, !.mark = uc.taken]
    /\ UNCHANGED <<call, file>>

file_unpack_context_rescan_from_barrier ==
    /\ Running /\ call = Idle
    /\ uc.barrier # NULL
    /\ uc' = [uc EXCEPT !.current = uc.barrier, !.taken = uc.mark]
    /\ UNCHANGED <<call, file>>

file_unpack_context_release_barrier ==
    /\ Running /\ call = Idle
    /\ uc' = [uc EXCEPT !.barrier = NULL]
    /\ UNCHANGED <<call, file>>

FileRoutine == AssertSpace \/ FileUnderflow \/ Read

FileNext ==
    \/ init_unpack_context
    \/ cw_unpack_next
    \/ cw_skip_items
    \/ cw_look_ahead
    \/ FileRoutine
    \/ ReadFails
    \/ file_unpack_context_set_barrier
    \/ file_unpack_context_rescan_from_barrier
    \/ file_unpack_context_release_barrier
    \/ terminate_unpack_context

\* The thread that runs a routine goes on, and read() returns; that it does
\* so with an error is never needed for a call to end.
FileSpec == Init /\ [][FileNext]_vars /\ WF_vars(FileRoutine)
===============================================================================
