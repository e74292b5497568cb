-------------------------------- MODULE Buffers --------------------------------
(***************************************************************************)
(* What the handlers of basic_contexts.c do to a buffer: they double its   *)
(* length until enough fits, and some move its content with memcpy.        *)
(***************************************************************************)
EXTENDS Integers, Sequences

\* The bytes of a session, when none is lost: the k-th is the number k.
Upto(n) == [k \in 1 .. n |-> k]

\* Mutant: the length is doubled once.
DoubledOnce(length, need) == {IF length < need THEN 2 * length ELSE length}

\* The length before each round of the loop that doubles it.
Doublings(length) ==
    LET d[k \in Nat] == IF k = 0 THEN length ELSE 2 * d[k - 1] IN d

\* while (length < need) length = 2 * length: the value the loop ends with.
\* The set is empty when the loop does not end.
Doubled(length, need) ==
    {Doublings(length)[k] : k \in {k \in 0 .. need :
        /\ \A j \in 0 .. k - 1 : Doublings(length)[j] < need
        /\ Doublings(length)[k] >= need}}

\* Mutant: the first bytes are kept instead of the last.
Moved_KeepsFront(bytes, n, safe) == {SubSeq(bytes, 1, Len(bytes) - n)}

\* What a memcpy of bytes n+1.. to the start of the buffer can leave there.
\* When the areas overlap and memcpy does not act as memmove (safe), it may
\* copy downwards and read bytes it has written already.
Moved(bytes, n, safe) ==
    LET kept == Len(bytes) - n
    IN  {SubSeq(bytes, n + 1, Len(bytes))} \cup
        (IF n = 0 \/ kept <= n \/ safe THEN {}
         ELSE {[k \in 1 .. kept |-> bytes[k + n * ((kept - k) \div n + 1)]]})
===============================================================================
