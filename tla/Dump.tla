---------------------------------- MODULE Dump ----------------------------------
(***************************************************************************)
(* cwpack_dump: prints the items of a file.  The context keeps the whole   *)
(* file behind a barrier, so that current - start is the offset in the     *)
(* file; here the offset of an item is the number of items before it.      *)
(*                                                                         *)
(*   options  recognizeObjects is the switch -r, tabs whether -t was given *)
(*   dump     the program:                                                 *)
(*     pos, rc  where its context stands and its return_code               *)
(*     item     an item that was read and is still to be printed           *)
(*     stack    the loops of dump_item under way, the innermost first:     *)
(*              what they print, how many items they still read, and i;    *)
(*              there are as many as tabLevel                              *)
(*     out      what was printed: texts, and lines with their offset       *)
(*     started, done                                                       *)
(*              whether the program runs, has left its main loop           *)
(*                                                                         *)
(* A step reads one item and prints up to where the next is read.          *)
(***************************************************************************)
EXTENDS ObjectItems

VARIABLES options, dump

NewDump == [pos |-> 0, rc |-> CWP_RC_OK, item |-> CWP_NOT_AN_ITEM, stack |-> <<>>,
            out |-> <<>>, started |-> FALSE, done |-> FALSE]

DefaultOptions == [recognizeObjects |-> FALSE, tabs |-> FALSE]

\* main reads its arguments and initialises the context.
Start ==
    /\ options' \in [recognizeObjects : BOOLEAN, tabs : BOOLEAN]
    /\ dump' = [NewDump EXCEPT !.started = TRUE]

Dumping == dump.started /\ ~dump.done

Text(t)  == [text |-> t]
Label(l) == [label |-> l]
Printed(d, texts) == [d EXCEPT !.out = @ \o texts]

NewLine(d)      == Printed(d, <<[line |-> d.pos]>>)
CheckNewLine(d, i) ==
    IF options.tabs THEN NewLine(d) ELSE IF i > 0 THEN Printed(d, <<Text(" ")>>) ELSE d

\* A loop that prints closing at its end; keys are followed by a colon.
Loop(close, left, i) == [close |-> close, left |-> left, i |-> i]

Entered(d, open, loop) ==
    [Printed(d, <<Text(open)>>) EXCEPT !.stack = <<loop>> \o @]

\* cw_unpack_next, and dump_item later when it has found an item.
Read(d) ==
    LET f == Fetch(d.pos, d.rc)
    IN  [d EXCEPT !.pos = f.pos, !.rc = f.rc,
                  !.item = IF f.rc = CWP_RC_OK THEN f.item ELSE CWP_NOT_AN_ITEM]

Malformed(d) == [d EXCEPT !.rc = CWP_RC_MALFORMED_INPUT, !.item = CWP_NOT_AN_ITEM]

\* The text of an item that is no container.
Scalar(item) ==
    CASE item.type = "NIL"    -> Text("nil")
      [] item.type = "MARKER" -> [ext |-> item.label]
      [] OTHER                -> Text(item.of)

-------------------------------------------------------------------------------

\* Mutant: the class name is counted as an attribute.
DumpObject_CountsMarkerOnly(d, dim) ==
    LET label    == d.item.label
        printed  == IF dim = 1 THEN Printed(d, <<Text("->"), Label(label)>>)
                    ELSE IF label # 0 THEN Printed(d, <<Label(label), Text("->")>>)
                    ELSE d
        named    == Read(printed)
    IN  IF dim = 1 THEN [printed EXCEPT !.item = CWP_NOT_AN_ITEM]
        ELSE IF label < 0
        THEN IF dim # 2 THEN Malformed(printed) ELSE Read(printed)
        ELSE IF named.rc # CWP_RC_OK THEN named
        ELSE IF named.item.type # "STR" THEN Malformed(named)
        ELSE [Entered(Printed(named, <<Text(named.item.of)>>), "(", Loop(")", dim - 1, 0))
                EXCEPT !.item = CWP_NOT_AN_ITEM]

\* Mutant: an object without a label is taken for a labelled MessagePack object.
DumpObject_NoUnlabelled(d, dim) ==
    LET label    == d.item.label
        printed  == IF dim = 1 THEN Printed(d, <<Text("->"), Label(label)>>)
                    ELSE IF label # 0 THEN Printed(d, <<Label(label), Text("->")>>)
                    ELSE d
        named    == Read(printed)
    IN  IF dim = 1 THEN [printed EXCEPT !.item = CWP_NOT_AN_ITEM]
        ELSE IF label <= 0
        THEN IF dim # 2 THEN Malformed(printed) ELSE Read(printed)
        ELSE IF named.rc # CWP_RC_OK THEN named
        ELSE IF named.item.type # "STR" THEN Malformed(named)
        ELSE [Entered(Printed(named, <<Text(named.item.of)>>), "(", Loop(")", dim - 2, 0))
                EXCEPT !.item = CWP_NOT_AN_ITEM]

\* The object whose marker was read in an array of dim items: a reference, a
\* labelled MessagePack object, or a user object with its class name.
DumpObject(d, dim) ==
    LET label    == d.item.label
        printed  == IF dim = 1 THEN Printed(d, <<Text("->"), Label(label)>>)
                    ELSE IF label # 0 THEN Printed(d, <<Label(label), Text("->")>>)
                    ELSE d
        named    == Read(printed)
    IN  IF dim = 1 THEN [printed EXCEPT !.item = CWP_NOT_AN_ITEM]
        ELSE IF label < 0
        THEN IF dim # 2 THEN Malformed(printed) ELSE Read(printed)
        ELSE IF named.rc # CWP_RC_OK THEN named
        ELSE IF named.item.type # "STR" THEN Malformed(named)
        ELSE [Entered(Printed(named, <<Text(named.item.of)>>), "(", Loop(")", dim - 2, 0))
                EXCEPT !.item = CWP_NOT_AN_ITEM]

\* dump_item for an array: its first item is read before anything is printed.
DumpArray(d) ==
    LET dim   == d.item.size
        first == Read(d)
    IN  IF dim = 0
        THEN [Printed(d, <<Text("[]")>>) EXCEPT !.item = CWP_NOT_AN_ITEM]
        ELSE IF first.rc # CWP_RC_OK THEN first
        ELSE IF options.recognizeObjects /\ first.item.type = "MARKER"
        THEN DumpObject(first, dim)
        ELSE CheckNewLine(Entered(first, "[", Loop("]", dim - 1, 1)), 0)

DumpMap(d) ==
    LET dim == d.item.size
        e   == [d EXCEPT !.item = CWP_NOT_AN_ITEM]
    IN  IF dim = 0 THEN Printed(e, <<Text("{}")>>)
                   ELSE Entered(e, "{", Loop("}", 2 * dim, 0))

dump_item ==
    /\ Dumping
    /\ dump.item # CWP_NOT_AN_ITEM
    /\ dump' = CASE dump.item.type = "ARRAY" -> DumpArray(dump)
                 [] dump.item.type = "MAP"   -> DumpMap(dump)
                 [] OTHER -> [Printed(dump, <<Scalar(dump.item)>>)
                                EXCEPT !.item = CWP_NOT_AN_ITEM]

InLoop == /\ Dumping
          /\ dump.item = CWP_NOT_AN_ITEM /\ dump.stack # <<>>

\* A round of a loop: a map's loop makes one of a key and a value.  Loops go
\* on when an error has stopped the context.
dump_next_item ==
    /\ InLoop /\ Head(dump.stack).left > 0
    /\ LET loop  == Head(dump.stack)
           value == loop.close = "}" /\ loop.i % 2 = 1
           d     == [dump EXCEPT !.stack = <<[loop EXCEPT !.left = @ - 1, !.i = @ + 1]>>
                                            \o Tail(@)]
       IN  dump' = Read(IF value THEN Printed(d, <<Text(":")>>) ELSE CheckNewLine(d, loop.i))

EndOfLoop ==
    /\ InLoop /\ Head(dump.stack).left = 0
    /\ LET d == [dump EXCEPT !.stack = Tail(@)]
       IN  dump' = Printed(IF options.tabs THEN NewLine(d) ELSE d,
                           <<Text(Head(dump.stack).close)>>)

\* The loop of main.
DumpNext ==
    /\ Dumping
    /\ dump.item = CWP_NOT_AN_ITEM /\ dump.stack = <<>>
    /\ dump' = IF dump.rc # CWP_RC_OK THEN [dump EXCEPT !.done = TRUE]
                                      ELSE Read(NewLine(dump))

DumpStep == dump_item \/ dump_next_item \/ EndOfLoop \/ DumpNext
===============================================================================
