------------------------------ MODULE JsonExample -------------------------------
(***************************************************************************)
(* json2cwpack2json: reads a JSON file, writes it as a MessagePack file,   *)
(* reads that back and writes it as JSON again.  The first file is some    *)
(* other writer's, JSON or MessagePack; what the program has written is    *)
(* given to it again.                                                      *)
(***************************************************************************)
EXTENDS Item

CONSTANTS
    Values,  \* the values in the first file
    Runs     \* bound: how many times the program runs

ASSUME RunsAssumption == Runs \in Nat

VARIABLES
    text,   \* the JSON file
    file,   \* the MessagePack file
    root,   \* the tree, NULL when there is none
    pc,     \* the routine that main calls next, or how the program has ended
    runs,   \* how many times it has written a JSON file
    value,  \* history: the value in the first file
    first   \* history: the first JSON file the program has written

vars == <<text, file, root, pc, runs, value, first>>

-------------------------------------------------------------------------------
(* What values are and how they are written by others.                     *)

(* A value is a container with its parts, a word, an integer, a real or a  *)
(* string of characters, by their code points.                             *)

UTF8(code) ==
    IF code < 128 THEN <<code>>
    ELSE IF code < 2048 THEN <<192 + (code \div 64), 128 + (code % 64)>>
    ELSE <<224 + (code \div 4096), 128 + ((code \div 64) % 64), 128 + (code % 64)>>

StringBytes(codes) == FlattenSeq([k \in DOMAIN codes |-> UTF8(codes[k])])

\* A character within a JSON string: as it is, or escaped.
Written(code, escaped) ==
    IF escaped THEN <<U(code)>>
    ELSE IF code \in Escapes \ {47} THEN <<Escape(code)>>
    ELSE IF code < 32 THEN <<U(code)>>
    ELSE [k \in DOMAIN UTF8(code) |-> Byte(UTF8(code)[k])]

\* A JSON text of a value; the writer may leave out white space and escape
\* every character.
RECURSIVE JsonText(_, _, _)
JsonText(v, spaces, escaped) ==
    LET space == IF spaces THEN <<Token(" ")>> ELSE <<>>
        separator(k) ==
            IF k = 1 THEN <<>>
            ELSE <<Token(IF v.kind = "MAP" /\ k % 2 = 0 THEN ":" ELSE ",")>>
        parts == FlattenSeq([k \in DOMAIN v.parts |->
                    separator(k) \o space \o JsonText(v.parts[k], spaces, escaped) \o space])
    IN  CASE v.kind = "MAP"     -> <<Token("{")>> \o space \o parts \o <<Token("}")>>
          [] v.kind = "ARRAY"   -> <<Token("[")>> \o space \o parts \o <<Token("]")>>
          [] v.kind = "INTEGER" -> <<Number(4 * v.number, FALSE)>>
          [] v.kind = "REAL"    -> <<Number(v.number, TRUE)>>
          [] v.kind = "STRING"  ->
                <<Quote>>
                \o FlattenSeq([k \in DOMAIN v.codes |-> Written(v.codes[k], escaped)])
                \o <<Quote>>
          [] OTHER -> <<Token(v.kind)>>

RECURSIVE ItemsOf(_)
ItemsOf(v) ==
    LET parts == FlattenSeq([k \in DOMAIN v.parts |-> ItemsOf(v.parts[k])])
    IN  CASE v.kind = "MAP"     -> <<Sized("MAP", Len(v.parts) \div 2)>> \o parts
          [] v.kind = "ARRAY"   -> <<Sized("ARRAY", Len(v.parts))>> \o parts
          [] v.kind = "INTEGER" ->
                <<Valued(IF v.number < 0 THEN "NEGATIVE_INTEGER" ELSE "POSITIVE_INTEGER",
                         v.number)>>
          [] v.kind = "REAL"    -> <<Valued("FLOAT", v.number)>>
          [] v.kind = "STRING"  -> <<Valued("STR", StringBytes(v.codes))>>
          [] v.kind = "BIN"     -> <<Valued("BIN", 0)>>
          [] v.kind = "NIL"     -> <<Valued("NIL", 0)>>
          [] OTHER -> <<Valued("BOOLEAN", IF v.kind = "TRUE" THEN 1 ELSE 0)>>

HasParts(v) == v.kind \in {"MAP", "ARRAY"}

\* What JSON can say: no binary data and no integer beyond 2^63 - 1.
RECURSIVE IsJson(_)
IsJson(v) ==
    /\ v.kind # "BIN"
    /\ v.kind = "INTEGER" => v.number <= MaxInt64
    /\ HasParts(v) => \A k \in DOMAIN v.parts : IsJson(v.parts[k])

-------------------------------------------------------------------------------
(* The program.                                                            *)

Init ==
    /\ value \in Values
    /\ \/ /\ IsJson(value)
          /\ text \in {JsonText(value, s, e) : s \in BOOLEAN, e \in BOOLEAN}
          /\ file = <<>> /\ pc = "jsonFile2item3"
       \/ /\ text = <<>>
          /\ file \in {SubSeq(ItemsOf(value), 1, n) : n \in 0 .. Len(ItemsOf(value))}
          /\ pc = "cwpackFile2item3"
    /\ root = NULL /\ runs = 0 /\ first = <<>>

jsonFile2item3 ==
    /\ pc = "jsonFile2item3"
    /\ root' = jsonString2item3(text, 1).item
    /\ pc' = "item32cwpackFile"
    /\ UNCHANGED <<text, file, runs, value, first>>

\* The tree is freed when it has been written; writing one with a NULL in it
\* crashes.
item32cwpackFile ==
    /\ pc = "item32cwpackFile"
    /\ root' = NULL
    /\ IF HasNull(root) THEN pc' = "crashed" /\ file' = <<>>
       ELSE pc' = "cwpackFile2item3" /\ file' = item32packContext(root)
    /\ UNCHANGED <<text, runs, value, first>>

cwpackFile2item3 ==
    /\ pc = "cwpackFile2item3"
    /\ LET read == packContext2item3(file, 1)
       IN  IF read.exit THEN pc' = "exited" /\ root' = NULL
           ELSE pc' = "item32JsonFile" /\ root' = read.item
    /\ UNCHANGED <<text, file, runs, value, first>>

item32JsonFile ==
    /\ pc = "item32JsonFile"
    /\ root' = NULL
    /\ IF HasNull(root) THEN pc' = "crashed" /\ UNCHANGED <<text, runs, first>>
       ELSE /\ text' = item32jsonFile(root)
            /\ runs' = runs + 1
            /\ first' = IF runs = 0 THEN text' ELSE first
            /\ pc' = IF runs + 1 < Runs THEN "jsonFile2item3" ELSE "done"
    /\ UNCHANGED <<file, value>>

Done == pc \in {"done", "exited", "crashed"} /\ UNCHANGED vars

Next == jsonFile2item3 \/ item32cwpackFile \/ cwpackFile2item3 \/ item32JsonFile \/ Done

Spec == Init /\ [][Next]_vars

-------------------------------------------------------------------------------

\* The value's last bracket is the one of an empty container.
RECURSIVE EndsEmpty(_)
EndsEmpty(v) == HasParts(v) /\ (v.parts = <<>> \/ EndsEmpty(Last(v.parts)))

\* No empty container is followed by anything: jsonString2item3 leaves its
\* closing bracket behind, where a comma is looked for.
RECURSIVE EmptiesAtEnd(_)
EmptiesAtEnd(v) ==
    HasParts(v) => /\ \A k \in DOMAIN v.parts : EmptiesAtEnd(v.parts[k])
                   /\ \A k \in 1 .. Len(v.parts) - 1 : ~EndsEmpty(v.parts[k])

\* An item in memory is a value, up to what JSON does to reals: 15 digits are
\* kept, and those without a point are integers afterwards.
RECURSIVE SameValue(_, _)
SameValue(item, v) ==
    CASE HasParts(v) ->
            /\ item.item_type = v.kind /\ Len(item.items) = Len(v.parts)
            /\ \A k \in DOMAIN v.parts : SameValue(item.items[k], v.parts[k])
      [] v.kind = "INTEGER" -> item = Integer_Item(v.number)
      [] v.kind = "REAL" ->
            \/ item \in {Real_Item(v.number), Real_Item(Digits(v.number))}
            \/ Digits(v.number) % 4 = 0 /\ item = Integer_Item(Digits(v.number) \div 4)
      [] v.kind = "STRING" -> item = String_Item(Append(StringBytes(v.codes), 0))
      [] OTHER -> item = Node(v.kind)

\* Whatever the way of writing and however often the program runs, the tree is
\* the value in the first file; there is none when that is cut short.
TreeIsValue ==
    IsJson(value) /\ EmptiesAtEnd(value) =>
        /\ pc # "crashed"
        /\ pc \in {"item32cwpackFile", "item32JsonFile"} => SameValue(root, value)

\* The JSON files the program reads and writes do not differ any more once it
\* has written one: what runExample.sh asks of diff.
DiffIsEmpty == IsJson(value) /\ EmptiesAtEnd(value) /\ runs > 0 => text = first
===============================================================================
