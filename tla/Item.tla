---------------------------------- MODULE Item ----------------------------------
(***************************************************************************)
(* example/item.c: JSON files and MessagePack files to and from a tree of  *)
(* items in memory.                                                        *)
(*                                                                         *)
(* A JSON text is a sequence of tokens: what separates items, a word (NIL, *)
(* TRUE or FALSE), a number, and, within a string, its characters one by   *)
(* one, for what the conversions do to them is what they are about.  A     *)
(* MessagePack file is a sequence of items.  A string is the bytes of its  *)
(* UTF-8 form with the NUL behind them.  Reals are counted in quarters: a  *)
(* half stands for what 15 digits can tell, a quarter for what they cannot.*)
(***************************************************************************)
EXTENDS Integers, Sequences, SequencesExt

\* Stands for 2^63 - 1.
MaxInt64 == 7

\* A 64-bit value taken as signed, as item.as.i64.
LongLong(u) == IF u > MaxInt64 THEN u - 2 * (MaxInt64 + 1) ELSE u

-------------------------------------------------------------------------------
(* Items in memory.                                                        *)

Node(type)       == [item_type |-> type]
Integer_Item(n)  == [item_type |-> "INTEGER", value |-> n]
Real_Item(x)     == [item_type |-> "REAL", value |-> x]
String_Item(s)   == [item_type |-> "STRING", string |-> s]

NULL    == Node("NULL")
Garbage == -1           \* malloc'ed and not yet written

allocate_container(type, cnt) ==
    [item_type |-> type, items |-> [k \in 1 .. cnt |-> NULL]]

IsContainer(item) == item.item_type \in {"MAP", "ARRAY"}

\* There is a NULL somewhere: who walks over the tree crashes.
RECURSIVE HasNull(_)
HasNull(item) ==
    \/ item = NULL
    \/ IsContainer(item) /\ \E k \in DOMAIN item.items : HasNull(item.items[k])

\* The bytes of a C string, as strlen sees them.
CString(s) == SubSeq(s, 1, (CHOOSE n \in DOMAIN s : s[n] = 0 /\ \A k \in 1 .. n - 1 : s[k] # 0) - 1)

-------------------------------------------------------------------------------
(* Tree to JSON file.                                                      *)

Token(t)     == [t |-> t]
Byte(b)      == [t |-> "byte", of |-> b]     \* the byte itself
Quote        == Byte(34)
Escape(b)    == [t |-> "escape", of |-> b]   \* \" \\ \/ \b \t \n \f \r
U(code)      == [t |-> "u", of |-> code]     \* \uXXXX
Number(x, point) == [t |-> "number", of |-> x, point |-> point]

Escapes == {8, 9, 10, 12, 13, 34, 47, 92}

\* What 15 digits keep of a real, and whether they have a point or exponent.
Digits(x) == 2 * ((x + 1) \div 2)
PrintedReal(x) == Number(Digits(x), Digits(x) % 4 # 0)

RECURSIVE PrintedString(_), PrintedString_RawQuotes(_)

\* Mutant: a quotation mark is not escaped.
PrintedString_RawQuotes(s) ==
    IF s = <<>> THEN <<>>
    ELSE IF s[1] < 128
    THEN <<IF s[1] \in Escapes \ {34} THEN Escape(s[1]) ELSE Byte(s[1])>>
         \o PrintedString(Tail(s))
    ELSE IF (s[1] \div 32) % 2 = 1
    THEN <<U(((s[1] % 16) * 64 + (s[2] % 64)) * 64 + (s[3] % 64))>>
         \o PrintedString(SubSeq(s, 4, Len(s)))
    ELSE <<U((s[1] % 32) * 64 + (s[2] % 64))>> \o PrintedString(SubSeq(s, 3, Len(s)))

\* The characters of a string: UTF-8 of at most 16 bits is decoded, by the
\* first byte of a character.
PrintedString(s) ==
    IF s = <<>> THEN <<>>
    ELSE IF s[1] < 128
    THEN <<IF s[1] \in Escapes THEN Escape(s[1]) ELSE Byte(s[1])>> \o PrintedString(Tail(s))
    ELSE IF (s[1] \div 32) % 2 = 1
    THEN <<U(((s[1] % 16) * 64 + (s[2] % 64)) * 64 + (s[3] % 64))>>
         \o PrintedString(SubSeq(s, 4, Len(s)))
    ELSE <<U((s[1] % 32) * 64 + (s[2] % 64))>> \o PrintedString(SubSeq(s, 3, Len(s)))

NEW_LINE == Token(" ")

RECURSIVE item32jsonFile(_)
item32jsonFile(item) ==
    LET part(k) == item32jsonFile(item.items[k])
        separator(k) ==
            IF k = 1 THEN <<NEW_LINE>>
            ELSE IF item.item_type = "MAP" /\ k % 2 = 0 THEN <<Token(":"), Token(" ")>>
            ELSE <<Token(","), NEW_LINE>>
        parts == FlattenSeq([k \in DOMAIN item.items |-> separator(k) \o part(k)])
    IN  CASE item.item_type = "MAP" ->
                <<Token("{")>> \o parts \o <<NEW_LINE, Token("}")>>
          [] item.item_type = "ARRAY" ->
                <<Token("[")>> \o parts \o <<NEW_LINE, Token("]")>>
          [] item.item_type = "INTEGER" -> <<Number(4 * item.value, FALSE)>>
          [] item.item_type = "REAL"    -> <<PrintedReal(item.value)>>
          [] item.item_type = "STRING"  ->
                <<Quote>> \o PrintedString(CString(item.string)) \o <<Quote>>
          [] OTHER -> <<Token(item.item_type)>>

-------------------------------------------------------------------------------
(* JSON file to tree.  A routine returns what it has read and where it     *)
(* stands; behind the text is a NUL.                                       *)

At(text, at) == IF at > Len(text) THEN Token("NUL") ELSE text[at]

RECURSIVE scanSpace(_, _)
scanSpace(text, at) == IF At(text, at).t = " " THEN scanSpace(text, at + 1) ELSE at

\* How many bytes follow the first one of a character written as \uXXXX.
Following(code) == IF code < 128 THEN 0 ELSE IF code < 2048 THEN 1 ELSE 2

\* Byte j of the cl + 1 bytes of a character.
CodeByte(code, cl, j) ==
    LET bits == code \div (64 ^ (cl - j))
    IN  IF j > 0 THEN 128 + (bits % 64)
        ELSE bits + CASE cl = 0 -> 0 [] cl = 1 -> 192 [] cl = 2 -> 224

\* The item is allocated when the closing quote is met, with room for length
\* bytes; each caller fills in the bytes of its own character.
RECURSIVE pullString(_, _, _)
pullString(text, at, length) ==
    LET c == At(text, at)
    IN  IF c = Quote
        THEN [item |-> String_Item([k \in 1 .. length + 1 |->
                                        IF k = length + 1 THEN 0 ELSE Garbage]),
              at |-> at + 1]
        ELSE LET cl   == IF c.t = "u" THEN Following(c.of) ELSE 0
                 rest == pullString(text, at + 1, length + cl + 1)
                 mine == length + 1 .. length + cl + 1
             IN  [rest EXCEPT !.item.string =
                    [k \in DOMAIN @ |->
                        IF k \in mine THEN CodeByte(c.of, cl, k - length - 1) ELSE @[k]]]

Word(t) == CASE t \in {"NIL", "TRUE", "FALSE"} -> Node(t) [] OTHER -> NULL

pullNumber(c) == IF c.point THEN Real_Item(c.of) ELSE Integer_Item(LongLong(c.of \div 4))

RECURSIVE jsonString2item3(_, _), pullMapPair(_, _, _), pullArray(_, _, _),
          pullMapPair_CountsPairs(_, _, _)

\* Mutant: an association counts for one when it is handed on.
pullMapPair_CountsPairs(text, at, count) ==
    LET key   == jsonString2item3(text, scanSpace(text, at))
        colon == scanSpace(text, key.at)
        value == jsonString2item3(text, scanSpace(text, colon + 1))
        next  == scanSpace(text, value.at)
        rest  == IF At(text, next).t = "," THEN pullMapPair(text, next + 1, count + 1)
                 ELSE [item |-> allocate_container("MAP", count + 2), at |-> next + 1]
    IN  [rest EXCEPT !.item.items[count + 1] = key.item, !.item.items[count + 2] = value.item]

\* The container is allocated when its last part was read; each caller fills
\* in its own.  What comes after a part is not looked at, but for a comma.
pullMapPair(text, at, count) ==
    LET key   == jsonString2item3(text, scanSpace(text, at))
        colon == scanSpace(text, key.at)
        value == jsonString2item3(text, scanSpace(text, colon + 1))
        next  == scanSpace(text, value.at)
        rest  == IF At(text, next).t = "," THEN pullMapPair(text, next + 1, count + 2)
                 ELSE [item |-> allocate_container("MAP", count + 2), at |-> next + 1]
    IN  [rest EXCEPT !.item.items[count + 1] = key.item, !.item.items[count + 2] = value.item]

pullArray(text, at, count) ==
    LET part == jsonString2item3(text, scanSpace(text, at))
        next == scanSpace(text, part.at)
        rest == IF At(text, next).t = "," THEN pullArray(text, next + 1, count + 1)
                ELSE [item |-> allocate_container("ARRAY", count + 1), at |-> next + 1]
    IN  [rest EXCEPT !.item.items[count + 1] = part.item]

\* An empty container's closing bracket is seen and left where it is.
jsonString2item3(text, from) ==
    LET at   == scanSpace(text, from)
        c    == At(text, at)
        next == scanSpace(text, at + 1)
    IN  CASE c.t = "{" -> IF At(text, next).t = "}"
                          THEN [item |-> allocate_container("MAP", 0), at |-> next]
                          ELSE pullMapPair(text, next, 0)
          [] c.t = "[" -> IF At(text, next).t = "]"
                          THEN [item |-> allocate_container("ARRAY", 0), at |-> next]
                          ELSE pullArray(text, next, 0)
          [] c = Quote        -> pullString(text, at + 1, 0)
          [] c.t = "number" -> [item |-> pullNumber(c), at |-> at + 1]
          [] OTHER          -> [item |-> Word(c.t), at |-> at + 1]

-------------------------------------------------------------------------------
(* Tree to MessagePack file and back.                                      *)

Sized(type, n) == [type |-> type, size |-> n]
Valued(type, v) == [type |-> type, of |-> v]

RECURSIVE item32packContext(_)
item32packContext(item) ==
    CASE item.item_type = "MAP" ->
            <<Sized("MAP", Len(item.items) \div 2)>>
            \o FlattenSeq([k \in DOMAIN item.items |-> item32packContext(item.items[k])])
      [] item.item_type = "ARRAY" ->
            <<Sized("ARRAY", Len(item.items))>>
            \o FlattenSeq([k \in DOMAIN item.items |-> item32packContext(item.items[k])])
      [] item.item_type = "NIL"   -> <<Valued("NIL", 0)>>
      [] item.item_type = "TRUE"  -> <<Valued("BOOLEAN", 1)>>
      [] item.item_type = "FALSE" -> <<Valued("BOOLEAN", 0)>>
      [] item.item_type = "INTEGER" ->
            <<Valued(IF item.value < 0 THEN "NEGATIVE_INTEGER" ELSE "POSITIVE_INTEGER",
                     item.value)>>
      [] item.item_type = "REAL"   -> <<Valued("DOUBLE", item.value)>>
      [] item.item_type = "STRING" -> <<Valued("STR", CString(item.string))>>

\* packContext2item3 exits when there is no item; exit is TRUE then.  Items of
\* other types become NULL.
RECURSIVE packContext2item3(_, _)
packContext2item3(file, at) ==
    IF at > Len(file) THEN [item |-> NULL, at |-> at, exit |-> TRUE]
    ELSE
    LET item  == file[at]
        parts == IF item.type = "MAP" THEN 2 * item.size
                 ELSE IF item.type = "ARRAY" THEN item.size ELSE 0
        read[k \in 0 .. parts] ==
            IF k = 0 THEN [item |-> allocate_container(item.type, parts),
                           at |-> at + 1, exit |-> FALSE]
            ELSE LET before == read[k - 1]
                     part   == packContext2item3(file, before.at)
                 IN  IF before.exit THEN before
                     ELSE [part EXCEPT !.item = [before.item EXCEPT !.items[k] = part.item]]
        scalar(node) == [item |-> node, at |-> at + 1, exit |-> FALSE]
    IN  CASE item.type \in {"MAP", "ARRAY"} -> read[parts]
          [] item.type = "NIL"     -> scalar(Node("NIL"))
          [] item.type = "BOOLEAN" -> scalar(Node(IF item.of = 1 THEN "TRUE" ELSE "FALSE"))
          [] item.type \in {"POSITIVE_INTEGER", "NEGATIVE_INTEGER"} ->
                scalar(Integer_Item(LongLong(item.of)))
          [] item.type \in {"FLOAT", "DOUBLE"} -> scalar(Real_Item(item.of))
          [] item.type = "STR" -> scalar(String_Item(Append(item.of, 0)))
          [] OTHER -> scalar(NULL)
===============================================================================
