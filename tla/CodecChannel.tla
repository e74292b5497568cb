----------------------------- MODULE CodecChannel ------------------------------
(***************************************************************************)
(* A pack context and an unpack context without handlers, joined by a      *)
(* buffer: the client packs some items, in either compatibility mode, and  *)
(* hands the buffer, or only the first limit bytes of it, to a reader that *)
(* unpacks, skips, looks ahead or uses the expect API.                     *)
(*                                                                         *)
(*   packer  be_compatible and return_code of the pack context, and the    *)
(*           client at work                                                *)
(*   wire    the items in the buffer, each a header and a payload length   *)
(*   sent    (history) for each of them the call that packed it            *)
(*   limit   length of the reader's buffer, NULL while packing             *)
(*   reader  the unpack context: pos is current - start; left is what      *)
(*           cw_skip_items has still to skip; ahead is the type last       *)
(*           looked ahead at for the item at pos; answer is the result of  *)
(*           the expect API; last is the call made last; read (history)    *)
(*           is how many items the calls up to then stand for              *)
(***************************************************************************)
EXTENDS ExpectApi, PackUtils

CONSTANT Clients
    \* What clients do: for the name of each a record with the fields
    \*   calls      packing calls
    \*   foreign    items of other MessagePack writers
    \*   expected   calls to the expect API
    \*   skips      arguments of cw_skip_items
    \*   modes      the values given to cw_pack_set_compatibility
    \*   items      bound: items in the buffer

\* The input that begins with a header.
Begun(header) == [k \in 0 .. 17 |-> IF k < Len(header) THEN header[k + 1] ELSE 0]

\* What MessagePack says of the item at the beginning of the input b: the length
\* of its header, that of its payload, and how many items are parts of it.
Format(b) ==
    LET tag == b[0]
        f(length, payload, children) ==
            [length |-> length, payload |-> payload, children |-> children]
    IN  CASE tag \in FixStr      -> f(1, tag - 160, 0)
          [] tag \in FixArray    -> f(1, 0, tag - 144)
          [] tag \in FixMap      -> f(1, 0, 2 * (tag - 128))
          [] tag \in FixExt      -> f(2, FixExtLength[tag], 0)
          [] tag \in StrOrBin    -> f(1 + Width[tag], Count(b), 0)
          [] tag \in Ext         -> f(2 + Width[tag], Count(b), 0)
          [] tag \in Numeric     -> f(1 + Width[tag], 0, 0)
          [] tag \in {220, 221}  -> f(1 + Width[tag], 0, Count(b))
          [] tag \in {222, 223}  -> f(1 + Width[tag], 0, 2 * Count(b))
          [] OTHER               -> f(1, 0, 0)

IsItem(item) ==
    LET format == Format(Begun(item.header))
    IN  /\ item.header \in Seq(Byte) \ {<<>>}
        /\ Len(item.header) = format.length
        /\ item.payload = format.payload
        /\ item.children = format.children

ASSUME ClientsAssumption ==
    \A name \in DOMAIN Clients :
        /\ Clients[name].calls \subseteq PackingCalls
        /\ \A item \in Clients[name].foreign : IsItem(item)
        /\ Clients[name].expected \subseteq Expectations
        /\ Clients[name].items \in Nat
        /\ Clients[name].skips \subseteq Nat
        /\ Clients[name].modes \subseteq BOOLEAN

NULL == -1

\* No type of an item.
NOT_AHEAD == -1000

VARIABLES packer, wire, sent, limit, reader

vars == <<packer, wire, sent, limit, reader>>

NewReader == [pos |-> 0, return_code |-> CWP_RC_OK, item |-> NotAnItem,
              left |-> 0, ahead |-> NOT_AHEAD, answer |-> Answer(<<>>),
              expected |-> [kind |-> "none"], last |-> "none", read |-> 0]

Init ==
    /\ \E name \in DOMAIN Clients :
        packer = [be_compatible |-> FALSE, return_code |-> CWP_RC_OK, client |-> name]
    /\ wire = <<>>
    /\ sent = <<>>
    /\ limit = NULL
    /\ reader = NewReader

-------------------------------------------------------------------------------
(* The buffer.                                                             *)

Size(item) == Len(item.header) + item.payload

\* The offset of the k-th item.
Start(k) == Sums([j \in DOMAIN wire |-> Size(wire[j])])[k - 1]

\* Every payload byte is a nil: reading one as a tag goes unnoticed.
PayloadByte == 192

ByteAt(offset) ==
    IF offset >= Start(Len(wire) + 1) THEN 0
    ELSE LET k  == CHOOSE j \in DOMAIN wire :
                       Start(j) <= offset /\ offset < Start(j + 1)
             at == offset - Start(k)
         IN  IF at < Len(wire[k].header) THEN wire[k].header[at + 1]
                                         ELSE PayloadByte

\* The bytes from current on, as far as a header can reach.
View == [k \in 0 .. 17 |-> ByteAt(reader.pos + k)]

Available == limit - reader.pos

-------------------------------------------------------------------------------
(* Packing.                                                                *)

Client == Clients[packer.client]

Packing == limit = NULL /\ Len(wire) < Client.items

SetCompatibility ==
    /\ Packing
    /\ \E b \in Client.modes : packer' = [packer EXCEPT !.be_compatible = b]
    /\ UNCHANGED <<wire, sent, limit, reader>>

NumericExtension(call) == call.op \in {"ext_integer", "ext_float", "ext_double"}

Pack ==
    /\ Packing
    /\ packer.return_code = CWP_RC_OK
    /\ \E call \in Client.calls :
        LET e == EncodeAny(call, packer.be_compatible)
        IN  /\ packer' = [packer EXCEPT !.return_code = e.rc]
            /\ IF e.rc = CWP_RC_OK
               THEN /\ wire' = Append(wire, [header |-> e.header, payload |-> e.payload])
                    /\ sent' = Append(sent, [call |-> call,
                                             be_compatible |-> packer.be_compatible])
               ELSE UNCHANGED <<wire, sent>>
    /\ UNCHANGED <<limit, reader>>

\* An item some other writer has put there.
ForeignPack ==
    /\ Packing
    /\ \E item \in Client.foreign :
        /\ wire' = Append(wire, [header |-> item.header, payload |-> item.payload])
        /\ sent' = Append(sent, [call |-> [op |-> "foreign", children |-> item.children],
                                 be_compatible |-> FALSE])
    /\ UNCHANGED <<packer, limit, reader>>

\* Where the reader's buffer may end: anywhere in a header, one byte short
\* of an item's end, or with an item.
Cuts ==
    UNION {{Start(k) + d : d \in 0 .. Len(wire[k].header)} \cup
           {Start(k + 1) - 1, Start(k + 1)} : k \in DOMAIN wire}

cw_unpack_context_init ==
    /\ limit = NULL
    /\ limit' \in {0} \cup Cuts
    /\ UNCHANGED <<packer, wire, sent, reader>>

-------------------------------------------------------------------------------
(* Reading.                                                                *)

Ready == /\ limit # NULL
         /\ reader.return_code = CWP_RC_OK
         /\ reader.left = 0

\* The context after cw_unpack_next.
Next_Item(r) ==
    LET asks == UnpackAsks(View)
        code == AskCode(asks, Available, ItemError(View))
    IN  [r EXCEPT !.pos         = @ + Consumed(asks, Available),
                  !.return_code = code,
                  !.item        = IF code = CWP_RC_OK THEN UnpackItem(View)
                                                      ELSE NotAnItem,
                  !.ahead       = NOT_AHEAD,
                  !.read        = @ + 1]

cw_unpack_next ==
    /\ Ready
    /\ reader' = [Next_Item(reader) EXCEPT !.last = "next"]
    /\ UNCHANGED <<packer, wire, sent, limit>>

\* A routine of the expect API, or cw_unpack_next and then a reader of
\* numeric_extensions.c.  The client does not give a timestamp to the latter:
\* they would take its seconds for a length and a pointer.
cw_unpack_next_expected ==
    /\ Ready
    /\ \E expected \in Client.expected, r \in {Next_Item(reader)} :
        LET content == IF r.item.type <= CWP_ITEM_MAX_USER_EXT
                       THEN Field(View, r.item.as.start, r.item.as.length) ELSE <<>>
            a       == IF r.return_code # CWP_RC_OK THEN NoAnswer(r.return_code)
                       ELSE Expect(expected, r.item, content)
        IN  /\ expected.kind \in NumericKinds => r.item.type # CWP_ITEM_TIMESTAMP
            /\ reader' = [r EXCEPT !.return_code = a.rc, !.answer = a,
                                   !.expected = expected, !.last = "expect"]
    /\ UNCHANGED <<packer, wire, sent, limit>>

\* How many items a container announces.
ChildrenSent(call) ==
    CASE call.op = "array_size" -> call.n
      [] call.op = "map_size"   -> 2 * call.n
      [] call.op = "foreign"    -> call.children
      [] OTHER                  -> 0

\* The item behind n whole ones, each with everything it contains, that
\* begin with item k; the one behind the last item when there are fewer.
Behind ==
    LET last == Len(wire) + 1
        behind[k \in 1 .. last] ==
            [n \in Nat |->
                IF n = 0 \/ k = last THEN k
                ELSE behind[behind[k + 1][ChildrenSent(sent[k].call)]][n - 1]]
    IN  behind

\* cw_skip_items is called ...
cw_skip_items ==
    /\ Ready
    /\ \E n \in Client.skips :
        reader' = [reader EXCEPT !.left = n, !.last = "skip",
                                 !.ahead = NOT_AHEAD,
                                 !.read = Behind[@ + 1][n] - 1]
    /\ UNCHANGED <<packer, wire, sent, limit>>

\* ... and goes round its loop.
SkipItem ==
    /\ reader.left > 0
    /\ LET asks == SkipAsks(View)
           code == AskCode(asks, Available,
                           IF TagType(View[0]) = CWP_NOT_AN_ITEM
                           THEN CWP_RC_MALFORMED_INPUT ELSE CWP_RC_OK)
           r    == [reader EXCEPT !.pos = @ + Consumed(asks, Available),
                                  !.return_code = code]
       IN  reader' = IF code = CWP_RC_OK
                     THEN [r EXCEPT !.left = @ - 1 + Children(View)]
                     ELSE [r EXCEPT !.left = 0, !.item = NotAnItem]
    /\ UNCHANGED <<packer, wire, sent, limit>>

cw_look_ahead ==
    /\ Ready
    /\ LET code == IF Available < 1 THEN CWP_RC_END_OF_INPUT
                   ELSE IF Available < Peek(View) THEN CWP_RC_BUFFER_UNDERFLOW
                   ELSE CWP_RC_OK
       IN  reader' = IF code = CWP_RC_OK
                     THEN [reader EXCEPT !.ahead = AheadType(View), !.last = "ahead"]
                     ELSE [reader EXCEPT !.return_code = code, !.item = NotAnItem,
                                         !.ahead = CWP_NOT_AN_ITEM, !.last = "ahead"]
    /\ UNCHANGED <<packer, wire, sent, limit>>

\* Any call on a stopped reader returns at once.
StoppedCall ==
    /\ limit # NULL /\ reader.return_code # CWP_RC_OK
    /\ UNCHANGED vars

Next ==
    \/ SetCompatibility
    \/ Pack
    \/ ForeignPack
    \/ cw_unpack_context_init
    \/ cw_unpack_next
    \/ cw_unpack_next_expected
    \/ cw_skip_items
    \/ SkipItem
    \/ cw_look_ahead
    \/ StoppedCall

Spec == Init /\ [][Next]_vars

-------------------------------------------------------------------------------
(* Properties.                                                             *)

\* What the item packed by a call is to its reader.
Blobbed(type, k, n) ==
    [type |-> type, as |-> [length |-> n, start |-> Size(wire[k]) - n]]

Meaning(k) ==
    LET call == sent[k].call
    IN  CASE call.op = "nil"        -> [type |-> CWP_ITEM_NIL, as |-> <<>>]
          [] call.op = "boolean"    -> [type |-> CWP_ITEM_BOOLEAN, as |-> call.b]
          [] call.op = "unsigned"   -> [type |-> CWP_ITEM_POSITIVE_INTEGER, as |-> call.v]
          [] call.op = "signed"     -> [type |-> IF Negative(call.v)
                                                 THEN CWP_ITEM_NEGATIVE_INTEGER
                                                 ELSE CWP_ITEM_POSITIVE_INTEGER,
                                        as |-> call.v]
          [] call.op = "float"      -> [type |-> CWP_ITEM_FLOAT, as |-> call.bits]
          [] call.op = "double"     -> [type |-> CWP_ITEM_DOUBLE, as |-> call.bits]
          [] call.op = "array_size" -> [type |-> CWP_ITEM_ARRAY, as |-> call.n]
          [] call.op = "map_size"   -> [type |-> CWP_ITEM_MAP, as |-> call.n]
          [] call.op = "str"        -> Blobbed(CWP_ITEM_STR, k, call.l)
          [] call.op = "bin"        -> Blobbed(IF sent[k].be_compatible
                                               THEN CWP_ITEM_STR ELSE CWP_ITEM_BIN,
                                               k, call.l)
          [] call.op = "ext"        -> Blobbed(call.type, k, call.l)
          [] call.op = "time"       -> [type |-> CWP_ITEM_TIMESTAMP,
                                        as |-> [sec |-> call.sec, nsec |-> call.nsec]]
          [] call.op = "time_interval" ->
                [type |-> CWP_ITEM_TIMESTAMP,
                 as |-> [sec |-> call.ti.floor, nsec |-> call.ti.product]]
          [] NumericExtension(call) -> Blobbed(call.type, k, Size(wire[k]) - 2)

\* The number d as an item: any form that has exactly its value.
Forms(d) ==
    (IF d.int = <<>> THEN {}
     ELSE {[type |-> IF Negative(d.int) THEN CWP_ITEM_NEGATIVE_INTEGER
                                        ELSE CWP_ITEM_POSITIVE_INTEGER, as |-> d.int]}) \cup
    (IF d.float = <<>> THEN {} ELSE {[type |-> CWP_ITEM_FLOAT, as |-> d.float]}) \cup
    {[type |-> CWP_ITEM_DOUBLE, as |-> d.double]}

Packed(k) == sent[k].call.op # "foreign"

Optimised(k) == sent[k].call.op \in {"double_opt", "float_opt"}

\* What was packed is what is unpacked: type and value survive every format
\* the packer chooses, in both compatibility modes (where a bin comes back
\* as a str), and blobs are found where their payload is; a real packed in an
\* optimised form is the same number.
RoundTrip ==
    reader.last = "next" /\ reader.return_code = CWP_RC_OK /\ Packed(reader.read) =>
        IF Optimised(reader.read)
        THEN \E m \in Forms(sent[reader.read].call.d) :
                reader.item.type = m.type /\ reader.item.as = m.as
        ELSE /\ reader.item.type = Meaning(reader.read).type
             /\ reader.item.as = Meaning(reader.read).as

\* Between two calls a running reader stands in front of an item, the one
\* behind those its calls stand for: unpacking takes exactly one item, and
\* skipping n items takes n with everything their containers hold.
OnBoundary ==
    limit # NULL /\ reader.return_code = CWP_RC_OK /\ reader.left = 0 =>
        reader.pos = Start(reader.read + 1)

\* A buffer that ends between two items is told from one that ends within
\* one, and nothing else can go wrong with what the library itself packed.
TruncationIsTold ==
    LET boundaries == {Start(k) : k \in 1 .. Len(wire) + 1}
    IN  CASE reader.return_code = CWP_RC_END_OF_INPUT ->
                limit \in boundaries /\ reader.pos = limit
          [] reader.return_code = CWP_RC_BUFFER_UNDERFLOW ->
                limit \notin boundaries
          [] reader.return_code \in {CWP_RC_MALFORMED_INPUT,
                                     CWP_RC_WRONG_TIMESTAMP_LENGTH} ->
                \E k \in DOMAIN sent : ~Packed(k)
          [] OTHER -> reader.return_code # CWP_RC_OK => reader.last = "expect"

\* The type cw_look_ahead tells is the type cw_unpack_next then finds; only
\* the positive integers some other writer has put in a signed format are
\* called negative by the former.
LookAheadAgrees ==
    [][reader.ahead # NOT_AHEAD /\ reader'.last = "next"
          /\ reader'.return_code = CWP_RC_OK =>
       \/ reader'.item.type = reader.ahead
       \/ /\ reader.ahead = CWP_ITEM_NEGATIVE_INTEGER
          /\ reader'.item.type = CWP_ITEM_POSITIVE_INTEGER
          /\ ~Packed(reader'.read)]_vars

\* The integer v, as an int64_t or a uint64_t, is one of w bytes.
HasWidth(item, kind, w) ==
    LET v == item.as
    IN  IF kind = "signed"
        THEN /\ SignExtended(Low(v, w)) = v
             /\ item.type = CWP_ITEM_POSITIVE_INTEGER => ~Negative(v)
        ELSE ZeroExtended(Low(v, w)) = v

Integers == {CWP_ITEM_POSITIVE_INTEGER, CWP_ITEM_NEGATIVE_INTEGER}

\* The operations whose items a routine that expects one kind of item takes.
Expecting(kind, be_compatible) ==
    CASE kind = "real"          -> {"unsigned", "signed", "float", "double"}
      [] kind = "time_interval" -> {"time", "time_interval"}
      [] kind = "str_length"    -> IF be_compatible THEN {"str", "bin"} ELSE {"str"}
      [] kind = "bin_length"    -> IF be_compatible THEN {} ELSE {"bin"}
      [] OTHER                  -> {kind}

\* What it is to tell of them: the numbers a real and a time are converted to
\* are left out, and a nil has nothing to tell.
Given(call) ==
    CASE call.op = "boolean"                  -> call.b
      [] call.op \in {"array_size", "map_size"} -> call.n
      [] call.op \in {"str", "bin"}             -> call.l
      [] OTHER                                -> <<>>

\* The lengths of the ext items a reader of a numeric extension can read.
ReadableLengths ==
    [ext_integer |-> {0, 1, 2, 4, 8}, ext_float |-> {4}, ext_double |-> {8}]

\* What the answer a to an expectation says of the item m that packed.call
\* has packed.
RightAnswer(a, expected, m, packed) ==
    LET kind == expected.kind
        call == packed.call
    IN  CASE kind \in {"signed", "unsigned"} ->
                a = IF m.type \notin Integers
                       \/ (kind = "unsigned" /\ m.type = CWP_ITEM_NEGATIVE_INTEGER)
                    THEN TypeError
                    ELSE IF HasWidth(m, kind, expected.w) THEN Answer(m.as)
                    ELSE ValueError
          [] kind \in DOMAIN Accepted ->
                a = IF call.op \in Expecting(kind, packed.be_compatible)
                    THEN Answer(Given(call)) ELSE TypeError
          [] kind \in NumericKinds ->
                IF ~NumericExtension(call) /\ call.op # "ext" THEN a = TypeError
                ELSE IF call.op = kind
                THEN a = Answer(IF kind = "ext_integer" THEN call.v ELSE call.bits)
                ELSE IF m.as.length \in ReadableLengths[kind] THEN a.rc = CWP_RC_OK
                ELSE a = ValueError

\* The expect API answers the packed integer exactly when it is one of the
\* type asked for, VALUE_ERROR when it is out of that type's range and
\* TYPE_ERROR when it is no integer of the type's sign.  The other routines
\* take the items of the operations they expect, and tell of them the truth
\* value, the size of the container or the length of the blob that was packed;
\* on any other item they answer TYPE_ERROR.  The readers of the numeric
\* extensions answer what cw_pack_ext_integer, _float and _double packed,
\* VALUE_ERROR when an ext item has no length they can read (one of another
\* operation with such a length is read as a number, whatever its bytes are
\* meant for), and TYPE_ERROR on all but ext items.  What a routine answers is
\* also what it leaves in the context.  (Items of the optimised reals, which are
\* any of several types, and of other writers are left out.)
ExpectTells ==
    reader.last = "expect"
        /\ reader.return_code \notin {CWP_RC_END_OF_INPUT, CWP_RC_BUFFER_UNDERFLOW}
        /\ Packed(reader.read) /\ ~Optimised(reader.read) =>
    /\ reader.return_code = reader.answer.rc
    /\ RightAnswer(reader.answer, reader.expected, Meaning(reader.read),
                   sent[reader.read])

\* In compatibility mode no routine of cwpack.c packs a format the old
\* MessagePack has not: no bin, no ext, no timestamp, no str 8.  (The
\* routines of numeric_extensions.c pack ext items in either mode.)
CompatIsOldFormat ==
    \A k \in DOMAIN sent :
        sent[k].be_compatible /\ ~NumericExtension(sent[k].call) =>
            wire[k].header[1] \notin {217} \cup 196 .. 201 \cup FixExt

\* The digits of an item that its header spells out, and a header decoded.
Digits(call) ==
    CASE call.op \in {"unsigned", "signed"}         -> call.v
      [] call.op \in {"array_size", "map_size"}     -> ZeroExtended(BigEndian(call.n, 4))
      [] call.op \in {"str", "bin"}                 -> ZeroExtended(BigEndian(call.l, 4))

HeaderLength(tag) == IF tag \in DOMAIN Width THEN 1 + Width[tag] ELSE 1

Decoded(header) == UnpackItem(Begun(header))

SameKind(type1, type2) ==
    type1 = type2 \/ {type1, type2} \subseteq Integers

Same(item, m) ==
    /\ item.type = m.type
    /\ IF m.type \in {CWP_ITEM_STR, CWP_ITEM_BIN}
       THEN item.as.length = m.as.length
       ELSE item.as = m.as

\* No shorter header would have done: no tag of the item's kind, alone or with
\* fewer bytes behind it, is the same item to a reader.
NoShorterForm ==
    \A k \in DOMAIN sent :
        limit = NULL /\ ~sent[k].be_compatible
            /\ sent[k].call.op \in {"unsigned", "signed", "array_size", "map_size",
                                    "str", "bin"} =>
        \A w \in {w \in {0, 1, 2, 4} : w + 1 < Len(wire[k].header)} :
        \A tag \in {tag \in Byte : SameKind(TagType(tag), Meaning(k).type)
                                 /\ HeaderLength(tag) = w + 1} :
            ~Same(Decoded(<<tag>> \o Low(Digits(sent[k].call), w)), Meaning(k))
===============================================================================
