------------------------------ MODULE ObjectUnpack ------------------------------
(***************************************************************************)
(* CWUnpackContext: rebuilding the objects from the items.  Every object   *)
(* that came with a label is appended to one of two reference arrays; its  *)
(* place there must be its label, and it must be there before its parts    *)
(* are read, for one of them may refer to it.                              *)
(*                                                                         *)
(* reader is the context:                                                  *)
(*   pos, rc   where the unpack context stands and its return_code         *)
(*   userReferences, packerReferences                                      *)
(*   made      the objects made so far; one is named by its place here     *)
(*   stack     the calls under way, the innermost first                    *)
(*   ret       what the call that has just returned has returned           *)
(*   raised    whether an exception was raised                             *)
(*   results   what the client's calls have returned; SKIPPED for an       *)
(*             object it has skipped                                       *)
(*                                                                         *)
(* A step fetches one item and goes on to where the next is fetched, or    *)
(* takes what a call has returned.                                         *)
(***************************************************************************)
EXTENDS ObjectItems

CONSTANTS
    KnownClasses,  \* the client's classes on this side: a function from their
                   \* names to what cwUnpackSub reads, in order: "object" by
                   \* unpackNextObject, "number" by cw_unpack_next_signed32
    SkipsLabelled  \* whether the client skips objects of a stream with labels

VARIABLE reader

\* A returned object is its place in made, or one of these.
NSNull  == 0
NIL     == -1
NUMBER  == -2   \* what cw_unpack_next_signed32 has returned
SKIPPED == -3
NONE    == -4   \* no call has returned

NewReader == [pos |-> 0, rc |-> CWP_RC_OK,
              userReferences |-> <<NSNull>>, packerReferences |-> <<NSNull>>,
              made |-> <<>>, stack |-> <<>>, ret |-> NONE, raised |-> FALSE,
              results |-> <<>>]

-------------------------------------------------------------------------------
(* Calls, objects and references.                                          *)

Call(r, frame)   == [r EXCEPT !.stack = <<frame>> \o @, !.ret = NONE]
GoOn(r, frame)   == [r EXCEPT !.stack = <<frame>> \o Tail(@), !.ret = NONE]
Return(r, v)     == [r EXCEPT !.stack = Tail(@), !.ret = v]
Stop(r, code)    == [Return(r, NIL) EXCEPT !.rc = code]
Fetched(r, f)    == [r EXCEPT !.pos = f.pos, !.rc = f.rc]

Make(r, class, value) ==
    [r EXCEPT !.made = Append(@, [class |-> class, value |-> value, parts |-> <<>>])]

Newest(r) == Len(r.made)

AddPart(r, n, v) == [r EXCEPT !.made[n].parts = Append(@, v)]

\* Containers get their place before their parts are read ...
ReferTo(r, label) ==
    IF label = 0 THEN r ELSE [r EXCEPT !.packerReferences = Append(@, Newest(r))]

\* Mutant: objects that are no containers get no place.
ReturnLabelled_Forgets(r, v, label) == Return(r, v)

\* ... and other objects when they are made; only here is the label looked at.
ReturnLabelled(r, v, label) ==
    IF label # 0 /\ label # -Len(r.packerReferences)
    THEN [Return(r, v) EXCEPT !.rc = CWP_RC_MALFORMED_INPUT]
    ELSE LET t == Return(r, v)
         IN  IF label = 0 THEN t ELSE [t EXCEPT !.packerReferences = Append(@, v)]

NextObjectSub(label) == [call |-> "cwUnpackNextObjectSub", label |-> label]

\* What cwUnpackObject makes of an item that is no container.
ScalarClass(item) ==
    CASE item.type = "STR"    -> "string"
      [] item.type = "VALUE"  -> "value"
      [] item.type = "MARKER" -> "external"
      [] OTHER                -> "garbage"

ScalarValue(item) == IF item.type \in {"STR", "VALUE"} THEN item.of ELSE "none"

\* cwUnpackObject of an item; the innermost call is the one that calls it.
cwUnpackObject(r, item, label) ==
    CASE item.type = "NIL" -> ReturnLabelled(r, NSNull, label)
      [] item.type = "MAP" ->
            LET m == ReferTo(Make(r, "map", "none"), label)
            IN  GoOn(m, [call |-> "map", object |-> Newest(m), left |-> 2 * item.size,
                         key |-> NONE])
      [] item.type = "ARRAY" ->
            IF item.size = 0
            THEN LET m == Make(r, "array", "none")
                 IN  ReturnLabelled(m, Newest(m), label)
            ELSE GoOn(r, [call |-> "first", label |-> label, dim |-> item.size])
      [] OTHER ->
            LET m == Make(r, ScalarClass(item), ScalarValue(item))
            IN  ReturnLabelled(m, Newest(m), label)

-------------------------------------------------------------------------------
(* The routine.                                                            *)

Running(call) ==
    /\ limit # PACKING /\ ~reader.raised
    /\ reader.stack # <<>> /\ Head(reader.stack).call = call

Frame == Head(reader.stack)

cwUnpackNextObjectSub ==
    /\ Running("cwUnpackNextObjectSub") /\ reader.ret = NONE
    /\ \E f \in {Fetch(reader.pos, reader.rc)} :
        reader' = IF f.rc # CWP_RC_OK THEN Return(Fetched(reader, f), NIL)
                  ELSE cwUnpackObject(Fetched(reader, f), f.item, Frame.label)

\* An array of one item, an object marker, is a reference.
Reference(r, label) ==
    LET refs == IF label < 0 THEN r.packerReferences ELSE r.userReferences
        k    == IF label < 0 THEN -label ELSE label
    IN  IF k >= Len(refs) THEN Stop(r, CWP_RC_VALUE_ERROR)
        ELSE Return(r, IF label > 0 THEN r.userReferences[label + 1]
                                    ELSE r.packerReferences[-label + 1])

\* The first item of an array with items tells what the array stands for.
\* Whether cw_unpack_next has found it is not looked at.
FirstItem ==
    /\ Running("first")
    /\ \E f \in {Fetch(reader.pos, reader.rc)} :
        LET r      == Fetched(reader, f)
            dim    == Frame.dim
            marker == f.item.type = "MARKER"
            arr    == ReferTo(Make(r, "array", "none"), Frame.label)
        IN  reader' =
                IF ~marker
                THEN cwUnpackObject(
                        Call(GoOn(arr, [call |-> "array", object |-> Newest(arr), left |-> dim]),
                             NextObjectSub(0)), f.item, 0)
                ELSE IF dim = 1 THEN Reference(r, f.item.label)
                ELSE IF f.item.label >= 0
                THEN Call(GoOn(r, [call |-> "class", label |-> f.item.label, left |-> dim - 2]),
                          NextObjectSub(0))
                ELSE IF dim # 2 THEN Stop(r, CWP_RC_VALUE_ERROR)
                ELSE GoOn(r, NextObjectSub(f.item.label))

\* What reads the attributes of an object of this class.
SubFrame(r, name, left) ==
    CASE name = "NSSet"              -> [call |-> "set", object |-> Newest(r), left |-> left]
      [] name \in DOMAIN KnownClasses ->
            [call |-> "user", object |-> Newest(r), reads |-> KnownClasses[name]]
      [] OTHER                       -> [call |-> "generic", object |-> Newest(r), left |-> left]

\* The class name of a user object was read: the object is made, gets its
\* place, and reads its attributes.
ClassName ==
    /\ Running("class") /\ reader.ret # NONE
    /\ LET named == reader.ret > 0 /\ reader.made[reader.ret].class = "string"
           name  == IF named THEN reader.made[reader.ret].value ELSE "none"
           r     == Make(reader, name, "none")
           label == Frame.label
       IN  reader' =
            IF ~named /\ reader.ret # NIL THEN [reader EXCEPT !.raised = TRUE]
            ELSE IF label = Len(r.userReferences)
            THEN GoOn([r EXCEPT !.userReferences = Append(@, Newest(r))],
                      SubFrame(r, name, Frame.left))
            ELSE IF label # 0 THEN Stop(r, CWP_RC_VALUE_ERROR)
            ELSE GoOn(r, SubFrame(r, name, Frame.left))

\* The loops over the parts of an array, a map, a set or an object of an
\* unknown class: ask for a part, or return ...
Loops == {"array", "map", "set", "generic"}

NextPart ==
    /\ \E call \in Loops : Running(call)
    /\ reader.ret = NONE
    /\ reader' = IF Frame.left > 0 THEN Call(reader, NextObjectSub(0))
                                   ELSE Return(reader, Frame.object)

OneLess == [Frame EXCEPT !.left = @ - 1]

\* Mutant: the part is taken without a look at the return code.
TakePart_Unchecked ==
    /\ \E call \in {"array", "generic"} : Running(call)
    /\ reader.ret # NONE
    /\ reader' = IF reader.ret = NIL THEN [reader EXCEPT !.raised = TRUE]
                 ELSE AddPart(GoOn(reader, OneLess), Frame.object, reader.ret)

\* Mutant: a part that could not be read is asked for again.
TakePart_AsksAgain ==
    /\ \E call \in {"array", "generic"} : Running(call)
    /\ reader.ret # NONE
    /\ reader' = IF reader.rc # CWP_RC_OK THEN GoOn(reader, Frame)
                 ELSE AddPart(GoOn(reader, OneLess), Frame.object, reader.ret)

\* ... take it, if no error was met ...
TakePart ==
    /\ \E call \in {"array", "generic"} : Running(call)
    /\ reader.ret # NONE
    /\ reader' = IF reader.rc # CWP_RC_OK THEN GoOn(reader, OneLess)
                 ELSE AddPart(GoOn(reader, OneLess), Frame.object, reader.ret)

\* Copying one of the first gives itself, of the second an immutable object
\* with the same parts; objects of other classes are no NSCopying.
Immutable  == {"string", "value"}
Containers == {"array", "map", "NSSet"}

Copies(r, v) == v = NSNull \/ (v > 0 /\ r.made[v].class \in Immutable \cup Containers)

\* What isEqual: can answer: of two containers it asks the parts, which is left
\* open here.
IsEqual(r, v, w) ==
    IF v = w THEN {TRUE}
    ELSE IF v <= 0 \/ w <= 0 THEN {FALSE}
    ELSE LET a == r.made[v]
             b == r.made[w]
         IN  IF a.class # b.class \/ a.class \notin Immutable \cup Containers THEN {FALSE}
             ELSE IF a.class \in Immutable THEN {a.value = b.value}
             ELSE IF Len(a.parts) # Len(b.parts) THEN {FALSE} ELSE BOOLEAN

\* At which of these parts of object n an object equal to v can be found, 0 for
\* at none.
FoundAt(r, n, places, v) ==
    LET equal(i) == IsEqual(r, r.made[n].parts[i], v)
    IN  {i \in places : TRUE \in equal(i)} \cup
        {i \in {0} : \A k \in places : FALSE \in equal(k)}

\* Mutant: a key that is in the dictionary is added again.
SetObject_NeverFound(r, n, key, v) == {AddPart(AddPart(r, n, key), n, v)}

\* dict[key] = val copies the key, and replaces the value of an equal one.
SetObject(r, n, key, v) ==
    LET copied == key > 0 /\ r.made[key].class \in Containers
        c      == IF copied THEN [r EXCEPT !.made = Append(@, r.made[key])] ELSE r
        copy   == IF copied THEN Newest(c) ELSE key
        keys   == {i \in DOMAIN r.made[n].parts : i % 2 = 1}
    IN  {IF i = 0 THEN AddPart(AddPart(c, n, copy), n, v)
                  ELSE [c EXCEPT !.made[n].parts[i + 1] = v] :
            i \in FoundAt(r, n, keys, key)}

\* The key is kept until its value is there; one that cannot be copied raises.
TakeKeyOrValue ==
    /\ Running("map") /\ reader.ret # NONE
    /\ LET key  == Frame.key
           next == GoOn(reader, [OneLess EXCEPT !.key = NONE])
       IN  \/ /\ key = NONE
              /\ reader' = GoOn(reader, [OneLess EXCEPT !.key = reader.ret])
           \/ /\ key # NONE /\ reader.rc # CWP_RC_OK
              /\ reader' = next
           \/ /\ key # NONE /\ reader.rc = CWP_RC_OK /\ ~Copies(reader, key)
              /\ reader' = [reader EXCEPT !.raised = TRUE]
           \/ /\ key # NONE /\ reader.rc = CWP_RC_OK /\ Copies(reader, key)
              /\ reader' \in SetObject(next, Frame.object, key, reader.ret)

\* unpackNextObject returns nil for NSNull.
NullToNil(v) == IF v = NSNull THEN NIL ELSE v

\* ... and a set takes it once, whatever was met; it cannot take nil.
TakeMember ==
    /\ Running("set") /\ reader.ret # NONE
    /\ \/ /\ NullToNil(reader.ret) = NIL
          /\ reader' = [reader EXCEPT !.raised = TRUE]
       \/ /\ NullToNil(reader.ret) # NIL
          /\ \E i \in FoundAt(reader, Frame.object,
                              DOMAIN reader.made[Frame.object].parts, reader.ret) :
                reader' = IF i = 0
                          THEN AddPart(GoOn(reader, OneLess), Frame.object, reader.ret)
                          ELSE GoOn(reader, OneLess)

\* cwUnpackSub of a class of the client.
cwUnpackSub ==
    /\ Running("user")
    /\ LET rest == [Frame EXCEPT !.reads = Tail(@)]
       IN  \/ /\ reader.ret = NONE /\ Frame.reads = <<>>
              /\ reader' = Return(reader, Frame.object)
           \/ /\ reader.ret = NONE /\ Frame.reads # <<>> /\ Head(Frame.reads) = "object"
              /\ reader' = Call(reader, NextObjectSub(0))
           \/ /\ reader.ret # NONE
              /\ reader' = AddPart(GoOn(reader, rest), Frame.object, NullToNil(reader.ret))
           \/ /\ reader.ret = NONE /\ Frame.reads # <<>> /\ Head(Frame.reads) = "number"
              /\ \E f \in {Fetch(reader.pos, reader.rc)} :
                    LET r == AddPart(GoOn(Fetched(reader, f), rest), Frame.object, NUMBER)
                    IN  reader' = IF f.rc = CWP_RC_OK /\ f.item # CWP_ITEM_VALUE("number")
                                  THEN [r EXCEPT !.rc = CWP_RC_TYPE_ERROR] ELSE r

UnpackStep ==
    \/ cwUnpackNextObjectSub
    \/ FirstItem
    \/ ClassName
    \/ NextPart
    \/ TakePart
    \/ TakeKeyOrValue
    \/ TakeMember
    \/ cwUnpackSub

-------------------------------------------------------------------------------
(* The client of the context.                                              *)

Idle == limit # PACKING /\ ~reader.raised /\ reader.stack = <<>>

unpackNextObject ==
    /\ Idle /\ reader.ret = NONE /\ reader.rc = CWP_RC_OK
    /\ reader' = Call(reader, NextObjectSub(0))

Unpacked ==
    /\ Idle /\ reader.ret # NONE
    /\ reader' = [reader EXCEPT !.results = Append(@, NullToNil(reader.ret)), !.ret = NONE]

HasLabels == \E k \in 1 .. limit : stream[k].type = "MARKER" /\ stream[k].label # 0

\* cw_skip_items(context, 1) instead of unpackNextObject.
skipNextObject ==
    /\ Idle /\ reader.ret = NONE /\ reader.rc = CWP_RC_OK
    /\ reader.pos < limit
    /\ HasLabels => SkipsLabelled
    /\ LET next == Behind(reader.pos + 1) - 1
       IN  reader' = IF next <= limit
                     THEN [reader EXCEPT !.pos = next, !.results = Append(@, SKIPPED)]
                     ELSE [reader EXCEPT !.pos = limit, !.rc = CWP_RC_END_OF_INPUT]
===============================================================================
