------------------------------- MODULE ObjectPack -------------------------------
(***************************************************************************)
(* CWPackContext: packing a graph of Objective-C objects.  An object is    *)
(* labelled when it is first packed with useLabels set, and packed as a    *)
(* reference to its label from then on, so that packing a graph with       *)
(* cycles ends and shared objects stay shared.                             *)
(*                                                                         *)
(*   heap     the client's objects, each with its class and its parts: an  *)
(*            array's elements, a map's keys and values in turn, a set's   *)
(*            members, those of a counted set each with its number, the    *)
(*            attributes a user object's cwPackSub packs                   *)
(*   packer   the context; todo is what is still to pack, the nested calls *)
(*            of packObject laid out in the order in which they are made;  *)
(*            packed (history) is the client's calls: object and useLabels *)
(*                                                                         *)
(* A step is one call of packObject up to the calls it makes.              *)
(***************************************************************************)
EXTENDS ObjectItems, FiniteSets

CONSTANTS
    Objects,      \* the client's objects
    Heaps,        \* the object graphs to pack: functions from Objects
    RepeatHeaps,  \* those of which the client packs more than one object
    MaxPacked,    \* bound: calls of packObject by that client
    MaxItems      \* bound: items in the stream

\* A part is an object, nil, or a number that a user class packs itself.
Nil == "nil"
Raw == "number"

ASSUME ObjectsAssumption ==
    /\ Heaps \subseteq
          [Objects -> [class : STRING, parts : Seq(Objects \cup {Nil, Raw})]]
    /\ RepeatHeaps \subseteq Heaps
    /\ MaxPacked \in Nat /\ MaxItems \in Nat

VARIABLES heap, packer

packVars == <<heap, packer>>

\* The classes that conform to CWPackPackerClasses, and the others.
PackerClasses == {"array", "map", "value", "null", "zero"}
UserClasses   == {"MyClass", "OtherClass", "NSSet", "NSCountedSet"}

SeqRange(s) == {s[k] : k \in DOMAIN s}

Parts(o) == SeqRange(heap[o].parts) \cap Objects

\* The objects that can be reached from those in S.
Reachable(S) ==
    LET reach[n \in Nat] == IF n = 0 THEN S
                            ELSE reach[n - 1] \cup UNION {Parts(o) : o \in reach[n - 1]}
    IN  reach[Cardinality(Objects)]

Cyclic(o) == \E p \in Reachable({o}) : p \in Reachable(Parts(p))

NewPacker == [useLabels |-> FALSE, labelMap |-> [o \in Objects |-> 0],
              userLabelGenerator |-> 0, packerLabelGenerator |-> 0,
              todo |-> <<>>, packed |-> <<>>]

PackInit == packer = NewPacker

-------------------------------------------------------------------------------

isMsgpackObject(o) == heap[o].class \in PackerClasses

\* Mutant: a set's members are not counted.
persistentAttributeCount_NoMembers(o) ==
    IF isMsgpackObject(o) \/ heap[o].class = "NSSet" THEN 0 ELSE Len(heap[o].parts)

\* An NSCountedSet counts its members and their numbers, and adds what its
\* superclass NSSet counts: the members again.
persistentAttributeCount(o) ==
    IF isMsgpackObject(o) THEN 0
    ELSE Len(heap[o].parts)
         + IF heap[o].class = "NSCountedSet" THEN Len(heap[o].parts) \div 2 ELSE 0

\* NSCountedSet inherits the name NSSet packs.
packerClassName(o) == IF heap[o].class = "NSCountedSet" THEN "NSSet" ELSE heap[o].class

\* What cwPackPackerTo, or the default cwPackTo, packs ahead of o's parts.  An
\* NSNumber of char type that is 0 is packed as NO and, there being no else, as 0.
Head_Items(o) ==
    CASE heap[o].class = "array" -> <<CWP_ITEM_ARRAY(Len(heap[o].parts))>>
      [] heap[o].class = "map"   -> <<CWP_ITEM_MAP(Len(heap[o].parts) \div 2)>>
      [] heap[o].class = "value" -> <<CWP_ITEM_VALUE(o)>>
      [] heap[o].class = "null"  -> <<CWP_ITEM_NIL>>
      [] heap[o].class = "zero"  -> <<CWP_ITEM_VALUE("NO"), CWP_ITEM_VALUE(o)>>
      [] OTHER                   -> <<CWP_ITEM_STR(packerClassName(o))>>

labelForObject(o) == packer.labelMap[o]

\* Mutant: both kinds of objects share one label generator.
assignLabel_OneGenerator(o) ==
    LET n == packer.userLabelGenerator + 1
    IN  [packer EXCEPT !.userLabelGenerator = n,
                       !.labelMap[o] = IF isMsgpackObject(o) THEN -n ELSE n]

\* The packer after assignLabelForObject, and the label.
assignLabelForObject(o) ==
    LET label == IF isMsgpackObject(o) THEN packer.packerLabelGenerator - 1
                                       ELSE packer.userLabelGenerator + 1
    IN  IF isMsgpackObject(o)
        THEN [packer EXCEPT !.packerLabelGenerator = label,
                            !.labelMap[o] = label]
        ELSE [packer EXCEPT !.userLabelGenerator = label,
                            !.labelMap[o] = label]

Marked(o, label) ==
    <<CWP_ITEM_ARRAY(2 + persistentAttributeCount(o)), CWP_ITEM_OBJECT_MARKER(label)>>

\* packObject writes items and goes on with parts.
Packs(ctx, items, parts) ==
    /\ Len(stream) + Len(items) <= MaxItems
    /\ stream' = stream \o items
    /\ packer' = [ctx EXCEPT !.todo = parts \o Tail(@)]
    /\ UNCHANGED <<heap, limit>>

Packing == limit = PACKING /\ packer.todo # <<>>

\* packObject:nil, and a number that the client's cwPackSub packs.
PackPart ==
    /\ Packing
    /\ \/ Head(packer.todo) = Nil /\ Packs(packer, <<CWP_ITEM_NIL>>, <<>>)
       \/ Head(packer.todo) = Raw /\ Packs(packer, <<CWP_ITEM_VALUE(Raw)>>, <<>>)

Next_Object == Head(packer.todo)

PackReference ==
    /\ Packing /\ Next_Object \in Objects
    /\ packer.useLabels /\ labelForObject(Next_Object) # 0
    /\ Packs(packer, <<CWP_ITEM_ARRAY(1),
                       CWP_ITEM_OBJECT_MARKER(labelForObject(Next_Object))>>, <<>>)

PackLabelled ==
    /\ Packing /\ Next_Object \in Objects
    /\ packer.useLabels /\ labelForObject(Next_Object) = 0
    /\ LET o     == Next_Object
           ctx   == assignLabelForObject(o)
           label == ctx.labelMap[o]
       IN  Packs(ctx, Marked(o, label) \o Head_Items(o), heap[o].parts)

PackPlain ==
    /\ Packing /\ Next_Object \in Objects
    /\ ~packer.useLabels
    /\ LET o     == Next_Object
           items == IF isMsgpackObject(o) THEN Head_Items(o)
                                          ELSE Marked(o, 0) \o Head_Items(o)
       IN  Packs(packer, items, heap[o].parts)

PackObjectStep == PackPart \/ PackReference \/ PackLabelled \/ PackPlain

-------------------------------------------------------------------------------
(* The client of the packer.  It sets useLabels when it packs a cycle.     *)

packObject ==
    /\ limit = PACKING /\ packer.todo = <<>>
    /\ Len(packer.packed) < IF heap \in RepeatHeaps THEN MaxPacked ELSE 1
    /\ \E o \in Objects :
        /\ packer.useLabels \/ ~Cyclic(o)
        /\ packer' = [packer EXCEPT !.todo = <<o>>,
                                    !.packed = Append(@, [object |-> o,
                                                 labelled |-> packer.useLabels])]
    /\ UNCHANGED <<heap, stream, limit>>

setUseLabels ==
    /\ limit = PACKING /\ packer.todo = <<>>
    /\ packer' = [packer EXCEPT !.useLabels = ~@]
    /\ UNCHANGED <<heap, stream, limit>>
===============================================================================
