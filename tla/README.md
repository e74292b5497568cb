# CWPack in TLA+

CWPack packs and unpacks MessagePack. The library is one C file, `src/src/cwpack.c`, around two
contexts; everything that makes it more than an encoder (buffers that run full, files, barriers, read
and write errors) happens in handlers the contexts call, most of them in
`src/goodies/basic-contexts/basic_contexts.c`. On top of it the repository keeps an Objective-C wrapper that
packs object graphs, a dump tool and a JSON converter. This project models these, checks them with TLC, and
proves with TLAPS the safety of all five kinds of buffered contexts, that everything packed in the MessagePack formats is read back and
skipped as it was packed, what the expect API answers for it, and what the object packer announces. Paths below are relative to the repository; `src/src`
is the library's own source directory.

- [The system](#the-system)
- [Modules](#modules)
- [Runs](#runs)
- [Findings](#findings)
- [Proofs](#proofs)
- [Not modelled](#not-modelled)
- [Plan](#plan)

## The system

| Component | Source | State | Operations | What makes it correct |
|---|---|---|---|---|
| pack context core | `cwpack.c` 75-445, macros in `cwpack_internals.h` 125-192 | `start`, `current`, `end`, `be_compatible`, `return_code`, two handlers | `cw_pack_*`, `cw_pack_insert`, `cw_pack_flush`, `cw_pack_set_compatibility` | an item is stored whole or not at all, never past `end`; a stopped context stays stopped |
| pack formats | `cwpack.c` 102-426, `numeric_extensions.c` 40-103 | none | choice of the header | the value survives; the shortest form; nothing the old MessagePack lacks in compatibility mode |
| unpack context core | `cwpack.c` 450-814, macros 284-312 | `start`, `current`, `end`, `return_code`, `item`, the underflow handler | `cw_unpack_next`, `cw_skip_items`, `cw_look_ahead` | exactly one item (or n with all they contain) is consumed; the end of the input is told from an item cut short |
| memory pack contexts | `basic_contexts.c` 38-73 | a malloc'ed buffer that grows by `realloc`, or the client's own | init, overflow handler, free | the buffer is exactly what was packed, also when `realloc` fails |
| stream pack context | `basic_contexts.c` 81-146 | buffer, `FILE*` | init, overflow and flush handlers, terminate | each byte reaches the stream once and in order |
| file pack context | `basic_contexts.c` 217-323 | buffer, descriptor, `barrier` | the same, and set and release of the barrier | the same, and nothing behind the barrier is written |
| stream unpack context | `basic_contexts.c` 153-210 | buffer, `buffer_length`, `FILE*` | init, underflow handler, terminate | the client sees the stream's bytes in order |
| file unpack context | `basic_contexts.c` 330-415 | the same with a descriptor, and `barrier` | the same, and set, rescan from and release of the barrier | the same, and what the barrier marks can be read again |
| utils | `cwpack_utils.c` 33-63 and 69-394 | none | `cw_pack_double_opt`, `_float_opt`, `_time_interval`; `cw_unpack_next_*` | a real packed in a shorter form is the same number; a number is answered only if the C type asked for holds it |
| numeric extensions | `numeric_extensions.c` | none | `cw_pack_ext_*`, `get_ext_*` | numbers survive in ext items |
| Objective-C wrapper | `CWPackContext.m` | label map and generators; two reference arrays | pack and unpack object graphs | labels mean the same object on both sides; a container has the parts it announces |
| dump | `cwpack_dump.c` | a file unpack context behind a barrier; the nesting of `dump_item` | print a stream, with `-r` as objects, with `-t` line by line | every item is printed once, where it belongs |
| example | `item.c`, `json2cwpack2json.c` | a tree of items | JSON text to tree to MessagePack and back | the tree is the value; the output converts to itself |
| Swift wrapper, obsolete Objective-C wrapper, tests, configuration | | | | |


How they interact. A packing routine computes an item's size, claims that much space (`cw_pack_reserve_space`),
and stores the bytes. If they do not fit it calls the overflow handler, which may write, move, replace
or enlarge the buffer; whatever the handler answers other than OK becomes the context's `return_code`,
and all later calls but `cw_pack_insert` return at once. OK is trusted: the bytes are stored without a second look.
Unpacking is the mirror image with one difference: a routine claims bytes in several steps (tag, length,
type, content), the handler may be called at each of them, and the handler's END_OF_INPUT has to be turned
into BUFFER_UNDERFLOW at every step but the first.

There are no threads. What is hard is what long sequences of legal calls do: a barrier set several flushes
ago; a short write followed by a flush; a buffer that grows while something is kept in it; a window that
moves in the middle of an item while `read()` gives one byte at a time and then fails; a `realloc` that
fails after the bytes have moved; a container cut off within its third child; the fourth label of a graph whose second
object contains itself. The list of hazards, each at
its line with the properties that watch it, is in `PROJECT.json`.

## Modules

```
ReturnCodes                      CWP_RC_*
Buffers                          doubling a length; moving bytes by memcpy or memmove
PackCodec                        value -> header          UnpackCodec    header -> item, asks, children
                                                          ExpectApi      item -> answer
PackCore   (no state of its own) UnpackCore  (uc, call, file)
  FilePack    (fpc)                FileUnpack
  StreamPack  (spc)                StreamUnpack
  MemoryPack  (mpc)
PackStream   (abstract)          UnpackStream (abstract)
PackUtils                        the optimising routines -> PackCodec
CodecChannel                     a packer and a reader joined by a buffer
ObjectItems                      items of a stream of objects
  ObjectPack   (heap, packer)      ObjectUnpack (reader)      Dump (options, dump)
  ObjectChannel                    the three joined by a stream
Item                             example/item.c            JsonExample  the converter
BufferProofs                     numbering of bytes, the doubling loop, smallest members
  FilePackProofs, StreamPackProofs, MemoryPackProofs
  UnpackContextProofs            the steps of UnpackCore; FileUnpack and StreamUnpack
  CodecProofs                    the formats: what each routine packs, what each tag is read as
    ChannelProofs                CodecChannel
  ObjectChannelProofs            labels and sizes of packed objects, and reading them
MC*                              instances for TLC
```

**PackCore** holds the C macros and routines as operators from a context (a record) to the set of contexts
they can leave; a handler is an argument, as in C, so `FilePack`, `StreamPack` and `MemoryPack` each pass their own.
A context's `content` is the sequence of bytes between `start` and `current`, and `end` is `end - start`.
Pointers are offsets. The k-th byte packed in a session is the number k: what the file or buffer should hold is then
`1, 2, ..., n`, and a byte lost, repeated or overwritten shows. A packing call is what it asks of a
context in either compatibility mode: an error code, or a number of bytes (`PackCodec!Demand`). One action
of these modules is one call of the client, with every call it makes to handlers and the system; `malloc`, `realloc`,
`write` and `fwrite` may fail, and a failed `write` or `fwrite` may have taken any part of its bytes.

**UnpackCore** takes smaller steps, because a handler can be called in the middle of a routine. `call` is
the routine under way: what it still has to ask for, where its tag was, how many items `cw_skip_items` has left.
`AssertSpace` is `cw_unpack_assert_space` when the bytes are there; `Underflow` calls the handler, which
makes room (`MakeRoom`); each `read()` or `fread` is a step that gives some bytes, none, or an error.
The file is a sequence of records, byte k telling what each routine makes of it *as a tag*; `MCUnpackFiles`
computes these records from real bytes with `UnpackCodec`, so which asks follow a tag is the codec's and not an
assumption of the model.

**PackCodec**, **UnpackCodec** and **ExpectApi** are pure operators. A 64-bit word is the tuple of its eight bytes,
most significant first, which is the order on the wire; two's complement, sign extension and the casts to
narrower types are operations on tuples, and no TLC integer overflows. `UnpackAsks` and `SkipAsks` give the sequence of asks of an item, which is what
decides both consumption and truncation. **CodecChannel** joins them: a client packs items (or finds items of
other writers in the buffer), the reader's buffer is cut anywhere, and the reader unpacks, skips, looks
ahead or expects in any order. Its packer has no overflow handler because its buffer is unbounded; what a
full buffer does is PackCore's subject.

**PackStream** and **UnpackStream** say what a client may rely on whatever the buffer: the sink is a prefix of what was
packed and all of it after an error-free termination; the input is consumed in order, except for going back to a mark,
and END_OF_INPUT comes at the end. Each context's `ImplementsStream` is the refinement.

**PackUtils** gives a real by the forms that have its value: its double, its float if there is one, its 64-bit integer if there is
one. Which form the code takes is then a question of limits, and `RoundTrip` asks that the form taken is one of these.

**ObjectPack** lays the nested calls of `packObject` out in `todo`, in the order in which they are made; a step packs what one call packs
itself and puts the calls it makes in front. **ObjectUnpack** has the call stack explicitly: a step fetches one
item and goes on to where the next one is fetched, or takes what an inner call has returned; a made object is its place in `made`,
so identity is equality of numbers and a reference to an object whose parts are still being read is nothing special, which is
what makes cycles work in the code. Both reference arrays begin with an NSNull, as in the code. **Dump** reads the same stream; it reads the first item of
an array before it prints the array, so an item in hand is part of its state. The offset of an item is the number of items before it.
**ObjectChannel** lets a client pack (one object, or several from the same packer, with `useLabels` switched between calls), hands the
stream over, whole or cut, and unpacks (or skips) and dumps it; other writers' streams come in through `ForeignStreams`.

**Item** is the example's code as recursive operators over tokens and UTF-8 bytes: a C routine that moves a pointer becomes an operator
that returns what was read and where it stands, and a container that its innermost call allocates is filled on the way
back, as in the code. **JsonExample** runs `main`, and runs it again on its own output, as `runExample.sh` does with `diff`.

`PROJECT.json` maps each definition to its lines. Definitions named `X_Y` after another definition `X` are
mutants: the code with a plausible bug, used to see that the properties notice.

## Runs

Every property of a passing run is one that at least one mutant of the code breaks.

| Run | Question | Instance |
|---|---|---|
| `file_pack` | Does the file get every byte once and in order, does the barrier hold, does a stopped context stay stopped, whatever `write` and `malloc` do? | `FilePack.cfg` |
| `stream_memory_pack` | The same for a stream whose client does not flush content itself; does the doubling loop end, is exactly one buffer alive? In memory, is the buffer exactly what was packed, and is the client's own stopped by what does not fit and by nothing else? | `StreamMemoryPack.cfg` |
| `codec` | Does each value survive, in its shortest form, also through the routines of utils; does the reader stay on item boundaries; are truncation, look-ahead and the expect API right? | `Codec.cfg` |
| `unpack_contexts` | Are the file's bytes consumed in order however `read()` portions them and the client mixes calls and barrier; does every call return? The same for a stream that ends with an item and whose `fread` gives nothing when it fails. | `UnpackContexts.cfg` |
| `objects` | Are object graphs rebuilt with their sharing and cycles; does every call end; does the dump show what is there; does it read what the unpacker accepts of other writers' streams? | `Objects.cfg` |
| `json` | Is the tree the value in the file, for every way of writing it; does the converter reproduce its own output? | `Json.cfg` |
| `file_pack_overlap`, `stopped_insert`, `stream_pack_repeat`, `stream_unpack_cut`, `objects_miscounted`, `dump_offsets` | [Findings](#findings): what a doc says and the code does not do. | one property each |

Properties worth a word:

- `NoByteLost` (packing): file and content together are `1..packed` until a write fails; relates the file to the buffer
  over any number of flushes, growths and barriers.
- `BarrierHolds`: what was packed since the barrier was set is in the buffer from the barrier on, although the
  barrier itself moves with every flush.
- `CompleteAtEnd`: `return_code` OK after terminate means the whole session is in the file.
- `StoppedStaysStopped`: every call on a stopped context leaves it as it is, but for an insertion, which leaves it stopped. `StoppedIsInert` is
  the stronger thing that `src/README.md` says, of all calls; finding 5.
- `StaticStaysFixed`: `asked` counts the bytes that the client's legal calls have asked for. While the code of a context in the client's own buffer is OK,
  it holds all of them; the call that changes the code stores nothing and answers BUFFER_OVERFLOW exactly when more was asked for than fits.
- `TruncationIsTold`: END_OF_INPUT exactly at a boundary of items in the reader's bytes, BUFFER_UNDERFLOW exactly when the buffer
  ends within one, and no other error for input the library packed.
- `OnBoundary`: after unpacking, skipping with nesting and looking ahead in any order the reader stands where an
  independent recursion over the packed containers (`Behind`) says it should.
- `NoShorterForm`: no shorter header, decoded by the reader, would have been the same item.
- `ExpectTells`: for an integer routine the answer is compared with whether the packed number, sign-extended from the asked width, is itself.
  Every other routine is told by the operations whose items it takes (`Expecting`): of theirs it answers what was given to the packing routine, on all
  others TYPE_ERROR. The readers of numeric extensions answer what their own packing routines were given, VALUE_ERROR at a length they cannot read
  and TYPE_ERROR on what is no ext item; what they make of an ext item of another operation with such a length is left open. So are the numbers that reals
  and times are converted to, and the answers for optimised reals, which are items of several types.
- `WindowIsFile`, `NothingSkipped`, `PointersInOrder`: the moving window is always the part of the file read last, `current` is always
  behind what was consumed, and a handler never reads into a full buffer, since `read()` would answer 0 and
  the handler would take it for the end.
- `LabelsInOrder`: the labels in the stream are 1, 2, ... and -1, -2, ... in the order in which the objects appear, whatever the nesting, and every reference
  comes after its object: the two facts the reader's arrays rest on, neither of which it can check for containers.
- `GraphRebuilt`: the correspondence of packed and unpacked objects, followed from the roots through all parts, is
  one-to-one on everything packed with labels, across several calls of one packer; and no exception is raised. It is stated for maps whose keys are strings,
  which `src/goodies/objC/README.md:89` demands: a key is copied when it is put into the dictionary, so a mutable one is another object afterwards,
  one of a class that is no NSCopying raises, and an equal one is replaced (`SetObject`).
- `OnlyWhatWasPacked`: is stated for keys of any kind; the one exception it admits is that of a key that cannot be copied (`KeyRefused`).
- `OneItemPerCall`: an independent walk over the announced sizes ends where the packer has stopped.
- `DumpIsStream`: the dump's text and offsets are compared with a recursive definition over the stream (`Shown`), in which a line has the offset of its first
  item. The offset on the line of an array's first item is left out; `DumpTellsOffsets` has it, finding 6.
- `ReadersAgree`: `ObjectUnpack` and `Dump` decide independently what an array that begins with a marker means. What the former accepts the latter prints to
  the end, on every stream of up to three items of a small alphabet, and on longer ones with sets and maps, when the name of each class is a
  string right behind the marker (`NamedPlainly`). It is not so for others; see below.
- `TreeIsValue`, `DiffIsEmpty`: the tree and the second output, for every way of writing white space and escapes.
- `EndIsTold`: an action property over all the asks and handler calls of an item.

**Bounds, and why they are enough.** The contexts' behaviour depends on the order of sizes, not on the sizes: whether an item
fits, fits after a flush, fits after one doubling, or needs several; whether something is kept, and whether it
overlaps its destination. So the default buffer is 2 bytes instead of 4096 or 1024 (`DefaultBuffer`), the minimum of the file pack
context 1 instead of 32 (`MinBuffer`), lengths asked for are 0 to 9 (`InitialLengths`, `MemoryLengths`), items have 1 to 4 bytes and insertions up to 5
(`Calls`, `InsertSizes`), and a session packs at most `MaxPacked` bytes (9 and 12; in memory, asks for as many): several overflows, each of the
cases above in each order. For unpacking, the files (11, 7, 3 and 0 bytes, and seven of their prefixes) hold a nested container, a str 8,
ext 8 and ext 16, a map and an unused tag, so that every number of asks (one to four) meets every position of
the window. For the codec, values lie on both sides of each limit between formats; lengths go to 65536, `items` is 1 for single values
(all values, modes and expectations), 4 for containers and 2 for other writers' formats. Payload bytes are counted, and read as nil
when a reader gets lost in them.
Reals are chosen at the limits of 16 and 32 bits and beyond the precision of a float.

For objects, what matters is which objects are shared, which lie in a cycle and in which order containers, sets and user objects
nest. Two objects with up to two parts each and a leaf (`GraphObjects`, `Graphs`) give self-reference, mutual reference, sharing within one container and
across two, in each kind of container and in classes the reader knows and does not know; cuts and repeated calls (`RepeatGraphs`, `MaxPacked = 2`) are
tried on a choice of them. Other writers' streams (`ForeignStreams`) are all those of up to three items of a small alphabet, and
maps with keys of every class and sets with equal members, of up to five. `MaxItems` (24) is above what any of these graphs packs in two calls. For JSON, values of
every kind, strings on both sides of each UTF-8 limit within 16 bits and of every escape, containers three deep; `MaxInt64` (7) stands for 2^63 - 1.

**Fairness.** `CallReturns` needs `WF_vars(Routine)`: the thread running a routine goes on and `read()` and `fread`
return, with bytes or with the end of the file. `CallsEnd` needs the same of the object packer, the unpacker and the dump, once
called. No fairness is put on the client, on errors, or on getting many
bytes at once: a `read()` that gives one byte at a time is enough. The packing actions of the contexts are whole calls, so there is no liveness to
state for them. That the loop that doubles a length ends is the invariant `HandlerReturns` of the stream pack context, which is proved too;
the file and memory pack contexts double in the same way a length that is never zero (`Doubled` has no value for one).

**Deadlock** is checked in every run: a client can always make another call, initialise or terminate; where a program ends, `Done` says so.

## Findings

Each is a run that TLC finds violated; `PROJECT.json` quotes the lines.

1. `file_pack_overlap`: `memcpy` on overlapping areas (basic_contexts.c:235, and 338 for unpacking). `MemcpyHandlesOverlap = TRUE` is the
   build whose `memcpy` behaves like `memmove`; with one that does not, the bytes behind the barrier are overwritten.
2. `stream_pack_repeat`: after `cw_pack_flush` a stream pack context writes the same bytes again (basic_contexts.c:94: `current` is not reset).
   `FlushesContent = FALSE` is the client that flushes only an empty buffer or by terminating.
3. `stream_unpack_cut`: a stream that ends within an item moves `current` past `end` (basic_contexts.c:175: any bytes at all are OK).
   The passing run has streams that end with an item; `EndsWithItem` says what that is.
4. `objects_miscounted`: an NSCountedSet announces three items for each member and packs two (CWPackContext.m:664: `2*count` plus what its superclass NSSet
   counts); an NSNumber of char type that is 0 is packed as NO and as 0 (line 488, no `else`). The passing run has neither; `CountsRight` says what that is.
5. `stopped_insert`: `cw_pack_insert` (cwpack.c:429) does not look at `return_code`, although `src/README.md:67` says that all calls on a stopped context return
   without any actions: it stores, and the handler it calls may flush, grow the buffer or replace the error code. `InsertWhenStopped = FALSE` is the client that checks first.
6. `dump_offsets`: the dump's line for an array's first item tells the offset behind that item (cwpack_dump.c:138, 185), 6 and not 1 in the example of
   its README, because the item has been read by then to see whether it is a marker.

Also seen, without a run of their own:

- The file pack handler (basic_contexts.c:261) drops the old buffer without `free` when it grows; `blocks` counts it.
- `cw_look_ahead` calls `d0 05` negative, `cw_unpack_next` positive (cwpack.c:799 and 555). CWPack itself never packs that form.
- The packing routines of numeric extensions write ext items in compatibility mode, which `src/README.md` calls
  illegal (`CompatIsOldFormat` is stated for cwpack.c's own routines); ext 16 and ext 32 of type -1 become a TIMESTAMP item without a time.
- `cw_pack_time_interval` of a time just below a whole second asks for 1000000000 nanoseconds and stops the context.
- The unpacker does not look whether an array's first item was found (CWPackContext.m:252), and a set adds nil when its input ends (652). `CutsAnywhere = FALSE`
  keeps streams from ending there; with TRUE, `OnlyWhatWasPacked` is violated.
- The label map (CWPackContext.m:72) does not retain objects: an object allocated where a packed one was is packed as a reference to it.
- A container that is cut short is printed by the dump with empty places up to its end.
- The unpacker reads the name of a class as any object (CWPackContext.m:275), one with a label or a reference to an earlier name included; `dump -r` wants
  a string there and answers MALFORMED_INPUT (cwpack_dump.c:164): to `[marker 0, [marker -1, "name"]]`, for instance. CWPack's own packer never writes that.
- item.c leaves the closing bracket of an empty container where it is (307, 315): the container takes it for the end of the one around it, and what follows is lost.
  `TreeIsValue` and `DiffIsEmpty` are stated for values in which nothing follows an empty container.

## Proofs

The theorems hold for all values of the constants: every set of calls, insertions and lengths, every file and every heap, and
however large the bounds on what is packed.

| Theorem | Property | Hypothesis |
|---|---|---|
| `FilePackProofs` | | |
| `TypeCorrect` | `TypeOK` | none |
| `StaysWithinBuffer` | `WithinBuffer`: no routine stores past the end | none |
| `FileAlwaysPrefix` | `FileIsPrefix`, whatever fails | `MemcpyHandlesOverlap`, `~InsertWhenStopped` |
| `NothingLost` | `NoByteLost`, until a write fails | the same |
| `BarrierIsKept` | `BarrierHolds` | the same |
| `SessionComplete` | `CompleteAtEnd` | the same |
| `FilePackImplementsStream` | `ImplementsStream`, refinement of PackStream | the same |
| `StoppedStaysInert` | `StoppedStaysStopped`, action property | none |
| `StreamPackProofs` | | |
| `StaysWithinBuffer` | `WithinBuffer` | none |
| `OneBufferAlive` | `OneBuffer` | none |
| `HandlerAlwaysReturns` | `HandlerReturns`: the doubling loop ends | none |
| `FileAlwaysPrefix` | `FileIsPrefix` | `CarefulClient` |
| `NothingLost` | `NoByteLost` | `CarefulClient` |
| `StreamPackImplementsStream` | `ImplementsStream`, refinement of PackStream | `CarefulClient` |
| `MemoryPackProofs` | | |
| `BufferAlwaysExact` | `BufferIsExact` | none |
| `StaticAlwaysFixed` | `StaticStaysFixed`, action property | none |
| `UnpackContextProofs` | | |
| `FileTypeCorrect` | `TypeOK` | none |
| `FilePointersStayInOrder` | `PointersInOrder` | none |
| `FileNoByteSkipped` | `NothingSkipped` | none |
| `FileWindowStaysFile` | `WindowIsFile` | `MemcpyHandlesOverlap` |
| `FileEndToldRight` | `EndIsTold`, action property | none |
| `FileUnpackImplementsStream` | `ImplementsStream`, refinement of UnpackStream | none |
| `StreamPointersStayInOrder` | `PointersInOrder` | `WholeInput` |
| `StreamWindowStaysFile`, `StreamNoByteSkipped` | `WindowIsFile`, `NothingSkipped` | `WholeInput` |
| `StreamEndToldRight` | `EndIsTold`, action property | `WholeInput` |
| `StreamUnpackImplementsStream` | `ImplementsStream`, refinement of UnpackStream | `WholeInput` |
| `ChannelProofs` | | |
| `CodecInvariant` | the inductive invariant of the next six | none |
| `CodecRoundTrip` | `RoundTrip`: every value of every routine is read back, in both modes | none |
| `CodecOnBoundary` | `OnBoundary`: unpacking and skipping end where an item ends | none |
| `CodecTruncationIsTold` | `TruncationIsTold`: wherever the input is cut | none |
| `CodecLookAheadAgrees` | `LookAheadAgrees`, action property | none |
| `CodecExpectTells` | `ExpectTells`: the expect API and the readers of numeric extensions | none |
| `CodecCompatIsOldFormat` | `CompatIsOldFormat` | none |
| `CodecNoShorterForm` | `NoShorterForm` | none |
| `ObjectChannelProofs` | | |
| `LabelsAlwaysInOrder` | `LabelsInOrder` | none |
| `OneItemForEachCall` | `OneItemPerCall` | all heaps `CountsRight` |
| `OnlyWhatWasPackedIsRead` | `OnlyWhatWasPacked`: no exception but over a map's key, no error but the end | `Agreed`, `~CutsAnywhere`, `~SkipsLabelled`, streams of others `Legible` |

**Assumptions.** The modules' ASSUMEs: sizes are naturals, a default buffer is not empty, a tag of a file makes each routine ask for something.
For the codec, `ClientsAssumption` says what clients there may be: their calls are among `PackingCalls` (all words, reals, times and
ext types, all lengths below 2^31), what they expect among `Expectations` (all routines and widths), and the items of other
writers are items of MessagePack (`IsItem`), in any of its formats whether or not CWPack would choose it, or the tag it does not use. All sets of these, and buffers of any number
of items, are allowed. A payload is as long as announced; reading it as a tag never happens, which is part of `OnBoundary`.
The hypotheses are about the client, the build or the input:

- `MemcpyHandlesOverlap`: finding 1. Only the bytes need it, the lengths and pointers do not, neither in packing nor in unpacking.
- `~InsertWhenStopped`: the client looks at `return_code` before it inserts; `cw_pack_insert` does not. With such insertions `FileIsPrefix`
  fails; the other theorems about the bytes share its invariant. The buffers' theorems, `StoppedStaysStopped` and the memory pack contexts do without it.
- `CarefulClient`: also `~FlushesContent`, finding 2. The buffer itself stays in order with any client.
- `WholeInput`: each stream `EndsWithItem`, and `fread` gives all there is (`~PartialReads`). `EndsWithItem` is a definition, not a
  bound: there is a set of positions, 0 and the end among them, such that what any routine asks for at one of them ends at one
  of them. `MCUnpackContexts` has TLC evaluate that it holds of each stream of `unpack_contexts`
  and not of all files of `stream_unpack_cut`.
- `CountsRight`: finding 4, stated of a heap: no NSNumber of char type that is 0, no counted set with members; a dictionary's parts come in pairs, and values
  have none. `MCObjectChannel` has TLC evaluate that all the heaps of `objects` have it and those of `objects_miscounted` do not.
- `Agreed`: the clients on both sides agree on their classes. Objects count right; an object of a class that the reader knows packs what `cwUnpackSub` of
  that class reads; a set has no nil and no NSNull among its members, which `NSSet` could not take; nothing is asked of the keys of maps; no class has the name that stands in the model for
  what is no string. TLC evaluates that the instance of `objects` has it.
- `~CutsAnywhere`: no input ends behind the header of an array or within a set (CWPackContext.m:252, 652).
- `~SkipsLabelled`: the client skips nothing in a stream with labels. Skipped definitions are not counted by the reader, so later ones get other labels.
- `Legible`, of the streams of other writers: they consist of items of any kind, in any order, and the last one is no header of an array with parts
  (as before); the streams of `objects` are of that kind.

**The argument.** Hardly any of the properties is inductive; each module begins with the invariant that is.

*File pack.* `NoByteLost` says nothing once a write has failed, yet `FileIsPrefix` must survive
it; `BarrierHolds` relates `mark` to `barrier` only through the position of the content in the numbering. `Sound(c)` states the
missing part for a context between two C statements: the content is numbered consecutively *ending at* `packed`, whatever the file holds; the file is
numbered from 1; they join exactly unless a write has failed; the barrier is inside the content and `mark` is its number. `IInv` is
`Sound` of a running context, plus: a failed write implies a stopped context, which is why a buffer that was partly written is
never written again. Lemmas follow the calls: `FlushSound`, `GrowSound`, `OverflowSound` for the handlers, `PutSound`, `ReserveSound`,
`FlushedContext` for the core, then one lemma per action, and the refinement in the same order. `BInv` is the part that speaks of lengths only;
it needs of `memcpy` only that it leaves as many bytes as it was to move (`MovedLength`), and is kept by any client.

*Stream pack.* There are two invariants, since one needs no hypothesis. `BInv`: a running context has exactly one buffer, which is
not empty and contains the content. From "not empty" follows that the doubling loop ends (`DoubledEnds`), and from that `HandlerReturns`.
`FInv`: the stream is a prefix, and while the code is OK the content is what the stream has not got.

*Memory pack.* `Exact`: content numbered from 1 to `packed`, within the buffer, one block for a dynamic context. It is kept by a failed `realloc` and by a refused
item, because neither handler changes a context it answers an error for; so it holds of stopped contexts too. `StaticStaysFixed` needs besides that `packed`
never passes `asked` and is `asked` while the code is OK: a call that does not fit is then the one with which they part.

*Unpacking.* `Sound(c)` says that the window lies within what was read, `current` is within the window and behind what was consumed, and the barrier at its mark;
`Engaged`, of a routine under way, that a handler which reads has room for what is missing, which is why no
`read()` asks for zero bytes. `WInv` (the window is numbered) is kept apart, as it alone depends on `memcpy` and ends with a failed `realloc`. There is a
lemma for each step, with the handler's answer as a set; the two contexts add theirs.
For streams `PInv` adds where the reader is: between calls at a position between two items, within an item where the rest of what the item
asks for lands inside the file (`Lands`, an existential over positions instead of a sum). A single `fread` then always gives enough (`FreadFits`), which is what
makes the missing look at its result harmless.

*The codec.* CodecProofs reads the tables once and for all: what an input that begins with a header is read as (`ReadSmall`, `ReadWide`, ...),
what each routine packs is read as what was meant, for every word, length and time, and skipping and looking ahead at it ask for the same bytes.
Sign extension of the narrow form a routine chose gives the word back because of the limits the code compares with; these lemmas are where an
off-by-one in a limit would show. ChannelProofs carries this through the steps. The invariant has four parts: every item on the wire is what its call makes of its
arguments in the mode of that time, or an item of MessagePack (`WireSound`); the client and its history are in order (`PackerSound`); a running reader stands in
front of an item, and what it has still to skip ends behind the items its calls stand for (`ReaderSound`, with `At`); a stopped reader has the code for its reason (`Stopped`).
That cutting the input is told right needs no case for each cut: the asks of an item add up to its size, so the first ask that does not fit is
the first or not, and that decides the code. `ExpectTells` is kept relative to this invariant, since the item the reader has left is the one meant.
`NoShorterForm` needs only `WireSound`: a header with fewer bytes can spell only numbers below the limit at which the routine goes on to the
next width (`NoShorterInteger`, `NoShorterSize`).

*Labels.* `LabelsInOrder` says nothing of the packer. `Counted` does: the generator of each sign has counted the definitions of that
sign in the stream, and an object has a label only when its definition is there. A reference is then to a label whose definition comes earlier,
and a new definition is numbered one more than there are.

*Sizes.* `OneItemPerCall` walks the finished stream with `Behind`, the recursion of `cw_skip_items`, and says nothing while calls are
pending. `Accounted` counts forwards instead: the parts announced so far less the items there (`Balance`) are the pending calls less the
calls of the client, and stay above the latter before the end. Each step of the packer adds items that announce just the
calls it puts in front of `todo` (`HeadBegins`, `PacksAccounted`: here `CountsRight` is needed). `BehindsReached` then shows, by
induction, that `Behind` is the first place where the balance has fallen by the number of items skipped.

*Reading objects.* `OnlyWhatWasPacked` relates a recursive reader to a packer that has long finished, so each side gets an invariant and they meet in the
stream. `PInv`, of the packer, says there is a plan `P`, where `P[k]` is the sequence of parts still due at item k, and each item with the items
that belong to it takes the head of `P[k]` and puts its own parts in front (`Packed`). `RInv`, of the reader, says that its pending calls are
waiting for just what the plan has due at its position (`Waiting`, `Consumes`), that its two arrays of references have an
entry for each definition behind it (`Entries`), so that a reference always finds one, and at which of seven places of an item it stands (`InStep`: between items, or
behind a part of the group array header, marker, name). After the end of the input only calls are pending that can bear a nil (`Ended`, `Harmless`); that is what fails with
`CutsAnywhere`. A key that cannot be copied ends the reading where it is (`KeyTaken`), and one that is copied adds an object and no
entry. `CleanReader` is the part that does not need the packer, and holds for streams of others. A skipped object is passed over by `cw_skip_items`;
`BehindPlanned` shows that it ends where the plan has the next part due.

**Induction.** The library's induction theorems take an operator as a parameter, which the provers here cannot instantiate. `SmallestMember` (a
non-empty set of naturals has a least member, from well-foundedness) takes a set and serves in their place: `RoundsExist`,
`DoublingsDef`, `BehindsDef` establish what the recursive functions `Doublings` and `Behinds` are, so `Doubled` and `Behind` are reasoned about as they are checked.
For the codec, `IterationExists` does this once for functions defined by recursion over `0 .. n`, with the step as a function instead of an operator; from it
come the sums of asks, the values of fields and, counting backwards (`Downward`), what lies behind whole items.

**Only model-checked:**

- liveness, `CallReturns` and `CallsEnd`: fairness and ENABLED are beyond the provers;
- `GraphRebuilt`, `ReadersAgree`, `DumpIsStream`: the correspondence between two graphs that only the whole stream relates, that string keys raise
  no exception, and two programs that read one stream;
- the JSON converter (RECURSIVE operators over texts and trees).

## Not modelled

- Payload contents, and floating-point arithmetic: the forms of a real are given with it, the results of
  `cw_unpack_next_float` and `_double` are not computed.
- Sizes at 2^31 and above, where `l+5`, `2*tmpu32` and `tmpu32+1` wrap: beyond TLC's integers.
- Byte-order dependent variants of store and load: they must equal the portable one, which is modelled. A wrong configuration is `WRONG_BYTE_ORDER`.
- `err_no`, which no routine reads.
- Client pointers into a buffer (`item.as.str.start`), and undefined calls: rescanning without a barrier, insertion into a context whose initialisation failed, reading a timestamp as an ext number.
- Objective-C: `isEqual:` of two containers of the same class and length, which may answer either; a client's classes are taken to be no NSCopying and equal
  only to themselves; the unpacking methods of NSCountedSet (its packed form names NSSet), the types of scalars, clients that skip labelled objects (`SkipsLabelled`),
  which shifts all later labels.
- JSON: characters beyond 16 bits, NUL within strings, texts that are not JSON (item.c: "correct JSON is assumed"); write errors
  of the stream contexts underneath, which have their own modules.
- The Swift wrapper, the obsolete Objective-C wrapper and the tests: syntax around the C routines, or use of them.

## Plan

1. *Done.* The pack contexts, the formats, the unpack contexts, with their abstract streams; the file pack context proved.
2. *Done.* The Objective-C wrapper's labels and references, the dump, the routines of utils, the JSON example.
3. *Done.* Proofs for the unpack contexts, the stream and memory pack contexts, the labels and the announced sizes of objects.
4. *Done.* Proofs for the codec: every invariant and the action property of `codec`. The unpacker reads what was packed: `OnlyWhatWasPacked`.
5. `NoByteLost` and `CompleteAtEnd` of the file and stream pack contexts for clients that insert into stopped contexts, from an
   invariant that says nothing after a failed write; that an entry of the unpacker's reference arrays is the copy of the object packed
   there, which with `RInv` would give `GraphRebuilt`.
