# A TLA+ verification project for v8serial

v8serial reads and writes the V8 structured-clone wire format (version 15)
without V8. This directory holds TLA+ models of its core, the TLC runs that
check them on small instances, and TLAPS proofs of what holds for every
instance. Paths are relative to the root of the repository.

## The system

| Component | State | Operations | Modelled in |
|---|---|---|---|
| `Writer` (`include/v8serial/writer.hpp`) | the bytes, a stack of frames, `has_root_` | one method per value kind, `key`, begin/end of containers, `take`, `reset` | `Writer`, `Document`, `RecordedWriter`, `FaultyWriter` |
| `Reader::read` (`include/v8serial/reader.hpp`) | the borrowed bytes, a pointer into them, the C++ call stack | `read()` | `Reader`, `Utf8` |
| `Reader::readRows` | the same | `readRows(min, consumer)` | `Rows` |
| wire format (`types.hpp`, both headers) | none | tags, varints, ZigZag, view types | `Wire`, `Codec` |
| Latin-1 loops (`detail/simd.hpp`) | a loop variable, the output | `allLatin1`, `narrowLatin1`, `widenLatin1` | `Latin1` |
| asynchronous calls (`src/addon.cc`) | an `AsyncWork`, its worker thread, a thread-safe function, a result | `encodeAsync`, `decodeAsync`, finalizer, teardown | `AsyncWork`, `Requests` |
| encoding of JavaScript values (`src/addon.cc`) | the C++ call stack, `ancestors`, a `Writer` or a copy | `WriteJavaScriptValue`; `CopyValue`, `WriteValue`, `Encode` | `Traversal`, `TraversalValues` |
| decoding to JavaScript values (`src/addon.cc`) | the copied bytes, the C++ call stack | `CopySerializedInput`, `Decode`, `ToJavaScript` | `JsDecode`, `JsValues` |
| output buffers (`src/addon.cc`) | an owning vector or a Node buffer | `CreateOutputBuffer`, `FinalizeExternalBuffer` | `OutputBuffer` |
| boundary benchmark (`bench/boundary_addon.cc`, `boundary_bench.js`) | the sink | nine arms that consume rows | `Boundary`, five of them |
| `index.js`, the rest of `bench/` | none | load-time version check, measurements | no |

The parts meet in three places. The addon walks JavaScript objects and calls the
`Writer`; the `Reader` consumes bytes and the addon builds JavaScript objects
from its value tree. `Writer` and `Reader` share nothing but bytes. An
asynchronous call copies its argument on the JavaScript thread, hands it to a
thread of its own, and gets the result back through a Node thread-safe function
whose finalizer joins the thread.

What is hard here:

- the `Writer` accepts calls in any order and must refuse the wrong ones
  without damage; some methods throw after they have already counted the value;
- two-byte strings are padded by a rule that looks at bytes not yet written;
- the `Reader` must survive every byte sequence: bounds, depth, progress;
- the counts that containers repeat behind their elements are the only thing
  that tells a damaged message from a good one;
- reading a property of a JavaScript object may run an accessor, which may change
  the very objects the encoder is in the middle of;
- the worker thread of an asynchronous call runs concurrently with the handler
  that started it, with the finalizer, and with teardown; the caller may change
  its buffer meanwhile;
- the bytes of a large message belong in turn to a vector, a heap object, Node
  and a finalizer;
- memory may run out in the middle of any write;
- the block loops of `simd.hpp` hand over from one width to the next, differently
  in each build.

What makes each part correct:

- `Writer`: its frames describe what the caller asked for; misuse changes
  nothing; only finished documents are handed out; the header is never lost.
- `Reader`: it ends, moves forward, stays inside the input, bounds its
  recursion, and decodes what a `Writer` wrote.
- encoding of JavaScript values: both encoders write exactly what they were
  given (the one loss they permit is under "Where the code and its documentation
  differ"), refuse only what cannot be written, and stay within their depth limit
  whatever accessors do.
- decoding to JavaScript values: what is decoded is the buffer as it was at the
  call, everything that decodes can be built, and what is built is what the
  tree stands for.
- output buffers: nobody's memory is freed under him, and all of it is returned.
- Latin-1 loops: they compute what a loop over single units computes.
- asynchronous calls: one answer per call, no use after free, no leak, join
  before delete, and everything is reclaimed in the end.

`PROJECT.json` lists the hazards of the code line by line, with the properties
that watch each of them, and maps every definition to the lines it stands for.

## The modules

**`Wire`** holds what both ends share. Bytes are real bytes and a varint group
has its real seven bits. The width of a `uint32_t` is a parameter: `MaxGroups`
groups of which the last may use `TopLimit` values (5 and 16 in the code). The
Writer has two loops over the groups of a number, one that counts them before a
two-byte string (`varintSize`) and one that writes them (`varintGroups`,
`varint`); they are two definitions here, too, and nothing makes them agree but
their conditions. A
value tree is a record of a type, a payload, keys and children.

**`Writer`** has the fields of the class (`bytes`, `stack`, `has_root`) and
`call`, the last call with its argument and how it ended. There is one action
per public method, and an action is the whole method: `Write` is
`beginValue()` followed by a raw emitter; its first disjunct covers both
completion and an exception raised half-way (`raw.thrown`), its second the
refusal. `key`, `End` (`endObject`, `endArray`), `take` and `reset` follow the
order of checks and changes in the code. An instance is used by one thread at a
time, so calls do not overlap.

**`Document`** is the abstract specification: a tree built from the outside in,
without bytes, frames or flags.

**`RecordedWriter`** adds a record of what the caller asked for: the tree
described by the calls that returned. The record never restricts the Writer.
`broken` notes that, since the last `reset()`, a call threw after it had changed
the writer. The record is the refinement mapping to `Document`.

**`FaultyWriter`** is the fault model of the Writer: memory may run out at any
`push_back` or `insert`. `bytes_` keeps what was appended before (`Torn`: the
message grows a byte at a time, except for a payload, which is inserted at
once), the frame of the value or the container is as far as the code had come,
and the exception reaches the caller, who goes on as it likes. `reset()` itself
can only fail when `take()` has moved the buffer out.

**`Reader`** turns the recursion of `readValue()` into a stack of frames, one
per activation of `readObject`, `readDenseArray` or `readSparseArray`, so that
the depth argument is the length of the stack. `mode` is where control is. A
step is one header, tag, leaf value, loop head or returned value. Reading
outside the input is undefined behaviour in C++; here it yields a value that is
not a byte, so that a property can see it. The offset in a `DecodeError` is left
out. The reading primitives are functions over the offsets of the input, since
TLC then evaluates each once.

**`Utf8`** is the strict UTF-8 decoder, a recursive function. **`Codec`** has no
behaviour of its own: it defines what the encodings are (a number in base 128,
the two's complement shift, the characters a byte sequence can be cut into) in a
way that shares nothing with the decoders, and states what the Reader makes of a
message that is one number or one string.

**`Latin1`** models `simd.hpp`. A step is one iteration of one loop of
`allLatin1`, `narrowLatin1` and `widenLatin1`, which run in the order in which a
string meets them. A code unit is the set of bits of its high byte, and its low
byte, so that the OR of vectors is a union. `build` is the version that was
compiled; they differ in the widths of the loops, and in that SSE2 narrows with
saturation. The register width is the constant `Lanes`.

**`Rows`** models `Reader::readRows`, which hands the cells of an array of rows
to a consumer without building a tree. A step is the message and root header, a
row header, a cell with its call of the consumer, the end of a row or the end of
the root. `cells` is what the consumer has seen. The module extends `Reader` and
runs `read()` on the same bytes first, so that the properties can compare the
two; apart from the bytes they share nothing. A consumer that throws is left out:
it only ends the stream early, between two steps.

**`RoundTrip`** composes a `RecordedWriter` with a `Reader`: `Deliver(n)` hands
the first `n` bytes of a message just taken to a fresh Reader, which runs to its
end before the Writer goes on. They share no state, so this order loses nothing.

**`Traversal`** models how the addon encodes a JavaScript value, over a heap of
arrays, objects and buffers. A frame is one activation that loops over an array
or an object; `ancestors` is the vector of the code, kept apart from the frames
because the code keeps it apart. A step is one visited value, one read of a
property, one written key or the end of a container: between two steps an
accessor may have run, so `Get` also covers a getter that changes one object of
the heap (`Edits`) and one that throws. An array of the heap has `slots`, what
`Has()` and `Get()` find at its indices, its own elements or those of a
prototype; `listed`, those of them that its own enumeration lists; and the number
of its other own enumerable properties (`named`). The code compares the count of
all names with the length, and so does `OnlyElements`. `path` tells `encodeSync` from
`encodeAsync`; the walks of `WriteJavaScriptValue` and `CopyValue` differ only in
where a value goes (`putLeaf`, `putArray`, ...), and the copy is then written by
`WriteValue` (`startEncode`, `writeValue`). `CopyValue` stores a key together with
its value; here the key is stored before the value is read, which no property
can tell apart, as the copy is dropped when the read throws. The module extends
`RecordedWriter`, and a message is known by the tree it describes; that such a
message decodes to that tree is the business of `RoundTrip`.

**`JsDecode`** models `decodeSync` and `decodeAsync` from the argument to the
value returned: the copy of the bytes, the Reader's steps on the copy, and
`ToJavaScript` with its recursion as a stack of activations. In the asynchronous
call the caller may write to the buffer or detach it after the copy
(`userWrites`). The three kinds of buffer differ in the N-API calls that find
their bytes; the model keeps the offset and length of the view and the check for
a detached buffer. Objects define their properties in the order of the tree
(`defined`); that JavaScript lists index-like names first is left out, and so is
a failure of an N-API call other than for a view of broken elements.

**`OutputBuffer`** models what happens to the bytes of an encoded message: a
block of memory belongs to the vector of a call (`encoded`) or lies below a
Buffer (`buffer`). `copySmall`, `createExternal` and `refuse` are the ways out
of `CreateOutputBuffer`. Freed blocks are used again, and the holder of a Buffer
may write to it, so that a premature free shows. JavaScript and its collector
(`userWrites`, `drop`, `collect`) are external.

**`Boundary`** models five arms of the boundary benchmark on the same bytes:
borrowed cells of `readRows()`, the value tree of `read()`, the two traversals of
JavaScript arrays, and the rows made natively. It extends `Rows`. The sink is the
sequence of what was mixed into it rather than its checksum, and doubles are
their eight bytes.

**`AsyncWork`** models an asynchronous call. On the JavaScript thread (`js`):
`acceptCall`, `startThread` or `failToStart`, `assignThread` (the thread already
runs when it is moved into the `AsyncWork`), and later `dispatch`, `runCallback`,
`enterFinalizer`, `finalize`. On the worker: `work`, `blockingCall`, `release`,
`exit`. `tearDown` closes every open function. `encodeAsync` and `decodeAsync`
have the same control, so one call stands for either; `PROJECT.json` maps the
actions to lines of both. The thread-safe function (`Released`, `Pushed`,
`Closed`, `dispatch`, `enterFinalizer`, `tearDown`) belongs to Node and is
modelled from how the addon uses it: an unlimited queue, one initial thread, and
a function that closes once it is unused and empty.

**`Requests`** is the abstract specification of the asynchronous calls: no
threads, an accepted call throws before any work is done for it or is answered
once with what the work found, and is then reclaimed; teardown cancels answers,
and none of this is put off forever. `AsyncWork` implements it, liveness included
(`ServesRequests`); `object`, `outcome` and `teardown` are the refinement mapping.

**`TraversalValues`** and **`JsValues`** hold the reference definitions of the two
directions: the tree a JavaScript value stands for (`Described`), and the
JavaScript value a tree stands for (`StandsFor`), by recursion over the data and
without any order of steps, with the properties that compare the machines with
them. `TraversalValues` builds the trees of the objects level by level, as a
recursive function; `JsValues` is the one module with a `RECURSIVE` operator,
which the prover cannot reach, so that nothing extends it but an MC module.

The modules named **`MC...`** hold inputs for TLC, the modules named
**`...Proofs`** the proofs; **`DataProofs`** holds the lemmas about sequences and
about `consumeUtf8` that several of them use, and **`AddonProofs`** is about what
the calls of the addon hold, `AsyncWork` and `OutputBuffer`. Operators introduced by "Mutant:" in
a comment are plausible bugs; each is swapped in for the definition it imitates
to see that the property listed beside it in `PROJECT.json` notices.

## The runs

| Run | Question | States |
|---|---|---|
| `writer` | Do the header, the padding and the balance of begin and end calls stay right under every sequence of calls on every kind of input, misuse and half-way failures included? | 62 thousand |
| `faulty_writer` | Do the frames stay sound when memory runs out anywhere, does `reset()` repair whatever that left, and does every accepted call do what `Document` allows? | 1.3 million |
| `taken_holds_root` | violated: see below | |
| `reader` | In a decoding call on good and damaged messages: does the Reader stay inside a snapshot of the input and bound its stack, are numbers and strings decoded exactly, can everything that decodes be built, is the right thing built, and does the call end? | 159 thousand |
| `rows` | Does the consumer of `readRows` see every cell once, in order and as `read()` decodes it, do both accept the same matrices, and do the arms of the benchmark consume the same? | 117 thousand |
| `count_markers` | violated: see below | |
| `traversal` | Do both encoders write what they were given, refuse only what cannot be written, write exactly the copy in the worker, and keep to their limits and to the names they first saw, whatever accessors do? | 1.3 million |
| `hidden_elements` | violated: see below | |
| `round_trip` | Does every message decode to what was described, no proper prefix of it, and no message that lost a value? | 1 million |
| `async` | Are two overlapping calls free of use after free, is no result lost, and do they implement `Requests`? | 8 thousand |
| `latin1` | Do the block loops of every build compute what single-unit loops do, inside the string? | 6 thousand |
| `output_buffer` | Does every Buffer keep its message, has every block one owner, and is all memory returned? | 34 thousand |

### Bounds, and why they are enough

- `writer`: `uint32_t` has eight bits, in two groups, so that the length of a
  wide string of 64 units takes two, and its padding with it, while a payload of
  256 bytes is already too long and the `length_error` paths are taken. No write
  starts beyond 8 bytes (`MaxBytes`) and at most three containers are open
  (`MaxOpen`). That is room for an object with two properties, for an array in an
  object in an array, and for a failure anywhere in them; the rules of the
  Writer only look at the innermost frame and its parent. The inputs hold one
  member per branch of each method: empty, Latin-1, wide and too long strings,
  aligned and misaligned views, null pointers with and without a size.
- `faulty_writer`: a `uint32_t` of two bits, one or two inputs per branch, those
  that fail half-way among them, and no write that starts beyond 7 bytes. The
  allocator may fail in any call and any number of times, before and after a
  `reset()` (`runOut`). `FramesReserved` is 1 where the code
  reserves 8, so that `stack_` has to grow at the second open container.
- `reader`: a `uint32_t` of eleven bits: two groups, the last of four bits, as the
  fifth of the code. The sources hold eleven messages that use every tag, with
  their truncations, every replacement of one byte by one of 20 bytes that mean
  something somewhere in the format, and every one-byte extension; seven more with
  repeated names, `__proto__`, nesting to the limit of 2 and beyond, and views of
  whole and broken elements; numbers of up to three bytes at the limits of a group;
  UTF-8 of up to five bytes at the limits of each length. Messages lie in buffers
  and in views that start and end inside their memory. One later write or
  detachment, at any moment (`MaxChanges`).
- `rows`: dense, sparse and mixed rows, with a legacy count marker, with a row that
  is not of scalars, with empty rows, and with every kind of string; their
  truncations, replacements of one byte by one of 12 or 15, and one-byte
  extensions. Of the messages that `read()` decodes, the stream refuses one at the
  header of its second row and one in the middle of a row. And four data sets of the benchmark, with fewer and more columns than
  its five kinds of cells. `MaxDepth` 3 admits every value in them. The minimum
  number of columns is 0 (the smallest) or 2 (reached by one row and missed by
  others). An empty row has no last column, and the stream arm cannot mark its end:
  `NoEmptyRow` leaves such messages to the other properties; the benchmark has
  none.
- `traversal`: three objects. The first has two slots, so that an object can be
  shared, the second is an array or an object with zero or one property, a hole,
  an element that is not enumerable or not its own, with or without a named
  property, a symbol property or a foreign prototype, the third an empty array, an
  object or a buffer. References make chains, shared objects and cycles. At most
  one getter changes the heap (`MaxChanges`), to any neighbour of what it was: one
  change is what tells a stale value from a fresh one. `MaxDepth` 2 is less than
  the longest chain. `uint32_t` has eight values (`MaxGroups` 1, `TopLimit` 8), so
  that a buffer of eight bytes is too long for the format. The Writer's own input
  sets are empty because the walk
  chooses its arguments.
- `hidden_elements`: the same with a first array of one element that its
  enumeration leaves out, and one named property.
- `round_trip`: a two-group varint with 256 values, messages of about a dozen
  bytes, three levels (`MaxOpen` is `MaxDepth`; whether the Reader refuses deeper
  messages where it should is the question of `reader`). Integers lie on both
  sides of the group boundary; a null pointer makes a call fail half-way.
  `length_error` inputs are left out here: a payload beyond 4 GiB leaves a stray
  tag whose bytes can be read as anything.
- `async`: two calls. Calls interact only through the JavaScript thread and
  through teardown, so two show every way one can delay or overtake another.
- `latin1`: registers of two lanes, so that the widest block has eight units, and
  every length up to two such blocks, a register and a rest; no unit or any single
  one is out of range, with the bits that SSE2 saturates differently.
- `output_buffer`: three calls over three blocks, so that a copy can find memory
  that another call freed; two messages on each side of the 4 KiB limit.

`CHECK_DEADLOCK FALSE` is stated only for `reader`, `rows`, `traversal`, `latin1`,
`output_buffer` and the violations that use their modules, which stop when they have
dealt with their input. In `async` a state in which nobody can move is a deadlock
unless nothing is left to do (`rest`).

### Fairness

`JsDecode`: weak fairness of the one thread that runs a call, Reader included;
nothing in it blocks. The user's writes are never required.
`AsyncWork`: weak fairness of each worker thread and of the JavaScript thread's
own steps. The operating system schedules threads, the event loop turns, and
user callbacks are assumed to return. Nobody is obliged to make a call, and
teardown is never required. `OutputBuffer`: the collector finds every Buffer that
was dropped, but nobody is obliged to drop one. The Writer has no liveness
property: it only acts when called.

### Where the code and its documentation differ

- **A message without a value** (`taken_holds_root`). `arrayBuffer(nullptr, n)`
  sets `has_root_` before it throws `invalid_argument`. A caller that catches the
  exception and calls `take()` gets a header with nothing behind it, while
  `writer.hpp:222` says that `take()` throws if no root exists. The same failure
  inside an array counts an element that was never written, so that `endArray()`
  accepts one element too few, against `writer.hpp:162` and `docs/writer.md:183`.
  The run `round_trip` shows that the damage stays contained: the Reader rejects
  every such message (`BrokenMessageIsRejected`).
- **Count markers in streamed rows** (`count_markers`). `docs/v8-format.md:663`
  says that the standalone reader ignores legacy object count markers. `read()`
  does; `readRows()` takes the marker for a wrong tag and rejects a matrix that
  `read()` decodes. It is the only such message (`ReadIsStreamed`).
- **Named properties next to hidden elements** (`hidden_elements`). Both encoders
  find out whether an array has other properties by comparing the number of its
  enumerable names with its length (`addon.cc:316` and 479), after `array.Has()`
  has found every element. A named property makes up for an element that is not
  enumerable, or that stands on a prototype behind a hole: `a = [1];
  Object.defineProperty(a, 0, {enumerable: false}); a.x = 2` is encoded as `[1]`,
  against `README.md:156`, "Unsupported writer inputs throw before producing a
  buffer", and 142, which lists named array properties as unsupported. The run
  `traversal` and the theorems about it show that nothing else is lost:
  `describable` has as many named properties as hidden elements, and without
  hidden elements none. Conversely an array with a hidden element and nothing
  else is refused, for a property it does not have.

Four more differences are part of the models, but a run of their own would show
no more than one line of them does:

- `readValue()` counts the containers around a value and refuses more than 512 of
  them, so 513 containers can be nested, against `docs/v8-format.md:646`, "limits
  input nesting to 512 containers". The recursion is bounded all the same, by
  `MaxDepth + 1` activations (`FramesSound`), and so are the walks that encode
  (`WalkIsBounded`).
- `beginValue()` increments the `uint32_t` count of an object without a check
  (`writer.hpp:329`; `counted`), so `endObject()` writes a wrong count after 2^32
  properties, while `writer.hpp:136` says that it writes the property count.
  Arrays and payloads have such a limit, and throw.
- `writer.hpp:39` says that `reset()` never throws. After `take()` the vector has no
  storage and `writeHeader()` has to allocate; `bad_alloc` then leaves no header or
  half of one (`tornReset`). `faulty_writer` shows that a further `reset()` repairs
  that. A reset of a writer that was not taken from keeps its storage.
- When an accessor changes the length of an array that is being written,
  `encodeSync` meets a `std::logic_error` of the Writer, which `EncodeSync` does not
  catch and which N-API wraps only if it is a `Napi::Error`, while `encodeAsync`
  encodes the array as it ends up. `NativeForCause` says that
  such a change, or a buffer beyond the lengths of the format, is the only way to
  a `std::exception`.

## The proofs

TLC checks the instances above; TLAPS proves the following for every value of the
constants. The assumptions are the named `ASSUME`s of the modules and, in two
theorems about rows, what is said below:
the types of the constants, a `uint32_t` of at most five groups
(`WidthAssumption`) that can hold the format version (`VersionAssumption`), and
for the walk what a JavaScript heap is: references point into it, strings fit the
format, the length of an array is a `uint32_t` and that of a typed array a multiple
of its elements, the names of an object are its properties, and an array
enumerates some of the elements it has below its length (`TraversalAssumption`). TLC evaluates each of them in a run. No
proof mentions a bound of a run, except as a constant that may have any value.

| Module | Proved | Theorems |
|---|---|---|
| `WriterProofs` | types, outer frames, header, misuse, balance, alignment of two-byte strings; with allocation failures: frames match what was asked for, and the Writer implements `Document` | `TypeCorrect`, `OuterFramesAlwaysWait`, `HeaderAlwaysFirst`, `MisuseNeverHarms`, `StackBalancesCalls`, `TwoByteStringsAligned`, `FramesStaySound`, `FramesFollowCalls`, `DocumentsAreBuilt` |
| `ReaderProofs`, `JsDecodeProofs` | on every byte sequence: types, nothing outside the input is read, bounded recursion, counts; a decoding call works on a snapshot, and what decodes can be built; numbers are read exactly and written back in the shortest form | `ReaderInvariant`, `DecodeTypeCorrect`, `NothingElseIsRead`, `OpenContainersAreSound`, `SnapshotIsKept`, `DecodableAlwaysBuilds`, `NumbersAreExact`, `NumbersWrittenBack` |
| `TraversalProofs` | for every heap and whatever accessors change: bounded recursion, no object entered twice, keys follow the snapshot; the worker writes exactly the copy; the Writer refuses a call only for an accessor's change or an oversized buffer; while accessors change nothing, what either path publishes is the tree of the value passed in, and what is refused has none; arrays with elements that are not enumerable or not their own included | `WalkInvariant`, `WalkAlwaysBounded`, `KeysAlwaysFollow`, `CopyAlwaysWritten`, `NativeAlwaysForCause`, `ValueInvariant`, `InputAlwaysEncoded`, `AlwaysRefusedForCause` |
| `RowsProofs` | on every byte sequence: what `readRows()` hands out is what `read()` puts there; what it ends well on `read()` decodes, whole; of the matrices `read()` decodes it refuses only those with a count marker; all of this in the benchmark, too | `RowsInvariant`, `CellsTrue`, `ReadStreams`, `StreamIsRead`, `ArmsReadTheSame` |
| `AddonProofs` | for any number of overlapping calls: types, no use after free, join before delete, no result lost, and every step is one of `Requests`; for any number of calls and blocks: a Buffer keeps its message, every block has one owner | `TypeCorrect`, `NothingUsedAfterFree`, `AlwaysJoined`, `NoResultEverLost`, `CallsAreServed`, `BuffersAreKept`, `BlocksAreOwned` |
| `Latin1Proofs` | for every register width, string and build: loops stay inside, the scan is exact, copies write each unit once | `StaysInside`, `ScanAlwaysExact`, `OutputAlwaysPrefix` |
| `DataProofs` | the recursion of `consumeUtf8` is well defined and yields UTF-16 code units | `ConsumedUnits` |

The types of `Writer` and `AsyncWork` are proved, so no run checks them.

### Along which argument

**The Writer.** One inductive invariant (`WriterInvariant`): the types, the
condition on outer frames and the condition on the header together. None of the
three is inductive alone. `End` pops a frame and exposes its parent, which must
already be ready; `take` may only empty the buffer when no container is open;
appending to an empty buffer would lose the header, and what rules that out is
that a drained writer has a root and no frames, hence refuses values, keys and
ends. Lemmas type the emitters and bound the counts; then there is one step per
method. The action properties follow from single steps. For alignment, the
padding decided by `twoBytePadding` is followed through the concatenation of the
tag, the length and the units. `varintSize` told it how many bytes the length
will take, and that `varint` writes as many is a lemma about the two loops, for
every number and every width (`GroupsCounted`).

**The record and the refinement of `Document`.** These proofs are about `FSpec`,
the Writer whose memory may run out anywhere, and hold for `RSpec` because it is a
special case (`RecordedIsFaulty`). `FramesMatchRecord` is not inductive: it says
nothing of the values the record already holds, which an array at its end is
made of, and it relates frames and containers at one moment only. The invariant
(`RecordInv`) speaks of every frame with a number of pending values, counted but
not placed: one in each container but the innermost (`Agrees`, `Matches`). That
is what makes opening a container and placing a finished one symmetric. The
values have no common type, since trees nest; the invariant says that there is
some set `V` of which all of them are, and a step may extend it. Each call that
returns is then shown to do to the tree one step of `Document` (`Followed`).

**The Reader.** Bytes are arbitrary, so the invariant has to say of everything
that was decoded so far that it is sound. A tree has no type that TLA+ could name
without recursion, and induction over trees is not available; so the invariant
says that there are sets `L[0]`, `L[1]`, ..., `L[MaxDepth]` of values, each made of
leaves and of containers over the set before it, such that what is read at depth
`d` is in `L[MaxDepth - d]` (`Strata`). The height of a value and the depth of its
activation together then stay within the limit. That is exactly what
`DecodableAlwaysBuilds` needs: `ToJavaScript` checks the depth once more, and its
`i`-th activation works on a value of `L[MaxDepth + 1 - i]`. Each reading primitive
has a lemma: a parse that succeeds ends inside the input and yields a value of its
type. `SnapshotIsKept` adds what the caller may do meanwhile: the Reader works on
`input`, which is the view at the call and which no step changes.

**Numbers.** What the groups behind an offset mean is stated without the decoder:
a number is carried by `k` groups if they are its digits in base 128 and it has
no further ones (`Means`, `Carried`). `ReadVarintExact` says of every offset of
every input that `readVarint` succeeds exactly where such a number of a `uint32_t`
ends, and returns it; five digits decide a number (`DigitsDecide`), and the mask on
the last group is the limit of the type (`TopGroup`). `VarintSizeExact` says the
same of the groups the Writer emits. `RootNumber` follows a message that is one
number through the Reader's steps to carry this over to decoding calls.

**Rows.** `readRows()` runs when `read()` has ended on the same bytes, and neither
looks at the other's state, so that the proof has to meet them in the bytes. What
is read at an offset depends on the bytes alone (`SameBytes`, `SameCells`), and
`Describes` says where in them `read()` is: each open array was opened at some
offset, and each part it holds lies between two offsets at which `readScalar`,
`readArrayHeader`, `indexed` and `finishArray` yield just that part (`PartsAt`).
Only arrays of arrays of scalars need this, so there are at most two such frames,
and of a value behind a count marker nothing is said. The stream has its own
invariant of shape (`RowsShape`: the cells are numbered row by row), and while the
tree is complete it goes through the parts of it (`Paired`). `CellsAreTrue` and
`ReadIsStreamed` follow from these (`StreamInv`).

`StreamedIsRead` goes the other way: `read()` may have failed, and then there is no
tree to follow. So `FollowInv` speaks of offsets only: if the bytes admit a
complete passage of the stream (`AllPassed`), then `read()`, wherever it is, is on
that passage and has not failed (`Goes`); and the stream, wherever it is, has begun
such a passage (`Passes`). The first half is an implication with a hypothesis
about bytes that nobody has read yet, which is what makes it inductive while
`read()` runs, long before the stream does. `StreamIsRead` assumes `MaxDepth >= 2`:
the cells of a row are read inside two containers. The limit of the code is 512.
`ArmsReadTheSame` says the same of `BoundarySpec`, the specification of the run
`rows`, because its other arms change nothing of the two; it assumes of
`v8.serialize` that it makes bytes.

**The walk.** `WalkInv` says that the active loops are those of the `ancestors`,
that the containers under construction are those of the loops and hold, in order,
some of the names each loop has been through, and that the heap stays closed
whatever accessors store (`EditKeeps`). "In order, some of" is an increasing map
from the keys to the snapshot (`FollowUpTo`), which a step extends by one. Both
paths are covered by the same steps, because lemmas say of each way to put down a
value, a key or an end what it does to the containers, through the Writer's calls
or in the copy (`LeafPut`, `ContainerPut`, `KeyPut`, `EndPut`).

`TreeInv` adds what each path does to its Writer. For `encodeSync`, as long as no
accessor has changed anything, the stack of the Writer follows the loops: a frame
has counted the elements its loop has been through (`Settled`) or is owed the one
being visited (`Awaiting`), and an array ends with the length it declared because
the heap still says the same (`Followed`). With the first change this is lost, and
`NativeForCause` claims no more. For `encodeAsync` nothing has to be assumed of the
accessors: the containers under construction are consistent in themselves, and as
in the Reader's proof there are sets `L[0]`, ..., `L[MaxDepth + 1]` of trees, each
over the one before it (`Layers`), in which a finished copy lies at a height that
the depth check of the walk admits (`CopyFollows`). The worker's position is a
chain of values, each a part of the one before it, of which the `i`-th is in
`L[MaxDepth + 2 - i]` (`Pending`); since `L[0]` is empty the chain is never longer
than `WriteValue()` allows. Each begun value is described up to its next part by
the Writer's record and by its frame (`Written`), so that a container that ends is
the whole value (`WrittenWhole`), and the record that is published is the copy.

`ValuesTrue` compares the walk with the reference tree of its input, which is a
recursive function from the levels left to the trees of all objects. It is shown
to be well defined, hence to unfold, with the least number principle
(`TreesExist`, `ObjectTreesUnfold`). While `changes = 0`, the `i`-th container
under construction holds the trees, of at most `Level(i)` levels, of just the parts
its loop has been through, and their names (`FrameHolds`); and the part each loop
visits is the object of the next loop, the last one the value in hand (`Leads`,
`OnTheWay`). A container that ends is then the tree of its object
(`TreeFinished`): an array because its loop found no hole and the check of its
property count left room for a named property only where an element is hidden
(`OnlyElementsSuffice`, by the cardinality of what is listed and what is not). A value that is refused has no tree, so the
container around it has none, and so on outwards to the argument (`TreeBlocked`,
`Blocked`). A cycle is refused below some ancestor; the least number of levels at
which that object would have a tree leads to a smaller one (`CycleBlocked`). With
`CopyIsWritten` the worker's record is the copy, so both paths meet in `Result`.

**The asynchronous calls.** The invariant is about one call together with the
place of the JavaScript thread (`AsyncInv`), and each step of another call leaves
it alone (`UntouchedStays`). It says where the result is at each place of the
worker, that the thread counts of the function and the worker's place agree,
teardown included, and that the lifetimes of the object and of its function do.
`CallsAreServed` is the safety half of `ServesRequests`: initial states map to
initial states and every step to a step of `Requests` or a stutter.

**Output buffers.** Ownership is a relation between blocks and calls; that no
block is shared and none is lost are inductive together with where each call's
message is.

**The Latin-1 loops.** `LoopInvariant` adds to the properties what is known at the
head of each loop: the scan has seen only Latin-1 units so far, which is why
narrowing, which saturates on SSE2, is only reached with units it does not change,
and the bytes that widening reads are complete. `LaneOfOffset` and `OffsetOfLane`
relate the lanes of a folded block to its offsets.

**UTF-8.** `consumeUtf8` is a recursive function. The library's induction theorems
cannot be used here, as they take an operator as a parameter; but the least
number principle for a set can (`LeastNumber`), and with it the recursion is
shown to have a solution on every string, hence to unfold (`UnitsFromUnfolds`).

### Only model-checked

- Liveness: `CallEnds`, `MemoryIsReturned` and the liveness half of
  `ServesRequests`. The prover has no rules for `ENABLED` and fairness.
- What is stated with `RECURSIVE` operators: `BuiltIsDecoded`.
- What compares the decoder with the encoder: `RoundTrip`; what the consumers of
  the benchmark make of a cell (`SinksAgree`), which is defined by folds over the
  code points of a string; and `Utf8IsExact`, whose reference definition counts
  the ways to cut a string into characters.

## Not modelled

- `index.js` compares the format version once, when it is loaded.
- `bench.js` and `native_bench.cc` only measure; the reuse of a Writer they time
  is in `writer`. Of the boundary benchmark, the per-cell,
  per-row and object arms use the same consumers as the arms modelled, and the
  statistics are arithmetic on measured times.
- Proxies, whose traps may answer every question of the walk as they like.
- The text and the offset of errors, and failures of N-API calls that only a
  broken environment produces.
- An allocation failure outside the Writer: in the Reader it ends a call whose
  state nobody keeps, and on a worker outside its `try` it ends the process.
- Concurrent writes to a `SharedArrayBuffer` during the copy of the input.

## Plan

Done: every component above but those under "Not modelled", and the proofs listed.
What is left is to prove that a Reader decodes what a Writer wrote
(`WholeMessageDecodes`), for every width, every tree and all inputs. Numbers are
done; next a string, a buffer and a view are read back from where they were
written, then a simulation of the Writer's calls by the Reader's steps.
