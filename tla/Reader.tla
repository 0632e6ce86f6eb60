------------------------------- MODULE Reader -------------------------------
(***************************************************************************)
(* v8serial::Reader::read(): decodes exactly one value from a borrowed     *)
(* byte span.  The recursion of readValue() is an explicit stack: a frame  *)
(* is one activation of readObject, readDenseArray or readSparseArray, and *)
(* the depth argument of readValue() is the number of frames.  A           *)
(* DecodeError ends the reader; the offset it reports is left out.         *)
(***************************************************************************)
EXTENDS Wire, Utf8

CONSTANTS Inputs,    \* the byte sequences handed to the reader
          MaxDepth   \* kMaxNestingDepth

(* The version in the header fits the integers it is read as.              *)
ASSUME VersionAssumption == FormatVersion \in U32

ASSUME ReaderAssumption == Inputs \subseteq Seq(Byte) /\ MaxDepth \in Nat

VARIABLES
  input,   \* the bytes between begin_ and end_
  pos,     \* current_ - begin_
  frames,  \* the containers being decoded, innermost last
  mode,    \* where control is: see Modes
  value    \* the value readValue() has just returned

rvars == <<input, pos, frames, mode, value>>

Modes == {"header",    \* in readHeader()
          "value",     \* at the start of readValue(Len(frames))
          "loop",      \* at the loop head of the innermost container
          "returned",  \* back in the caller of readValue()
          "done", "failed"}

top == frames[Len(frames)]
callers == SubSeq(frames, 1, Len(frames) - 1)

-----------------------------------------------------------------------------
(* Reading primitives: from an offset to a value and the next offset.      *)
Parsed(val, next) == [ok |-> TRUE, val |-> val, next |-> next]
Malformed == [ok |-> FALSE, val |-> 0, next |-> 0]

size == Len(input)

(* Reading outside the input is undefined behaviour: it yields no byte.    *)
Outside == -1000000
at(p) == IF p \in 0 .. size - 1 THEN input[p + 1] ELSE Outside
slice(p, n) == [i \in 1 .. n |-> at(p + i - 1)]

skipPadding ==
  [p \in 0 .. size |->
     p + Cardinality({q \in p .. size - 1 :
                       \A k \in p .. q : at(k) = Padding})]

readByte ==
  [p \in 0 .. size |->
     IF p = size THEN Malformed ELSE Parsed(at(p), p + 1)]

readTag == [p \in 0 .. size |-> readByte[skipPadding[p]]]

(* Mutant: the mask of the last group lets one bit too many pass.          *)
TooWideByABit(p, groups) ==
  groups = MaxGroups /\ at(p + groups - 1) >= 2 * TopLimit

(* At most MaxGroups groups, of which the last is below TopLimit.          *)
TooWide(p, groups) == groups = MaxGroups /\ at(p + groups - 1) >= TopLimit

readVarint ==
  [p \in 0 .. size |->
     LET most == IF size - p < MaxGroups THEN size - p ELSE MaxGroups
         more == Cardinality({k \in 1 .. most :
                               \A j \in 1 .. k : at(p + j - 1) >= GroupBase})
         part(j) == IF j <= more + 1
                    THEN (at(p + j - 1) % GroupBase) * weight[j] ELSE 0
     IN IF more = most \/ TooWide(p, more + 1) THEN Malformed
        ELSE Parsed(part(1) + part(2) + part(3) + part(4) + part(5),
                    p + more + 1)]

(* A varint length and that many bytes.                                    *)
readBytes ==
  [p \in 0 .. size |->
     LET n == readVarint[p]
     IN IF ~n.ok \/ n.val > size - n.next THEN Malformed
        ELSE Parsed(slice(n.next, n.val), n.next + n.val)]

-----------------------------------------------------------------------------
(* Values without parts, from the offset behind the tag.                   *)
Constant(p, type, data) == Parsed(Leaf(type, data), p)

readInt32(p) ==
  LET n == readVarint[p]
  IN IF n.ok THEN Parsed(Leaf("int32", <<unZigZag(n.val)>>), n.next)
     ELSE Malformed

readUint32(p) ==
  LET n == readVarint[p]
  IN IF n.ok THEN Parsed(Leaf("uint32", <<n.val>>), n.next) ELSE Malformed

(* Mutant: the eight bytes are taken without a look at what is left.       *)
readDoubleUnchecked(p, type) ==
  Parsed(Leaf(type, slice(p, DoubleSize)), p + DoubleSize)

readDouble(p, type) ==
  IF size - p < DoubleSize THEN Malformed
  ELSE Parsed(Leaf(type, slice(p, DoubleSize)), p + DoubleSize)

readOneByteString(p) ==
  LET s == readBytes[p]
  IN IF s.ok THEN Parsed(Leaf("string", s.val), s.next) ELSE Malformed

readTwoByteString(p) ==
  LET s == readBytes[p]
  IN IF ~s.ok \/ Len(s.val) % 2 # 0 THEN Malformed
     ELSE Parsed(Leaf("string", [i \in 1 .. Len(s.val) \div 2 |->
                                   s.val[2 * i - 1] + 256 * s.val[2 * i]]),
                 s.next)

readUtf8String(p) ==
  LET s == readBytes[p]
  IN IF ~s.ok THEN Malformed
     ELSE LET decoded == consumeUtf8[s.val]
          IN IF decoded.ok THEN Parsed(Leaf("string", decoded.units), s.next)
             ELSE Malformed

(* The part of a backing buffer a view selects.                            *)
selected(backing, offset, length) ==
  [i \in 1 .. length |->
     IF offset + i <= Len(backing) THEN backing[offset + i] ELSE Outside]

(* Mutant: the length is compared with the whole buffer.                   *)
InRangeOfWhole(backing, offset, length) ==
  offset <= Len(backing) /\ length <= Len(backing)

InRange(backing, offset, length) ==
  offset <= Len(backing) /\ length <= Len(backing) - offset

(* The bytes of an ArrayBuffer, and the view that may follow them.         *)
readView(backing, p) ==
  LET tag == readVarint[p]
      offset == readVarint[tag.next]
      length == readVarint[offset.next]
      flags == readVarint[length.next]
  IN IF /\ tag.ok /\ offset.ok /\ length.ok /\ flags.ok
        /\ flags.val = 0
        /\ InRange(backing, offset.val, length.val)
        /\ \E t \in ViewType :
             /\ viewTag[t] = tag.val
             /\ offset.val % elementSize[t] = 0
             /\ length.val % elementSize[t] = 0
     THEN Parsed(Leaf(CHOOSE t \in ViewType : viewTag[t] = tag.val,
                      selected(backing, offset.val, length.val)),
                 flags.next)
     ELSE Malformed

readArrayBuffer(p) ==
  LET backing == readBytes[p]
      next == skipPadding[backing.next]
  IN IF ~backing.ok THEN Malformed
     ELSE IF at(next) = ViewTag THEN readView(backing.val, next + 1)
     ELSE Parsed(Leaf("arrayBuffer", backing.val), next)

(* Node's own numbering of view types; 10 is Buffer, read as Uint8Array.   *)
hostViewType ==
  <<"Int8Array", "Uint8Array", "Uint8ClampedArray", "Int16Array",
    "Uint16Array", "Int32Array", "Uint32Array", "Float32Array",
    "Float64Array", "DataView", "Uint8Array", "BigInt64Array",
    "BigUint64Array">>

readHostObject(p) ==
  LET kind == readVarint[p]
      data == readBytes[kind.next]
  IN IF /\ kind.ok /\ kind.val < Len(hostViewType) /\ data.ok
        /\ Len(data.val) % elementSize[hostViewType[kind.val + 1]] = 0
     THEN Parsed(Leaf(hostViewType[kind.val + 1], data.val), data.next)
     ELSE Malformed

readLeaf(tag, p) ==
  CASE tag = UndefinedTag -> Constant(p, "undefined", <<>>)
    [] tag = NullTag -> Constant(p, "null", <<>>)
    [] tag = TrueTag -> Constant(p, "boolean", <<1>>)
    [] tag = FalseTag -> Constant(p, "boolean", <<0>>)
    [] tag = Int32Tag -> readInt32(p)
    [] tag = Uint32Tag -> readUint32(p)
    [] tag = DoubleTag -> readDouble(p, "double")
    [] tag = DateTag -> readDouble(p, "date")
    [] tag = Utf8Tag -> readUtf8String(p)
    [] tag = OneByteTag -> readOneByteString(p)
    [] tag = TwoByteTag -> readTwoByteString(p)
    [] tag = BufferTag -> readArrayBuffer(p)
    [] tag = HostObjectTag -> readHostObject(p)
    [] OTHER -> Malformed

-----------------------------------------------------------------------------
(* Outcomes of a step.                                                     *)
Fail ==
  mode' = "failed" /\ UNCHANGED <<input, pos, frames, value>>

Return(v, next, stack) ==
  /\ mode' = "returned" /\ value' = v /\ pos' = next /\ frames' = stack
  /\ UNCHANGED input

Continue(next, stack, where) ==
  /\ mode' = where /\ pos' = next /\ frames' = stack
  /\ UNCHANGED <<input, value>>

Attempt(r) ==
  \E got \in {r} :
    IF got.ok THEN Return(got.val, got.next, frames) ELSE Fail

-----------------------------------------------------------------------------
readHeader ==
  LET magic == readByte[0]
      version == readVarint[magic.next]
  IN /\ mode = "header"
     /\ IF /\ size >= 2 /\ magic.val = 255
           /\ version.ok /\ version.val = FormatVersion
        THEN Continue(version.next, frames, "value")
        ELSE Fail

NewFrame(kind, length) ==
  [kind |-> kind, length |-> length, awaiting |-> "key", key |-> <<>>,
   keys |-> <<>>, kids |-> <<>>]

(* readValue(): the depth check, the tag, and one action per kind of tag.  *)
TagIn(tags) ==
  /\ mode = "value"
  /\ Len(frames) <= MaxDepth
  /\ readTag[pos].ok
  /\ readTag[pos].val \in tags

behindTag == readTag[pos].next

tooDeepOrEnded ==
  /\ mode = "value"
  /\ Len(frames) > MaxDepth \/ ~readTag[pos].ok
  /\ Fail

(* Mutant: the marker is seen but not consumed.                            *)
skipCountMarkerInPlace ==
  TagIn({CountMarkerTag}) /\ Continue(pos, frames, "value")

(* A legacy object count is read and ignored.                              *)
skipCountMarker ==
  LET count == readVarint[behindTag]
  IN /\ TagIn({CountMarkerTag})
     /\ IF count.ok THEN Continue(count.next, frames, "value") ELSE Fail

openObject ==
  /\ TagIn({ObjectTag})
  /\ Continue(behindTag, Append(frames, NewFrame("object", 0)), "loop")

(* Mutant: the length is trusted.                                          *)
openArrayOfAnyLength(tag, kind) ==
  LET length == readVarint[behindTag]
  IN /\ TagIn({tag})
     /\ IF length.ok
        THEN Continue(length.next, Append(frames, NewFrame(kind, length.val)),
                      "loop")
        ELSE Fail

openArray(tag, kind) ==
  LET length == readVarint[behindTag]
  IN /\ TagIn({tag})
     /\ IF length.ok /\ length.val <= size - length.next
        THEN Continue(length.next, Append(frames, NewFrame(kind, length.val)),
                      "loop")
        ELSE Fail

readLeafValue ==
  /\ TagIn(Byte \ {CountMarkerTag, ObjectTag, DenseTag, SparseTag})
  /\ Attempt(readLeaf(readTag[pos].val, behindTag))

readValue ==
  \/ tooDeepOrEnded
  \/ skipCountMarker
  \/ openObject
  \/ openArray(DenseTag, "dense")
  \/ openArray(SparseTag, "sparse")
  \/ readLeafValue

-----------------------------------------------------------------------------
(* The loops of the containers.  peekTag() moves over padding.             *)
AtLoop(kind) == mode = "loop" /\ top.kind = kind

Finished ==
  [type |-> IF top.kind = "object" THEN "object" ELSE "array",
   data |-> <<>>, keys |-> top.keys, kids |-> top.kids]

objectLoop ==
  LET tag == readTag[pos]
      count == readVarint[tag.next]
  IN /\ AtLoop("object")
     /\ IF ~tag.ok THEN Fail
        ELSE IF tag.val # EndObjectTag
        THEN Continue(skipPadding[pos], frames, "value")
        ELSE IF count.ok /\ count.val = Len(top.kids)
        THEN Return(Finished, count.next, callers)
        ELSE Fail

(* Mutants: the repeated length is not read; an early end tag ends the     *)
(* array.                                                                  *)
denseLoopWithoutLength ==
  LET tag == readTag[pos]
      named == readVarint[tag.next]
  IN /\ AtLoop("dense")
     /\ IF Len(top.kids) < top.length
        THEN IF tag.ok /\ tag.val # HoleTag
             THEN Continue(skipPadding[pos], frames, "value")
             ELSE Fail
        ELSE IF /\ tag.ok /\ tag.val = EndDenseTag
                /\ named.ok /\ named.val = 0
        THEN Return(Finished, named.next, callers)
        ELSE Fail

denseLoopUntilEnd ==
  LET tag == readTag[pos]
      named == readVarint[tag.next]
      length == readVarint[named.next]
  IN /\ AtLoop("dense")
     /\ IF tag.ok /\ tag.val # EndDenseTag /\ Len(top.kids) < top.length
        THEN Continue(skipPadding[pos], frames, "value")
        ELSE IF /\ tag.ok /\ tag.val = EndDenseTag
                /\ named.ok /\ named.val = 0
                /\ length.ok /\ length.val = top.length
        THEN Return(Finished, length.next, callers)
        ELSE Fail

denseLoop ==
  LET tag == readTag[pos]
      named == readVarint[tag.next]
      length == readVarint[named.next]
  IN /\ AtLoop("dense")
     /\ IF Len(top.kids) < top.length
        THEN IF tag.ok /\ tag.val # HoleTag
             THEN Continue(skipPadding[pos], frames, "value")
             ELSE Fail
        ELSE IF /\ tag.ok /\ tag.val = EndDenseTag
                /\ named.ok /\ named.val = 0
                /\ length.ok /\ length.val = top.length
        THEN Return(Finished, length.next, callers)
        ELSE Fail

sparseLoop ==
  LET tag == readTag[pos]
      count == readVarint[tag.next]
      length == readVarint[count.next]
  IN /\ AtLoop("sparse")
     /\ IF ~tag.ok THEN Fail
        ELSE IF tag.val # EndSparseTag
        THEN Continue(skipPadding[pos], frames, "value")
        ELSE IF /\ count.ok /\ count.val = Len(top.kids)
                /\ length.ok /\ length.val = top.length
                /\ Len(top.kids) = top.length
        THEN Return(Finished, length.next, callers)
        ELSE Fail

-----------------------------------------------------------------------------
(* What a container does with the value it asked for.                      *)

(* std::to_string, as code units.                                          *)
power == <<1, 10, 100, 1000, 10000, 100000, 1000000, 10000000, 100000000,
           1000000000>>
decimal(n) ==
  LET magnitude == IF n < 0 THEN -n ELSE n
      digits == 1 + Cardinality({k \in 2 .. 10 : magnitude >= power[k]})
  IN (IF n < 0 THEN <<45>> ELSE <<>>)
       \o [i \in 1 .. digits |->
             48 + ((magnitude \div power[digits - i + 1]) % 10)]

PropertyKey(v) == IF v.type = "string" THEN v.data ELSE decimal(v.data[1])

IsInteger(v) == v.type \in {"int32", "uint32"}

AtReturn(kinds, awaiting) ==
  /\ mode = "returned"
  /\ frames # <<>>
  /\ top.kind \in kinds
  /\ top.awaiting = awaiting

GotKey(key) ==
  Continue(pos, [frames EXCEPT ![Len(frames)].awaiting = "value",
                               ![Len(frames)].key = key], "value")

readPropertyKey ==
  /\ AtReturn({"object"}, "key")
  /\ IF value.type = "string" \/ IsInteger(value)
     THEN GotKey(PropertyKey(value)) ELSE Fail

(* A sparse index must be the number of properties read so far.            *)
readSparseIndex ==
  /\ AtReturn({"sparse"}, "key")
  /\ IF IsInteger(value) /\ value.data[1] = Len(top.kids)
     THEN GotKey(<<>>) ELSE Fail

(* The property counters are uint32 and may not overflow.                  *)
readProperty ==
  /\ AtReturn({"object", "sparse"}, "value")
  /\ IF Len(top.kids) = U32Max THEN Fail
     ELSE Continue(pos,
            [frames EXCEPT
               ![Len(frames)] =
                 [top EXCEPT
                    !.awaiting = "key",
                    !.kids = Append(top.kids, value),
                    !.keys = IF top.kind = "object"
                             THEN Append(top.keys, top.key) ELSE top.keys]],
            "loop")

readElement ==
  /\ AtReturn({"dense"}, "key")
  /\ Continue(pos, [frames EXCEPT ![Len(frames)].kids = Append(@, value)],
              "loop")

(* Back in read(): finish().                                               *)
finish ==
  /\ mode = "returned" /\ frames = <<>>
  /\ IF skipPadding[pos] = size
     THEN Continue(size, frames, "done") ELSE Fail

-----------------------------------------------------------------------------
Start(bytes) ==
  /\ input = bytes /\ pos = 0 /\ frames = <<>>
  /\ mode = "header" /\ value = NoValue

Init == \E bytes \in Inputs : Start(bytes)

Step ==
  \/ readHeader \/ readValue
  \/ objectLoop \/ denseLoop \/ sparseLoop
  \/ readPropertyKey \/ readSparseIndex \/ readProperty \/ readElement
  \/ finish

Next == Step

Spec == Init /\ [][Next]_rvars /\ WF_rvars(Next)

-----------------------------------------------------------------------------
(* Properties.                                                             *)

TypeOK ==
  /\ input \in Seq(Byte)
  /\ pos \in 0 .. size
  /\ mode \in Modes
  /\ \A i \in 1 .. Len(frames) :
       /\ frames[i].kind \in {"object", "dense", "sparse"}
       /\ frames[i].length \in Nat
       /\ frames[i].awaiting \in {"key", "value"}
       /\ IsSeq(frames[i].keys) /\ IsSeq(frames[i].kids)

(* Nothing outside the input is ever read: every byte of a decoded string, *)
(* buffer, view or double is a byte of the input (the length checks before *)
(* each memcpy, assign and pointer advance).                               *)
OnlyInputIsRead ==
  mode = "returned" /\ value.type \notin {"int32", "uint32"} =>
    \A i \in 1 .. Len(value.data) : value.data[i] \in CodeUnit

(* readValue() refuses a depth above kMaxNestingDepth, so no input drives  *)
(* the recursion deeper than one activation beyond it.  A container that   *)
(* is still open holds no more elements than a dense array declared, a key *)
(* for each value, and enough input was left for all elements when the     *)
(* array was reserved.                                                     *)
FramesSound ==
  /\ Len(frames) <= MaxDepth + 1
  /\ \A i \in 1 .. Len(frames) :
       /\ frames[i].kind = "dense" => Len(frames[i].kids) <= frames[i].length
       /\ frames[i].kind = "object" =>
            Len(frames[i].keys) = Len(frames[i].kids)
       /\ frames[i].length <= size
=============================================================================
