----------------------------- MODULE RowsProofs -----------------------------
(***************************************************************************)
(* Proofs that readRows() and read() agree, for every input and every      *)
(* minimum number of columns: what a stream hands out is what read() puts  *)
(* at that place; what it ends well on read() decodes, whole; and what     *)
(* read() decodes it refuses only for a count marker.                      *)
(***************************************************************************)
EXTENDS Boundary, ReaderProofs

-----------------------------------------------------------------------------
(* What the stream reads at an offset depends on the bytes alone.          *)

LEMMA SameCells ==
  ASSUME input' = input, input \in Seq(Byte)
  PROVE  /\ \A p : readScalar(p)' = readScalar(p)
         /\ \A p : readArrayHeader(p)' = readArrayHeader(p)
         /\ \A a, n, p : indexed(a, n, p)' = indexed(a, n, p)
         /\ \A a, p : finishArray(a, p)' = finishArray(a, p)
<1>1. /\ size' = size /\ readTag' = readTag
      /\ readVarint' = readVarint /\ readBytes' = readBytes
  BY SameBytes
<1>2. \A p, n : slice(p, n)' = slice(p, n)
  BY <1>1 DEF slice, at
<1>3. ASSUME NEW p PROVE readScalar(p)' = readScalar(p)
  <2>1. \A q : readInt32(q)' = readInt32(q) /\ readUint32(q)' = readUint32(q)
    BY <1>1, Zenon DEF readInt32, readUint32, Malformed, Parsed, Leaf, unZigZag
  <2>2. \A q, type : readDouble(q, type)' = readDouble(q, type)
    BY <1>1, <1>2 DEF readDouble, Malformed, Parsed, Leaf, DoubleSize
  <2>3. \A q : readOneByteString(q)' = readOneByteString(q)
    BY <1>1, Zenon DEF readOneByteString, Malformed, Parsed, Leaf
  <2>4. \A q : readTwoByteString(q)' = readTwoByteString(q)
    BY <1>1 DEF readTwoByteString, Malformed, Parsed, Leaf
  <2>5. \A q : readUtf8String(q)' = readUtf8String(q)
    BY <1>1 DEF readUtf8String, Malformed, Parsed, Leaf
  <2>6. \A q : \A tag \in ScalarTags : readLeaf(tag, q)' = readLeaf(tag, q)
    BY <2>1, <2>2, <2>3, <2>4, <2>5
    DEF readLeaf, ScalarTags, Constant, Parsed, Leaf,
        UndefinedTag, NullTag, TrueTag, FalseTag, Int32Tag, Uint32Tag,
        DoubleTag, OneByteTag, Utf8Tag, TwoByteTag, DateTag, BufferTag,
        HostObjectTag
  <2> QED BY <1>1, <2>6 DEF readScalar
<1>4. \A p : readArrayHeader(p)' = readArrayHeader(p)
  BY <1>1 DEF readArrayHeader, Malformed, Parsed
<1>5. \A a, n, p : indexed(a, n, p)' = indexed(a, n, p)
  BY <1>3 DEF indexed, indexIs, IsInteger
<1>6. \A a, p : finishArray(a, p)' = finishArray(a, p)
  BY <1>1 DEF finishArray, Malformed, Parsed
<1> QED BY <1>3, <1>4, <1>5, <1>6

-----------------------------------------------------------------------------
(* What read() makes of an array of rows, by the offsets at which it reads *)
(* the parts.  Nothing is said of a value behind a count marker, which     *)
(* readRows() does not accept.                                             *)

(* From offset p, a value v that ends at q.                                *)
CellAt(p, v, q) ==
  \/ readTag[p].val = CountMarkerTag
  \/ IF readScalar(p).ok THEN readScalar(p) = Parsed(v, q)
     ELSE v.type \notin ScalarType

IndexAt(array, n, p, q) ==
  \/ array.sparse /\ readTag[p].val = CountMarkerTag
  \/ indexed(array, n, p) = Parsed(n, q)

(* The entry n of an array begins at s[n], its element at b[n].            *)
CellsAt(header, s, b, kids) ==
  /\ s[0] = header.next
  /\ \A n \in 0 .. Len(kids) - 1 :
       /\ IndexAt(header.val, n, s[n], b[n])
       /\ CellAt(b[n], kids[n + 1], s[n + 1])

RowBehind(header, v, q) ==
  /\ v.type = "array" /\ Len(v.kids) = header.val.length
  /\ \E s, b :
       /\ CellsAt(header, s, b, v.kids)
       /\ finishArray(header.val, s[Len(v.kids)]) = Parsed(Len(v.kids), q)

RowAt(p, v, q) ==
  \/ readTag[p].val = CountMarkerTag
  \/ IF readArrayHeader(p).ok THEN RowBehind(readArrayHeader(p), v, q)
     ELSE v.type # "array"

(* The parts of the array at depth i, counted from the root.               *)
PartAt(i, p, v, q) == IF i = 1 THEN RowAt(p, v, q) ELSE CellAt(p, v, q)

PartsAt(i, header, s, b, kids) ==
  /\ s[0] = header.next
  /\ \A n \in 0 .. Len(kids) - 1 :
       /\ IndexAt(header.val, n, s[n], b[n])
       /\ PartAt(i, b[n], kids[n + 1], s[n + 1])

ArrayBehind(i, header, v, q) ==
  /\ v.type = "array" /\ Len(v.kids) = header.val.length
  /\ \E s, b :
       /\ PartsAt(i, header, s, b, v.kids)
       /\ finishArray(header.val, s[Len(v.kids)]) = Parsed(Len(v.kids), q)

ArrayAt(i, p, v, q) ==
  \/ readTag[p].val = CountMarkerTag
  \/ IF readArrayHeader(p).ok THEN ArrayBehind(i, readArrayHeader(p), v, q)
     ELSE v.type # "array"

LEMMA RowIsArray == \A p, v, q : ArrayAt(2, p, v, q) <=> RowAt(p, v, q)
BY SMT DEF ArrayAt, RowAt, ArrayBehind, RowBehind, PartsAt, CellsAt, PartAt

-----------------------------------------------------------------------------
(* The state of read(): the value that frame i is about to read, or is     *)
(* reading, begins at C[i], and frame i + 1 was opened there.              *)

headerEnd == readVarint[1].next

HeaderRead ==
  /\ size >= 2 /\ at(0) = 255
  /\ readVarint[1].ok /\ readVarint[1].val = FormatVersion

Opened(f, p) ==
  \/ readTag[p].val = CountMarkerTag
  \/ IF f.kind = "object" THEN readTag[p].val = ObjectTag
     ELSE /\ readArrayHeader(p).ok
          /\ readArrayHeader(p).val
               = [length |-> f.length, sparse |-> f.kind = "sparse"]

Holds(C, S, B, stack, i) ==
  /\ i \in 1 .. 3 => Opened(stack[i], C[i - 1])
  /\ i \in 1 .. 2 /\ readArrayHeader(C[i - 1]).ok =>
       PartsAt(i, readArrayHeader(C[i - 1]), S[i], B[i], stack[i].kids)

(* A sparse array that waits for a key reads the index first.              *)
Asks(C, S, stack, i) ==
  i \in 1 .. 2 /\ readArrayHeader(C[i - 1]).ok =>
    IF stack[i].awaiting = "key" THEN C[i] = S[i][Len(stack[i].kids)]
    ELSE IndexAt(readArrayHeader(C[i - 1]).val, Len(stack[i].kids),
                 S[i][Len(stack[i].kids)], C[i])

Waiting(C, S, B, stack, n) ==
  \A i \in 1 .. n : Holds(C, S, B, stack, i) /\ Asks(C, S, stack, i)

ToRead(C, S, B, stack, p) ==
  /\ Waiting(C, S, B, stack, Len(stack))
  /\ Len(stack) \in 0 .. 2 =>
       \/ readTag[C[Len(stack)]].val = CountMarkerTag
       \/ readTag[p] = readTag[C[Len(stack)]]

HasRead(C, S, B, stack, v, q) ==
  /\ Waiting(C, S, B, stack, Len(stack))
  /\ Len(stack) \in 0 .. 2 => CellAt(C[Len(stack)], v, q)
  /\ Len(stack) \in 0 .. 1 => ArrayAt(Len(stack) + 1, C[Len(stack)], v, q)

InLoop(C, S, B, stack, p) ==
  /\ Waiting(C, S, B, stack, Len(stack) - 1)
  /\ Holds(C, S, B, stack, Len(stack))
  /\ stack[Len(stack)].kind # "object" => stack[Len(stack)].awaiting = "key"
  /\ Len(stack) \in 1 .. 2 /\ readArrayHeader(C[Len(stack) - 1]).ok =>
       p = S[Len(stack)][Len(stack[Len(stack)].kids)]

Ended(v) ==
  \E q : ArrayAt(1, headerEnd, v, q) /\ skipPadding[q] = size

Traced(C, S, B, stack, where, p, v) ==
  /\ C[0] = headerEnd
  /\ where = "value" => ToRead(C, S, B, stack, p)
  /\ where = "returned" => HasRead(C, S, B, stack, v, p)
  /\ where = "loop" => InLoop(C, S, B, stack, p)

Describes(stack, where, p, v) ==
  /\ where \notin {"header", "failed"} => HeaderRead
  /\ where \in {"value", "returned", "loop"} =>
       \E C, S, B : Traced(C, S, B, stack, where, p, v)
  /\ where = "done" => Ended(v)

-----------------------------------------------------------------------------
(* The bytes stay, and so does what they say.                              *)
LEMMA SamePlaces ==
  ASSUME input' = input, input \in Seq(Byte)
  PROVE  /\ \A i, p, v, q : ArrayAt(i, p, v, q)' <=> ArrayAt(i, p, v, q)
         /\ \A p, v, q : CellAt(p, v, q)' <=> CellAt(p, v, q)
         /\ \A a, n, p, q : IndexAt(a, n, p, q)' <=> IndexAt(a, n, p, q)
         /\ \A i, h, s, b, k :
              PartsAt(i, h, s, b, k)' <=> PartsAt(i, h, s, b, k)
<1>1. /\ readTag' = readTag
      /\ \A p : readScalar(p)' = readScalar(p)
      /\ \A p : readArrayHeader(p)' = readArrayHeader(p)
      /\ \A a, n, p : indexed(a, n, p)' = indexed(a, n, p)
      /\ \A a, p : finishArray(a, p)' = finishArray(a, p)
  BY SameBytes, SameCells
<1>2. \A p, v, q : CellAt(p, v, q)' <=> CellAt(p, v, q)
  BY <1>1 DEF CellAt, Parsed
<1>3. \A a, n, p, q : IndexAt(a, n, p, q)' <=> IndexAt(a, n, p, q)
  BY <1>1 DEF IndexAt, Parsed
<1>4. \A h, s, b, k : CellsAt(h, s, b, k)' <=> CellsAt(h, s, b, k)
  BY SMT, <1>2, <1>3 DEF CellsAt
<1>5. \A p, v, q : RowAt(p, v, q)' <=> RowAt(p, v, q)
  <2>1. \A h, v, q : RowBehind(h, v, q)' <=> RowBehind(h, v, q)
    <3> SUFFICES ASSUME NEW h, NEW v, NEW q
                 PROVE  RowBehind(h, v, q)' <=> RowBehind(h, v, q)
      OBVIOUS
    <3> DEFINE End(s) == finishArray(h.val, s[Len(v.kids)])
                           = Parsed(Len(v.kids), q)
    <3>1. \A s : End(s)' <=> End(s)
      BY <1>1, Zenon DEF Parsed
    <3>2. \A s, b : CellsAt(h, s, b, v.kids)' <=> CellsAt(h, s, b, v.kids)
      BY <1>4
    <3>3. RowBehind(h, v, q) <=>
            /\ v.type = "array" /\ Len(v.kids) = h.val.length
            /\ \E s, b : CellsAt(h, s, b, v.kids) /\ End(s)
      BY Zenon DEF RowBehind
    <3>4. RowBehind(h, v, q)' <=>
            /\ v.type = "array" /\ Len(v.kids) = h.val.length
            /\ \E s, b : CellsAt(h, s, b, v.kids)' /\ End(s)'
      BY Zenon DEF RowBehind
    <3> HIDE DEF End
    <3> QED BY <3>1, <3>2, <3>3, <3>4, Zenon
  <2> QED BY SMT, <1>1, <2>1 DEF RowAt
<1>6. \A i, p, v, q : PartAt(i, p, v, q)' <=> PartAt(i, p, v, q)
  BY <1>2, <1>5, Zenon DEF PartAt
<1>7. \A i, h, s, b, k : PartsAt(i, h, s, b, k)' <=> PartsAt(i, h, s, b, k)
  BY SMT, <1>3, <1>6 DEF PartsAt
<1>8. \A i, p, v, q : ArrayAt(i, p, v, q)' <=> ArrayAt(i, p, v, q)
  <2>1. \A i, h, v, q : ArrayBehind(i, h, v, q)' <=> ArrayBehind(i, h, v, q)
    <3> SUFFICES ASSUME NEW i, NEW h, NEW v, NEW q
                 PROVE  ArrayBehind(i, h, v, q)' <=> ArrayBehind(i, h, v, q)
      OBVIOUS
    <3> DEFINE End(s) == finishArray(h.val, s[Len(v.kids)])
                           = Parsed(Len(v.kids), q)
    <3>1. \A s : End(s)' <=> End(s)
      BY <1>1, Zenon DEF Parsed
    <3>2. \A s, b : PartsAt(i, h, s, b, v.kids)' <=> PartsAt(i, h, s, b, v.kids)
      BY <1>7
    <3>3. ArrayBehind(i, h, v, q) <=>
            /\ v.type = "array" /\ Len(v.kids) = h.val.length
            /\ \E s, b : PartsAt(i, h, s, b, v.kids) /\ End(s)
      BY Zenon DEF ArrayBehind
    <3>4. ArrayBehind(i, h, v, q)' <=>
            /\ v.type = "array" /\ Len(v.kids) = h.val.length
            /\ \E s, b : PartsAt(i, h, s, b, v.kids)' /\ End(s)'
      BY Zenon DEF ArrayBehind
    <3> HIDE DEF End
    <3> QED BY <3>1, <3>2, <3>3, <3>4, Zenon
  <2> QED BY SMT, <1>1, <2>1 DEF ArrayAt
<1> QED BY <1>2, <1>3, <1>7, <1>8

LEMMA SameTrace ==
  ASSUME input' = input, input \in Seq(Byte),
         Describes(frames', mode', pos', value')
  PROVE  Describes(frames, mode, pos, value)'
<1>1. /\ readTag' = readTag /\ readVarint' = readVarint /\ size' = size
      /\ skipPadding' = skipPadding
      /\ \A p : readArrayHeader(p)' = readArrayHeader(p)
      /\ \A i, p, v, q : ArrayAt(i, p, v, q)' <=> ArrayAt(i, p, v, q)
      /\ \A p, v, q : CellAt(p, v, q)' <=> CellAt(p, v, q)
      /\ \A a, n, p, q : IndexAt(a, n, p, q)' <=> IndexAt(a, n, p, q)
      /\ \A i, h, s, b, k : PartsAt(i, h, s, b, k)' <=> PartsAt(i, h, s, b, k)
  BY SameBytes, SameCells, SamePlaces
<1>2. headerEnd' = headerEnd /\ (HeaderRead' <=> HeaderRead)
  BY <1>1 DEF headerEnd, HeaderRead, at
<1>3. \A f, p : Opened(f, p)' <=> Opened(f, p)
  BY <1>1, Zenon DEF Opened
<1>4. \A C, S, B, i : Holds(C, S, B, frames, i)' <=> Holds(C, S, B, frames', i)
  BY SMT, <1>1, <1>3 DEF Holds
<1>5. \A C, S, i : Asks(C, S, frames, i)' <=> Asks(C, S, frames', i)
  BY SMT, <1>1 DEF Asks
<1>6. \A C, S, B, n : Waiting(C, S, B, frames, n)'
                        <=> Waiting(C, S, B, frames', n)
  BY <1>4, <1>5, Zenon DEF Waiting
<1>7. \A C, S, B : ToRead(C, S, B, frames, pos)'
                     <=> ToRead(C, S, B, frames', pos')
  BY <1>1, <1>6, Zenon DEF ToRead
<1>8. \A C, S, B : HasRead(C, S, B, frames, value, pos)'
                     <=> HasRead(C, S, B, frames', value', pos')
  BY <1>1, <1>6, Zenon DEF HasRead
<1>9. \A C, S, B : InLoop(C, S, B, frames, pos)'
                     <=> InLoop(C, S, B, frames', pos')
  BY <1>1, <1>4, <1>6, Zenon DEF InLoop
<1>10. \A C, S, B : Traced(C, S, B, frames, mode, pos, value)'
                      <=> Traced(C, S, B, frames', mode', pos', value')
  BY <1>2, <1>7, <1>8, <1>9, Zenon DEF Traced
<1>11. Ended(value)' <=> Ended(value')
  BY <1>1, <1>2, Zenon DEF Ended
<1> QED BY <1>2, <1>10, <1>11, Zenon DEF Describes

-----------------------------------------------------------------------------
(* What read() does at each step, seen from the offsets.                   *)

LEMMA FramesKnown ==
  ASSUME ReaderInv
  PROVE  /\ input \in Seq(Byte) /\ pos \in 0 .. size /\ size \in Nat
         /\ IsSeq(frames) /\ Len(frames) \in Nat
         /\ \A i \in 1 .. Len(frames) :
              /\ frames[i].kind \in {"object", "dense", "sparse"}
              /\ frames[i].awaiting \in {"key", "value"}
              /\ IsSeq(frames[i].kids) /\ Len(frames[i].kids) \in Nat
              /\ frames[i].length \in Nat
              /\ frames[i].kind = "dense" =>
                   Len(frames[i].kids) <= frames[i].length
         /\ mode = "header" => pos = 0 /\ frames = <<>>
         /\ mode = "loop" => frames # <<>>
         /\ Len(frames) = 0 <=> frames = <<>>
<1>1. TypeOK /\ FramesSound
  BY InvariantImplies
<1>2. PICK L : ReaderOver(L)
  BY DEF ReaderInv
<1>3. /\ input \in Seq(Byte) /\ pos \in 0 .. size /\ IsSeq(frames)
      /\ mode = "header" => pos = 0 /\ frames = <<>>
      /\ mode = "loop" => frames # <<>>
  BY <1>2 DEF ReaderOver, StackSound
<1>4. size \in Nat /\ Len(frames) \in Nat /\ (Len(frames) = 0 <=> frames = <<>>)
  BY <1>3, AtType, SequencesAre
<1>5. ASSUME NEW i \in 1 .. Len(frames)
      PROVE  /\ frames[i].kind \in {"object", "dense", "sparse"}
             /\ frames[i].awaiting \in {"key", "value"}
             /\ IsSeq(frames[i].kids) /\ Len(frames[i].kids) \in Nat
             /\ frames[i].length \in Nat
             /\ frames[i].kind = "dense" =>
                  Len(frames[i].kids) <= frames[i].length
  BY <1>1, SequencesAre DEF TypeOK, FramesSound
<1> QED BY <1>3, <1>4, <1>5

(* What waits is not disturbed by what happens further in.                 *)
LEMMA WaitingKept ==
  ASSUME NEW C, NEW S, NEW B, NEW stack, NEW n \in Nat,
         Waiting(C, S, B, stack, n),
         NEW D, NEW T, NEW A, NEW new, D[0] = C[0],
         \A i \in 1 .. n : /\ new[i] = stack[i] /\ D[i] = C[i]
                           /\ T[i] = S[i] /\ A[i] = B[i]
  PROVE  Waiting(D, T, A, new, n)
<1> SUFFICES ASSUME NEW i \in 1 .. n
             PROVE  Holds(D, T, A, new, i) /\ Asks(D, T, new, i)
  BY DEF Waiting
<1>1. Holds(C, S, B, stack, i) /\ Asks(C, S, stack, i)
  BY DEF Waiting
<1>2. /\ new[i] = stack[i] /\ D[i] = C[i] /\ T[i] = S[i] /\ A[i] = B[i]
      /\ D[i - 1] = C[i - 1]
  <2>1. i - 1 = 0 \/ i - 1 \in 1 .. n
    OBVIOUS
  <2> QED BY <2>1
<1> QED BY <1>1, <1>2 DEF Holds, Asks

(* A value without parts.                                                  *)
LEMMA LeafKinds ==
  ASSUME input \in Seq(Byte), NEW p \in 0 .. size, NEW tag,
         readLeaf(tag, p).ok
  PROVE  LET r == readLeaf(tag, p)
         IN  /\ r = Parsed(r.val, r.next)
             /\ r.val.type \notin {"array", "object"}
             /\ tag \notin ScalarTags => r.val.type \notin ScalarType
<1> DEFINE r == readLeaf(tag, p)
           Whole(x) == x.ok => x = Parsed(x.val, x.next)
           Plain(x) == x.ok => x.val.type \notin {"array", "object"}
           Other(x) == x.ok => x.val.type \notin ScalarType
<1>1. \A type, data : LET x == Constant(p, type, data)
                      IN x = Parsed(x.val, x.next) /\ x.val.type = type
  BY DEF Constant, Parsed, Leaf
<1>2. Whole(readInt32(p)) /\ Whole(readUint32(p)) /\ Whole(readOneByteString(p))
      /\ Whole(readTwoByteString(p)) /\ Whole(readUtf8String(p))
  BY DEF readInt32, readUint32, readOneByteString, readTwoByteString,
         readUtf8String, Parsed, Malformed
<1>3. \A type : Whole(readDouble(p, type))
  BY DEF readDouble, Parsed, Malformed
<1>4. Whole(readArrayBuffer(p)) /\ Whole(readHostObject(p))
  BY DEF readArrayBuffer, readView, readHostObject, Parsed, Malformed
<1>5. Plain(readInt32(p)) /\ Plain(readUint32(p)) /\ Plain(readOneByteString(p))
      /\ Plain(readTwoByteString(p)) /\ Plain(readUtf8String(p))
  BY DEF readInt32, readUint32, readOneByteString, readTwoByteString,
         readUtf8String, Parsed, Malformed, Leaf
<1>6. \A type : LET x == readDouble(p, type) IN x.ok => x.val.type = type
  BY DEF readDouble, Parsed, Malformed, Leaf
<1>7. \A type : type \in ViewType \cup {"arrayBuffer", "date"} =>
        type \notin {"array", "object"} /\ type \notin ScalarType
  BY DEF ViewType, viewTag, ScalarType
<1>8. LET x == readArrayBuffer(p)
      IN  x.ok => x.val.type \in ViewType \cup {"arrayBuffer"}
  <2>1. \A b, q : LET x == readView(b, q) IN x.ok => x.val.type \in ViewType
    BY DEF readView, Parsed, Malformed, Leaf
  <2> QED BY <2>1 DEF readArrayBuffer, Parsed, Malformed, Leaf
<1>9. LET x == readHostObject(p) IN x.ok => x.val.type \in ViewType
  <2> DEFINE kind == readVarint[p]
             type == hostViewType[kind.val + 1]
  <2>1. SUFFICES ASSUME readHostObject(p).ok
                 PROVE  readHostObject(p).val.type \in ViewType
    OBVIOUS
  <2>2. /\ kind.ok /\ kind.val < Len(hostViewType)
        /\ readHostObject(p).val.type = type
    BY <2>1, Zenon DEF readHostObject, Malformed, Parsed, Leaf
  <2>3. kind.val \in Nat
    BY <2>2, ReadVarintParses DEF Parses
  <2>4. \A i \in 1 .. 13 : hostViewType[i] \in ViewType
    BY ViewTypes DEF hostViewType
  <2>5. type \in ViewType
    <3> DEFINE k == kind.val
    <3>1. Len(hostViewType) = 13
      BY DEF hostViewType
    <3>2. k \in Nat /\ k < 13
      BY <2>2, <2>3, <3>1
    <3> HIDE DEF k
    <3>3. k + 1 \in 1 .. 13
      BY <3>2
    <3>4. hostViewType[k + 1] \in ViewType
      BY <2>4, <3>3
    <3> QED BY <3>4 DEF k
  <2> QED BY <2>2, <2>5
<1> HIDE DEF Whole, Plain
<1> DEFINE R == {readInt32(p), readUint32(p), readUtf8String(p),
                 readOneByteString(p), readTwoByteString(p)}
           Q == {readDouble(p, "date"), readArrayBuffer(p), readHostObject(p),
                 Malformed}
           P == {Constant(p, "undefined", <<>>), Constant(p, "null", <<>>),
                 Constant(p, "boolean", <<1>>), Constant(p, "boolean", <<0>>),
                 readDouble(p, "double")}
<1>10. r \in R \cup Q \cup P
  BY Zenon DEF readLeaf
<1>11. tag \notin ScalarTags => r \in Q
  BY Zenon DEF readLeaf, ScalarTags
<1>12. \A x \in R \cup Q \cup P : Whole(x) /\ Plain(x)
  <2>1. Whole(Malformed) /\ Plain(Malformed)
    BY DEF Whole, Plain, Malformed
  <2>2. \A x \in P : Whole(x) /\ Plain(x)
    <3>1. Whole(readDouble(p, "double")) /\ Plain(readDouble(p, "double"))
      BY <1>3, <1>6 DEF Plain
    <3>2. \A type \in {"undefined", "null", "boolean"} : \A data :
            Whole(Constant(p, type, data)) /\ Plain(Constant(p, type, data))
      BY <1>1 DEF Whole, Plain
    <3> QED BY <3>1, <3>2
  <2>3. \A x \in Q : Whole(x) /\ Plain(x)
    BY <1>3, <1>4, <1>6, <1>7, <1>8, <1>9, <2>1 DEF Plain
  <2> QED BY <1>2, <1>5, <2>2, <2>3
<1>13. \A x \in Q : Other(x)
  BY <1>6, <1>7, <1>8, <1>9 DEF Malformed
<1> HIDE DEF R, Q, P
<1>14. Whole(r) /\ Plain(r) /\ (tag \notin ScalarTags => Other(r))
  BY <1>10, <1>11, <1>12, <1>13
<1> QED BY <1>14 DEF Whole, Plain

LEMMA LeafDescribed ==
  ASSUME input \in Seq(Byte), NEW c, NEW tag, NEW next \in 0 .. size,
         readTag[c] = Parsed(tag, next),
         tag \notin {CountMarkerTag, ObjectTag, DenseTag, SparseTag},
         readLeaf(tag, next).ok
  PROVE  LET r == readLeaf(tag, next)
         IN  CellAt(c, r.val, r.next) /\ \A i : ArrayAt(i, c, r.val, r.next)
<1> DEFINE r == readLeaf(tag, next)
<1>1. /\ r = Parsed(r.val, r.next) /\ r.val.type # "array"
      /\ tag \notin ScalarTags => r.val.type \notin ScalarType
  BY LeafKinds
<1>2. readTag[c].ok /\ readTag[c].val = tag /\ readTag[c].next = next
  BY DEF Parsed
<1>3. readScalar(c) = IF tag \in ScalarTags THEN r ELSE Malformed
  BY <1>2, Zenon DEF readScalar
<1>4. ~readArrayHeader(c).ok
  BY <1>2 DEF readArrayHeader, Malformed
<1>5. r.ok
  OBVIOUS
<1> HIDE DEF r
<1>6. CellAt(c, r.val, r.next)
  BY <1>1, <1>3, <1>5 DEF CellAt, Malformed
<1> QED BY <1>1, <1>4, <1>6 DEF ArrayAt, r

(* A container, by the tag it was opened with.                             *)
LEMMA NotScalar ==
  ASSUME NEW c, NEW f, f.kind \in {"object", "dense", "sparse"}, Opened(f, c)
  PROVE  /\ readTag[c].val = CountMarkerTag \/ ~readScalar(c).ok
         /\ f.kind = "object" => ~readArrayHeader(c).ok
         /\ readArrayHeader(c).ok =>
              /\ f.kind \in {"dense", "sparse"}
              /\ readArrayHeader(c).val
                   = [length |-> f.length, sparse |-> f.kind = "sparse"]
         /\ readTag[c].val # CountMarkerTag /\ f.kind # "object" =>
              readArrayHeader(c).ok
<1>1. readArrayHeader(c).ok => readTag[c].val \in {DenseTag, SparseTag}
  BY DEF readArrayHeader, Malformed
<1>2. readScalar(c).ok => readTag[c].val \in ScalarTags
  BY DEF readScalar, Malformed
<1>3. /\ {DenseTag, SparseTag, ObjectTag, CountMarkerTag} \cap ScalarTags = {}
      /\ ObjectTag \notin {DenseTag, SparseTag}
      /\ CountMarkerTag \notin {DenseTag, SparseTag}
  BY DEF ScalarTags, DenseTag, SparseTag, ObjectTag, CountMarkerTag,
         UndefinedTag, NullTag, TrueTag, FalseTag, Int32Tag, Uint32Tag,
         DoubleTag, OneByteTag, Utf8Tag, TwoByteTag
<1> QED BY <1>1, <1>2, <1>3 DEF Opened

LEMMA HeaderKind ==
  ASSUME NEW c, NEW f, f.kind \in {"object", "dense", "sparse"}, Opened(f, c),
         readArrayHeader(c).ok
  PROVE  /\ f.kind # "object"
         /\ f.kind = "dense" => ~readArrayHeader(c).val.sparse
         /\ f.kind = "sparse" => readArrayHeader(c).val.sparse
<1> PICK h : h = readArrayHeader(c).val
  OBVIOUS
<1>1. /\ f.kind # "object"
      /\ h = [length |-> f.length, sparse |-> f.kind = "sparse"]
  <2>1. readTag[c].val \in {DenseTag, SparseTag}
    BY DEF readArrayHeader, Malformed
  <2>2. /\ ObjectTag \notin {DenseTag, SparseTag}
        /\ CountMarkerTag \notin {DenseTag, SparseTag}
    BY DEF DenseTag, SparseTag, ObjectTag, CountMarkerTag
  <2>3. IF f.kind = "object" THEN readTag[c].val = ObjectTag
        ELSE h = [length |-> f.length, sparse |-> f.kind = "sparse"]
    BY <2>1, <2>2, Zenon DEF Opened
  <2> QED BY <2>1, <2>2, <2>3
<1>2. h.sparse = (f.kind = "sparse")
  BY <1>1
<1> QED BY <1>1, <1>2

LEMMA HeaderDescribed ==
  ASSUME ReaderInv, readHeader
  PROVE  Describes(frames', mode', pos', value')
<1> DEFINE magic == readByte[0]
           version == readVarint[magic.next]
           read == /\ size >= 2 /\ magic.val = 255
                   /\ version.ok /\ version.val = FormatVersion
<1>1. /\ frames = <<>> /\ input \in Seq(Byte) /\ size \in Nat
      /\ Len(frames) = 0
  BY FramesKnown DEF readHeader
<1>2. IF read THEN Continue(version.next, frames, "value") ELSE Fail
  BY Zenon DEF readHeader
<1>3. CASE ~read
  BY <1>2, <1>3 DEF Fail, Describes
<1>4. CASE read
  <2>1. 0 \in 0 .. size /\ 0 # size
    BY <1>1, <1>4
  <2>2. magic = Parsed(at(0), 1)
    BY <2>1 DEF readByte
  <2>3. version = readVarint[1] /\ version.next = headerEnd /\ at(0) = 255
    BY <1>4, <2>2 DEF Parsed, headerEnd
  <2>4. HeaderRead
    BY <1>4, <2>3 DEF HeaderRead
  <2>5. /\ frames' = <<>> /\ mode' = "value" /\ pos' = headerEnd
    BY <1>1, <1>2, <1>4, <2>3 DEF Continue
  <2> DEFINE C == [i \in {0} |-> headerEnd]
  <2>6. ToRead(C, C, C, <<>>, headerEnd) /\ C[0] = headerEnd
    BY <1>1 DEF ToRead, Waiting
  <2> HIDE DEF C
  <2>7. Traced(C, C, C, <<>>, "value", headerEnd, value')
    BY <2>6 DEF Traced
  <2> QED BY <2>4, <2>5, <2>7 DEF Describes
<1> QED BY <1>3, <1>4

LEMMA FailDescribed ==
  ASSUME Fail
  PROVE  Describes(frames', mode', pos', value')
BY DEF Fail, Describes

(* The trace of a step: what it assigns is traced, too.                    *)
LEMMA ToReadDescribed ==
  ASSUME HeaderRead, NEW C, NEW S, NEW B, C[0] = headerEnd, NEW next, NEW stack,
         Continue(next, stack, "value"), ToRead(C, S, B, stack, next)
  PROVE  Describes(frames', mode', pos', value')
<1>1. frames' = stack /\ mode' = "value" /\ pos' = next
  BY DEF Continue
<1>2. Traced(C, S, B, stack, "value", next, value')
  BY DEF Traced
<1> QED BY <1>1, <1>2 DEF Describes

LEMMA InLoopDescribed ==
  ASSUME HeaderRead, NEW C, NEW S, NEW B, C[0] = headerEnd, NEW next, NEW stack,
         Continue(next, stack, "loop"), InLoop(C, S, B, stack, next)
  PROVE  Describes(frames', mode', pos', value')
<1>1. frames' = stack /\ mode' = "loop" /\ pos' = next
  BY DEF Continue
<1>2. Traced(C, S, B, stack, "loop", next, value')
  BY DEF Traced
<1> QED BY <1>1, <1>2 DEF Describes

LEMMA HasReadDescribed ==
  ASSUME HeaderRead, NEW C, NEW S, NEW B, C[0] = headerEnd, NEW next, NEW stack,
         NEW v, Return(v, next, stack), HasRead(C, S, B, stack, v, next)
  PROVE  Describes(frames', mode', pos', value')
<1>1. frames' = stack /\ mode' = "returned" /\ pos' = next /\ value' = v
  BY DEF Return
<1>2. Traced(C, S, B, stack, "returned", next, v)
  BY DEF Traced
<1> QED BY <1>1, <1>2 DEF Describes

LEMMA MarkerDescribed ==
  ASSUME ReaderInv, HeaderRead,
         NEW C, NEW S, NEW B, Traced(C, S, B, frames, mode, pos, value),
         skipCountMarker
  PROVE  Describes(frames', mode', pos', value')
<1> DEFINE count == readVarint[behindTag]
<1>1. /\ TagIn({CountMarkerTag})
      /\ Fail \/ Continue(count.next, frames, "value")
  BY Zenon DEF skipCountMarker
<1>2. ToRead(C, S, B, frames, pos) /\ C[0] = headerEnd
  BY <1>1 DEF TagIn, Traced
<1>3. readTag[pos].val = CountMarkerTag
  BY <1>1 DEF TagIn
<1>4. ToRead(C, S, B, frames, count.next)
  BY <1>2, <1>3 DEF ToRead
<1> HIDE DEF count
<1> QED BY <1>1, <1>2, <1>4, FailDescribed, ToReadDescribed

(* A container is opened where the value that is asked for begins.         *)
LEMMA PushDescribed ==
  ASSUME HeaderRead, NEW C, NEW S, NEW B, C[0] = headerEnd,
         NEW stack, IsSeq(stack), Len(stack) \in Nat, NEW f, NEW next,
         Waiting(C, S, B, stack, Len(stack)),
         f.kids = <<>>, f.awaiting = "key",
         Len(stack) \in 0 .. 2 => Opened(f, C[Len(stack)]),
         Len(stack) \in 0 .. 1 /\ readArrayHeader(C[Len(stack)]).ok =>
           next = readArrayHeader(C[Len(stack)]).next,
         Continue(next, Append(stack, f), "loop")
  PROVE  Describes(frames', mode', pos', value')
<1> DEFINE d == Len(stack)
           new == Append(stack, f)
           T == [i \in 1 .. 2 |->
                   IF i = d + 1 THEN [n \in {0} |-> next] ELSE S[i]]
<1>8. d \in Nat
  OBVIOUS
<1>1. /\ Len(new) = d + 1 /\ new[d + 1] = f
      /\ \A i \in 1 .. d : new[i] = stack[i]
  BY SequenceAppended
<1>2. \A i \in 1 .. 2 : i \in 1 .. d => T[i] = S[i]
  OBVIOUS
<1>3. d + 1 \in 1 .. 2 => T[d + 1] = [n \in {0} |-> next]
  OBVIOUS
<1>9. /\ Waiting(C, S, B, stack, d)
      /\ d \in 0 .. 2 => Opened(f, C[d])
      /\ d \in 0 .. 1 /\ readArrayHeader(C[d]).ok =>
           next = readArrayHeader(C[d]).next
  OBVIOUS
<1> HIDE DEF new, T, d
<1>4. Waiting(C, T, B, new, d)
  <2>1. ASSUME NEW i \in 1 .. d
        PROVE  Holds(C, T, B, new, i) /\ Asks(C, T, new, i)
    <3>1. Holds(C, S, B, stack, i) /\ Asks(C, S, stack, i)
      BY <1>9 DEF Waiting
    <3>2. new[i] = stack[i] /\ (i \in 1 .. 2 => T[i] = S[i])
      BY <1>1, <1>2
    <3> QED BY <3>1, <3>2 DEF Holds, Asks
  <2> QED BY <2>1 DEF Waiting
<1>5. Len(f.kids) = 0
  OBVIOUS
<1>6. Holds(C, T, B, new, d + 1)
  <2>1. d + 1 \in 1 .. 3 => d \in 0 .. 2
    BY <1>8
  <2>2. d + 1 - 1 = d
    BY <1>8
  <2>3. d + 1 \in 1 .. 3 => Opened(new[d + 1], C[d])
    BY <1>1, <1>9, <2>1
  <2>4. ASSUME d + 1 \in 1 .. 2, readArrayHeader(C[d]).ok
        PROVE  PartsAt(d + 1, readArrayHeader(C[d]), T[d + 1], B[d + 1],
                       new[d + 1].kids)
    <3>1. T[d + 1][0] = readArrayHeader(C[d]).next
      <4>1. d \in 0 .. 1
        BY <1>8, <2>4
      <4> QED BY <1>3, <1>9, <2>4, <4>1
    <3>2. 0 .. Len(f.kids) - 1 = {}
      BY <1>5
    <3> QED BY <1>1, <3>1, <3>2 DEF PartsAt
  <2>5. PICK i : i = d + 1
    OBVIOUS
  <2>7. i - 1 = d
    BY <1>8, <2>5
  <2>6. /\ i \in 1 .. 3 => Opened(new[i], C[i - 1])
        /\ i \in 1 .. 2 /\ readArrayHeader(C[i - 1]).ok =>
             PartsAt(i, readArrayHeader(C[i - 1]), T[i], B[i], new[i].kids)
    BY <2>3, <2>4, <2>5, <2>7
  <2> QED BY <2>5, <2>6 DEF Holds
<1>7. InLoop(C, T, B, new, next)
  <2>1. Len(new) - 1 = d
    BY <1>1, <1>8
  <2>2. ASSUME d + 1 \in 1 .. 2, readArrayHeader(C[d]).ok
        PROVE  next = T[d + 1][Len(f.kids)]
    BY <1>3, <1>5, <2>2
  <2> QED BY <1>1, <1>4, <1>6, <2>1, <2>2 DEF InLoop
<1> QED BY <1>7, InLoopDescribed DEF new

LEMMA OpenObjectDescribed ==
  ASSUME ReaderInv, HeaderRead,
         NEW C, NEW S, NEW B, Traced(C, S, B, frames, mode, pos, value),
         openObject
  PROVE  Describes(frames', mode', pos', value')
<1> DEFINE f == NewFrame("object", 0)
           d == Len(frames)
<1>1. /\ TagIn({ObjectTag}) /\ Continue(behindTag, Append(frames, f), "loop")
      /\ readTag[pos].val = ObjectTag
  BY DEF openObject, TagIn
<1>2. ToRead(C, S, B, frames, pos) /\ C[0] = headerEnd
  BY <1>1 DEF TagIn, Traced
<1>3. d \in 0 .. 2 => \/ readTag[C[d]].val = CountMarkerTag
                     \/ readTag[C[d]].val = ObjectTag
  BY <1>1, <1>2 DEF ToRead
<1>4. /\ ObjectTag \notin {DenseTag, SparseTag}
      /\ CountMarkerTag \notin {DenseTag, SparseTag}
  BY DEF DenseTag, SparseTag, ObjectTag, CountMarkerTag
<1>5. d \in 0 .. 2 => Opened(f, C[d]) /\ ~readArrayHeader(C[d]).ok
  <2>1. f.kind = "object"
    BY DEF NewFrame
  <2> HIDE DEF f, d
  <2> QED BY <1>3, <1>4, <2>1 DEF Opened, readArrayHeader, Malformed
<1>6. f.kids = <<>> /\ f.awaiting = "key"
  BY DEF NewFrame
<1>7. IsSeq(frames) /\ d \in Nat /\ Waiting(C, S, B, frames, d)
  BY <1>2, FramesKnown DEF ToRead
<1>8. \A k : k \in 0 .. 1 => k \in 0 .. 2
  OBVIOUS
<1> HIDE DEF f
<1> QED BY <1>1, <1>2, <1>5, <1>6, <1>7, <1>8, PushDescribed

LEMMA OpenArrayDescribed ==
  ASSUME ReaderInv, HeaderRead,
         NEW C, NEW S, NEW B, Traced(C, S, B, frames, mode, pos, value),
         NEW tag, NEW kind, \/ tag = DenseTag /\ kind = "dense"
                            \/ tag = SparseTag /\ kind = "sparse",
         openArray(tag, kind)
  PROVE  Describes(frames', mode', pos', value')
<1> DEFINE length == readVarint[behindTag]
           f == NewFrame(kind, length.val)
           d == Len(frames)
<1>1. /\ TagIn({tag}) /\ readTag[pos].val = tag /\ readTag[pos].ok
      /\ \/ Fail
         \/ /\ length.ok /\ length.val <= size - length.next
            /\ Continue(length.next, Append(frames, f), "loop")
  <2>1. TagIn({tag}) /\ readTag[pos].val = tag /\ readTag[pos].ok
    BY DEF openArray, TagIn
  <2> QED BY <2>1, Zenon DEF openArray
<1>2. ToRead(C, S, B, frames, pos) /\ C[0] = headerEnd
  BY <1>1 DEF TagIn, Traced
<1>3. CASE Fail
  BY <1>3, FailDescribed
<1>4. CASE /\ length.ok /\ length.val <= size - length.next
           /\ Continue(length.next, Append(frames, f), "loop")
  <2>1. readArrayHeader(pos) =
          Parsed([length |-> length.val, sparse |-> kind = "sparse"],
                 length.next)
    <3>1. tag \in {DenseTag, SparseTag} /\ (tag = SparseTag <=> kind = "sparse")
      BY DEF DenseTag, SparseTag
    <3> QED BY <1>1, <1>4, <3>1 DEF readArrayHeader, behindTag
  <2>2. \A c : readTag[pos] = readTag[c] =>
                 readArrayHeader(c) = readArrayHeader(pos)
    BY DEF readArrayHeader
  <2>3. f.kids = <<>> /\ f.awaiting = "key" /\ f.kind = kind
        /\ f.kind # "object" /\ f.length = length.val
    BY DEF NewFrame
  <2> HIDE DEF f, length
  <2>4. CountMarkerTag \notin {DenseTag, SparseTag}
    BY DEF DenseTag, SparseTag, CountMarkerTag
  <2>5. \A c : \/ readTag[c].val = CountMarkerTag
               \/ readTag[pos] = readTag[c]
           => /\ Opened(f, c)
              /\ readArrayHeader(c).ok => length.next = readArrayHeader(c).next
    <3> SUFFICES ASSUME NEW c, \/ readTag[c].val = CountMarkerTag
                               \/ readTag[pos] = readTag[c]
                 PROVE  /\ Opened(f, c)
                        /\ readArrayHeader(c).ok =>
                             length.next = readArrayHeader(c).next
      OBVIOUS
    <3>1. CASE readTag[c].val = CountMarkerTag
      <4>1. ~readArrayHeader(c).ok
        BY ONLY <2>4, <3>1 DEF readArrayHeader, Malformed
      <4> QED BY ONLY <3>1, <4>1 DEF Opened
    <3>2. CASE readTag[pos] = readTag[c]
      <4>1. readArrayHeader(c) = readArrayHeader(pos)
        BY <2>2, <3>2
      <4> QED BY ONLY <2>1, <2>3, <4>1 DEF Opened, Parsed
    <3> QED BY <3>1, <3>2
  <2>6. \A k : k \in 0 .. 1 => k \in 0 .. 2
    OBVIOUS
  <2>7. /\ d \in 0 .. 2 => Opened(f, C[d])
        /\ d \in 0 .. 1 /\ readArrayHeader(C[d]).ok =>
             length.next = readArrayHeader(C[d]).next
    BY <1>2, <2>5, <2>6 DEF ToRead
  <2>8. IsSeq(frames) /\ d \in Nat /\ Waiting(C, S, B, frames, d)
    BY <1>2, FramesKnown DEF ToRead
  <2> QED BY <1>2, <1>4, <2>3, <2>7, <2>8, PushDescribed
<1> QED BY <1>1, <1>3, <1>4

LEMMA LeafValueDescribed ==
  ASSUME ReaderInv, HeaderRead,
         NEW C, NEW S, NEW B, Traced(C, S, B, frames, mode, pos, value),
         readLeafValue
  PROVE  Describes(frames', mode', pos', value')
<1> DEFINE tag == readTag[pos].val
           r == readLeaf(tag, behindTag)
           tags == Byte \ {CountMarkerTag, ObjectTag, DenseTag, SparseTag}
           d == Len(frames)
<1>1. TagIn(tags) /\ Attempt(r)
  BY DEF readLeafValue
<1>2. /\ tag \notin {CountMarkerTag, ObjectTag, DenseTag, SparseTag}
      /\ readTag[pos].ok /\ mode = "value"
  BY <1>1 DEF TagIn
<1> HIDE DEF tags
<1>3. Fail \/ (r.ok /\ Return(r.val, r.next, frames))
  <2> HIDE DEF r
  <2>1. IF r.ok THEN Return(r.val, r.next, frames) ELSE Fail
    BY <1>1, Zenon DEF Attempt
  <2> QED BY <2>1
<1>4. ToRead(C, S, B, frames, pos) /\ C[0] = headerEnd
  BY <1>2 DEF Traced
<1>5. CASE r.ok /\ Return(r.val, r.next, frames)
  <2>1. /\ input \in Seq(Byte) /\ pos \in 0 .. size
    BY FramesKnown
  <2>2. behindTag \in 0 .. size /\ readTag[pos] = Parsed(tag, behindTag)
    <3>1. behindTag \in 0 .. size
      BY <2>1, ReadTagParses DEF Parses, behindTag
    <3>2. readTag[pos] = Malformed \/ \E x, n : readTag[pos] = Parsed(x, n)
      <4>1. skipPadding[pos] \in pos .. size /\ size \in Nat
        BY <2>1, SkipRange, AtType
      <4>2. skipPadding[pos] \in 0 .. size
        BY <2>1, <4>1
      <4> QED BY <2>1, <4>2 DEF readTag, readByte
    <3> QED BY <1>2, <3>1, <3>2 DEF behindTag, Parsed, Malformed
  <2>3. ASSUME NEW c, readTag[pos] = readTag[c]
        PROVE  CellAt(c, r.val, r.next) /\ \A i : ArrayAt(i, c, r.val, r.next)
    <3>1. readTag[c] = Parsed(tag, behindTag)
      BY <2>2, <2>3
    <3>2. readLeaf(tag, behindTag).ok
      BY <1>5
    <3> HIDE DEF r, tag
    <3> QED BY <1>2, <2>1, <2>2, <3>1, <3>2, LeafDescribed DEF r
  <2> HIDE DEF r, tag
  <2>4. ASSUME NEW c, readTag[c].val = CountMarkerTag
        PROVE  CellAt(c, r.val, r.next) /\ \A i : ArrayAt(i, c, r.val, r.next)
    BY <2>4 DEF CellAt, ArrayAt
  <2>5. \A k : k \in 0 .. 1 => k \in 0 .. 2
    OBVIOUS
  <2>6. HasRead(C, S, B, frames, r.val, r.next)
    BY <1>4, <2>3, <2>4, <2>5 DEF HasRead, ToRead
  <2> QED BY <1>4, <1>5, <2>6, HasReadDescribed
<1> QED BY <1>3, <1>5, FailDescribed

(* A container asks for its next part where it stands.                     *)
LEMMA AskDescribed ==
  ASSUME ReaderInv, HeaderRead,
         NEW C, NEW S, NEW B, Traced(C, S, B, frames, mode, pos, value),
         mode = "loop", Continue(skipPadding[pos], frames, "value")
  PROVE  Describes(frames', mode', pos', value')
<1>1. PICK d \in Nat : d = Len(frames)
  BY FramesKnown
<1>2. /\ input \in Seq(Byte) /\ pos \in 0 .. size /\ d # 0
      /\ frames[d].kind \in {"object", "dense", "sparse"}
  <2>1. d # 0
    BY <1>1, FramesKnown
  <2>2. d \in 1 .. d
    BY <1>1, <2>1
  <2> QED BY <1>1, <2>1, <2>2, FramesKnown
<1>3. InLoop(C, S, B, frames, pos) /\ C[0] = headerEnd
  BY DEF Traced
<1> DEFINE D == [i \in 0 .. d |-> IF i = d THEN pos ELSE C[i]]
<1>4. /\ D[0] = C[0] /\ D[d] = pos /\ D[d - 1] = C[d - 1]
      /\ \A i \in 1 .. d - 1 : D[i] = C[i]
  BY <1>1, <1>2
<1> HIDE DEF D
<1>5. Waiting(D, S, B, frames, d - 1)
  <2>1. Waiting(C, S, B, frames, d - 1) /\ d - 1 \in Nat
    BY <1>1, <1>2, <1>3 DEF InLoop
  <2> QED BY <1>4, <2>1, WaitingKept
<1>6. Holds(C, S, B, frames, d)
  BY <1>1, <1>3 DEF InLoop
<1>7. Holds(D, S, B, frames, d)
  BY <1>4, <1>6 DEF Holds
<1>8. Asks(D, S, frames, d)
  <2> SUFFICES ASSUME d \in 1 .. 2, readArrayHeader(C[d - 1]).ok
               PROVE  /\ frames[d].awaiting = "key"
                      /\ pos = S[d][Len(frames[d].kids)]
    BY <1>4 DEF Asks
  <2>1. Opened(frames[d], C[d - 1])
    <3>1. d \in 1 .. 3
      OBVIOUS
    <3> QED BY <1>6, <3>1 DEF Holds
  <2>2. frames[d].kind # "object"
    <3>1. PICK c : c = C[d - 1]
      OBVIOUS
    <3>2. readArrayHeader(c).ok /\ Opened(frames[d], c)
      BY <2>1, <3>1
    <3> QED BY ONLY <1>2, <3>2, HeaderKind
  <2> QED BY <1>1, <1>3, <2>2 DEF InLoop
<1>9. Waiting(D, S, B, frames, d)
  <2>1. \A i \in 1 .. d : i \in 1 .. d - 1 \/ i = d
    BY <1>1
  <2> QED BY <1>5, <1>7, <1>8, <2>1 DEF Waiting
<1>10. ToRead(D, S, B, frames, skipPadding[pos])
  <2>1. readTag[skipPadding[pos]] = readTag[D[d]]
    BY <1>2, <1>4, TagBehindPadding
  <2> QED BY <1>1, <1>9, <2>1 DEF ToRead
<1> QED BY <1>3, <1>4, <1>10, ToReadDescribed

(* A container that ends, where finishArray() would end it.                *)
LEMMA CloseDescribed ==
  ASSUME ReaderInv, HeaderRead,
         NEW C, NEW S, NEW B, Traced(C, S, B, frames, mode, pos, value),
         mode = "loop", NEW next, Return(Finished, next, callers),
         top.kind # "object" =>
           /\ Len(top.kids) = top.length
           /\ finishArray([length |-> top.length,
                           sparse |-> top.kind = "sparse"], pos)
                = Parsed(Len(top.kids), next)
  PROVE  Describes(frames', mode', pos', value')
<1>1. PICK d \in Nat : d = Len(frames)
  BY FramesKnown
<1>2. d # 0 /\ frames[d].kind \in {"object", "dense", "sparse"}
      /\ top = frames[d] /\ IsSeq(frames) /\ frames # <<>>
  <2>1. d # 0
    BY <1>1, FramesKnown
  <2>2. d \in 1 .. d
    BY <1>1, <2>1
  <2> QED BY <1>1, <2>1, <2>2, FramesKnown DEF top
<1>3. InLoop(C, S, B, frames, pos) /\ C[0] = headerEnd
  BY DEF Traced
<1>4. PICK e \in Nat : e = d - 1
  BY <1>2
<1>5. Len(callers) = e /\ \A i \in 1 .. e : callers[i] = frames[i]
  BY <1>1, <1>2, <1>4, SequenceShortened DEF callers
<1>6. Waiting(C, S, B, callers, e)
  <2>1. Waiting(C, S, B, frames, e)
    BY <1>1, <1>3, <1>4 DEF InLoop
  <2> QED BY <1>5, <2>1, WaitingKept
<1>7. Holds(C, S, B, frames, d) /\ d = e + 1
  BY <1>1, <1>3, <1>4 DEF InLoop
<1>8. /\ e \in 0 .. 2 => d \in 1 .. 3
      /\ e \in 0 .. 1 => d \in 1 .. 2 /\ d \in 1 .. 3
  BY <1>4, <1>7
<1>9. /\ Finished.kids = top.kids
      /\ Finished.type = IF top.kind = "object" THEN "object" ELSE "array"
  BY DEF Finished
<1>10. {"object", "array"} \cap ScalarType = {}
  BY DEF ScalarType
<1>11. e \in 0 .. 2 => CellAt(C[e], Finished, next)
  <2> SUFFICES ASSUME e \in 0 .. 2 PROVE CellAt(C[e], Finished, next)
    OBVIOUS
  <2>1. Opened(top, C[e])
    BY <1>2, <1>4, <1>7, <1>8 DEF Holds
  <2>2. readTag[C[e]].val = CountMarkerTag \/ ~readScalar(C[e]).ok
    BY <1>2, <2>1, NotScalar
  <2>3. Finished.type \notin ScalarType
    BY <1>9, <1>10
  <2> QED BY <2>2, <2>3 DEF CellAt
<1>12. e \in 0 .. 1 => ArrayAt(d, C[e], Finished, next)
  <2> SUFFICES ASSUME e \in 0 .. 1 PROVE ArrayAt(d, C[e], Finished, next)
    OBVIOUS
  <2> DEFINE h == readArrayHeader(C[e])
  <2>1. /\ Opened(top, C[e])
        /\ h.ok => PartsAt(d, h, S[d], B[d], top.kids)
    BY <1>2, <1>4, <1>7, <1>8 DEF Holds
  <2>2. /\ h.ok => /\ top.kind \in {"dense", "sparse"}
                   /\ h.val = [length |-> top.length,
                               sparse |-> top.kind = "sparse"]
        /\ readTag[C[e]].val # CountMarkerTag /\ top.kind # "object" => h.ok
    BY <1>2, <2>1, NotScalar
  <2>3. h.ok => pos = S[d][Len(top.kids)]
    BY <1>1, <1>2, <1>3, <1>4, <1>8 DEF InLoop
  <2> HIDE DEF h
  <2>4. ASSUME h.ok PROVE ArrayBehind(d, h, Finished, next)
    <3>1. /\ Finished.type = "array" /\ Len(Finished.kids) = h.val.length
          /\ Finished.kids = top.kids
      BY <1>9, <2>2, <2>4
    <3>2. finishArray(h.val, S[d][Len(Finished.kids)])
            = Parsed(Len(Finished.kids), next)
      BY <2>2, <2>3, <2>4, <3>1
    <3>3. PartsAt(d, h, S[d], B[d], Finished.kids)
      BY <2>1, <2>4, <3>1
    <3> QED BY <3>1, <3>2, <3>3, Zenon DEF ArrayBehind
  <2>5. \/ readTag[C[e]].val = CountMarkerTag
        \/ IF h.ok THEN ArrayBehind(d, h, Finished, next)
           ELSE Finished.type # "array"
    BY <1>9, <2>2, <2>4
  <2> QED BY <2>5, Zenon DEF ArrayAt, h
<1>13. HasRead(C, S, B, callers, Finished, next)
  BY <1>5, <1>6, <1>7, <1>11, <1>12 DEF HasRead
<1> QED BY <1>3, <1>13, HasReadDescribed

LEMMA LoopDescribed ==
  ASSUME ReaderInv, HeaderRead,
         NEW C, NEW S, NEW B, Traced(C, S, B, frames, mode, pos, value),
         objectLoop \/ denseLoop \/ sparseLoop
  PROVE  Describes(frames', mode', pos', value')
<1> DEFINE tag == readTag[pos]
           first == readVarint[tag.next]
           second == readVarint[first.next]
           header == [length |-> top.length, sparse |-> top.kind = "sparse"]
           Ends(next) ==
             /\ Return(Finished, next, callers)
             /\ top.kind # "object" =>
                  /\ Len(top.kids) = top.length
                  /\ finishArray(header, pos) = Parsed(Len(top.kids), next)
<1>1. /\ top.kind = "dense" => /\ Len(top.kids) <= top.length
                               /\ Len(top.kids) \in Nat /\ top.length \in Nat
      /\ mode = "loop"
  <2>1. mode = "loop"
    BY DEF objectLoop, denseLoop, sparseLoop, AtLoop
  <2>2. PICK d \in Nat : d = Len(frames) /\ d # 0
    BY <2>1, FramesKnown
  <2>3. d \in 1 .. d
    BY <2>2
  <2> QED BY <2>1, <2>2, <2>3, FramesKnown DEF top
<1>2. \/ Fail
      \/ Continue(skipPadding[pos], frames, "value")
      \/ Ends(first.next)
      \/ Ends(second.next)
  <2>1. CASE objectLoop
    BY <2>1, Zenon DEF objectLoop, AtLoop
  <2>2. CASE denseLoop
    <3>1. top.kind = "dense" /\ top.kind # "sparse"
      BY <2>2 DEF denseLoop, AtLoop
    <3>2. \/ Fail
          \/ Continue(skipPadding[pos], frames, "value")
          \/ /\ ~(Len(top.kids) < top.length)
             /\ tag.ok /\ tag.val = EndDenseTag /\ first.ok /\ first.val = 0
             /\ second.ok /\ second.val = top.length
             /\ Return(Finished, second.next, callers)
      BY <2>2, Zenon DEF denseLoop
    <3>3. ASSUME /\ ~(Len(top.kids) < top.length)
                 /\ tag.ok /\ tag.val = EndDenseTag
                 /\ first.ok /\ first.val = 0
                 /\ second.ok /\ second.val = top.length
                 /\ Return(Finished, second.next, callers)
          PROVE  Ends(second.next)
      <4>1. Len(top.kids) = top.length
        BY <1>1, <3>1, <3>3
      <4>2. finishArray(header, pos) = Parsed(top.length, second.next)
        BY <3>1, <3>3 DEF finishArray
      <4> QED BY <3>3, <4>1, <4>2
    <3> QED BY <3>2, <3>3
  <2>3. CASE sparseLoop
    <3>1. top.kind = "sparse"
      BY <2>3 DEF sparseLoop, AtLoop
    <3>2. \/ Fail
          \/ Continue(skipPadding[pos], frames, "value")
          \/ /\ Len(top.kids) = top.length
             /\ tag.ok /\ tag.val = EndSparseTag
             /\ first.ok /\ first.val = Len(top.kids)
             /\ second.ok /\ second.val = top.length
             /\ Return(Finished, second.next, callers)
      BY <2>3, Zenon DEF sparseLoop
    <3>3. ASSUME /\ Len(top.kids) = top.length
                 /\ tag.ok /\ tag.val = EndSparseTag
                 /\ first.ok /\ first.val = Len(top.kids)
                 /\ second.ok /\ second.val = top.length
                 /\ Return(Finished, second.next, callers)
          PROVE  Ends(second.next)
      <4>1. finishArray(header, pos) = Parsed(top.length, second.next)
        BY <3>1, <3>3 DEF finishArray
      <4> QED BY <3>3, <4>1
    <3> QED BY <3>2, <3>3
  <2> QED BY <2>1, <2>2, <2>3
<1>3. CASE Continue(skipPadding[pos], frames, "value")
  BY <1>1, <1>3, AskDescribed
<1>4. ASSUME NEW next, Ends(next)
      PROVE  Describes(frames', mode', pos', value')
  BY <1>1, <1>4, CloseDescribed
<1> HIDE DEF Ends
<1> QED BY <1>2, <1>3, <1>4, FailDescribed

(* What a container is left with when it took what it asked for.           *)
LEMMA KeyDescribed ==
  ASSUME ReaderInv, HeaderRead,
         NEW C, NEW S, NEW B, Traced(C, S, B, frames, mode, pos, value),
         readPropertyKey \/ readSparseIndex
  PROVE  Describes(frames', mode', pos', value')
<1>1. PICK d \in Nat : d = Len(frames)
  BY FramesKnown
<1>2. /\ mode = "returned" /\ d # 0 /\ top = frames[d]
      /\ top.kind \in {"object", "sparse"} /\ top.awaiting = "key"
      /\ IsSeq(frames) /\ frames # <<>>
  <2>1. d # 0
    BY <1>1, FramesKnown DEF readPropertyKey, readSparseIndex, AtReturn
  <2> QED BY <1>1, <2>1, FramesKnown
          DEF readPropertyKey, readSparseIndex, AtReturn, top
<1>3. HasRead(C, S, B, frames, value, pos) /\ C[0] = headerEnd
  BY <1>2 DEF Traced
<1>4. \/ Fail
      \/ /\ \E key : GotKey(key)
         /\ top.kind = "sparse" =>
              IsInteger(value) /\ value.data[1] = Len(top.kids)
  <2>1. CASE readPropertyKey
    <3>1. top.kind # "sparse"
      BY <2>1 DEF readPropertyKey, AtReturn
    <3> QED BY <2>1, <3>1 DEF readPropertyKey
  <2>2. CASE readSparseIndex
    BY <2>2, Zenon DEF readSparseIndex
  <2> QED BY <2>1, <2>2
<1>5. ASSUME NEW key, GotKey(key),
             top.kind = "sparse" =>
               IsInteger(value) /\ value.data[1] = Len(top.kids)
      PROVE  Describes(frames', mode', pos', value')
  <2> DEFINE f == [top EXCEPT !.awaiting = "value", !.key = key]
             new == [frames EXCEPT ![Len(frames)] = f]
             D == [i \in 0 .. d |-> IF i = d THEN pos ELSE C[i]]
  <2>1. Continue(pos, new, "value")
    <3>1. [frames EXCEPT ![Len(frames)].awaiting = "value",
                         ![Len(frames)].key = key] = new
      BY DEF top
    <3> QED BY <1>5, <3>1 DEF GotKey
  <2>2. /\ Len(new) = d /\ new[d] = f /\ IsSeq(new)
        /\ \A i \in 1 .. d - 1 : new[i] = frames[i]
    <3> HIDE DEF f
    <3>1. /\ IsSeq(new) /\ Len(new) = Len(frames) /\ new[Len(frames)] = f
          /\ \A i \in 1 .. Len(frames) - 1 : new[i] = frames[i]
      BY ONLY <1>2, LastReplaced
    <3> HIDE DEF new
    <3> QED BY <1>1, <3>1
  <2>3. /\ f.kind = top.kind /\ f.length = top.length /\ f.kids = top.kids
        /\ f.awaiting = "value"
    <3>1. top \in [kind : {top.kind}, length : {top.length},
                   awaiting : {"key", "value"}, key : {top.key},
                   keys : {top.keys}, kids : {top.kids}]
      <4>1. PICK L : Strata(L) /\ ReaderOver(L)
        BY DEF ReaderInv
      <4>2. FrameSound(L, top, Len(frames), mode \in {"value", "returned"})
        BY <1>2, <4>1, AtTop
      <4> QED BY <1>2, <4>2 DEF FrameSound, Frame
    <3> QED BY <3>1
  <2>4. /\ D[0] = C[0] /\ D[d] = pos /\ D[d - 1] = C[d - 1]
        /\ \A i \in 1 .. d - 1 : D[i] = C[i]
    BY <1>1, <1>2
  <2> HIDE DEF D, f, new
  <2>5. Waiting(C, S, B, frames, d)
    BY <1>1, <1>3 DEF HasRead
  <2>6. Waiting(D, S, B, new, d - 1)
    <3>1. d - 1 \in Nat /\ \A i \in 1 .. d - 1 : i \in 1 .. d
      BY <1>1, <1>2
    <3>2. Waiting(C, S, B, frames, d - 1)
      BY <2>5, <3>1 DEF Waiting
    <3> QED BY <2>2, <2>4, <3>1, <3>2, WaitingKept
  <2>7. Holds(C, S, B, frames, d) /\ Asks(C, S, frames, d)
    <3>1. d \in 1 .. d
      BY <1>1, <1>2
    <3> QED BY <2>5, <3>1 DEF Waiting
  <2>8. Holds(D, S, B, new, d)
    BY <1>2, <2>2, <2>3, <2>4, <2>7 DEF Holds, Opened
  <2>9. Asks(D, S, new, d)
    <3>0. PICK c : c = C[d - 1]
      OBVIOUS
    <3> DEFINE h == readArrayHeader(c)
               m == Len(top.kids)
    <3> SUFFICES ASSUME d \in 1 .. 2, h.ok
                 PROVE  IndexAt(h.val, m, S[d][m], pos)
      <4>1. new[d].kids = top.kids /\ new[d].awaiting = "value"
        BY <2>2, <2>3
      <4>2. D[d - 1] = c
        BY <2>4, <3>0
      <4> QED BY <2>4, <4>1, <4>2 DEF Asks
    <3>1. /\ Opened(top, c) /\ top.kind \in {"object", "dense", "sparse"}
          /\ C[d] = S[d][m]
      <4>1. d \in 1 .. 3
        OBVIOUS
      <4> QED BY <1>2, <2>7, <3>0, <4>1 DEF Holds, Asks
    <3>2. h.val.sparse /\ top.kind = "sparse"
      BY <1>2, <3>1, HeaderKind
    <3>3. CellAt(S[d][m], value, pos)
      <4>1. d \in 0 .. 2
        OBVIOUS
      <4> QED BY <1>1, <1>3, <3>1, <4>1 DEF HasRead
    <3> HIDE DEF h, m
    <3>4. IsInteger(value) /\ value.data[1] = m /\ value.type \in ScalarType
      BY <1>5, <3>2 DEF IsInteger, ScalarType, m
    <3>5. \/ readTag[S[d][m]].val = CountMarkerTag
          \/ readScalar(S[d][m]) = Parsed(value, pos)
      BY <3>3, <3>4 DEF CellAt
    <3>6. readScalar(S[d][m]) = Parsed(value, pos) =>
            indexed(h.val, m, S[d][m]) = Parsed(m, pos)
      BY <3>2, <3>4 DEF indexed, indexIs, Parsed
    <3> QED BY <3>2, <3>5, <3>6 DEF IndexAt
  <2>10. Waiting(D, S, B, new, d)
    <3>1. \A i \in 1 .. d : i \in 1 .. d - 1 \/ i = d
      BY <1>1
    <3> QED BY <2>6, <2>8, <2>9, <3>1 DEF Waiting
  <2>11. ToRead(D, S, B, new, pos)
    BY <2>2, <2>4, <2>10 DEF ToRead
  <2> QED BY <1>3, <2>1, <2>4, <2>11, ToReadDescribed
<1> QED BY <1>4, <1>5, FailDescribed

LEMMA PartDescribed ==
  ASSUME ReaderInv, HeaderRead,
         NEW C, NEW S, NEW B, Traced(C, S, B, frames, mode, pos, value),
         readProperty \/ readElement
  PROVE  Describes(frames', mode', pos', value')
<1>1. PICK d \in Nat : d = Len(frames)
  BY FramesKnown
<1>2. /\ mode = "returned" /\ d # 0 /\ top = frames[d]
      /\ top.kind = "sparse" => top.awaiting = "value"
      /\ top.kind = "dense" => top.awaiting = "key"
      /\ top.kind \in {"object", "dense", "sparse"}
      /\ IsSeq(frames) /\ frames # <<>>
      /\ IsSeq(top.kids) /\ Len(top.kids) \in Nat
  <2>1. d # 0 /\ mode = "returned" /\ frames # <<>>
    BY <1>1, FramesKnown DEF readProperty, readElement, AtReturn
  <2>2. d \in 1 .. d
    BY <1>1, <2>1
  <2> QED BY <1>1, <2>1, <2>2, FramesKnown
          DEF readProperty, readElement, AtReturn, top
<1>3. HasRead(C, S, B, frames, value, pos) /\ C[0] = headerEnd
  BY <1>2 DEF Traced
<1> DEFINE Takes(f) ==
             /\ Continue(pos, [frames EXCEPT ![Len(frames)] = f], "loop")
             /\ f.kind = top.kind /\ f.length = top.length
             /\ f.kids = Append(top.kids, value) /\ f.awaiting = "key"
<1>4. Fail \/ \E f : Takes(f)
  <2>1. top \in [kind : {top.kind}, length : {top.length},
                 awaiting : {"key", "value"}, key : {top.key},
                 keys : {top.keys}, kids : {top.kids}]
    <3>1. PICK L : Strata(L) /\ ReaderOver(L)
      BY DEF ReaderInv
    <3>2. FrameSound(L, top, Len(frames), mode \in {"value", "returned"})
      BY <1>2, <3>1, AtTop
    <3> QED BY <1>2, <3>2 DEF FrameSound, Frame
  <2>2. CASE readProperty
    <3> DEFINE keys == IF top.kind = "object" THEN Append(top.keys, top.key)
                       ELSE top.keys
               f == [top EXCEPT !.awaiting = "key",
                                !.kids = Append(top.kids, value),
                                !.keys = keys]
    <3>1. Fail \/ Continue(pos, [frames EXCEPT ![Len(frames)] = f], "loop")
      BY <2>2, Zenon DEF readProperty
    <3> HIDE DEF keys
    <3>2. /\ f.kind = top.kind /\ f.length = top.length
          /\ f.kids = Append(top.kids, value) /\ f.awaiting = "key"
      BY <2>1
    <3> HIDE DEF f
    <3> QED BY <3>1, <3>2
  <2>3. CASE readElement
    <3> DEFINE f == [top EXCEPT !.kids = Append(top.kids, value)]
    <3>1. Continue(pos, [frames EXCEPT ![Len(frames)] = f], "loop")
      <4>1. [frames EXCEPT ![Len(frames)].kids = Append(@, value)]
              = [frames EXCEPT ![Len(frames)] = f]
        BY DEF top
      <4> QED BY <2>3, <4>1 DEF readElement
    <3>2. top.awaiting = "key"
      BY <2>3 DEF readElement, AtReturn
    <3>3. /\ f.kind = top.kind /\ f.length = top.length
          /\ f.kids = Append(top.kids, value) /\ f.awaiting = "key"
      BY <2>1, <3>2
    <3> HIDE DEF f
    <3> QED BY <3>1, <3>3
  <2> QED BY <2>2, <2>3
<1>5. ASSUME NEW f, Takes(f) PROVE Describes(frames', mode', pos', value')
  <2> DEFINE new == [frames EXCEPT ![Len(frames)] = f]
             m == Len(top.kids)
             T == [i \in 1 .. d |-> IF i = d
                     THEN [n \in 0 .. m + 1 |-> IF n <= m THEN S[d][n] ELSE pos]
                     ELSE S[i]]
             A == [i \in 1 .. d |-> IF i = d
                     THEN [n \in 0 .. m |-> IF n < m THEN B[d][n] ELSE C[d]]
                     ELSE B[i]]
  <2>1. Continue(pos, new, "loop")
    BY <1>5
  <2>2. /\ Len(new) = d /\ new[d] = f /\ IsSeq(new)
        /\ \A i \in 1 .. d - 1 : new[i] = frames[i]
    <3>1. /\ IsSeq(new) /\ Len(new) = Len(frames) /\ new[Len(frames)] = f
          /\ \A i \in 1 .. Len(frames) - 1 : new[i] = frames[i]
      BY ONLY <1>2, LastReplaced
    <3> HIDE DEF new
    <3> QED BY <1>1, <3>1
  <2>3. /\ f.kind = top.kind /\ f.length = top.length /\ f.awaiting = "key"
        /\ Len(f.kids) = m + 1 /\ f.kids[m + 1] = value
        /\ \A n \in 1 .. m : f.kids[n] = top.kids[n]
    BY <1>2, <1>5, SequenceAppended
  <2>4. m \in Nat
    BY <1>2
  <2>5. /\ \A i \in 1 .. d - 1 : T[i] = S[i] /\ A[i] = B[i]
        /\ \A n \in 0 .. m : T[d][n] = S[d][n]
        /\ T[d][m + 1] = pos /\ A[d][m] = C[d]
        /\ \A n \in 0 .. m - 1 : A[d][n] = B[d][n]
    <3> HIDE DEF m
    <3>1. /\ d \in 1 .. d /\ \A i \in 1 .. d - 1 : i \in 1 .. d /\ i # d
      BY <1>1, <1>2
    <3>2. /\ T[d] = [n \in 0 .. m + 1 |-> IF n <= m THEN S[d][n] ELSE pos]
          /\ A[d] = [n \in 0 .. m |-> IF n < m THEN B[d][n] ELSE C[d]]
          /\ \A i \in 1 .. d - 1 : T[i] = S[i] /\ A[i] = B[i]
      BY <3>1
    <3> HIDE DEF T, A
    <3> QED BY <2>4, <3>2
  <2> HIDE DEF new, T, A, Takes, m
  <2>6. Waiting(C, S, B, frames, d)
    BY <1>1, <1>3 DEF HasRead
  <2>7. Waiting(C, T, A, new, d - 1)
    <3>1. d - 1 \in Nat /\ \A i \in 1 .. d - 1 : i \in 1 .. d
      BY <1>1, <1>2
    <3>2. Waiting(C, S, B, frames, d - 1)
      BY <2>6, <3>1 DEF Waiting
    <3> QED BY <2>2, <2>5, <3>1, <3>2, WaitingKept
  <2>8. Holds(C, S, B, frames, d) /\ Asks(C, S, frames, d)
    <3>1. d \in 1 .. d
      BY <1>1, <1>2
    <3> QED BY <2>6, <3>1 DEF Waiting
  <2>12. PICK c : c = C[d - 1]
    OBVIOUS
  <2> DEFINE h == readArrayHeader(c)
  <2>9. ASSUME d \in 1 .. 2, h.ok
        PROVE  PartsAt(d, h, T[d], A[d], f.kids)
    <3>1. /\ Opened(top, c)
          /\ PartsAt(d, h, S[d], B[d], top.kids)
          /\ IF top.awaiting = "key" THEN C[d] = S[d][m]
             ELSE IndexAt(h.val, m, S[d][m], C[d])
      <4>1. d \in 1 .. 3
        BY <2>9
      <4> QED BY <1>2, <2>8, <2>9, <2>12, <4>1 DEF Holds, Asks, m
    <3>2. h.ok => /\ top.kind \in {"dense", "sparse"}
                  /\ h.val = [length |-> top.length,
                              sparse |-> top.kind = "sparse"]
      BY ONLY <1>2, <3>1, NotScalar
    <3> HIDE DEF h
    <3>3. IndexAt(h.val, m, S[d][m], C[d])
      <4>1. CASE top.kind = "dense"
        <5>1. top.awaiting = "key" /\ C[d] = S[d][m]
          BY <1>2, <3>1, <4>1
        <5>2. ~h.val.sparse
          BY ONLY <1>2, <2>9, <3>1, <4>1, HeaderKind DEF h
        <5> QED BY <5>1, <5>2 DEF IndexAt, indexed
      <4>2. CASE top.kind = "sparse"
        BY <1>2, <3>1, <4>2
      <4> QED BY <2>9, <3>2, <4>1, <4>2
    <3>4. PartAt(d, C[d], value, pos)
      <4>1. CASE d = 1
        <5>1. ArrayAt(2, C[d], value, pos)
          BY <1>1, <1>3, <4>1 DEF HasRead
        <5> QED BY <4>1, <5>1, RowIsArray DEF PartAt
      <4>2. CASE d = 2
        <5>1. CellAt(C[d], value, pos)
          BY <1>1, <1>3, <4>2 DEF HasRead
        <5> QED BY <4>2, <5>1 DEF PartAt
      <4> QED BY <2>9, <4>1, <4>2
    <3>5. T[d][0] = h.next
      <4>1. 0 \in 0 .. m
        BY <2>4
      <4> QED BY <2>5, <3>1, <4>1 DEF PartsAt
    <3>6. ASSUME NEW n \in 0 .. m
          PROVE  /\ IndexAt(h.val, n, T[d][n], A[d][n])
                 /\ PartAt(d, A[d][n], f.kids[n + 1], T[d][n + 1])
      <4>1. CASE n = m
        BY <2>3, <2>4, <2>5, <3>3, <3>4, <4>1
      <4>2. CASE n # m
        <5>1. n \in 0 .. m - 1 /\ n + 1 \in 0 .. m /\ n + 1 \in 1 .. m
          BY <2>4, <4>2
        <5>2. /\ IndexAt(h.val, n, S[d][n], B[d][n])
              /\ PartAt(d, B[d][n], top.kids[n + 1], S[d][n + 1])
          BY <3>1, <5>1 DEF PartsAt, m
        <5> QED BY <2>3, <2>5, <5>1, <5>2
      <4> QED BY <4>1, <4>2
    <3>7. 0 .. Len(f.kids) - 1 = 0 .. m
      BY <2>3, <2>4
    <3> QED BY <3>5, <3>6, <3>7 DEF PartsAt
  <2>10. Holds(C, T, A, new, d)
    <3>1. d \in 1 .. 3 => Opened(f, C[d - 1])
      BY <1>2, <2>3, <2>8 DEF Holds, Opened
    <3> QED BY <2>2, <2>9, <2>12, <3>1 DEF Holds
  <2>11. InLoop(C, T, A, new, pos)
    BY <2>2, <2>3, <2>5, <2>7, <2>10 DEF InLoop
  <2> QED BY <1>3, <2>1, <2>11, InLoopDescribed
<1> HIDE DEF Takes
<1> QED BY <1>4, <1>5, FailDescribed

LEMMA FinishDescribed ==
  ASSUME ReaderInv, HeaderRead,
         NEW C, NEW S, NEW B, Traced(C, S, B, frames, mode, pos, value),
         finish
  PROVE  Describes(frames', mode', pos', value')
<1>1. /\ mode = "returned" /\ frames = <<>>
      /\ IF skipPadding[pos] = size THEN Continue(size, frames, "done")
         ELSE Fail
  BY DEF finish
<1>2. HasRead(C, S, B, frames, value, pos) /\ C[0] = headerEnd
  BY <1>1 DEF Traced
<1>3. CASE skipPadding[pos] = size
  <2>1. Len(frames) = 0
    BY <1>1
  <2>2. ArrayAt(1, headerEnd, value, pos)
    BY <1>2, <2>1 DEF HasRead
  <2>3. Ended(value)
    BY <1>3, <2>2 DEF Ended
  <2>4. mode' = "done" /\ value' = value
    BY <1>1, <1>3 DEF Continue
  <2> QED BY <2>3, <2>4 DEF Describes
<1>4. CASE skipPadding[pos] # size
  BY <1>1, <1>4, FailDescribed
<1> QED BY <1>3, <1>4

(* read() always describes what it has read.                               *)
ReadInv == ReaderInv /\ Describes(frames, mode, pos, value)

LEMMA StepDescribed == ReadInv /\ Step => ReadInv'
<1> SUFFICES ASSUME ReadInv, Step PROVE ReadInv'
  OBVIOUS
<1>1. ReaderInv /\ ReaderInv' /\ Describes(frames, mode, pos, value)
  BY StepKeeps DEF ReadInv
<1>2. input' = input /\ input \in Seq(Byte)
  <2>1. input' = input
    BY Zenon DEF Step, readHeader, readValue, tooDeepOrEnded, skipCountMarker,
       openObject, openArray, readLeafValue, objectLoop, denseLoop, sparseLoop,
       readPropertyKey, readSparseIndex, readProperty, readElement, finish,
       Fail, Continue, Return, Attempt, GotKey
  <2> QED BY <1>1, <2>1, FramesKnown
<1>3. Describes(frames', mode', pos', value')
  <2>1. CASE readHeader
    BY <1>1, <2>1, HeaderDescribed
  <2>2. CASE ~readHeader
    <3>1. mode \in {"value", "returned", "loop"}
      BY <2>2, Zenon
      DEF Step, readValue, tooDeepOrEnded, skipCountMarker, openObject,
          openArray, readLeafValue, TagIn, objectLoop, denseLoop, sparseLoop,
          AtLoop, readPropertyKey, readSparseIndex, readProperty, readElement,
          AtReturn, finish
    <3>2. PICK C, S, B : Traced(C, S, B, frames, mode, pos, value)
      BY <1>1, <3>1 DEF Describes
    <3>3. HeaderRead
      BY <1>1, <3>1 DEF Describes
    <3>4. CASE readValue
      <4>1. CASE tooDeepOrEnded
        BY <4>1, FailDescribed DEF tooDeepOrEnded
      <4>2. CASE skipCountMarker
        BY <1>1, <3>2, <3>3, <4>2, MarkerDescribed
      <4>3. CASE openObject
        BY <1>1, <3>2, <3>3, <4>3, OpenObjectDescribed
      <4>4. CASE openArray(DenseTag, "dense") \/ openArray(SparseTag, "sparse")
        BY <1>1, <3>2, <3>3, <4>4, OpenArrayDescribed
      <4>5. CASE readLeafValue
        BY <1>1, <3>2, <3>3, <4>5, LeafValueDescribed
      <4> QED BY <3>4, <4>1, <4>2, <4>3, <4>4, <4>5 DEF readValue
    <3>5. CASE objectLoop \/ denseLoop \/ sparseLoop
      BY <1>1, <3>2, <3>3, <3>5, LoopDescribed
    <3>6. CASE readPropertyKey \/ readSparseIndex
      BY <1>1, <3>2, <3>3, <3>6, KeyDescribed
    <3>7. CASE readProperty \/ readElement
      BY <1>1, <3>2, <3>3, <3>7, PartDescribed
    <3>8. CASE finish
      BY <1>1, <3>2, <3>3, <3>8, FinishDescribed
    <3> QED BY <2>2, <3>4, <3>5, <3>6, <3>7, <3>8 DEF Step
  <2> QED BY <2>1, <2>2
<1>4. Describes(frames, mode, pos, value)'
  BY <1>2, <1>3, SameTrace
<1> QED BY <1>1, <1>4 DEF ReadInv

LEMMA ReadKept == ReadInv /\ UNCHANGED rvars => ReadInv'
<1> SUFFICES ASSUME ReadInv, UNCHANGED rvars PROVE ReadInv'
  OBVIOUS
<1>1. ReaderInv /\ ReaderInv' /\ Describes(frames, mode, pos, value)
  BY StutterKeeps DEF ReadInv
<1>2. /\ input' = input /\ frames' = frames /\ mode' = mode /\ pos' = pos
      /\ value' = value
  BY DEF rvars
<1>3. Describes(frames', mode', pos', value') /\ input \in Seq(Byte)
  BY <1>1, <1>2, FramesKnown
<1>4. Describes(frames, mode, pos, value)'
  BY <1>2, <1>3, SameTrace
<1> QED BY <1>1, <1>4 DEF ReadInv

LEMMA ReadStarts == AtStart => ReadInv
BY StartHolds DEF AtStart, ReadInv, Describes

-----------------------------------------------------------------------------
(* The stream and its consumer, whatever the bytes are.                    *)

CellSound(k) ==
  /\ cells[k].columns = width[1] /\ cells[k].columns >= minimum_columns
  /\ cells[k].row \in Nat /\ cells[k].column \in Nat
  /\ cells[k].column < width[1]
  /\ cells[k].row * width[1] + cells[k].column + 1 = k
  /\ cells[k].row <= done.rows
  /\ cells[k].row = done.rows => cells[k].column < done.cells

RowsShape ==
  /\ rmode \in {"header", "rows", "cells", "done", "failed"}
  /\ rpos \in 0 .. size /\ root.length \in Nat
  /\ done \in [rows : Nat, cells : Nat]
  /\ width = <<>> \/ \E w \in Nat : width = <<w>>
  /\ IsSeq(cells)
  /\ width = <<>> => cells = <<>> /\ done.rows = 0 /\ done.cells = 0
  /\ width # <<>> => Len(cells) = done.rows * width[1] + done.cells
  /\ rmode = "cells" =>
       width = <<row.length>> /\ done.cells <= row.length
         /\ done.rows < root.length /\ row.length >= minimum_columns
  /\ rmode \in {"header", "rows", "done"} => done.cells = 0
  /\ rmode = "rows" => done.rows <= root.length
  /\ rmode = "done" => done.rows = root.length
  /\ rmode = "header" => width = <<>>
  /\ \A k \in 1 .. Len(cells) : CellSound(k)

LEMMA ScaledNext == \A r, w \in Nat : /\ (r + 1) * w = r * w + w
                                      /\ r * w \in Nat /\ 0 * w = 0
BY SMT

LEMMA HeaderLength ==
  ASSUME input \in Seq(Byte), NEW p \in 0 .. size, readArrayHeader(p).ok
  PROVE  /\ readArrayHeader(p).val.length \in Nat
         /\ readArrayHeader(p).next \in 0 .. size
<1> DEFINE tag == readTag[p]
           length == readVarint[tag.next]
<1>1. Parses(tag, Byte)
  BY ReadTagParses
<1>2. Parses(length, Nat)
  BY <1>1, ReadVarintParses DEF Parses
<1>3. /\ length.ok
      /\ readArrayHeader(p) =
           Parsed([length |-> length.val, sparse |-> tag.val = SparseTag],
                  length.next)
  BY Zenon DEF readArrayHeader, Malformed
<1> HIDE DEF tag, length
<1> QED BY <1>2, <1>3 DEF Parses, Parsed


LEMMA StreamOffsets ==
  ASSUME input \in Seq(Byte), NEW p \in 0 .. size, NEW array, NEW n
  PROVE  /\ readScalar(p).next \in 0 .. size
         /\ indexed(array, n, p).next \in 0 .. size
         /\ finishArray(array, p).next \in 0 .. size
<1> DEFINE tag == readTag[p]
           count == readVarint[tag.next]
           length == readVarint[count.next]
<1>1. Parses(tag, Byte) /\ size \in Nat
  BY ReadTagParses, AtType
<1>2. Parses(count, Nat)
  BY <1>1, ReadVarintParses DEF Parses
<1>3. Parses(length, Nat)
  <2> HIDE DEF count
  <2> QED BY <1>2, ReadVarintParses DEF Parses
<1>4. Malformed.next = 0 /\ 0 \in 0 .. size
  BY <1>1 DEF Malformed
<1>5. readScalar(p).next \in 0 .. size
  <2>1. tag.ok => readLeaf(tag.val, tag.next).next \in 0 .. size
    <3>1. tag.ok => Parses(readLeaf(tag.val, tag.next), SoundLeaf)
      BY <1>1, ReadLeafParses DEF Parses
    <3> QED BY <3>1 DEF Parses
  <2> QED BY <1>4, <2>1 DEF readScalar
<1>6. indexed(array, n, p).next \in 0 .. size
  BY <1>4, <1>5 DEF indexed, indexIs, Parsed
<1>7. finishArray(array, p).next \in 0 .. size
  <2>1. finishArray(array, p).next \in {Malformed.next, length.next}
    BY Zenon DEF finishArray, Parsed
  <2> HIDE DEF length
  <2> QED BY <1>3, <1>4, <2>1 DEF Parses
<1> QED BY <1>5, <1>6, <1>7

-----------------------------------------------------------------------------
(* The steps of the stream, each with what it relies on.                   *)

LEMMA ThrowShaped ==
  ASSUME RowsShape, Throw, UNCHANGED rvars PROVE RowsShape'
<1>1. /\ rmode' = "failed" /\ minimum_columns' = minimum_columns
      /\ rpos' = rpos /\ root' = root /\ row' = row /\ done' = done
      /\ width' = width /\ cells' = cells /\ size' = size
  BY DEF Throw, rvars, size
<1>2. \A k \in 1 .. Len(cells) : CellSound(k)'
  BY <1>1 DEF RowsShape, CellSound
<1> QED BY <1>1, <1>2 DEF RowsShape

LEMMA RowsHeaderShaped ==
  ASSUME ReaderInv, RowsShape, rowsHeader, UNCHANGED rvars PROVE RowsShape'
<1> DEFINE header == readArrayHeader(headerEnd)
<1>1. /\ input \in Seq(Byte) /\ size \in Nat /\ size' = size
  BY FramesKnown DEF rvars, size
<1>2. \/ Throw
      \/ /\ HeaderRead /\ header.ok
         /\ rmode' = "rows" /\ root' = header.val /\ rpos' = header.next
         /\ UNCHANGED <<minimum_columns, row, done, width, cells>>
  BY Zenon DEF rowsHeader, HeaderRead, headerEnd
<1>3. CASE Throw
  BY <1>3, ThrowShaped
<1>4. CASE /\ HeaderRead /\ header.ok
           /\ rmode' = "rows" /\ root' = header.val /\ rpos' = header.next
           /\ UNCHANGED <<minimum_columns, row, done, width, cells>>
  <2>1. headerEnd \in 0 .. size
    <3>1. 1 \in 0 .. size
      BY <1>1, <1>4 DEF HeaderRead
    <3> QED BY <1>1, <3>1, ReadVarintParses DEF headerEnd, Parses
  <2>2. header.val.length \in Nat /\ header.next \in 0 .. size
    BY <1>1, <1>4, <2>1, HeaderLength
  <2> HIDE DEF header
  <2>3. width = <<>> /\ cells = <<>> /\ done.rows = 0 /\ done.cells = 0
    BY DEF rowsHeader, RowsShape
  <2> QED BY <1>1, <1>4, <2>2, <2>3 DEF RowsShape, CellSound
<1> QED BY <1>2, <1>3, <1>4

(* What openRow() does, when it does not throw.                            *)
RowOpened(index, header) ==
  /\ index.ok /\ header.ok /\ WidthFits(header.val.length)
  /\ rmode' = "cells" /\ row' = header.val /\ rpos' = header.next
  /\ width' = <<header.val.length>>
  /\ UNCHANGED <<minimum_columns, root, done, cells>>

LEMMA OpenRowCases ==
  ASSUME openRow
  PROVE  /\ rmode = "rows" /\ done.rows < root.length
         /\ LET index == indexed(root, done.rows, rpos)
                header == readArrayHeader(index.next)
            IN  \/ RowOpened(index, header)
                \/ /\ Throw
                   /\ ~(index.ok /\ header.ok /\ WidthFits(header.val.length))
BY Zenon DEF openRow, RowOpened

LEMMA OpenRowShaped ==
  ASSUME ReaderInv, RowsShape, openRow, UNCHANGED rvars PROVE RowsShape'
<1> DEFINE index == indexed(root, done.rows, rpos)
           header == readArrayHeader(index.next)
<1>1. /\ input \in Seq(Byte) /\ size \in Nat /\ size' = size
  BY FramesKnown DEF rvars, size
<1>2. /\ rmode = "rows" /\ done.rows < root.length
      /\ Throw \/ RowOpened(index, header)
  BY OpenRowCases
<1>3. CASE RowOpened(index, header)
  <2>1. index.next \in 0 .. size
    BY <1>1, StreamOffsets DEF RowsShape
  <2> HIDE DEF index
  <2>2. header.val.length \in Nat /\ header.next \in 0 .. size
    BY <1>1, <1>3, <2>1, HeaderLength DEF RowOpened
  <2> HIDE DEF header
  <2> PICK w : w = header.val.length
    OBVIOUS
  <2>3. /\ rmode' = "cells" /\ row' = header.val /\ rpos' = header.next
        /\ width' = <<w>> /\ w >= minimum_columns
        /\ minimum_columns' = minimum_columns /\ root' = root
        /\ done' = done /\ cells' = cells
        /\ width = <<>> \/ width[1] = w
    BY <1>3 DEF RowOpened, WidthFits
  <2>4. width'[1] = w /\ width' # <<>> /\ w \in Nat
    BY <2>2, <2>3
  <2>5. Len(cells) = done.rows * w + done.cells
    <3>1. CASE width = <<>>
      <4>1. done.rows = 0 /\ done.cells = 0 /\ Len(cells) = 0
        BY <3>1 DEF RowsShape
      <4> QED BY <2>4, <4>1
    <3>2. CASE width # <<>>
      BY <2>3, <3>2 DEF RowsShape
    <3> QED BY <3>1, <3>2
  <2>6. \A k \in 1 .. Len(cells) : CellSound(k)'
    <3>1. CASE width = <<>>
      <4>1. 1 .. Len(cells) = {}
        BY <3>1 DEF RowsShape
      <4> QED BY <4>1
    <3>2. CASE width # <<>>
      <4>1. width'[1] = width[1]
        BY <2>3, <2>4, <3>2
      <4> QED BY <2>3, <4>1 DEF RowsShape, CellSound
    <3> QED BY <3>1, <3>2
  <2>7. done.cells = 0 /\ done.cells <= w
    BY <1>2, <2>4 DEF RowsShape
  <2> QED BY <1>1, <1>2, <2>2, <2>3, <2>4, <2>5, <2>6, <2>7 DEF RowsShape
<1> HIDE DEF index, header
<1> QED BY <1>2, <1>3, ThrowShaped

(* What readCell() does, when it does not throw.                           *)
CellRead(scalar) ==
  /\ scalar.ok
  /\ cells' = Append(cells, [row |-> done.rows, column |-> done.cells,
                             columns |-> row.length, value |-> scalar.val])
  /\ done' = [done EXCEPT !.cells = @ + 1]
  /\ rpos' = scalar.next
  /\ UNCHANGED <<minimum_columns, root, row, width, rmode>>

LEMMA ReadCellCases ==
  ASSUME readCell
  PROVE  /\ rmode = "cells" /\ done.cells < row.length
         /\ LET index == indexed(row, done.cells, rpos)
                scalar == readScalar(index.next)
            IN  \/ index.ok /\ CellRead(scalar)
                \/ Throw /\ ~(index.ok /\ scalar.ok)
BY Zenon DEF readCell, consume, CellRead

LEMMA ReadCellShaped ==
  ASSUME ReaderInv, RowsShape, readCell, UNCHANGED rvars PROVE RowsShape'
<1> DEFINE index == indexed(row, done.cells, rpos)
           scalar == readScalar(index.next)
<1>1. /\ input \in Seq(Byte) /\ size \in Nat /\ size' = size
  BY FramesKnown DEF rvars, size
<1>2. /\ rmode = "cells" /\ done.cells < row.length
      /\ Throw \/ CellRead(scalar)
  BY ReadCellCases
<1>3. CASE CellRead(scalar)
  <2>1. index.next \in 0 .. size
    BY <1>1, StreamOffsets DEF RowsShape
  <2> HIDE DEF index
  <2>2. scalar.next \in 0 .. size
    BY <1>1, <2>1, StreamOffsets
  <2> HIDE DEF scalar
  <2> PICK w : w = row.length
    OBVIOUS
  <2>20. width = <<w>> /\ w \in Nat
    <3>1. width = <<w>> /\ width # <<>>
      <4>1. width = <<row.length>>
        BY <1>2 DEF RowsShape
      <4> QED BY <4>1
    <3>2. PICK d \in Nat : width = <<d>>
      BY <3>1 DEF RowsShape
    <3>3. width[1] = d /\ width[1] = w
      BY <3>1, <3>2
    <3> QED BY <3>1, <3>3
  <2> DEFINE cell == [row |-> done.rows, column |-> done.cells,
                      columns |-> row.length, value |-> scalar.val]
  <2> PICK n : n = Len(cells)
    OBVIOUS
  <2>3. /\ rmode' = rmode /\ row' = row /\ rpos' = scalar.next
        /\ width' = width /\ minimum_columns' = minimum_columns
        /\ root' = root /\ cells' = Append(cells, cell)
        /\ done' = [done EXCEPT !.cells = @ + 1]
    BY <1>3 DEF CellRead
  <2>4. /\ IsSeq(cells') /\ Len(cells') = n + 1 /\ cells'[n + 1] = cell
        /\ \A k \in 1 .. n : cells'[k] = cells[k]
        /\ n \in Nat
    <3>1. IsSeq(cells)
      BY DEF RowsShape
    <3> HIDE DEF cell
    <3> QED BY <2>3, <3>1, SequenceAppended, SequencesAre
  <2>5. /\ done'.rows = done.rows /\ done'.cells = done.cells + 1
        /\ done' \in [rows : Nat, cells : Nat]
        /\ done.rows \in Nat /\ done.cells \in Nat
    <3>1. done \in [rows : Nat, cells : Nat]
      BY DEF RowsShape
    <3>2. done' = [done EXCEPT !.cells = @ + 1]
      BY <2>3
    <3> QED BY <3>1, <3>2
  <2>6. width[1] = w /\ width # <<>> /\ n = done.rows * w + done.cells
    BY <2>20 DEF RowsShape
  <2>7. done.rows * w \in Nat
    BY <2>5, <2>20, ScaledNext
  <2>8. CellSound(n + 1)'
    <3>1. /\ cell.row = done.rows /\ cell.column = done.cells
          /\ cell.columns = w
      OBVIOUS
    <3> HIDE DEF cell
    <3>2. w >= minimum_columns
      BY <1>2 DEF RowsShape
    <3>3. done.cells < w /\ done.rows <= done'.rows
          /\ done.cells < done'.cells
      BY <1>2, <2>5
    <3>4. done.rows * w + done.cells + 1 = n + 1
      BY <2>6
    <3>5. /\ cells'[n + 1].row = done.rows
          /\ cells'[n + 1].column = done.cells
          /\ cells'[n + 1].columns = w
      BY <2>4, <3>1
    <3>6. width'[1] = w /\ minimum_columns' = minimum_columns
      BY <2>3, <2>6
    <3> PICK new : new = cells'[n + 1]
      OBVIOUS
    <3>7. CellSound(n + 1)' <=>
            /\ new.columns = width'[1] /\ new.columns >= minimum_columns'
            /\ new.row \in Nat /\ new.column \in Nat
            /\ new.column < width'[1]
            /\ new.row * width'[1] + new.column + 1 = n + 1
            /\ new.row <= done'.rows
            /\ new.row = done'.rows => new.column < done'.cells
      BY DEF CellSound
    <3>8. /\ new.columns = w /\ new.row = done.rows
          /\ new.column = done.cells
      BY <3>5
    <3> HIDE DEF CellSound
    <3> QED BY <2>5, <3>2, <3>3, <3>4, <3>6, <3>7, <3>8
  <2>9. \A k \in 1 .. n : CellSound(k)'
    <3> SUFFICES ASSUME NEW k \in 1 .. n PROVE CellSound(k)'
      OBVIOUS
    <3>1. CellSound(k) /\ cells'[k] = cells[k]
      BY <2>4 DEF RowsShape
    <3>2. cells[k].row = done'.rows => cells[k].column < done'.cells
      BY <2>5, <3>1 DEF CellSound
    <3> QED BY <2>3, <2>5, <3>1, <3>2 DEF CellSound
  <2>10. \A k \in 1 .. Len(cells') : CellSound(k)'
    <3> SUFFICES ASSUME NEW k \in 1 .. n + 1 PROVE CellSound(k)'
      BY <2>4
    <3>1. k \in 1 .. n \/ k = n + 1
      BY <2>4
    <3> QED BY <2>8, <2>9, <3>1
  <2>11. Len(cells') = done'.rows * w + done'.cells
    BY <2>4, <2>5, <2>6, <2>7
  <2>12. done'.cells <= row.length
    BY <1>2, <2>5, <2>20
  <2> HIDE DEF cell
  <2> QED BY <1>1, <1>2, <2>2, <2>3, <2>4, <2>5, <2>6, <2>10, <2>11, <2>12,
          <2>20 DEF RowsShape
<1> HIDE DEF scalar
<1> QED BY <1>2, <1>3, ThrowShaped

LEMMA CloseRowShaped ==
  ASSUME ReaderInv, RowsShape, closeRow, UNCHANGED rvars PROVE RowsShape'
<1> DEFINE end == finishArray(row, rpos)
<1>1. /\ input \in Seq(Byte) /\ size \in Nat /\ size' = size
  BY FramesKnown DEF rvars, size
<1>2. /\ rmode = "cells" /\ done.cells = row.length
      /\ \/ Throw
         \/ /\ rmode' = "rows" /\ rpos' = end.next
            /\ done' = [rows |-> done.rows + 1, cells |-> 0]
            /\ UNCHANGED <<minimum_columns, root, row, width, cells>>
  BY Zenon DEF closeRow
<1>3. end.next \in 0 .. size
  BY <1>1, StreamOffsets DEF RowsShape
<1> HIDE DEF end
<1>4. CASE /\ rmode' = "rows" /\ rpos' = end.next
           /\ done' = [rows |-> done.rows + 1, cells |-> 0]
           /\ UNCHANGED <<minimum_columns, root, row, width, cells>>
  <2> PICK w \in Nat : width = <<w>> /\ w = row.length
    BY <1>2 DEF RowsShape
  <2>1. /\ done.rows \in Nat /\ done.cells = w /\ width[1] = w
        /\ width # <<>> /\ Len(cells) = done.rows * w + w
        /\ done.rows < root.length /\ root.length \in Nat
    BY <1>2 DEF RowsShape
  <2>2. /\ done'.rows = done.rows + 1 /\ done'.cells = 0
        /\ done' \in [rows : Nat, cells : Nat]
    BY <1>4, <2>1
  <2>3. Len(cells) = done'.rows * w + done'.cells
    <3>1. (done.rows + 1) * w = done.rows * w + w /\ done.rows * w \in Nat
      BY <2>1, ScaledNext
    <3> QED BY <2>1, <2>2, <3>1
  <2>4. \A k \in 1 .. Len(cells) : CellSound(k)'
    <3> SUFFICES ASSUME NEW k \in 1 .. Len(cells) PROVE CellSound(k)'
      OBVIOUS
    <3>1. CellSound(k)
      BY DEF RowsShape
    <3>2. cells[k].row <= done'.rows /\ cells[k].row # done'.rows
      BY <2>1, <2>2, <3>1 DEF CellSound
    <3> QED BY <1>4, <3>1, <3>2 DEF CellSound
  <2>5. done'.rows <= root.length
    BY <2>1, <2>2
  <2> QED BY <1>1, <1>3, <1>4, <2>1, <2>2, <2>3, <2>4, <2>5 DEF RowsShape
<1> QED BY <1>2, <1>4, ThrowShaped

LEMMA CloseRowsShaped ==
  ASSUME ReaderInv, RowsShape, closeRows, UNCHANGED rvars PROVE RowsShape'
<1>1. /\ input \in Seq(Byte) /\ size \in Nat /\ size' = size
  BY FramesKnown DEF rvars, size
<1>2. /\ rmode = "rows" /\ done.rows = root.length
      /\ \/ Throw
         \/ /\ rmode' = "done" /\ rpos' = size
            /\ UNCHANGED <<minimum_columns, root, row, done, width, cells>>
  BY Zenon DEF closeRows
<1>3. CASE /\ rmode' = "done" /\ rpos' = size
           /\ UNCHANGED <<minimum_columns, root, row, done, width, cells>>
  <2>1. \A k \in 1 .. Len(cells) : CellSound(k)'
    BY <1>3 DEF RowsShape, CellSound
  <2>2. size \in 0 .. size
    BY <1>1
  <2> QED BY <1>1, <1>2, <1>3, <2>1, <2>2 DEF RowsShape
<1> QED BY <1>2, <1>3, ThrowShaped

LEMMA ReadRowsShaped ==
  ASSUME ReaderInv, RowsShape, readRows PROVE RowsShape'
BY RowsHeaderShaped, OpenRowShaped, ReadCellShaped, CloseRowShaped,
   CloseRowsShaped DEF readRows

-----------------------------------------------------------------------------
(* The stream goes through the parts of the tree that read() has built.    *)

Marked == CountMarkerTag \in {input[i] : i \in 1 .. size}

RootFollowed(outer, s, b, v) ==
  /\ readArrayHeader(headerEnd).ok /\ readArrayHeader(headerEnd).val = outer
  /\ v.type = "array" /\ Len(v.kids) = outer.length
  /\ PartsAt(1, readArrayHeader(headerEnd), s, b, v.kids)
  /\ \E q : /\ finishArray(outer, s[Len(v.kids)]) = Parsed(Len(v.kids), q)
            /\ skipPadding[q] = size

RowFollowed(inner, from, next, t, c, v) ==
  /\ readArrayHeader(from).ok /\ readArrayHeader(from).val = inner
  /\ v.type = "array" /\ Len(v.kids) = inner.length
  /\ CellsAt(readArrayHeader(from), t, c, v.kids)
  /\ finishArray(inner, t[Len(v.kids)]) = Parsed(Len(v.kids), next)

InRows(outer, s, b, v, count, p) ==
  RootFollowed(outer, s, b, v) /\ p = s[count.rows]

InRow(outer, inner, s, b, t, c, v, count, p) ==
  /\ RootFollowed(outer, s, b, v)
  /\ RowFollowed(inner, b[count.rows], s[count.rows + 1], t, c,
                 v.kids[count.rows + 1])
  /\ p = t[count.cells]

Follows(outer, inner, v, count, p, where) ==
  /\ where = "rows" => \E s, b : InRows(outer, s, b, v, count, p)
  /\ where = "cells" =>
       \E s, b, t, c : InRow(outer, inner, s, b, t, c, v, count, p)
  /\ where = "done" => Len(v.kids) = outer.length

CellIs(cell, v) == cell.value = v.kids[cell.row + 1].kids[cell.column + 1]

(* What the stream has reached once read() has ended.                      *)
Paired(outer, inner, v, count, p, where, columns, seen) ==
  /\ Follows(outer, inner, v, count, p, where)
  /\ columns # <<>> => columns[1] = Len(v.kids[1].kids)
  /\ \A k \in 1 .. Len(seen) : CellIs(seen[k], v)
  /\ where = "failed" => Marked \/ ~Matrix(v)

StreamInv ==
  /\ ReadInv /\ RowsShape
  /\ rmode # "header" => readEnded
  /\ mode = "done" => Paired(root, row, value, done, rpos, rmode, width, cells)

(* The bytes, and what read() made of them, stay.                          *)
LEMMA SamePair ==
  ASSUME ReadInv, UNCHANGED rvars, minimum_columns' = minimum_columns,
         Paired(root', row', value, done', rpos', rmode', width', cells')
  PROVE  Paired(root, row, value, done, rpos, rmode, width, cells)'
<1>1. /\ input' = input /\ input \in Seq(Byte) /\ value' = value
  BY FramesKnown DEF ReadInv, rvars
<1>2. /\ size' = size /\ skipPadding' = skipPadding
      /\ readVarint' = readVarint
      /\ \A p : readArrayHeader(p)' = readArrayHeader(p)
      /\ \A a, p : finishArray(a, p)' = finishArray(a, p)
      /\ \A p, v, q : CellAt(p, v, q)' <=> CellAt(p, v, q)
      /\ \A a, n, p, q : IndexAt(a, n, p, q)' <=> IndexAt(a, n, p, q)
      /\ \A i, h, s, b, k : PartsAt(i, h, s, b, k)' <=> PartsAt(i, h, s, b, k)
  BY <1>1, SameBytes, SameCells, SamePlaces
<1>3. \A h, s, b, k : CellsAt(h, s, b, k)' <=> CellsAt(h, s, b, k)
  BY SMT, <1>2 DEF CellsAt
<1>4. headerEnd' = headerEnd
  BY <1>2 DEF headerEnd
<1>5. \A outer, s, b, v : RootFollowed(outer, s, b, v)'
                          <=> RootFollowed(outer, s, b, v)
  <2> SUFFICES ASSUME NEW outer, NEW s, NEW b, NEW v
               PROVE  RootFollowed(outer, s, b, v)'
                        <=> RootFollowed(outer, s, b, v)
    OBVIOUS
  <2> DEFINE End(q) == /\ finishArray(outer, s[Len(v.kids)])
                            = Parsed(Len(v.kids), q)
                       /\ skipPadding[q] = size
  <2>1. \A q : End(q)' <=> End(q)
    BY <1>2, Zenon DEF Parsed
  <2>2. RootFollowed(outer, s, b, v) <=>
          /\ readArrayHeader(headerEnd).ok
          /\ readArrayHeader(headerEnd).val = outer
          /\ v.type = "array" /\ Len(v.kids) = outer.length
          /\ PartsAt(1, readArrayHeader(headerEnd), s, b, v.kids)
          /\ \E q : End(q)
    BY Zenon DEF RootFollowed
  <2>3. RootFollowed(outer, s, b, v)' <=>
          /\ readArrayHeader(headerEnd)'.ok
          /\ readArrayHeader(headerEnd)'.val = outer
          /\ v.type = "array" /\ Len(v.kids) = outer.length
          /\ PartsAt(1, readArrayHeader(headerEnd), s, b, v.kids)'
          /\ \E q : End(q)'
    BY Zenon DEF RootFollowed
  <2> HIDE DEF End
  <2>4. readArrayHeader(headerEnd)' = readArrayHeader(headerEnd)
    BY <1>2, <1>4
  <2>5. PartsAt(1, readArrayHeader(headerEnd), s, b, v.kids)'
          <=> PartsAt(1, readArrayHeader(headerEnd), s, b, v.kids)
    BY <1>2, <2>4 DEF PartsAt
  <2> QED BY <2>1, <2>2, <2>3, <2>4, <2>5, Zenon
<1>6. \A inner, from, next, t, c, v : RowFollowed(inner, from, next, t, c, v)'
                                  <=> RowFollowed(inner, from, next, t, c, v)
  BY <1>2, <1>3, SMT DEF RowFollowed, Parsed
<1>7. \A outer, inner, v, count, p, where :
        Follows(outer, inner, v, count, p, where)'
          <=> Follows(outer, inner, v, count, p, where)
  <2>1. \A outer, s, b, v, count, p : InRows(outer, s, b, v, count, p)'
                                      <=> InRows(outer, s, b, v, count, p)
    BY <1>5, Zenon DEF InRows
  <2>2. \A outer, inner, s, b, t, c, v, count, p :
          InRow(outer, inner, s, b, t, c, v, count, p)'
            <=> InRow(outer, inner, s, b, t, c, v, count, p)
    <3> SUFFICES ASSUME NEW outer, NEW inner, NEW s, NEW b, NEW t, NEW c, NEW v,
                        NEW count, NEW p
                 PROVE  InRow(outer, inner, s, b, t, c, v, count, p)'
                          <=> InRow(outer, inner, s, b, t, c, v, count, p)
      OBVIOUS
    <3>1. RootFollowed(outer, s, b, v)' <=> RootFollowed(outer, s, b, v)
      BY <1>5
    <3>2. RowFollowed(inner, b[count.rows], s[count.rows + 1], t, c,
                      v.kids[count.rows + 1])'
            <=> RowFollowed(inner, b[count.rows], s[count.rows + 1], t, c,
                            v.kids[count.rows + 1])
      BY <1>6
    <3> QED BY <3>1, <3>2 DEF InRow
  <2> SUFFICES ASSUME NEW outer, NEW inner, NEW v, NEW count, NEW p, NEW where
               PROVE  Follows(outer, inner, v, count, p, where)'
                        <=> Follows(outer, inner, v, count, p, where)
    OBVIOUS
  <2>3. (\E s, b : InRows(outer, s, b, v, count, p))'
          <=> \E s, b : InRows(outer, s, b, v, count, p)
    BY <2>1, Zenon
  <2>4. (\E s, b, t, c : InRow(outer, inner, s, b, t, c, v, count, p))'
          <=> \E s, b, t, c : InRow(outer, inner, s, b, t, c, v, count, p)
    BY <2>2, Zenon
  <2> QED BY <2>3, <2>4, Zenon DEF Follows
<1>8. /\ Marked' <=> Marked
      /\ \A v : Matrix(v)' <=> Matrix(v)
  BY <1>1, <1>2, Zenon DEF Marked, Matrix
<1>9. \A cell, v : CellIs(cell, v)' <=> CellIs(cell, v)
  BY Zenon DEF CellIs
<1> QED BY <1>1, <1>7, <1>8, <1>9, Zenon DEF Paired

LEMMA MarkerInInput ==
  ASSUME input \in Seq(Byte), NEW p \in 0 .. size,
         readTag[p].val = CountMarkerTag
  PROVE  Marked
<1>1. size \in Nat /\ skipPadding[p] \in p .. size
  BY SkipRange, AtType
<1> PICK q : q = skipPadding[p]
  OBVIOUS
<1>2. q \in 0 .. size /\ readTag[p] = readByte[q]
  BY <1>1 DEF readTag
<1>3. q # size /\ at(q) = CountMarkerTag
  <2>1. readByte[q] = IF q = size THEN Malformed ELSE Parsed(at(q), q + 1)
    BY <1>2 DEF readByte
  <2> QED BY <1>2, <2>1 DEF Malformed, Parsed, CountMarkerTag
<1>4. q + 1 \in 1 .. size /\ input[q + 1] = CountMarkerTag
  BY <1>1, <1>2, <1>3 DEF at
<1> QED BY <1>4 DEF Marked

LEMMA MarkerRejected ==
  ASSUME NEW p, readTag[p].val = CountMarkerTag
  PROVE  /\ ~readScalar(p).ok /\ ~readArrayHeader(p).ok
         /\ \A n : ~indexIs(readScalar(p), n).ok
<1>1. CountMarkerTag \notin ScalarTags \cup {DenseTag, SparseTag}
  BY DEF ScalarTags, CountMarkerTag, DenseTag, SparseTag, UndefinedTag,
         NullTag, TrueTag, FalseTag, Int32Tag, Uint32Tag, DoubleTag,
         OneByteTag, Utf8Tag, TwoByteTag
<1>2. readScalar(p) = Malformed
  BY <1>1, Zenon DEF readScalar
<1>3. readArrayHeader(p) = Malformed
  BY <1>1, Zenon DEF readArrayHeader
<1> QED BY <1>2, <1>3 DEF Malformed, indexIs

LEMMA IndexFollowed ==
  ASSUME input \in Seq(Byte), NEW p \in 0 .. size, NEW inner, NEW n, NEW q,
         IndexAt(inner, n, p, q)
  PROVE  IF indexed(inner, n, p).ok THEN indexed(inner, n, p) = Parsed(n, q)
         ELSE Marked
<1>1. CASE inner.sparse /\ readTag[p].val = CountMarkerTag
  BY <1>1, MarkerInInput, MarkerRejected DEF indexed
<1>2. CASE indexed(inner, n, p) = Parsed(n, q)
  BY <1>2 DEF Parsed
<1> QED BY <1>1, <1>2 DEF IndexAt

LEMMA CellFollowed ==
  ASSUME input \in Seq(Byte), NEW p \in 0 .. size, NEW v, NEW q,
         CellAt(p, v, q)
  PROVE  IF readScalar(p).ok THEN readScalar(p) = Parsed(v, q)
         ELSE Marked \/ v.type \notin ScalarType
<1>1. CASE readTag[p].val = CountMarkerTag
  BY <1>1, MarkerInInput, MarkerRejected
<1>2. CASE readTag[p].val # CountMarkerTag
  BY <1>2, Zenon DEF CellAt
<1> QED BY <1>1, <1>2

LEMMA RowReached ==
  ASSUME input \in Seq(Byte), NEW p \in 0 .. size, NEW v, NEW q,
         RowAt(p, v, q)
  PROVE  IF readArrayHeader(p).ok THEN RowBehind(readArrayHeader(p), v, q)
         ELSE Marked \/ v.type # "array"
<1>1. CASE readTag[p].val = CountMarkerTag
  BY <1>1, MarkerInInput, MarkerRejected
<1>2. CASE readTag[p].val # CountMarkerTag
  BY <1>2, Zenon DEF RowAt
<1> QED BY <1>1, <1>2

LEMMA RootReached ==
  ASSUME input \in Seq(Byte), headerEnd \in 0 .. size, NEW v, Ended(v)
  PROVE  IF readArrayHeader(headerEnd).ok
         THEN \E s, b : /\ RootFollowed(readArrayHeader(headerEnd).val, s, b, v)
                        /\ s[0] = readArrayHeader(headerEnd).next
         ELSE Marked \/ v.type # "array"
<1>1. PICK q : ArrayAt(1, headerEnd, v, q) /\ skipPadding[q] = size
  BY Zenon DEF Ended
<1>2. CASE readTag[headerEnd].val = CountMarkerTag
  BY <1>2, MarkerInInput, MarkerRejected
<1>3. CASE readTag[headerEnd].val # CountMarkerTag
  <2>1. CASE readArrayHeader(headerEnd).ok
    <3>1. ArrayBehind(1, readArrayHeader(headerEnd), v, q)
      BY <1>1, <1>3, <2>1, Zenon DEF ArrayAt
    <3>2. PICK s, b :
            /\ PartsAt(1, readArrayHeader(headerEnd), s, b, v.kids)
            /\ finishArray(readArrayHeader(headerEnd).val, s[Len(v.kids)])
                 = Parsed(Len(v.kids), q)
      BY <3>1, Zenon DEF ArrayBehind
    <3>3. s[0] = readArrayHeader(headerEnd).next
      BY <3>2, Zenon DEF PartsAt
    <3>4. v.type = "array"
          /\ Len(v.kids) = readArrayHeader(headerEnd).val.length
      BY <3>1, Zenon DEF ArrayBehind
    <3>5. RootFollowed(readArrayHeader(headerEnd).val, s, b, v)
      BY <1>1, <2>1, <3>2, <3>4, Zenon DEF RootFollowed
    <3> QED BY <2>1, <3>3, <3>5, Zenon
  <2>2. CASE ~readArrayHeader(headerEnd).ok
    BY <1>1, <1>3, <2>2, Zenon DEF ArrayAt
  <2> QED BY <2>1, <2>2
<1> QED BY <1>2, <1>3

-----------------------------------------------------------------------------
(* The steps of the stream.                                                *)

LEMMA ThrowPaired ==
  ASSUME StreamInv, mode = "done", Throw, Marked \/ ~Matrix(value)
  PROVE  Paired(root', row', value, done', rpos', rmode', width', cells')
<1>1. /\ Paired(root, row, value, done, rpos, rmode, width, cells)
      /\ rmode' = "failed" /\ width' = width /\ cells' = cells
  BY DEF StreamInv, Throw
<1> QED BY <1>1, Zenon DEF Paired, Follows

LEMMA RowsHeaderPaired ==
  ASSUME StreamInv, mode = "done", rowsHeader, UNCHANGED rvars
  PROVE  Paired(root', row', value, done', rpos', rmode', width', cells')
<1> DEFINE header == readArrayHeader(headerEnd)
<1>1. /\ input \in Seq(Byte) /\ size \in Nat
      /\ HeaderRead /\ Ended(value)
      /\ width = <<>> /\ cells = <<>> /\ done.rows = 0
  <2>1. HeaderRead /\ Ended(value)
    BY DEF StreamInv, ReadInv, Describes
  <2> QED BY <2>1, FramesKnown DEF StreamInv, ReadInv, RowsShape, rowsHeader
<1>2. headerEnd \in 0 .. size
  <2>1. 1 \in 0 .. size
    BY <1>1 DEF HeaderRead
  <2> QED BY <1>1, <2>1, ReadVarintParses DEF headerEnd, Parses
<1>3. \/ Throw /\ ~header.ok
      \/ /\ header.ok
         /\ rmode' = "rows" /\ root' = header.val /\ rpos' = header.next
         /\ UNCHANGED <<minimum_columns, row, done, width, cells>>
  BY <1>1, Zenon DEF rowsHeader, HeaderRead, headerEnd
<1>4. CASE Throw /\ ~header.ok
  <2>1. Marked \/ value.type # "array"
    BY <1>1, <1>2, <1>4, RootReached
  <2>2. Marked \/ ~Matrix(value)
    BY <2>1, Zenon DEF Matrix
  <2> QED BY <1>4, <2>2, ThrowPaired
<1>5. CASE /\ header.ok
           /\ rmode' = "rows" /\ root' = header.val /\ rpos' = header.next
           /\ UNCHANGED <<minimum_columns, row, done, width, cells>>
  <2>1. PICK s, b : RootFollowed(header.val, s, b, value) /\ s[0] = header.next
    BY <1>1, <1>2, <1>5, RootReached
  <2> HIDE DEF header
  <2>2. InRows(root', s, b, value, done', rpos')
    BY <1>1, <1>5, <2>1 DEF InRows
  <2>3. Follows(root', row', value, done', rpos', rmode')
    BY <1>5, <2>2 DEF Follows
  <2>4. width' = <<>> /\ 1 .. Len(cells') = {} /\ rmode' = "rows"
    BY <1>1, <1>5
  <2> QED BY <2>3, <2>4 DEF Paired
<1> QED BY <1>3, <1>4, <1>5

LEMMA OpenRowPaired ==
  ASSUME StreamInv, mode = "done", openRow, UNCHANGED rvars
  PROVE  Paired(root', row', value, done', rpos', rmode', width', cells')
<1> DEFINE index == indexed(root, done.rows, rpos)
           header == readArrayHeader(index.next)
<1>1. /\ input \in Seq(Byte) /\ size \in Nat
      /\ Paired(root, row, value, done, rpos, rmode, width, cells)
      /\ rpos \in 0 .. size /\ done.rows \in Nat /\ root.length \in Nat
      /\ width = <<>> => done.rows = 0
  BY FramesKnown DEF StreamInv, ReadInv, RowsShape
<1>2. /\ rmode = "rows" /\ done.rows < root.length
      /\ \/ RowOpened(index, header)
         \/ /\ Throw
            /\ ~(index.ok /\ header.ok /\ WidthFits(header.val.length))
  BY OpenRowCases
<1>3. PICK s, b : InRows(root, s, b, value, done, rpos)
  BY <1>1, <1>2 DEF Paired, Follows
<1> PICK n, kid : n = done.rows /\ kid = value.kids[n + 1]
  OBVIOUS
<1>4. /\ RootFollowed(root, s, b, value) /\ rpos = s[n]
      /\ value.type = "array" /\ Len(value.kids) = root.length
      /\ n \in 0 .. Len(value.kids) - 1
  BY <1>1, <1>2, <1>3 DEF InRows, RootFollowed
<1>5. /\ IndexAt(root, n, s[n], b[n])
      /\ RowAt(b[n], kid, s[n + 1])
  BY <1>4 DEF RootFollowed, PartsAt, PartAt
<1>6. IF index.ok THEN index = Parsed(n, b[n]) ELSE Marked
  BY <1>1, <1>4, <1>5, IndexFollowed
<1>7. index.next \in 0 .. size
  BY <1>1, StreamOffsets
<1> HIDE DEF index
<1>8. index.ok =>
        /\ b[n] = index.next
        /\ IF header.ok THEN RowBehind(header, kid, s[n + 1])
           ELSE Marked \/ kid.type # "array"
  <2> SUFFICES ASSUME index.ok
               PROVE  /\ b[n] = index.next
                      /\ IF header.ok THEN RowBehind(header, kid, s[n + 1])
                         ELSE Marked \/ kid.type # "array"
    OBVIOUS
  <2>1. b[n] = index.next
    BY <1>6 DEF Parsed
  <2> QED BY <1>1, <1>5, <1>7, <2>1, RowReached
<1>9. CASE RowOpened(index, header)
  <2>1. b[n] = index.next /\ RowBehind(header, kid, s[n + 1]) /\ header.ok
    BY <1>8, <1>9 DEF RowOpened
  <2>2. PICK t, c :
          /\ CellsAt(header, t, c, kid.kids)
          /\ finishArray(header.val, t[Len(kid.kids)])
               = Parsed(Len(kid.kids), s[n + 1])
    BY <2>1, Zenon DEF RowBehind
  <2>3. kid.type = "array" /\ Len(kid.kids) = header.val.length
    BY <2>1, Zenon DEF RowBehind
  <2>4. RowFollowed(header.val, b[n], s[n + 1], t, c, kid)
    BY <2>1, <2>2, <2>3, Zenon DEF RowFollowed
  <2>5. t[0] = header.next
    BY <2>2, Zenon DEF CellsAt
  <2>6. /\ rmode' = "cells" /\ row' = header.val /\ rpos' = header.next
        /\ width' = <<header.val.length>> /\ root' = root /\ done' = done
        /\ cells' = cells
        /\ width = <<>> \/ width[1] = header.val.length
    BY <1>9 DEF RowOpened, WidthFits
  <2> HIDE DEF header
  <2>7. done.cells = 0
    BY <1>2 DEF StreamInv, RowsShape
  <2>8. InRow(root', row', s, b, t, c, value, done', rpos')
    BY <1>4, <2>4, <2>5, <2>6, <2>7 DEF InRow
  <2>9. width'[1] = Len(value.kids[1].kids)
    <3>1. width'[1] = Len(kid.kids) /\ width'[1] = header.val.length
      BY <2>3, <2>6
    <3>2. CASE width = <<>>
      <4>1. kid = value.kids[1]
        BY <1>1, <3>2
      <4> QED BY <3>1, <4>1
    <3>3. CASE width # <<>>
      BY <1>1, <2>6, <3>1, <3>3 DEF Paired
    <3> QED BY <3>2, <3>3
  <2>10. Follows(root', row', value, done', rpos', rmode')
    BY <2>6, <2>8 DEF Follows
  <2> QED BY <1>1, <2>6, <2>9, <2>10 DEF Paired
<1>10. CASE /\ Throw
            /\ ~(index.ok /\ header.ok /\ WidthFits(header.val.length))
  <2>1. Marked \/ ~Matrix(value)
    <3> SUFFICES ASSUME ~Marked, Matrix(value) PROVE FALSE
      OBVIOUS
    <3>1. n + 1 \in 1 .. Len(value.kids)
      BY <1>4
    <3>2. /\ kid.type = "array" /\ Len(kid.kids) = Len(value.kids[1].kids)
          /\ Len(kid.kids) >= minimum_columns
      BY <3>1, Zenon DEF Matrix
    <3>3. index.ok /\ header.ok /\ RowBehind(header, kid, s[n + 1])
      BY <1>6, <1>8, <3>2
    <3>4. Len(kid.kids) = header.val.length
      BY <3>3, Zenon DEF RowBehind
    <3> HIDE DEF header
    <3>5. width # <<>> => width[1] = header.val.length
      BY <1>1, <3>2, <3>4 DEF Paired
    <3>6. WidthFits(header.val.length)
      BY <3>2, <3>4, <3>5 DEF WidthFits
    <3> QED BY <1>10, <3>3, <3>6
  <2> QED BY <1>10, <2>1, ThrowPaired
<1> QED BY <1>2, <1>9, <1>10

LEMMA ReadCellPaired ==
  ASSUME StreamInv, mode = "done", readCell, UNCHANGED rvars
  PROVE  Paired(root', row', value, done', rpos', rmode', width', cells')
<1> DEFINE index == indexed(row, done.cells, rpos)
           scalar == readScalar(index.next)
<1>1. /\ input \in Seq(Byte) /\ size \in Nat
      /\ Paired(root, row, value, done, rpos, rmode, width, cells)
      /\ rpos \in 0 .. size /\ done.rows \in Nat /\ done.cells \in Nat
      /\ root.length \in Nat /\ IsSeq(cells)
  BY FramesKnown DEF StreamInv, ReadInv, RowsShape
<1>2. /\ rmode = "cells" /\ done.cells < row.length
      /\ \/ index.ok /\ CellRead(scalar)
         \/ Throw /\ ~(index.ok /\ scalar.ok)
  BY ReadCellCases
<1>3. PICK s, b, t, c : InRow(root, row, s, b, t, c, value, done, rpos)
  BY <1>1, <1>2 DEF Paired, Follows
<1> PICK r, n, kid : /\ r = done.rows /\ n = done.cells
                     /\ kid = value.kids[r + 1]
  OBVIOUS
<1>4. /\ RootFollowed(root, s, b, value)
      /\ RowFollowed(row, b[r], s[r + 1], t, c, kid)
      /\ rpos = t[n]
  BY <1>3 DEF InRow
<1>5. /\ kid.type = "array" /\ Len(kid.kids) = row.length
      /\ n \in 0 .. Len(kid.kids) - 1 /\ row.length \in Nat
  <2>1. Len(kid.kids) = row.length /\ kid.type = "array"
    BY <1>4 DEF RowFollowed
  <2>3. width = <<row.length>> /\ width # <<>>
    <3>1. width = <<row.length>>
      BY <1>2 DEF StreamInv, RowsShape
    <3> QED BY <3>1
  <2>2. PICK w \in Nat : width = <<w>>
    BY <2>3 DEF StreamInv, RowsShape
  <2>4. row.length \in Nat
    <3>1. width[1] = w /\ width[1] = row.length
      BY <2>2, <2>3
    <3> QED BY <3>1
  <2> QED BY <1>1, <1>2, <2>1, <2>4
<1>6. /\ IndexAt(row, n, t[n], c[n])
      /\ CellAt(c[n], kid.kids[n + 1], t[n + 1])
  BY <1>4, <1>5 DEF RowFollowed, CellsAt
<1>7. IF index.ok THEN index = Parsed(n, c[n]) ELSE Marked
  BY <1>1, <1>4, <1>6, IndexFollowed
<1>8. index.next \in 0 .. size
  BY <1>1, StreamOffsets
<1> HIDE DEF index
<1>9. index.ok =>
        IF scalar.ok THEN scalar = Parsed(kid.kids[n + 1], t[n + 1])
        ELSE Marked \/ kid.kids[n + 1].type \notin ScalarType
  <2> SUFFICES ASSUME index.ok
               PROVE  IF scalar.ok
                      THEN scalar = Parsed(kid.kids[n + 1], t[n + 1])
                      ELSE Marked \/ kid.kids[n + 1].type \notin ScalarType
    OBVIOUS
  <2>1. c[n] = index.next
    BY <1>7 DEF Parsed
  <2> QED BY <1>1, <1>6, <1>8, <2>1, CellFollowed
<1> HIDE DEF scalar
<1>10. CASE index.ok /\ CellRead(scalar)
  <2> DEFINE cell == [row |-> done.rows, column |-> done.cells,
                      columns |-> row.length, value |-> scalar.val]
  <2>1. scalar.val = kid.kids[n + 1] /\ scalar.next = t[n + 1]
    BY <1>9, <1>10 DEF CellRead, Parsed
  <2>2. /\ rmode' = rmode /\ row' = row /\ rpos' = scalar.next
        /\ width' = width /\ root' = root /\ cells' = Append(cells, cell)
        /\ done' = [done EXCEPT !.cells = @ + 1]
    BY <1>10 DEF CellRead
  <2>3. done'.rows = r /\ done'.cells = n + 1
    <3>1. done \in [rows : Nat, cells : Nat]
      BY DEF StreamInv, RowsShape
    <3> QED BY <2>2, <3>1
  <2>4. InRow(root', row', s, b, t, c, value, done', rpos')
    BY <1>4, <2>1, <2>2, <2>3 DEF InRow
  <2>5. Follows(root', row', value, done', rpos', rmode')
    BY <1>2, <2>2, <2>4 DEF Follows
  <2>6. CellIs(cell, value)
    <3>1. cell.value = scalar.val /\ cell.row = r /\ cell.column = n
      OBVIOUS
    <3> QED BY <2>1, <3>1 DEF CellIs
  <2> HIDE DEF cell
  <2>7. \A k \in 1 .. Len(cells') : CellIs(cells'[k], value)
    <3>1. /\ Len(cells') = Len(cells) + 1 /\ Len(cells) \in Nat
          /\ cells'[Len(cells) + 1] = cell
          /\ \A k \in 1 .. Len(cells) : cells'[k] = cells[k]
      BY <1>1, <2>2, SequenceAppended, SequencesAre
    <3> PICK m : m = Len(cells)
      OBVIOUS
    <3> SUFFICES ASSUME NEW k \in 1 .. m + 1 PROVE CellIs(cells'[k], value)
      BY <3>1
    <3>2. k \in 1 .. m \/ k = m + 1
      BY <3>1
    <3>3. k \in 1 .. m => CellIs(cells[k], value)
      BY <1>1 DEF Paired
    <3> QED BY <2>6, <3>1, <3>2, <3>3
  <2> QED BY <1>1, <1>2, <2>2, <2>5, <2>7 DEF Paired
<1>11. CASE Throw /\ ~(index.ok /\ scalar.ok)
  <2>1. Marked \/ ~Matrix(value)
    <3> SUFFICES ASSUME ~Marked, Matrix(value) PROVE FALSE
      OBVIOUS
    <3>1. r + 1 \in 1 .. Len(value.kids) /\ n + 1 \in 1 .. Len(kid.kids)
      <4>1. Len(value.kids) = root.length
        BY <1>4 DEF RootFollowed
      <4>2. done.rows < root.length
        BY <1>2 DEF StreamInv, RowsShape
      <4>3. r \in Nat /\ r + 1 \in 1 .. root.length
        BY <1>1, <4>2
      <4>4. n + 1 \in 1 .. Len(kid.kids)
        BY <1>5
      <4> QED BY <4>1, <4>3, <4>4
    <3>2. kid.kids[n + 1].type \in ScalarType
      BY <3>1, Zenon DEF Matrix
    <3> QED BY <1>7, <1>9, <1>11, <3>2
  <2> QED BY <1>11, <2>1, ThrowPaired
<1> QED BY <1>2, <1>10, <1>11

LEMMA CloseRowPaired ==
  ASSUME StreamInv, mode = "done", closeRow, UNCHANGED rvars
  PROVE  Paired(root', row', value, done', rpos', rmode', width', cells')
<1> DEFINE end == finishArray(row, rpos)
<1>1. /\ Paired(root, row, value, done, rpos, rmode, width, cells)
      /\ done.rows \in Nat
  BY DEF StreamInv, RowsShape
<1>2. /\ rmode = "cells" /\ done.cells = row.length
      /\ IF end.ok
         THEN /\ rmode' = "rows" /\ rpos' = end.next
              /\ done' = [rows |-> done.rows + 1, cells |-> 0]
              /\ UNCHANGED <<minimum_columns, root, row, width, cells>>
         ELSE Throw
  BY Zenon DEF closeRow
<1>3. PICK s, b, t, c : InRow(root, row, s, b, t, c, value, done, rpos)
  BY <1>1, <1>2 DEF Paired, Follows
<1> PICK r, kid : r = done.rows /\ kid = value.kids[r + 1]
  OBVIOUS
<1>4. /\ RootFollowed(root, s, b, value)
      /\ RowFollowed(row, b[r], s[r + 1], t, c, kid)
      /\ rpos = t[row.length]
  BY <1>2, <1>3 DEF InRow
<1>5. end = Parsed(Len(kid.kids), s[r + 1])
  BY <1>4, Zenon DEF RowFollowed
<1> HIDE DEF end
<1>6. /\ rmode' = "rows" /\ rpos' = s[r + 1] /\ root' = root
      /\ done' = [rows |-> done.rows + 1, cells |-> 0]
      /\ width' = width /\ cells' = cells
  BY <1>2, <1>5 DEF Parsed
<1>7. InRows(root', s, b, value, done', rpos')
  BY <1>4, <1>6 DEF InRows
<1>8. Follows(root', row', value, done', rpos', rmode')
  BY <1>6, <1>7 DEF Follows
<1> QED BY <1>1, <1>6, <1>8 DEF Paired

LEMMA CloseRowsPaired ==
  ASSUME StreamInv, mode = "done", closeRows, UNCHANGED rvars
  PROVE  Paired(root', row', value, done', rpos', rmode', width', cells')
<1> DEFINE end == finishArray(root, rpos)
<1>1. Paired(root, row, value, done, rpos, rmode, width, cells)
  BY DEF StreamInv
<1>2. /\ rmode = "rows" /\ done.rows = root.length
      /\ IF end.ok /\ skipPadding[end.next] = size
         THEN /\ rmode' = "done" /\ rpos' = size
              /\ UNCHANGED <<minimum_columns, root, row, done, width, cells>>
         ELSE Throw
  BY Zenon DEF closeRows
<1>3. PICK s, b : InRows(root, s, b, value, done, rpos)
  BY <1>1, <1>2 DEF Paired, Follows
<1>4. /\ RootFollowed(root, s, b, value) /\ rpos = s[Len(value.kids)]
  BY <1>2, <1>3 DEF InRows, RootFollowed
<1>5. PICK q : end = Parsed(Len(value.kids), q) /\ skipPadding[q] = size
  BY <1>4, Zenon DEF RootFollowed
<1> HIDE DEF end
<1>6. /\ rmode' = "done" /\ root' = root /\ width' = width /\ cells' = cells
      /\ Len(value.kids) = root.length
  BY <1>2, <1>4, <1>5 DEF Parsed, RootFollowed
<1> QED BY <1>1, <1>6 DEF Paired, Follows

LEMMA ReadRowsPaired ==
  ASSUME StreamInv, readRows PROVE StreamInv'
<1>1. ReadInv /\ ReaderInv /\ RowsShape /\ UNCHANGED rvars
  BY DEF StreamInv, ReadInv, readRows
<1>2. ReadInv' /\ RowsShape'
  BY <1>1, ReadKept, ReadRowsShaped
<1>3. /\ mode' = mode /\ value' = value /\ readEnded' = readEnded
      /\ minimum_columns' = minimum_columns /\ readEnded
  BY <1>1 DEF rvars, readEnded, readRows, rowsHeader, openRow, readCell,
              consume, closeRow, closeRows, Throw
<1>4. mode = "done" =>
        Paired(root', row', value, done', rpos', rmode', width', cells')
  BY <1>1, RowsHeaderPaired, OpenRowPaired, ReadCellPaired, CloseRowPaired,
     CloseRowsPaired DEF readRows
<1>5. mode' = "done" =>
        Paired(root, row, value, done, rpos, rmode, width, cells)'
  BY <1>1, <1>3, <1>4, SamePair
<1> QED BY <1>2, <1>3, <1>5 DEF StreamInv

LEMMA StepPaired ==
  ASSUME StreamInv, Step, UNCHANGED rowVars PROVE StreamInv'
<1>1. ReadInv /\ RowsShape /\ ReadInv'
  BY StepDescribed DEF StreamInv
<1>2. ~readEnded
  BY Zenon
  DEF readEnded, Step, readHeader, readValue, tooDeepOrEnded, skipCountMarker,
      openObject, openArray, readLeafValue, TagIn, objectLoop, denseLoop,
      sparseLoop, AtLoop, readPropertyKey, readSparseIndex, readProperty,
      readElement, AtReturn, finish
<1>3. /\ minimum_columns' = minimum_columns /\ rpos' = rpos /\ root' = root
      /\ row' = row /\ done' = done /\ width' = width /\ rmode' = rmode
      /\ cells' = cells
  BY DEF rowVars
<1>4. rmode' = "header" /\ width' = <<>> /\ cells' = <<>>
  BY <1>2, <1>3 DEF StreamInv, RowsShape
<1>5. size' = size
  BY Zenon DEF size, Step, readHeader, readValue, tooDeepOrEnded,
               skipCountMarker, openObject, openArray, readLeafValue,
               objectLoop, denseLoop, sparseLoop, readPropertyKey,
               readSparseIndex, readProperty, readElement, finish,
               Fail, Continue, Return, Attempt, GotKey
<1>6. RowsShape'
  <2>1. \A k \in 1 .. Len(cells) : CellSound(k)'
    BY <1>1, <1>3 DEF RowsShape, CellSound
  <2> QED BY <1>1, <1>3, <1>5, <2>1 DEF RowsShape
<1>7. Paired(root, row, value, done, rpos, rmode, width, cells)'
  <2>1. 1 .. Len(cells') = {}
    BY <1>4
  <2> QED BY <1>4, <2>1 DEF Paired, Follows
<1> QED BY <1>1, <1>4, <1>6, <1>7 DEF StreamInv

(* What the Reader, the stream and its consumer start with.                *)
StreamAtStart ==
  /\ AtStart
  /\ rpos = 0 /\ root = NoArray /\ done = [rows |-> 0, cells |-> 0]
  /\ width = <<>> /\ rmode = "header" /\ cells = <<>>

LEMMA RowsInitStarts == RowsInit => StreamAtStart
BY ReaderAssumption DEF RowsInit, Init, Start, AtStart, StreamAtStart

LEMMA RowsStart == StreamAtStart => StreamInv
<1> SUFFICES ASSUME StreamAtStart PROVE StreamInv
  OBVIOUS
<1>1. ReadInv /\ size \in Nat
  <2>1. ReadInv
    BY ReadStarts DEF StreamAtStart
  <2> QED BY <2>1, FramesKnown DEF ReadInv
<1>2. /\ rpos = 0 /\ root = NoArray /\ done = [rows |-> 0, cells |-> 0]
      /\ width = <<>> /\ rmode = "header" /\ cells = <<>>
  BY DEF StreamAtStart
<1>3. root.length = 0 /\ 1 .. Len(cells) = {} /\ IsSeq(cells)
  <2>1. root.length = 0
    BY <1>2 DEF NoArray
  <2>2. cells = <<>> /\ 1 .. Len(cells) = {}
    BY <1>2
  <2>3. IsSeq(<<>>)
    BY DEF IsSeq
  <2> QED BY <2>1, <2>2, <2>3
<1>4. RowsShape
  BY <1>1, <1>2, <1>3 DEF RowsShape
<1>5. mode # "done"
  BY DEF StreamAtStart, AtStart
<1> QED BY <1>1, <1>2, <1>4, <1>5 DEF StreamInv

LEMMA RowsKeep == StreamInv /\ [RowsNext]_allVars => StreamInv'
<1>1. CASE StreamInv /\ RowsNext
  BY <1>1, StepPaired, ReadRowsPaired DEF RowsNext
<1>2. CASE StreamInv /\ UNCHANGED allVars
  <2>1. ReadInv /\ RowsShape /\ ReadInv' /\ UNCHANGED rvars
    BY <1>2, ReadKept DEF StreamInv, allVars
  <2>2. /\ minimum_columns' = minimum_columns /\ rpos' = rpos /\ root' = root
        /\ row' = row /\ done' = done /\ width' = width /\ rmode' = rmode
        /\ cells' = cells
    BY <1>2 DEF allVars, rowVars
  <2>3. input' = input /\ mode' = mode /\ value' = value
    BY <2>1 DEF rvars
  <2>4. RowsShape'
    <3>1. \A k \in 1 .. Len(cells) : CellSound(k)'
      BY <2>1, <2>2 DEF RowsShape, CellSound
    <3> QED BY <2>1, <2>2, <2>3, <3>1 DEF RowsShape, size
  <2>5. mode' = "done" =>
          Paired(root, row, value, done, rpos, rmode, width, cells)'
    BY <1>2, <2>1, <2>2, <2>3, SamePair DEF StreamInv
  <2> QED BY <1>2, <2>1, <2>2, <2>3, <2>4, <2>5 DEF StreamInv, readEnded
<1> QED BY <1>1, <1>2

LEMMA StreamHasCells == StreamInv => CellsAreTrue
<1> SUFFICES ASSUME StreamInv, NEW k \in 1 .. Len(cells)
             PROVE  /\ cells[k].columns = width[1]
                    /\ cells[k].columns >= minimum_columns
                    /\ cells[k].row * width[1] + cells[k].column + 1 = k
                    /\ mode = "done" => CellIs(cells[k], value)
  BY Zenon DEF CellsAreTrue, CellIs
<1>1. CellSound(k)
  BY DEF StreamInv, RowsShape
<1>2. mode = "done" => CellIs(cells[k], value)
  BY DEF StreamInv, Paired
<1> QED BY <1>1, <1>2, Zenon DEF CellSound

LEMMA StreamGoesOn == StreamInv => ReadIsStreamed
BY Zenon DEF StreamInv, Paired, ReadIsStreamed, Marked

(* The stream only hands out what it has looked at, and never gets ahead   *)
(* of the tree that read() has built of the same bytes (readRows in        *)
(* reader.hpp): the invariant of both, on any bytes.                       *)
THEOREM RowsInvariant == RowsSpec => []StreamInv
BY RowsInitStarts, RowsStart, RowsKeep, PTL DEF RowsSpec

(* However a stream ends, its consumer was given the cells of a matrix row *)
(* by row, each once, and each is the value read() has at that place.      *)
THEOREM CellsTrue == RowsSpec => []CellsAreTrue
BY RowsInvariant, StreamHasCells, PTL

(* Of the matrices of scalars that read() decodes, readRows() refuses only *)
(* those with a legacy count marker.                                       *)
THEOREM ReadStreams == RowsSpec => []ReadIsStreamed
BY RowsInvariant, StreamGoesOn, PTL

-----------------------------------------------------------------------------
(* What the stream has accepted: the entry n of an array is at s[n], its   *)
(* element at b[n], the next entry at s[n + 1].                            *)

CellsPassed(header, m, s, b) ==
  /\ s[0] = header.next
  /\ \A n \in 0 .. m - 1 :
       /\ b[n] \in 0 .. size /\ s[n + 1] \in 0 .. size
       /\ indexed(header.val, n, s[n]) = Parsed(n, b[n])
       /\ readScalar(b[n]).ok /\ readScalar(b[n]).next = s[n + 1]

RowPath(p, q, s, b) ==
  LET header == readArrayHeader(p)
      length == header.val.length
  IN /\ header.ok /\ CellsPassed(header, length, s, b)
     /\ finishArray(header.val, s[length]) = Parsed(length, q)

RowPassed(p, q) == \E s, b : RowPath(p, q, s, b)

RowsPassed(header, m, s, b) ==
  /\ s[0] = header.next
  /\ \A n \in 0 .. m - 1 :
       /\ b[n] \in 0 .. size /\ s[n + 1] \in 0 .. size
       /\ indexed(header.val, n, s[n]) = Parsed(n, b[n])
       /\ RowPassed(b[n], s[n + 1])

AllPassed(s, b) ==
  LET header == readArrayHeader(headerEnd)
      length == header.val.length
  IN /\ HeaderRead /\ header.ok /\ RowsPassed(header, length, s, b)
     /\ \E q : /\ finishArray(header.val, s[length]) = Parsed(length, q)
               /\ skipPadding[q] = size

(* What read() needs of it, for rows and cells alike.                      *)
ElementTags == ScalarTags \cup {DenseTag, SparseTag}

Path(header, s, b) ==
  /\ header.val.length \in U32 /\ s[0] = header.next
  /\ \A n \in 0 .. header.val.length - 1 :
       /\ s[n] \in 0 .. size /\ b[n] \in 0 .. size
       /\ indexed(header.val, n, s[n]) = Parsed(n, b[n])
       /\ readTag[b[n]].ok /\ readTag[b[n]].val \in ElementTags

-----------------------------------------------------------------------------
(* read() on such bytes: a frame f of an array, innermost.                 *)
AsksKey(f) == f.kind = "sparse" /\ f.awaiting = "key"

FrameOf(f, array) ==
  /\ f.kind \in {"dense", "sparse"} /\ f.length = array.length
  /\ f.kind = "sparse" <=> array.sparse
  /\ f.kind = "dense" => f.awaiting = "key"
  /\ Len(f.kids) <= array.length

Walks(f, array, s, b, where, p, v) ==
  /\ FrameOf(f, array)
  /\ where = "loop" => f.awaiting = "key" /\ p = s[Len(f.kids)]
  /\ where \in {"value", "returned"} => Len(f.kids) < array.length
  /\ where = "value" =>
       IF AsksKey(f) THEN readTag[p] = readTag[s[Len(f.kids)]]
       ELSE readTag[p] = readTag[b[Len(f.kids)]]
  /\ where = "returned" =>
       IF AsksKey(f)
       THEN IsInteger(v) /\ v.data[1] = Len(f.kids) /\ p = b[Len(f.kids)]
       ELSE p = s[Len(f.kids) + 1]

InElement(f, array) ==
  FrameOf(f, array) /\ ~AsksKey(f) /\ Len(f.kids) < array.length

WalksRow(s, b, f, g, where, p, v) ==
  LET n == Len(f.kids)
  IN \E t, c : /\ RowPath(b[n], s[n + 1], t, c)
               /\ Walks(g, readArrayHeader(b[n]).val, t, c, where, p, v)

Goes(s, b, stack, where, p, v) ==
  /\ where # "failed" /\ Len(stack) \in 0 .. 2
  /\ Len(stack) = 0 =>
       /\ where = "value" => readTag[p] = readTag[headerEnd]
       /\ where = "returned" => skipPadding[p] = size
  /\ Len(stack) = 1 =>
       Walks(stack[1], readArrayHeader(headerEnd).val, s, b, where, p, v)
  /\ Len(stack) = 2 =>
       /\ InElement(stack[1], readArrayHeader(headerEnd).val)
       /\ WalksRow(s, b, stack[1], stack[2], where, p, v)

-----------------------------------------------------------------------------
LEMMA LengthFits ==
  ASSUME input \in Seq(Byte), NEW p \in 0 .. size, readArrayHeader(p).ok
  PROVE  readArrayHeader(p).val.length \in U32
<1> DEFINE tag == readTag[p]
           length == readVarint[tag.next]
<1>1. Parses(tag, Byte)
  BY ReadTagParses
<1>2. /\ length.ok
      /\ readArrayHeader(p) =
           Parsed([length |-> length.val, sparse |-> tag.val = SparseTag],
                  length.next)
  BY Zenon DEF readArrayHeader, Malformed
<1>3. length.val \in U32
  <2>1. tag.next \in 0 .. size
    BY <1>1 DEF Parses
  <2> HIDE DEF tag
  <2>2. \E k \in 1 .. MaxGroups : length.val \in U32
    BY <1>2, <2>1, ReadVarintExact
  <2> QED BY <2>2
<1> HIDE DEF tag, length
<1> QED BY <1>2, <1>3 DEF Parsed

LEMMA ElementTag ==
  ASSUME NEW p, readScalar(p).ok \/ readArrayHeader(p).ok
  PROVE  readTag[p].ok /\ readTag[p].val \in ElementTags
<1>1. readScalar(p).ok => readTag[p].ok /\ readTag[p].val \in ScalarTags
  BY Zenon DEF readScalar, Malformed
<1>2. readArrayHeader(p).ok =>
        readTag[p].ok /\ readTag[p].val \in {DenseTag, SparseTag}
  BY Zenon DEF readArrayHeader, Malformed
<1> QED BY <1>1, <1>2 DEF ElementTags

LEMMA RowIsPath ==
  ASSUME input \in Seq(Byte), NEW p \in 0 .. size, NEW q, NEW s, NEW b,
         RowPath(p, q, s, b)
  PROVE  Path(readArrayHeader(p), s, b)
<1> PICK header : header = readArrayHeader(p)
  OBVIOUS
<1>1. header.val.length \in U32 /\ header.next \in 0 .. size
      /\ header.val.length \in Nat
  BY LengthFits, HeaderLength DEF RowPath
<1> PICK m \in Nat : m = header.val.length
  BY <1>1
<1>2. CellsPassed(header, m, s, b)
  BY DEF RowPath
<1>3. ASSUME NEW n \in 0 .. m - 1
      PROVE  /\ s[n] \in 0 .. size /\ b[n] \in 0 .. size
             /\ indexed(header.val, n, s[n]) = Parsed(n, b[n])
             /\ readTag[b[n]].ok /\ readTag[b[n]].val \in ElementTags
  <2>1. s[n] \in 0 .. size
    <3>1. CASE n = 0
      BY <1>1, <1>2, <3>1 DEF CellsPassed
    <3>2. CASE n # 0
      <4>1. n - 1 \in 0 .. m - 1 /\ n - 1 + 1 = n
        BY <3>2
      <4> QED BY <1>2, <4>1 DEF CellsPassed
    <3> QED BY <3>1, <3>2
  <2>2. /\ b[n] \in 0 .. size /\ readScalar(b[n]).ok
        /\ indexed(header.val, n, s[n]) = Parsed(n, b[n])
    BY <1>2 DEF CellsPassed
  <2> QED BY <2>1, <2>2, ElementTag
<1> QED BY <1>1, <1>2, <1>3 DEF Path, CellsPassed

LEMMA RowsArePath ==
  ASSUME input \in Seq(Byte), headerEnd \in 0 .. size, NEW s, NEW b,
         AllPassed(s, b)
  PROVE  Path(readArrayHeader(headerEnd), s, b)
<1> PICK header : header = readArrayHeader(headerEnd)
  OBVIOUS
<1>1. header.val.length \in U32 /\ header.next \in 0 .. size
      /\ header.val.length \in Nat
  BY LengthFits, HeaderLength DEF AllPassed
<1> PICK m \in Nat : m = header.val.length
  BY <1>1
<1>2. RowsPassed(header, m, s, b)
  BY DEF AllPassed
<1>3. ASSUME NEW n \in 0 .. m - 1
      PROVE  /\ s[n] \in 0 .. size /\ b[n] \in 0 .. size
             /\ indexed(header.val, n, s[n]) = Parsed(n, b[n])
             /\ readTag[b[n]].ok /\ readTag[b[n]].val \in ElementTags
  <2>1. s[n] \in 0 .. size
    <3>1. CASE n = 0
      BY <1>1, <1>2, <3>1 DEF RowsPassed
    <3>2. CASE n # 0
      <4>1. n - 1 \in 0 .. m - 1 /\ n - 1 + 1 = n
        BY <3>2
      <4> QED BY <1>2, <4>1 DEF RowsPassed
    <3> QED BY <3>1, <3>2
  <2>2. /\ b[n] \in 0 .. size /\ RowPassed(b[n], s[n + 1])
        /\ indexed(header.val, n, s[n]) = Parsed(n, b[n])
    BY <1>2 DEF RowsPassed
  <2>3. readArrayHeader(b[n]).ok
    BY <2>2 DEF RowPassed, RowPath
  <2> QED BY <2>1, <2>2, <2>3, ElementTag
<1> QED BY <1>1, <1>2, <1>3 DEF Path, RowsPassed

-----------------------------------------------------------------------------
(* The steps of read() at such offsets.                                    *)

(* A scalar at c is read as readScalar() reads it.                         *)
LEMMA ScalarIsRead ==
  ASSUME mode = "value", Len(frames) \in 0 .. MaxDepth, NEW c,
         readTag[pos] = readTag[c], readScalar(c).ok, readValue
  PROVE  Return(readScalar(c).val, readScalar(c).next, frames)
<1> DEFINE tag == readTag[pos]
<1>1. tag.ok /\ tag.val \in ScalarTags
      /\ readScalar(c) = readLeaf(tag.val, tag.next)
  BY Zenon DEF readScalar, Malformed
<1>2. {CountMarkerTag, ObjectTag, DenseTag, SparseTag} \cap ScalarTags = {}
  BY DEF ScalarTags, CountMarkerTag, DenseTag, SparseTag, ObjectTag,
         UndefinedTag, NullTag, TrueTag, FalseTag, Int32Tag, Uint32Tag,
         DoubleTag, OneByteTag, Utf8Tag, TwoByteTag
<1>3. ~tooDeepOrEnded
  BY <1>1, ReaderAssumption DEF tooDeepOrEnded
<1> HIDE DEF tag
<1>4. readLeafValue
  <2>1. \A tags : TagIn(tags) => tag.val \in tags
    BY DEF TagIn, tag
  <2> QED BY <1>1, <1>2, <1>3, <2>1
          DEF readValue, skipCountMarker, openObject, openArray
<1>5. Attempt(readScalar(c))
  BY <1>1, <1>4, Zenon DEF readLeafValue, behindTag, tag
<1> QED BY <1>5, Zenon DEF Attempt

(* An array at c is opened as readArrayHeader() reads its header.          *)
LEMMA ArrayIsOpened ==
  ASSUME mode = "value", Len(frames) \in 0 .. MaxDepth, NEW c,
         readTag[pos] = readTag[c], readArrayHeader(c).ok, readValue
  PROVE  \E kind \in {"dense", "sparse"} :
           /\ kind = "sparse" <=> readArrayHeader(c).val.sparse
           /\ Continue(readArrayHeader(c).next,
                       Append(frames,
                              NewFrame(kind, readArrayHeader(c).val.length)),
                       "loop")
<1> DEFINE tag == readTag[pos]
           length == readVarint[tag.next]
           header == readArrayHeader(c)
<1>1. /\ tag.ok /\ tag.val \in {DenseTag, SparseTag}
      /\ length.ok /\ length.val <= size - length.next
      /\ header = Parsed([length |-> length.val,
                          sparse |-> tag.val = SparseTag], length.next)
  BY Zenon DEF readArrayHeader, Malformed
<1>2. /\ ObjectTag \notin {DenseTag, SparseTag} /\ DenseTag # SparseTag
      /\ CountMarkerTag \notin {DenseTag, SparseTag}
  BY DEF CountMarkerTag, DenseTag, SparseTag, ObjectTag
<1>3. ~tooDeepOrEnded
  BY <1>1, ReaderAssumption DEF tooDeepOrEnded
<1>4. /\ header.next = length.next /\ header.val.length = length.val
      /\ header.val.sparse <=> tag.val = SparseTag
  <2> HIDE DEF header, tag, length
  <2>1. header.val = [length |-> length.val, sparse |-> tag.val = SparseTag]
    BY <1>1 DEF Parsed
  <2>2. header.val.sparse = (tag.val = SparseTag)
    BY <2>1
  <2> QED BY <1>1, <2>1, <2>2 DEF Parsed
<1> HIDE DEF header
<1>5. ASSUME NEW t \in {DenseTag, SparseTag}, NEW kind, openArray(t, kind)
      PROVE  /\ tag.val = t
             /\ Continue(header.next,
                         Append(frames, NewFrame(kind, header.val.length)),
                         "loop")
  <2>1. tag.val \in {t}
    BY <1>5, Zenon DEF openArray, TagIn
  <2>2. Continue(length.next, Append(frames, NewFrame(kind, length.val)),
                 "loop")
    BY <1>1, <1>5, Zenon DEF openArray, behindTag
  <2> QED BY <1>4, <2>1, <2>2
<1>6. openArray(DenseTag, "dense") \/ openArray(SparseTag, "sparse")
  <2>1. \A tags : TagIn(tags) => tag.val \in tags
    BY DEF TagIn
  <2> HIDE DEF tag, length
  <2>2. ~skipCountMarker /\ ~openObject /\ ~readLeafValue
    BY <1>1, <1>2, <2>1
       DEF skipCountMarker, openObject, readLeafValue
  <2> QED BY <1>3, <2>2 DEF readValue
<1> HIDE DEF tag, length
<1> QED BY <1>2, <1>4, <1>5, <1>6 DEF header

(* A loop asks for the next entry, or ends where finishArray() does.       *)
LEMMA LoopWalks ==
  ASSUME ReaderInv, NEW f, NEW header, NEW s, NEW b, Path(header, s, b),
         frames # <<>>, f = top, mode = "loop",
         Walks(f, header.val, s, b, mode, pos, value),
         Len(f.kids) \in Nat,
         objectLoop \/ denseLoop \/ sparseLoop
  PROVE  LET n == Len(f.kids)
             end == finishArray(header.val, s[n])
         IN \/ /\ n < header.val.length
               /\ Continue(skipPadding[pos], frames, "value")
               /\ Walks(f, header.val, s, b, "value", skipPadding[pos], value)
            \/ /\ n = header.val.length
               /\ end.ok => Return(Finished, end.next, callers)
<1> PICK n, a : n = Len(f.kids) /\ n \in Nat /\ a = header.val
  OBVIOUS
<1>1. /\ input \in Seq(Byte) /\ pos \in 0 .. size
      /\ a.length \in U32 /\ a.length \in Nat
      /\ FrameOf(f, a) /\ f.awaiting = "key" /\ pos = s[n]
      /\ n <= a.length
  <2>1. a.length \in U32
    BY DEF Path
  <2> QED BY <2>1, FramesKnown, NumberRange DEF Walks, FrameOf
<1> DEFINE tag == readTag[pos]
           count == readVarint[tag.next]
           length == readVarint[count.next]
           end == finishArray(a, s[n])
<1>2. /\ {EndDenseTag, EndSparseTag, HoleTag} \cap ElementTags = {}
      /\ {Int32Tag, Uint32Tag} \cap {EndSparseTag} = {}
  BY DEF ElementTags, ScalarTags, DenseTag, SparseTag, EndDenseTag,
         EndSparseTag, HoleTag, UndefinedTag, NullTag, TrueTag, FalseTag,
         Int32Tag, Uint32Tag, DoubleTag, OneByteTag, Utf8Tag, TwoByteTag
<1>3. \/ denseLoop /\ f.kind = "dense" /\ ~a.sparse
      \/ sparseLoop /\ f.kind = "sparse" /\ a.sparse
  BY <1>1 DEF FrameOf, denseLoop, sparseLoop, objectLoop, AtLoop
<1>4. CASE n < a.length
  <2>1. n \in 0 .. a.length - 1
    BY <1>1, <1>4
  <2>2. /\ s[n] \in 0 .. size /\ b[n] \in 0 .. size
        /\ indexed(a, n, s[n]) = Parsed(n, b[n])
        /\ readTag[b[n]].ok /\ readTag[b[n]].val \in ElementTags
    BY <2>1 DEF Path
  <2>3. /\ tag.ok
        /\ f.kind = "dense" => b[n] = s[n] /\ tag.val \in ElementTags
        /\ f.kind = "sparse" => tag.val \in ElementTags
    <3>1. CASE f.kind = "dense"
      <4>1. b[n] = s[n]
        BY <1>3, <2>2, <3>1 DEF indexed, Parsed
      <4> QED BY <1>1, <2>2, <3>1, <4>1
    <3>2. CASE f.kind = "sparse"
      <4>1. readScalar(s[n]).ok
        BY <1>3, <2>2, <3>2 DEF indexed, indexIs, Parsed, Malformed
      <4> QED BY <1>1, <3>2, <4>1, ElementTag
    <3> QED BY <1>3, <3>1, <3>2
  <2>4. Continue(skipPadding[pos], frames, "value")
    <3>1. CASE denseLoop
      <4>1. tag.val # HoleTag
        BY <1>1, <1>2, <1>3, <2>3
      <4> HIDE DEF tag
      <4>2. Len(top.kids) < top.length
        BY <1>1, <1>4 DEF FrameOf
      <4> QED BY <2>3, <3>1, <4>1, <4>2, Zenon DEF denseLoop, tag
    <3>2. CASE sparseLoop
      <4>1. tag.val # EndSparseTag
        BY <1>2, <1>3, <2>3
      <4> HIDE DEF tag
      <4> QED BY <2>3, <3>2, <4>1, Zenon DEF sparseLoop, tag
    <3> QED BY <1>3, <3>1, <3>2
  <2>5. Walks(f, a, s, b, "value", skipPadding[pos], value)
    <3>1. readTag[skipPadding[pos]] = readTag[pos]
      BY <1>1, TagBehindPadding
    <3> QED BY <1>1, <1>3, <1>4, <2>3, <3>1 DEF Walks, AsksKey
  <2> QED BY <1>4, <2>4, <2>5
<1>5. CASE n = a.length
  <2>1. SUFFICES ASSUME end.ok PROVE Return(Finished, end.next, callers)
    BY <1>5
  <2>2. /\ tag.ok
        /\ tag.val = (IF a.sparse THEN EndSparseTag ELSE EndDenseTag)
        /\ count.ok /\ count.val = (IF a.sparse THEN a.length ELSE 0)
        /\ length.ok /\ length.val = a.length
        /\ end.next = length.next
    BY <1>1, <2>1, Zenon DEF finishArray, Malformed, Parsed
  <2> HIDE DEF end, length, count, tag
  <2>3. Len(top.kids) = a.length /\ top.length = a.length
    BY <1>1, <1>5 DEF FrameOf
  <2>4. CASE denseLoop
    <3>1. ~(Len(top.kids) < top.length)
      BY <1>1, <2>3
    <3> QED BY <1>3, <2>2, <2>3, <2>4, <3>1, Zenon
            DEF denseLoop, sparseLoop, AtLoop, tag, count, length
  <2>5. CASE sparseLoop
    BY <1>3, <2>2, <2>3, <2>5, Zenon
    DEF denseLoop, sparseLoop, AtLoop, tag, count, length
  <2> QED BY <1>3, <2>4, <2>5
<1>6. n < a.length \/ n = a.length
  BY <1>1
<1> QED BY <1>4, <1>5, <1>6

(* The index in front of an element is the number of elements so far.      *)
LEMMA IndexWalks ==
  ASSUME ReaderInv, NEW f, NEW header, NEW s, NEW b, Path(header, s, b),
         mode = "value", Len(frames) \in 0 .. MaxDepth,
         Walks(f, header.val, s, b, mode, pos, value), Len(f.kids) \in Nat,
         AsksKey(f), readValue
  PROVE  \E v, q : /\ Return(v, q, frames)
                   /\ Walks(f, header.val, s, b, "returned", q, v)
<1> PICK n, a : n = Len(f.kids) /\ n \in Nat /\ a = header.val
  OBVIOUS
<1>1. FrameOf(f, a) /\ n < a.length /\ readTag[pos] = readTag[s[n]]
  BY DEF Walks
<1>2. indexed(a, n, s[n]) = Parsed(n, b[n])
  <2>1. a.length \in Nat
    BY NumberRange DEF Path
  <2>2. n \in 0 .. a.length - 1
    BY <1>1, <2>1
  <2> QED BY <2>2 DEF Path
<1> DEFINE r == readScalar(s[n])
<1>3. r.ok /\ IsInteger(r.val) /\ r.val.data[1] = n /\ r.next = b[n]
  <2>1. a.sparse
    BY <1>1 DEF FrameOf, AsksKey
  <2>2. indexIs(r, n) = Parsed(n, b[n])
    BY <1>2, <2>1, Zenon DEF indexed
  <2> HIDE DEF r
  <2> QED BY <2>2 DEF indexIs, Parsed, Malformed
<1>4. Return(r.val, r.next, frames)
  BY <1>1, <1>3, ScalarIsRead
<1> HIDE DEF r
<1>5. Walks(f, a, s, b, "returned", r.next, r.val)
  BY <1>1, <1>3 DEF Walks
<1> QED BY <1>4, <1>5

(* What the frame is left with by readSparseIndex().                       *)
LEMMA KeyWalks ==
  ASSUME ReaderInv, NEW f, NEW header, NEW s, NEW b, Path(header, s, b),
         frames # <<>>, f = top, mode = "returned",
         Walks(f, header.val, s, b, mode, pos, value),
         readPropertyKey \/ readSparseIndex
  PROVE  \E g : /\ Continue(pos, [frames EXCEPT ![Len(frames)] = g], "value")
                /\ g.kids = f.kids
                /\ Walks(g, header.val, s, b, "value", pos, value)
<1>1. /\ FrameOf(f, header.val) /\ Len(f.kids) < header.val.length
      /\ readSparseIndex /\ f.kind = "sparse" /\ f.awaiting = "key"
  BY DEF Walks, FrameOf, readPropertyKey, readSparseIndex, AtReturn
<1>2. /\ IsInteger(value) /\ value.data[1] = Len(f.kids)
      /\ pos = b[Len(f.kids)]
  BY <1>1 DEF Walks, AsksKey
<1> DEFINE g == [top EXCEPT !.awaiting = "value", !.key = <<>>]
<1>3. GotKey(<<>>)
  BY <1>1, <1>2, Zenon DEF readSparseIndex
<1>4. Continue(pos, [frames EXCEPT ![Len(frames)] = g], "value")
  <2>1. [frames EXCEPT ![Len(frames)].awaiting = "value",
                       ![Len(frames)].key = <<>>]
          = [frames EXCEPT ![Len(frames)] = g]
    BY DEF top
  <2> QED BY <1>3, <2>1 DEF GotKey
<1>5. /\ g.kind = f.kind /\ g.length = f.length /\ g.kids = f.kids
      /\ g.awaiting = "value"
  <2>1. f \in [kind : {f.kind}, length : {f.length},
               awaiting : {"key", "value"}, key : {f.key},
               keys : {f.keys}, kids : {f.kids}]
    <3>1. PICK L : Strata(L) /\ ReaderOver(L)
      BY DEF ReaderInv
    <3>2. FrameSound(L, top, Len(frames), mode \in {"value", "returned"})
      BY <3>1, AtTop
    <3> QED BY <3>2 DEF FrameSound, Frame
  <2> QED BY <2>1
<1> HIDE DEF g
<1>6. Walks(g, header.val, s, b, "value", pos, value)
  BY <1>1, <1>2, <1>5 DEF Walks, FrameOf, AsksKey
<1> QED BY <1>4, <1>5, <1>6

(* An element is appended, and the loop goes on behind it.                 *)
LEMMA PartWalks ==
  ASSUME ReaderInv, NEW f, NEW header, NEW s, NEW b, Path(header, s, b),
         frames # <<>>, f = top, mode = "returned", IsSeq(f.kids),
         Walks(f, header.val, s, b, mode, pos, value),
         readProperty \/ readElement
  PROVE  \E g : /\ Continue(pos, [frames EXCEPT ![Len(frames)] = g], "loop")
                /\ Walks(g, header.val, s, b, "loop", pos, value)
<1> PICK n, a : n = Len(f.kids) /\ a = header.val
  OBVIOUS
<1>1. /\ FrameOf(f, a) /\ n < a.length /\ n \in Nat
      /\ a.length \in U32 /\ a.length \in Nat
      /\ readProperty => f.kind = "sparse" /\ f.awaiting = "value"
      /\ readElement => f.kind = "dense" /\ f.awaiting = "key"
  <2>1. a.length \in U32
    BY DEF Path
  <2> QED BY <2>1, NumberRange, SequencesAre
          DEF Walks, FrameOf, readProperty, readElement, AtReturn
<1>2. ~AsksKey(f) /\ pos = s[n + 1]
  BY <1>1 DEF Walks, AsksKey
<1>3. n # U32Max
  BY <1>1, SMT, NumberRange DEF U32
<1>4. f \in [kind : {f.kind}, length : {f.length},
             awaiting : {"key", "value"}, key : {f.key},
             keys : {f.keys}, kids : {f.kids}]
  <2>1. PICK L : Strata(L) /\ ReaderOver(L)
    BY DEF ReaderInv
  <2>2. FrameSound(L, top, Len(frames), mode \in {"value", "returned"})
    BY <2>1, AtTop
  <2> QED BY <2>2 DEF FrameSound, Frame
<1>5. \E g : /\ Continue(pos, [frames EXCEPT ![Len(frames)] = g], "loop")
             /\ g.kind = f.kind /\ g.length = f.length
             /\ g.kids = Append(f.kids, value) /\ g.awaiting = "key"
  <2>1. CASE readProperty
    <3> DEFINE g == [top EXCEPT !.awaiting = "key",
                                !.kids = Append(top.kids, value),
                                !.keys = top.keys]
    <3>1. Continue(pos, [frames EXCEPT ![Len(frames)] = g], "loop")
      <4>1. Len(top.kids) # U32Max /\ top.kind # "object"
        BY <1>1, <1>3, <2>1
      <4> QED BY <2>1, <4>1, Zenon DEF readProperty
    <3>2. /\ g.kind = f.kind /\ g.length = f.length
          /\ g.kids = Append(f.kids, value) /\ g.awaiting = "key"
      BY <1>4
    <3> HIDE DEF g
    <3> QED BY <3>1, <3>2
  <2>2. CASE readElement
    <3> DEFINE g == [top EXCEPT !.kids = Append(top.kids, value)]
    <3>1. Continue(pos, [frames EXCEPT ![Len(frames)] = g], "loop")
      <4>1. [frames EXCEPT ![Len(frames)].kids = Append(@, value)]
              = [frames EXCEPT ![Len(frames)] = g]
        BY DEF top
      <4> QED BY <2>2, <4>1 DEF readElement
    <3>2. /\ g.kind = f.kind /\ g.length = f.length
          /\ g.kids = Append(f.kids, value) /\ g.awaiting = "key"
      BY <1>1, <1>4, <2>2
    <3> HIDE DEF g
    <3> QED BY <3>1, <3>2
  <2> QED BY <2>1, <2>2
<1>6. PICK g : /\ Continue(pos, [frames EXCEPT ![Len(frames)] = g], "loop")
               /\ g.kind = f.kind /\ g.length = f.length
               /\ g.kids = Append(f.kids, value) /\ g.awaiting = "key"
  BY <1>5
<1>7. Len(g.kids) = n + 1
  BY <1>6, SequenceAppended
<1>8. Walks(g, a, s, b, "loop", pos, value)
  BY <1>1, <1>2, <1>6, <1>7 DEF Walks, FrameOf
<1> QED BY <1>6, <1>8

HeaderOfRoot == readArrayHeader(headerEnd)

(* The innermost array, wherever it is, and what follows from its frame.   *)
Replaces(new, stack, f) ==
  /\ IsSeq(new) /\ Len(new) = Len(stack) /\ new[Len(stack)] = f
  /\ \A i \in 1 .. Len(stack) - 1 : new[i] = stack[i]

LEMMA RootOffset ==
  ASSUME ReaderInv, HeaderRead PROVE headerEnd \in 0 .. size
<1>1. input \in Seq(Byte) /\ size \in Nat
  BY FramesKnown
<1>2. 1 \in 0 .. size
  BY <1>1 DEF HeaderRead
<1> QED BY <1>1, <1>2, ReadVarintParses DEF headerEnd, Parses

LEMMA InnermostArray ==
  ASSUME ReaderInv, NEW s, NEW b, AllPassed(s, b), frames # <<>>,
         Goes(s, b, frames, mode, pos, value)
  PROVE  \E header, t, c :
           /\ Path(header, t, c)
           /\ Walks(top, header.val, t, c, mode, pos, value)
           /\ \A new, g, where, p, v :
                /\ Replaces(new, frames, g) /\ where # "failed"
                /\ Walks(g, header.val, t, c, where, p, v)
                => Goes(s, b, new, where, p, v)
           /\ Len(frames) = 1 => header = HeaderOfRoot /\ t = s /\ c = b
           /\ Len(frames) = 2 =>
                LET n == Len(frames[1].kids)
                IN  /\ header = readArrayHeader(b[n])
                    /\ RowPath(b[n], s[n + 1], t, c)
<1>1. /\ input \in Seq(Byte) /\ headerEnd \in 0 .. size
      /\ Len(frames) \in {1, 2}
  <2>1. Len(frames) \in 0 .. 2 /\ Len(frames) # 0
    BY FramesKnown DEF Goes
  <2> QED BY <2>1, RootOffset, FramesKnown DEF AllPassed
<1>2. Path(HeaderOfRoot, s, b)
  BY <1>1, RowsArePath DEF HeaderOfRoot
<1>3. CASE Len(frames) = 1
  <2>1. Walks(top, HeaderOfRoot.val, s, b, mode, pos, value)
    BY <1>3 DEF Goes, top, HeaderOfRoot
  <2>2. ASSUME NEW new, NEW g, NEW where, NEW p, NEW v,
               Replaces(new, frames, g), where # "failed",
               Walks(g, HeaderOfRoot.val, s, b, where, p, v)
        PROVE  Goes(s, b, new, where, p, v)
    BY <1>3, <2>2 DEF Goes, Replaces, HeaderOfRoot
  <2> QED BY <1>2, <1>3, <2>1, <2>2
<1>4. CASE Len(frames) = 2
  <2> PICK n, header : /\ n = Len(frames[1].kids)
                       /\ header = readArrayHeader(b[n])
    OBVIOUS
  <2>1. /\ InElement(frames[1], HeaderOfRoot.val)
        /\ WalksRow(s, b, frames[1], frames[2], mode, pos, value)
    BY <1>4 DEF Goes, HeaderOfRoot
  <2>2. PICK t, c :
          /\ RowPath(b[n], s[n + 1], t, c)
          /\ Walks(frames[2], header.val, t, c, mode, pos, value)
    BY <2>1, Zenon DEF WalksRow
  <2>3. b[n] \in 0 .. size
    <3>1. n \in Nat /\ n < HeaderOfRoot.val.length
      BY <1>4, <2>1, FramesKnown DEF InElement
    <3>2. HeaderOfRoot.val.length \in Nat
      BY <1>2, NumberRange DEF Path
    <3>3. n \in 0 .. HeaderOfRoot.val.length - 1
      BY <3>1, <3>2
    <3> QED BY <1>2, <3>3 DEF Path
  <2>4. Path(header, t, c)
    BY <1>1, <2>2, <2>3, RowIsPath
  <2>5. top = frames[2]
    BY <1>4 DEF top
  <2>6. ASSUME NEW new, NEW g, NEW where, NEW p, NEW v,
               Replaces(new, frames, g), where # "failed",
               Walks(g, header.val, t, c, where, p, v)
        PROVE  Goes(s, b, new, where, p, v)
    <3>1. new[1] = frames[1] /\ new[2] = g /\ Len(new) = 2
      BY <1>4, <2>6 DEF Replaces
    <3>2. WalksRow(s, b, new[1], new[2], where, p, v)
      BY <2>2, <2>6, <3>1 DEF WalksRow
    <3> QED BY <2>1, <2>6, <3>1, <3>2 DEF Goes, HeaderOfRoot
  <2> QED BY <1>4, <2>2, <2>4, <2>5, <2>6
<1> QED BY <1>1, <1>3, <1>4

LEMMA NewFrameWalks ==
  ASSUME NEW header, NEW s, NEW b, Path(header, s, b), NEW kind, NEW v,
         kind \in {"dense", "sparse"}, kind = "sparse" <=> header.val.sparse
  PROVE  Walks(NewFrame(kind, header.val.length), header.val, s, b, "loop",
               header.next, v)
<1> DEFINE f == NewFrame(kind, header.val.length)
<1>1. /\ f.kind = kind /\ f.length = header.val.length
      /\ f.awaiting = "key" /\ f.kids = <<>>
  BY DEF NewFrame
<1>2. Len(f.kids) = 0
  BY <1>1
<1>3. header.val.length \in Nat /\ s[0] = header.next
  BY NumberRange DEF Path
<1> HIDE DEF f
<1>4. Walks(f, header.val, s, b, "loop", header.next, v)
  BY <1>1, <1>2, <1>3 DEF Walks, FrameOf
<1> QED BY <1>4 DEF f

-----------------------------------------------------------------------------
LEMMA HeaderGoes ==
  ASSUME ReaderInv, NEW s, NEW b, AllPassed(s, b), readHeader
  PROVE  Goes(s, b, frames', mode', pos', value')
<1>1. mode = "header" /\ Len(frames) = 0
  BY FramesKnown DEF readHeader
<1>2. Continue(headerEnd, frames, "value")
  <2>1. readByte[0] = Parsed(255, 1)
    <3>1. size \in Nat /\ at(0) = 255 /\ size >= 2
      BY FramesKnown DEF AllPassed, HeaderRead
    <3> QED BY <3>1 DEF readByte
  <2>2. readByte[0].val = 255 /\ readByte[0].next = 1
    BY <2>1 DEF Parsed
  <2> QED BY <2>2, Zenon DEF readHeader, AllPassed, HeaderRead, headerEnd
<1> QED BY <1>1, <1>2 DEF Continue, Goes

LEMMA FinishGoes ==
  ASSUME ReaderInv, NEW s, NEW b, Goes(s, b, frames, mode, pos, value), finish
  PROVE  Goes(s, b, frames', mode', pos', value')
<1>1. mode = "returned" /\ Len(frames) = 0
  BY DEF finish
<1>2. Continue(size, frames, "done")
  BY <1>1 DEF finish, Goes
<1> QED BY <1>1, <1>2 DEF Continue, Goes

(* The value at the root is the array of rows.                             *)
LEMMA RootGoes ==
  ASSUME ReaderInv, NEW s, NEW b, AllPassed(s, b), Len(frames) = 0,
         Goes(s, b, frames, mode, pos, value), mode = "value", readValue
  PROVE  Goes(s, b, frames', mode', pos', value')
<1>1. readTag[pos] = readTag[headerEnd] /\ HeaderOfRoot.ok
  BY DEF Goes, AllPassed, HeaderOfRoot
<1>2. Len(frames) \in 0 .. MaxDepth
  BY ReaderAssumption
<1>3. PICK kind \in {"dense", "sparse"} :
        /\ kind = "sparse" <=> HeaderOfRoot.val.sparse
        /\ Continue(HeaderOfRoot.next,
                    Append(frames, NewFrame(kind, HeaderOfRoot.val.length)),
                    "loop")
  BY <1>1, <1>2, ArrayIsOpened DEF HeaderOfRoot
<1>4. Path(HeaderOfRoot, s, b)
  BY RootOffset, RowsArePath, FramesKnown DEF AllPassed, HeaderOfRoot
<1> PICK f : f = NewFrame(kind, HeaderOfRoot.val.length)
  OBVIOUS
<1>5. Walks(f, HeaderOfRoot.val, s, b, "loop", HeaderOfRoot.next, value)
  BY <1>3, <1>4, NewFrameWalks
<1>6. Len(Append(frames, f)) = 1 /\ Append(frames, f)[1] = f
  <2>1. IsSeq(frames)
    BY FramesKnown
  <2>2. Len(Append(frames, f)) = 0 + 1 /\ Append(frames, f)[0 + 1] = f
    BY <2>1, SequenceAppended
  <2> QED BY <2>2
<1>7. /\ frames' = Append(frames, f) /\ mode' = "loop"
      /\ pos' = HeaderOfRoot.next /\ value' = value
  BY <1>3 DEF Continue
<1> QED BY <1>5, <1>6, <1>7 DEF Goes, HeaderOfRoot

(* A value inside: an index, a row, or a cell.                             *)
LEMMA ValueGoes ==
  ASSUME MaxDepth >= 2, ReaderInv, NEW s, NEW b, AllPassed(s, b),
         frames # <<>>, Goes(s, b, frames, mode, pos, value),
         mode = "value", readValue
  PROVE  Goes(s, b, frames', mode', pos', value')
<1>1. PICK header, t, c :
        /\ Path(header, t, c)
        /\ Walks(top, header.val, t, c, mode, pos, value)
        /\ \A new, g, where, p, v :
             /\ Replaces(new, frames, g) /\ where # "failed"
             /\ Walks(g, header.val, t, c, where, p, v)
             => Goes(s, b, new, where, p, v)
        /\ Len(frames) = 1 => header = HeaderOfRoot /\ t = s /\ c = b
        /\ Len(frames) = 2 =>
             LET n == Len(frames[1].kids)
             IN  /\ header = readArrayHeader(b[n])
                 /\ RowPath(b[n], s[n + 1], t, c)
  BY InnermostArray
<1>2. /\ Len(frames) \in {1, 2} /\ Len(frames) \in 0 .. MaxDepth
      /\ IsSeq(frames) /\ Len(top.kids) \in Nat /\ top = frames[Len(frames)]
  <2>1. Len(frames) \in {1, 2}
    BY FramesKnown DEF Goes
  <2> QED BY <2>1, FramesKnown, ReaderAssumption DEF top
<1>3. Replaces(frames, frames, top)
  BY <1>2 DEF Replaces
<1>4. CASE AsksKey(top)
  <2>1. PICK v, q : /\ Return(v, q, frames)
                    /\ Walks(top, header.val, t, c, "returned", q, v)
    BY <1>1, <1>2, <1>4, IndexWalks
  <2>2. /\ frames' = frames /\ mode' = "returned" /\ pos' = q /\ value' = v
    BY <2>1 DEF Return
  <2> QED BY <1>1, <1>3, <2>1, <2>2
<1> PICK n : n = Len(top.kids)
  OBVIOUS
<1>5. CASE ~AsksKey(top)
  <2>1. /\ FrameOf(top, header.val) /\ readTag[pos] = readTag[c[n]]
        /\ n \in 0 .. header.val.length - 1
    <3>1. n < header.val.length /\ header.val.length \in Nat
      BY <1>1, NumberRange DEF Walks, Path
    <3> QED BY <1>1, <1>2, <1>5, <3>1 DEF Walks
  <2>2. CASE Len(frames) = 1
    <3>1. RowPassed(b[n], s[n + 1]) /\ b[n] \in 0 .. size
      BY <1>1, <2>1, <2>2 DEF AllPassed, RowsPassed, HeaderOfRoot
    <3>2. PICK T, C : RowPath(b[n], s[n + 1], T, C)
      BY <3>1 DEF RowPassed
    <3> PICK row1 : row1 = readArrayHeader(b[n])
      OBVIOUS
    <3>3. row1.ok /\ Path(row1, T, C)
      BY <3>1, <3>2, RowIsPath, FramesKnown DEF RowPath
    <3>4. PICK kind \in {"dense", "sparse"} :
            /\ kind = "sparse" <=> row1.val.sparse
            /\ Continue(row1.next,
                        Append(frames, NewFrame(kind, row1.val.length)), "loop")
      BY <1>1, <1>2, <2>1, <2>2, <3>3, ArrayIsOpened
    <3> PICK f : f = NewFrame(kind, row1.val.length)
      OBVIOUS
    <3>5. Walks(f, row1.val, T, C, "loop", row1.next, value)
      BY <3>3, <3>4, NewFrameWalks
    <3>6. /\ frames' = Append(frames, f) /\ mode' = "loop"
          /\ pos' = row1.next /\ value' = value
      BY <3>4 DEF Continue
    <3>7. /\ Len(frames') = 2 /\ frames'[2] = f /\ frames'[1] = top
      <4> PICK m : m = Len(frames)
        OBVIOUS
      <4>1. /\ Len(Append(frames, f)) = m + 1 /\ Append(frames, f)[m + 1] = f
            /\ \A i \in 1 .. m : Append(frames, f)[i] = frames[i]
        BY <1>2, SequenceAppended
      <4>2. m = 1 /\ top = frames[1]
        BY <1>2, <2>2
      <4>3. Len(Append(frames, f)) = 2 /\ Append(frames, f)[2] = f
        BY ONLY <4>1, <4>2
      <4>4. Append(frames, f)[1] = frames[1]
        BY ONLY <4>1, <4>2
      <4> QED BY ONLY <3>6, <4>2, <4>3, <4>4
    <3>8. InElement(top, HeaderOfRoot.val)
      <4>1. n < header.val.length
        BY <1>1 DEF Walks
      <4> QED BY <1>1, <1>5, <2>1, <2>2, <4>1 DEF InElement
    <3>9. WalksRow(s, b, top, f, "loop", row1.next, value)
      BY <3>2, <3>5 DEF WalksRow
    <3> QED BY <3>6, <3>7, <3>8, <3>9 DEF Goes, HeaderOfRoot
  <2>3. CASE Len(frames) = 2
    <3>1. readScalar(c[n]).ok /\ readScalar(c[n]).next = t[n + 1]
      BY <1>1, <2>1, <2>3 DEF RowPath, CellsPassed
    <3> PICK v, q : v = readScalar(c[n]).val /\ q = readScalar(c[n]).next
      OBVIOUS
    <3>2. Return(v, q, frames)
      BY <1>2, <2>1, <3>1, ScalarIsRead
    <3>3. Walks(top, header.val, t, c, "returned", q, v)
      BY <1>1, <1>5, <2>1, <3>1 DEF Walks
    <3>4. frames' = frames /\ mode' = "returned" /\ pos' = q /\ value' = v
      BY <3>2 DEF Return
    <3> QED BY <1>1, <1>3, <3>3, <3>4
  <2> QED BY <1>2, <2>2, <2>3
<1> QED BY <1>4, <1>5

LEMMA LoopGoes ==
  ASSUME ReaderInv, NEW s, NEW b, AllPassed(s, b),
         frames # <<>>, Goes(s, b, frames, mode, pos, value),
         mode = "loop", objectLoop \/ denseLoop \/ sparseLoop
  PROVE  Goes(s, b, frames', mode', pos', value')
<1>1. PICK header, t, c :
        /\ Path(header, t, c)
        /\ Walks(top, header.val, t, c, mode, pos, value)
        /\ \A new, g, where, p, v :
             /\ Replaces(new, frames, g) /\ where # "failed"
             /\ Walks(g, header.val, t, c, where, p, v)
             => Goes(s, b, new, where, p, v)
        /\ Len(frames) = 1 => header = HeaderOfRoot /\ t = s /\ c = b
        /\ Len(frames) = 2 =>
             LET n == Len(frames[1].kids)
             IN  /\ header = readArrayHeader(b[n])
                 /\ RowPath(b[n], s[n + 1], t, c)
  BY InnermostArray
<1>2. /\ Len(frames) \in {1, 2} /\ IsSeq(frames)
      /\ Len(top.kids) \in Nat /\ top = frames[Len(frames)]
  <2>1. Len(frames) \in {1, 2}
    BY FramesKnown DEF Goes
  <2> QED BY <2>1, FramesKnown DEF top
<1> PICK n : n = Len(top.kids)
  OBVIOUS
<1>3. \/ /\ Continue(skipPadding[pos], frames, "value")
         /\ Walks(top, header.val, t, c, "value", skipPadding[pos], value)
      \/ /\ n = header.val.length
         /\ finishArray(header.val, t[n]).ok =>
              Return(Finished, finishArray(header.val, t[n]).next, callers)
  BY <1>1, <1>2, LoopWalks
<1>4. CASE /\ Continue(skipPadding[pos], frames, "value")
           /\ Walks(top, header.val, t, c, "value", skipPadding[pos], value)
  <2>1. Replaces(frames, frames, top)
    BY <1>2 DEF Replaces
  <2>2. /\ frames' = frames /\ mode' = "value" /\ pos' = skipPadding[pos]
        /\ value' = value
    BY <1>4 DEF Continue
  <2> QED BY <1>1, <1>4, <2>1, <2>2
<1>5. CASE /\ n = header.val.length
           /\ finishArray(header.val, t[n]).ok =>
                Return(Finished, finishArray(header.val, t[n]).next, callers)
  <2>1. Len(callers) = Len(frames) - 1
        /\ \A i \in 1 .. Len(callers) : callers[i] = frames[i]
    BY <1>2, SequenceShortened DEF callers
  <2>2. CASE Len(frames) = 1
    <3>1. PICK q : /\ finishArray(header.val, t[n]) = Parsed(n, q)
                   /\ skipPadding[q] = size
      BY <1>1, <1>5, <2>2 DEF AllPassed, HeaderOfRoot
    <3>2. Return(Finished, q, callers) /\ Len(callers) = 0
      BY <1>5, <2>1, <2>2, <3>1 DEF Parsed
    <3>3. Len(frames') = 0 /\ mode' = "returned" /\ pos' = q
      BY <3>2 DEF Return
    <3> QED BY <3>1, <3>3 DEF Goes
  <2>3. CASE Len(frames) = 2
    <3> PICK m : m = Len(frames[1].kids)
      OBVIOUS
    <3>1. finishArray(header.val, t[n]) = Parsed(n, s[m + 1])
      BY <1>1, <1>5, <2>3 DEF RowPath
    <3>2. Return(Finished, s[m + 1], callers)
      BY <1>5, <3>1 DEF Parsed
    <3>3. InElement(frames[1], HeaderOfRoot.val)
      BY <2>3 DEF Goes, HeaderOfRoot
    <3>4. Walks(frames[1], HeaderOfRoot.val, s, b, "returned", s[m + 1],
                Finished)
      BY <3>3 DEF Walks, InElement
    <3>5. /\ Len(frames') = 1 /\ frames'[1] = frames[1]
          /\ mode' = "returned" /\ pos' = s[m + 1] /\ value' = Finished
      BY <2>1, <2>3, <3>2 DEF Return
    <3> QED BY <3>4, <3>5 DEF Goes, HeaderOfRoot
  <2> QED BY <1>2, <2>2, <2>3
<1> QED BY <1>3, <1>4, <1>5

LEMMA PartGoes ==
  ASSUME ReaderInv, NEW s, NEW b, AllPassed(s, b),
         frames # <<>>, Goes(s, b, frames, mode, pos, value), mode = "returned",
         \/ readPropertyKey \/ readSparseIndex
         \/ readProperty \/ readElement
  PROVE  Goes(s, b, frames', mode', pos', value')
<1>1. PICK header, t, c :
        /\ Path(header, t, c)
        /\ Walks(top, header.val, t, c, mode, pos, value)
        /\ \A new, g, where, p, v :
             /\ Replaces(new, frames, g) /\ where # "failed"
             /\ Walks(g, header.val, t, c, where, p, v)
             => Goes(s, b, new, where, p, v)
  BY InnermostArray
<1>2. IsSeq(frames) /\ IsSeq(top.kids)
  <2>1. IsSeq(frames) /\ Len(frames) \in 1 .. Len(frames)
    BY FramesKnown
  <2> QED BY <2>1, FramesKnown DEF top
<1>3. \E g, where : /\ where \in {"value", "loop"}
                    /\ Continue(pos, [frames EXCEPT ![Len(frames)] = g], where)
                    /\ Walks(g, header.val, t, c, where, pos, value)
  <2>1. CASE readPropertyKey \/ readSparseIndex
    <3>1. PICK g : /\ Continue(pos, [frames EXCEPT ![Len(frames)] = g], "value")
                   /\ Walks(g, header.val, t, c, "value", pos, value)
      BY <1>1, <2>1, KeyWalks
    <3> QED BY <3>1
  <2>2. CASE readProperty \/ readElement
    <3>1. PICK g : /\ Continue(pos, [frames EXCEPT ![Len(frames)] = g], "loop")
                   /\ Walks(g, header.val, t, c, "loop", pos, value)
      BY <1>1, <1>2, <2>2, PartWalks
    <3> QED BY <3>1
  <2> QED BY <2>1, <2>2
<1>4. PICK g, where :
        /\ where \in {"value", "loop"}
        /\ Continue(pos, [frames EXCEPT ![Len(frames)] = g], where)
        /\ Walks(g, header.val, t, c, where, pos, value)
  BY <1>3
<1> DEFINE new == [frames EXCEPT ![Len(frames)] = g]
<1>5. Replaces(new, frames, g)
  <2>1. /\ IsSeq(new) /\ Len(new) = Len(frames) /\ new[Len(frames)] = g
        /\ \A i \in 1 .. Len(frames) - 1 : new[i] = frames[i]
    BY ONLY <1>2, frames # <<>>, LastReplaced
  <2> HIDE DEF new
  <2> QED BY <2>1 DEF Replaces
<1>6. frames' = new /\ mode' = where /\ pos' = pos /\ value' = value
  BY <1>4 DEF Continue
<1> HIDE DEF new
<1>7. where # "failed"
  BY <1>4
<1> QED BY <1>1, <1>4, <1>5, <1>6, <1>7

LEMMA StepGoes ==
  ASSUME MaxDepth >= 2, ReaderInv, NEW s, NEW b, AllPassed(s, b),
         Goes(s, b, frames, mode, pos, value), Step
  PROVE  Goes(s, b, frames', mode', pos', value')
<1>1. CASE readHeader
  BY <1>1, HeaderGoes
<1>2. CASE readValue
  <2>1. mode = "value"
    BY <1>2, Zenon DEF readValue, tooDeepOrEnded, skipCountMarker, openObject,
                       openArray, readLeafValue, TagIn
  <2>2. frames = <<>> => Len(frames) = 0
    BY FramesKnown
  <2> QED BY <1>2, <2>1, <2>2, RootGoes, ValueGoes
<1>3. CASE objectLoop \/ denseLoop \/ sparseLoop
  <2>1. mode = "loop" /\ frames # <<>>
    BY <1>3, FramesKnown DEF objectLoop, denseLoop, sparseLoop, AtLoop
  <2> QED BY <1>3, <2>1, LoopGoes
<1>4. CASE readPropertyKey \/ readSparseIndex \/ readProperty \/ readElement
  <2>1. mode = "returned" /\ frames # <<>>
    BY <1>4 DEF readPropertyKey, readSparseIndex, readProperty, readElement,
                AtReturn
  <2> QED BY <1>4, <2>1, PartGoes
<1>5. CASE finish
  BY <1>5, FinishGoes
<1> QED BY <1>1, <1>2, <1>3, <1>4, <1>5 DEF Step

(* The bytes stay, and so does what the stream has accepted of them.       *)
LEMMA SamePassed ==
  ASSUME input' = input, input \in Seq(Byte)
  PROVE  /\ \A h, m, s, b : CellsPassed(h, m, s, b)' <=> CellsPassed(h, m, s, b)
         /\ \A h, m, s, b : RowsPassed(h, m, s, b)' <=> RowsPassed(h, m, s, b)
         /\ \A p, q, s, b : RowPath(p, q, s, b)' <=> RowPath(p, q, s, b)
         /\ \A s, b : AllPassed(s, b)' <=> AllPassed(s, b)
         /\ HeaderRead' <=> HeaderRead
         /\ headerEnd' = headerEnd
<1>1. /\ size' = size /\ skipPadding' = skipPadding /\ readVarint' = readVarint
      /\ \A p : readScalar(p)' = readScalar(p)
      /\ \A p : readArrayHeader(p)' = readArrayHeader(p)
      /\ \A a, n, p : indexed(a, n, p)' = indexed(a, n, p)
      /\ \A a, p : finishArray(a, p)' = finishArray(a, p)
  BY SameBytes, SameCells
<1>2. \A h, m, s, b : CellsPassed(h, m, s, b)' <=> CellsPassed(h, m, s, b)
  BY <1>1 DEF CellsPassed, Parsed
<1>3. \A p, q, s, b : RowPath(p, q, s, b)' <=> RowPath(p, q, s, b)
  <2> SUFFICES ASSUME NEW p, NEW q, NEW s, NEW b
               PROVE  RowPath(p, q, s, b)' <=> RowPath(p, q, s, b)
    OBVIOUS
  <2> DEFINE h == readArrayHeader(p)
  <2>1. h' = h
    BY <1>1
  <2>2. RowPath(p, q, s, b) <=>
          /\ h.ok /\ CellsPassed(h, h.val.length, s, b)
          /\ finishArray(h.val, s[h.val.length]) = Parsed(h.val.length, q)
    BY Zenon DEF RowPath
  <2>3. RowPath(p, q, s, b)' <=>
          /\ h'.ok /\ CellsPassed(h, h.val.length, s, b)'
          /\ finishArray(h.val, s[h.val.length])' = Parsed(h'.val.length, q)
    BY Zenon DEF RowPath, Parsed
  <2>4. CellsPassed(h, h.val.length, s, b)'
          <=> CellsPassed(h, h.val.length, s, b)
    BY <1>1, <2>1 DEF CellsPassed, Parsed
  <2>5. finishArray(h.val, s[h.val.length])'
          = finishArray(h.val, s[h.val.length])
    BY <1>1, <2>1 DEF finishArray, Parsed, Malformed
  <2> HIDE DEF h
  <2> QED BY <2>1, <2>2, <2>3, <2>4, <2>5
<1>4. \A h, m, s, b : RowsPassed(h, m, s, b)' <=> RowsPassed(h, m, s, b)
  <2>1. \A p, q : RowPassed(p, q)' <=> RowPassed(p, q)
    BY <1>3, Zenon DEF RowPassed
  <2> QED BY <1>1, <2>1 DEF RowsPassed, Parsed
<1>5. headerEnd' = headerEnd /\ (HeaderRead' <=> HeaderRead)
  BY <1>1 DEF headerEnd, HeaderRead, at
<1>6. \A s, b : AllPassed(s, b)' <=> AllPassed(s, b)
  <2> SUFFICES ASSUME NEW s, NEW b
               PROVE  AllPassed(s, b)' <=> AllPassed(s, b)
    OBVIOUS
  <2> DEFINE h == readArrayHeader(headerEnd)
             End(q) == /\ finishArray(h.val, s[h.val.length])
                            = Parsed(h.val.length, q)
                       /\ skipPadding[q] = size
  <2>1. h' = h
    BY <1>1, <1>5
  <2>2. \A q : End(q)' <=> End(q)
    <3> PICK g, e : g = h.val /\ e = s[h.val.length]
      OBVIOUS
    <3>1. finishArray(h.val, s[h.val.length])' = finishArray(g, e)'
      BY <2>1
    <3>2. finishArray(h.val, s[h.val.length])'
            = finishArray(h.val, s[h.val.length])
      BY <1>1, <3>1
    <3>3. \A q : Parsed(h.val.length, q)' = Parsed(h.val.length, q)
      BY <2>1 DEF Parsed
    <3> HIDE DEF h
    <3> QED BY <1>1, <3>2, <3>3
  <2>3. AllPassed(s, b) <=>
          /\ HeaderRead /\ h.ok /\ RowsPassed(h, h.val.length, s, b)
          /\ \E q : End(q)
    BY Zenon DEF AllPassed
  <2>4. AllPassed(s, b)' <=>
          /\ HeaderRead' /\ h'.ok /\ RowsPassed(h, h.val.length, s, b)'
          /\ \E q : End(q)'
    BY Zenon DEF AllPassed
  <2>5. RowsPassed(h, h.val.length, s, b)'
          <=> RowsPassed(h, h.val.length, s, b)
    <3> PICK g, m : g = h /\ m = h.val.length
      OBVIOUS
    <3>2. RowsPassed(h, h.val.length, s, b)' <=> RowsPassed(g, m, s, b)'
      BY <2>1
    <3>3. RowsPassed(g, m, s, b)' <=> RowsPassed(g, m, s, b)
      BY <1>4
    <3> QED BY <3>2, <3>3
  <2> HIDE DEF End, h
  <2> QED BY <1>5, <2>1, <2>2, <2>3, <2>4, <2>5, Zenon
<1> QED BY <1>2, <1>3, <1>4, <1>5, <1>6

LEMMA SameGoing ==
  ASSUME input' = input, input \in Seq(Byte), NEW s, NEW b,
         Goes(s, b, frames', mode', pos', value')
  PROVE  Goes(s, b, frames, mode, pos, value)'
<1>1. /\ readTag' = readTag /\ skipPadding' = skipPadding /\ size' = size
      /\ headerEnd' = headerEnd
      /\ \A p : readArrayHeader(p)' = readArrayHeader(p)
      /\ \A p, q, t, c : RowPath(p, q, t, c)' <=> RowPath(p, q, t, c)
  BY SameBytes, SameCells, SamePassed
<1>2. \A f, a, t, c, where, p, v :
        Walks(f, a, t, c, where, p, v)' <=> Walks(f, a, t, c, where, p, v)
  <2>1. \A f, a : FrameOf(f, a)' <=> FrameOf(f, a)
    BY Zenon DEF FrameOf
  <2>2. \A f : AsksKey(f)' <=> AsksKey(f)
    BY Zenon DEF AsksKey
  <2>3. \A v : IsInteger(v)' <=> IsInteger(v)
    BY Zenon DEF IsInteger
  <2> SUFFICES ASSUME NEW f, NEW a, NEW t, NEW c, NEW where, NEW p, NEW v
               PROVE  Walks(f, a, t, c, where, p, v)'
                        <=> Walks(f, a, t, c, where, p, v)
    OBVIOUS
  <2>4. /\ FrameOf(f, a)' <=> FrameOf(f, a)
        /\ AsksKey(f)' <=> AsksKey(f)
        /\ IsInteger(v)' <=> IsInteger(v)
    BY <2>1, <2>2, <2>3
  <2> QED BY <1>1, <2>4 DEF Walks
<1>3. \A f, g, where, p, v : WalksRow(s, b, f, g, where, p, v)'
                               <=> WalksRow(s, b, f, g, where, p, v)
  <2> SUFFICES ASSUME NEW f, NEW g, NEW where, NEW p, NEW v
               PROVE  WalksRow(s, b, f, g, where, p, v)'
                        <=> WalksRow(s, b, f, g, where, p, v)
    OBVIOUS
  <2> PICK o, e : o = b[Len(f.kids)] /\ e = s[Len(f.kids) + 1]
    OBVIOUS
  <2>1. WalksRow(s, b, f, g, where, p, v) <=>
          \E t, c : /\ RowPath(o, e, t, c)
                    /\ Walks(g, readArrayHeader(o).val, t, c, where, p, v)
    BY Zenon DEF WalksRow
  <2>2. WalksRow(s, b, f, g, where, p, v)' <=>
          \E t, c : /\ RowPath(o, e, t, c)'
                    /\ Walks(g, readArrayHeader(o).val, t, c, where, p, v)'
    BY Zenon DEF WalksRow
  <2>3. \A t, c : Walks(g, readArrayHeader(o).val, t, c, where, p, v)'
                    <=> Walks(g, readArrayHeader(o).val, t, c, where, p, v)
    <3> PICK a : a = readArrayHeader(o).val
      OBVIOUS
    <3>1. readArrayHeader(o)'.val = a
      BY <1>1
    <3>2. \A t, c : Walks(g, readArrayHeader(o).val, t, c, where, p, v)'
                      <=> Walks(g, a, t, c, where, p, v)'
      BY <3>1
    <3> QED BY <1>2, <3>2
  <2> QED BY <1>1, <2>1, <2>2, <2>3, Zenon
<1>4. \A f : Walks(f, readArrayHeader(headerEnd).val, s, b, mode, pos, value)'
               <=> Walks(f, readArrayHeader(headerEnd).val, s, b,
                         mode', pos', value')
  <2> PICK a : a = readArrayHeader(headerEnd).val
    OBVIOUS
  <2>1. readArrayHeader(headerEnd)'.val = a
    BY <1>1
  <2>2. \A f : Walks(f, readArrayHeader(headerEnd).val, s, b, mode, pos, value)'
                 <=> Walks(f, a, s, b, mode, pos, value)'
    BY <2>1
  <2>3. \A f : Walks(f, a, s, b, mode, pos, value)'
                 <=> Walks(f, a, s, b, mode', pos', value')
    BY <1>2
  <2> QED BY <2>2, <2>3
<1>5. \A f : InElement(f, readArrayHeader(headerEnd).val)'
               <=> InElement(f, readArrayHeader(headerEnd).val)
  BY <1>1, Zenon DEF InElement, FrameOf, AsksKey
<1>6. WalksRow(s, b, frames[1], frames[2], mode, pos, value)'
        <=> WalksRow(s, b, frames'[1], frames'[2], mode', pos', value')
  BY <1>3, Zenon DEF WalksRow
<1> QED BY <1>1, <1>4, <1>5, <1>6 DEF Goes

(* What the stream has accepted so far, by where it is.                    *)
RootBegun(outer, m, s, b) ==
  /\ HeaderRead /\ HeaderOfRoot.ok /\ HeaderOfRoot.val = outer
  /\ RowsPassed(HeaderOfRoot, m, s, b)

RowBegun(outer, inner, count, s, b, t, c) ==
  LET m == count.rows
      header == readArrayHeader(b[m])
  IN /\ RootBegun(outer, m, s, b)
     /\ b[m] \in 0 .. size
     /\ indexed(outer, m, s[m]) = Parsed(m, b[m])
     /\ header.ok /\ header.val = inner
     /\ CellsPassed(header, count.cells, t, c)

Passes(outer, inner, count, p, where) ==
  /\ where = "rows" =>
       \E s, b : RootBegun(outer, count.rows, s, b) /\ p = s[count.rows]
  /\ where = "cells" =>
       \E s, b, t, c : RowBegun(outer, inner, count, s, b, t, c)
                         /\ p = t[count.cells]
  /\ where = "done" => \E s, b : AllPassed(s, b)

LEMMA SamePasses ==
  ASSUME input' = input, input \in Seq(Byte),
         NEW outer, NEW inner, NEW count, NEW p, NEW where
  PROVE  Passes(outer, inner, count, p, where)'
           <=> Passes(outer, inner, count, p, where)
<1>1. /\ size' = size /\ headerEnd' = headerEnd
      /\ \A q : readArrayHeader(q)' = readArrayHeader(q)
      /\ \A a, n, q : indexed(a, n, q)' = indexed(a, n, q)
      /\ \A h, m, s, b : CellsPassed(h, m, s, b)' <=> CellsPassed(h, m, s, b)
      /\ \A h, m, s, b : RowsPassed(h, m, s, b)' <=> RowsPassed(h, m, s, b)
      /\ \A s, b : AllPassed(s, b)' <=> AllPassed(s, b)
      /\ HeaderRead' <=> HeaderRead
  BY SameBytes, SameCells, SamePassed
<1>2. HeaderOfRoot' = HeaderOfRoot
  BY <1>1 DEF HeaderOfRoot
<1>3. \A m, s, b : RootBegun(outer, m, s, b)' <=> RootBegun(outer, m, s, b)
  <2> PICK g : g = HeaderOfRoot
    OBVIOUS
  <2>1. \A m, s, b : RowsPassed(HeaderOfRoot, m, s, b)'
                       <=> RowsPassed(g, m, s, b)'
    BY <1>2
  <2>2. \A m, s, b : RowsPassed(HeaderOfRoot, m, s, b)'
                       <=> RowsPassed(HeaderOfRoot, m, s, b)
    BY <1>1, <2>1
  <2> QED BY <1>1, <1>2, <2>2, Zenon DEF RootBegun
<1>4. \A s, b, t, c : RowBegun(outer, inner, count, s, b, t, c)'
                        <=> RowBegun(outer, inner, count, s, b, t, c)
  <2> SUFFICES ASSUME NEW s, NEW b, NEW t, NEW c
               PROVE  RowBegun(outer, inner, count, s, b, t, c)'
                        <=> RowBegun(outer, inner, count, s, b, t, c)
    OBVIOUS
  <2> PICK m, o, k : m = count.rows /\ o = b[m] /\ k = count.cells
    OBVIOUS
  <2> PICK g : g = readArrayHeader(o)
    OBVIOUS
  <2>1. RowBegun(outer, inner, count, s, b, t, c) <=>
          /\ RootBegun(outer, m, s, b) /\ o \in 0 .. size
          /\ indexed(outer, m, s[m]) = Parsed(m, o)
          /\ g.ok /\ g.val = inner /\ CellsPassed(g, k, t, c)
    BY DEF RowBegun
  <2>2. readArrayHeader(o)' = g
    BY <1>1
  <2>3. RowBegun(outer, inner, count, s, b, t, c)' <=>
          /\ RootBegun(outer, m, s, b)' /\ (o \in 0 .. size)'
          /\ indexed(outer, m, s[m])' = Parsed(m, o)
          /\ g.ok /\ g.val = inner /\ CellsPassed(g, k, t, c)'
    BY <2>2 DEF RowBegun, Parsed
  <2>4. RootBegun(outer, m, s, b)' <=> RootBegun(outer, m, s, b)
    BY <1>3
  <2> QED BY <1>1, <2>1, <2>3, <2>4
<1>5. (\E s, b : RootBegun(outer, count.rows, s, b) /\ p = s[count.rows])'
        <=> \E s, b : RootBegun(outer, count.rows, s, b) /\ p = s[count.rows]
  BY <1>3, Zenon
<1>6. (\E s, b, t, c : RowBegun(outer, inner, count, s, b, t, c)
                         /\ p = t[count.cells])'
        <=> \E s, b, t, c : RowBegun(outer, inner, count, s, b, t, c)
                              /\ p = t[count.cells]
  BY <1>4, Zenon
<1>7. (\E s, b : AllPassed(s, b))' <=> \E s, b : AllPassed(s, b)
  BY <1>1, Zenon
<1> QED BY <1>5, <1>6, <1>7, Zenon DEF Passes

-----------------------------------------------------------------------------
LEMMA ParsedIndex ==
  ASSUME NEW a, NEW n, NEW p, indexed(a, n, p).ok
  PROVE  indexed(a, n, p) = Parsed(n, indexed(a, n, p).next)
BY DEF indexed, indexIs, Parsed, Malformed

LEMMA ParsedEnd ==
  ASSUME NEW a, NEW p, finishArray(a, p).ok
  PROVE  finishArray(a, p) = Parsed(a.length, finishArray(a, p).next)
<1>1. \E q : finishArray(a, p) \in {Malformed, Parsed(a.length, q)}
  BY Zenon DEF finishArray
<1> QED BY <1>1 DEF Parsed, Malformed

(* The entries passed so far, and one more.                                *)
Longer(s, m, p) == [n \in 0 .. m |-> IF n = m THEN p ELSE s[n]]

LEMMA LongerIs ==
  ASSUME NEW m \in Nat, NEW s, NEW p
  PROVE  /\ Longer(s, m, p)[m] = p
         /\ \A n \in 0 .. m - 1 : Longer(s, m, p)[n] = s[n]
BY DEF Longer

LEMMA RowsHeaderPasses ==
  ASSUME RowsShape, rowsHeader
  PROVE  Passes(root', row', done', rpos', rmode')
<1> DEFINE h == readArrayHeader(headerEnd)
<1>1. \/ Throw
      \/ /\ HeaderRead /\ h.ok
         /\ rmode' = "rows" /\ root' = h.val /\ rpos' = h.next
         /\ UNCHANGED <<minimum_columns, row, done, width, cells>>
  <2> DEFINE sound == /\ size >= 2 /\ at(0) = 255 /\ readVarint[1].ok
                      /\ readVarint[1].val = FormatVersion /\ h.ok
             begin == /\ rmode' = "rows" /\ root' = h.val /\ rpos' = h.next
                      /\ UNCHANGED <<minimum_columns, row, done, width, cells>>
  <2>1. IF sound THEN begin ELSE Throw
    BY ONLY rowsHeader DEF rowsHeader, headerEnd
  <2>2. sound => HeaderRead
    BY ONLY TRUE DEF HeaderRead
  <2>3. sound => h.ok
    OBVIOUS
  <2>4. CASE sound
    <3>1. HeaderRead /\ h.ok /\ begin
      <4> HIDE DEF begin
      <4> QED BY <2>1, <2>2, <2>3, <2>4
    <3> QED BY <3>1
  <2>5. CASE ~sound
    BY <2>1, <2>5
  <2> QED BY <2>4, <2>5
<1>2. CASE Throw
  BY <1>2 DEF Throw, Passes
<1>3. CASE /\ HeaderRead /\ h.ok
           /\ rmode' = "rows" /\ root' = h.val /\ rpos' = h.next
           /\ UNCHANGED <<minimum_columns, row, done, width, cells>>
  <2>1. done'.rows = 0
    BY <1>3 DEF RowsShape, rowsHeader
  <2> DEFINE s == Longer(h, 0, h.next)
  <2>2. s[0] = h.next
    BY LongerIs
  <2> HIDE DEF s
  <2>3. RowsPassed(h, 0, s, s)
    BY <2>2 DEF RowsPassed
  <2>4. RootBegun(root', done'.rows, s, s) /\ rpos' = s[done'.rows]
    BY <1>3, <2>1, <2>2, <2>3 DEF RootBegun, HeaderOfRoot
  <2> QED BY <1>3, <2>4 DEF Passes
<1> QED BY <1>1, <1>2, <1>3

LEMMA OpenRowPasses ==
  ASSUME ReaderInv, RowsShape, Passes(root, row, done, rpos, rmode), openRow
  PROVE  Passes(root', row', done', rpos', rmode')
<1> DEFINE index == indexed(root, done.rows, rpos)
           header == readArrayHeader(index.next)
<1>1. /\ rmode = "rows"
      /\ \/ Throw
         \/ RowOpened(index, header)
  BY OpenRowCases
<1>2. CASE Throw
  BY <1>2 DEF Throw, Passes
<1>3. CASE RowOpened(index, header)
  <2>1. PICK s, b : RootBegun(root, done.rows, s, b) /\ rpos = s[done.rows]
    BY <1>1 DEF Passes
  <2>2. index.next \in 0 .. size /\ index.ok
    BY <1>3, StreamOffsets, FramesKnown DEF RowsShape, RowOpened
  <2> PICK m, o : m = done.rows /\ o = index.next
    OBVIOUS
  <2>3. indexed(root, m, s[m]) = Parsed(m, o)
    BY <2>1, <2>2, ParsedIndex
  <2>4. m \in Nat /\ done.cells = 0
    BY <1>1 DEF RowsShape
  <2> HIDE DEF index
  <2> DEFINE c == Longer(b, m, o)
             t == Longer(header, 0, header.next)
  <2>5. c[m] = o /\ \A n \in 0 .. m - 1 : c[n] = b[n]
    BY <2>4, LongerIs
  <2>6. t[0] = header.next
    BY LongerIs
  <2> HIDE DEF c, t
  <2>7. /\ header.ok /\ rmode' = "cells" /\ row' = header.val
        /\ rpos' = header.next /\ root' = root /\ done' = done
    BY <1>3 DEF RowOpened
  <2>8. RootBegun(root, m, s, c)
    BY <2>1, <2>5 DEF RootBegun, RowsPassed
  <2>9. CellsPassed(header, 0, t, t)
    BY <2>6 DEF CellsPassed
  <2>10. RowBegun(root', row', done', s, c, t, t) /\ rpos' = t[done'.cells]
    BY <2>2, <2>3, <2>4, <2>5, <2>6, <2>7, <2>8, <2>9 DEF RowBegun
  <2> QED BY <2>7, <2>10 DEF Passes
<1> QED BY <1>1, <1>2, <1>3

LEMMA ReadCellPasses ==
  ASSUME ReaderInv, RowsShape, Passes(root, row, done, rpos, rmode), readCell
  PROVE  Passes(root', row', done', rpos', rmode')
<1> DEFINE index == indexed(row, done.cells, rpos)
           scalar == readScalar(index.next)
<1>1. /\ rmode = "cells" /\ (Throw \/ (index.ok /\ CellRead(scalar)))
  BY ReadCellCases
<1>2. CASE Throw
  BY <1>2 DEF Throw, Passes
<1>3. CASE index.ok /\ CellRead(scalar)
  <2>1. PICK s, b, t, c : /\ RowBegun(root, row, done, s, b, t, c)
                          /\ rpos = t[done.cells]
    BY <1>1 DEF Passes
  <2>2. input \in Seq(Byte) /\ index.next \in 0 .. size
    BY StreamOffsets, FramesKnown DEF RowsShape
  <2> PICK k, o : k = done.cells /\ o = index.next
    OBVIOUS
  <2>3. indexed(row, k, t[k]) = Parsed(k, o)
    BY <1>3, <2>1, ParsedIndex
  <2>4. k \in Nat /\ done \in [rows : Nat, cells : Nat]
    BY DEF RowsShape
  <2> HIDE DEF index
  <2>5. scalar.next \in 0 .. size
    BY <2>2, StreamOffsets
  <2> PICK e : e = scalar.next
    OBVIOUS
  <2>6. /\ scalar.ok /\ rmode' = "cells" /\ row' = row /\ root' = root
        /\ rpos' = e /\ done' = [done EXCEPT !.cells = @ + 1]
    BY <1>1, <1>3 DEF CellRead
  <2>7. done'.rows = done.rows /\ done'.cells = k + 1
    BY <2>4, <2>6
  <2> DEFINE T == Longer(t, k + 1, e)
             C == Longer(c, k, o)
  <2>8. /\ T[k + 1] = e /\ \A n \in 0 .. k : T[n] = t[n]
        /\ C[k] = o /\ \A n \in 0 .. k - 1 : C[n] = c[n]
    <3>1. k + 1 \in Nat /\ k + 1 - 1 = k
      BY <2>4
    <3> QED BY <2>4, <3>1, LongerIs
  <2> HIDE DEF T, C
  <2> PICK g : g = readArrayHeader(b[done.rows])
    OBVIOUS
  <2>9. CellsPassed(g, k, t, c) /\ g.val = row
    BY <2>1 DEF RowBegun
  <2>10. CellsPassed(g, k + 1, T, C)
    <3> PICK j : j = k + 1
      OBVIOUS
    <3>0. 0 .. j - 1 = 0 .. k
      BY <2>4
    <3>1. T[0] = g.next
      <4>1. 0 \in 0 .. k
        BY <2>4
      <4> QED BY <2>8, <2>9, <4>1 DEF CellsPassed
    <3>2. ASSUME NEW n \in 0 .. k
          PROVE  /\ C[n] \in 0 .. size /\ T[n + 1] \in 0 .. size
                 /\ indexed(g.val, n, T[n]) = Parsed(n, C[n])
                 /\ readScalar(C[n]).ok /\ readScalar(C[n]).next = T[n + 1]
      <4>1. CASE n = k
        <5>1. k \in 0 .. k
          BY <2>4
        <5> QED BY <2>2, <2>3, <2>5, <2>6, <2>8, <2>9, <4>1, <5>1
      <4>2. CASE n # k
        <5>1. n \in 0 .. k - 1 /\ n \in 0 .. k /\ n + 1 \in 0 .. k
          BY <2>4, <4>2
        <5>2. /\ c[n] \in 0 .. size /\ t[n + 1] \in 0 .. size
              /\ indexed(g.val, n, t[n]) = Parsed(n, c[n])
              /\ readScalar(c[n]).ok /\ readScalar(c[n]).next = t[n + 1]
          BY <2>9, <5>1 DEF CellsPassed
        <5> QED BY <2>8, <5>1, <5>2
      <4> QED BY <4>1, <4>2
    <3>3. CellsPassed(g, j, T, C)
      BY <3>0, <3>1, <3>2, Zenon DEF CellsPassed
    <3> QED BY <3>3
  <2>11. RowBegun(root', row', done', s, b, T, C) /\ rpos' = T[done'.cells]
    BY <2>1, <2>6, <2>7, <2>8, <2>10 DEF RowBegun
  <2> QED BY <2>6, <2>11 DEF Passes
<1> QED BY <1>1, <1>2, <1>3

LEMMA CloseRowPasses ==
  ASSUME ReaderInv, RowsShape, Passes(root, row, done, rpos, rmode), closeRow
  PROVE  Passes(root', row', done', rpos', rmode')
<1> DEFINE end == finishArray(row, rpos)
<1>1. /\ rmode = "cells" /\ done.cells = row.length
      /\ \/ Throw
         \/ /\ end.ok /\ rmode' = "rows" /\ rpos' = end.next
            /\ done' = [rows |-> done.rows + 1, cells |-> 0]
            /\ UNCHANGED <<minimum_columns, root, row, width, cells>>
  BY Zenon DEF closeRow
<1>2. CASE Throw
  BY <1>2 DEF Throw, Passes
<1>3. CASE /\ end.ok /\ rmode' = "rows" /\ rpos' = end.next
           /\ done' = [rows |-> done.rows + 1, cells |-> 0]
           /\ UNCHANGED <<minimum_columns, root, row, width, cells>>
  <2>1. PICK s, b, t, c : /\ RowBegun(root, row, done, s, b, t, c)
                          /\ rpos = t[done.cells]
    BY <1>1 DEF Passes
  <2>2. end.next \in 0 .. size /\ end = Parsed(row.length, end.next)
    BY <1>3, StreamOffsets, FramesKnown, ParsedEnd DEF RowsShape
  <2> PICK m, e, o : m = done.rows /\ e = end.next /\ o = b[m]
    OBVIOUS
  <2>3. m \in Nat
    BY DEF RowsShape
  <2>4. finishArray(row, t[row.length]) = Parsed(row.length, e)
    BY <1>1, <2>1, <2>2
  <2> HIDE DEF end
  <2> PICK after : after = m + 1
    OBVIOUS
  <2> DEFINE S == Longer(s, after, e)
  <2>5. S[m + 1] = e /\ \A n \in 0 .. m : S[n] = s[n]
    <3>1. after \in Nat /\ after - 1 = m
      BY <2>3
    <3>2. S[after] = e /\ \A n \in 0 .. after - 1 : S[n] = s[n]
      BY <3>1, LongerIs
    <3> HIDE DEF S
    <3> QED BY <3>1, <3>2
  <2> HIDE DEF S
  <2>6. /\ RootBegun(root, m, s, b) /\ o \in 0 .. size
        /\ indexed(root, m, s[m]) = Parsed(m, o)
        /\ readArrayHeader(o).ok /\ readArrayHeader(o).val = row
        /\ CellsPassed(readArrayHeader(o), row.length, t, c)
    BY <1>1, <2>1 DEF RowBegun
  <2>7. RowPassed(o, e)
    <3>1. RowPath(o, e, t, c)
      BY <2>4, <2>6 DEF RowPath
    <3> QED BY <3>1 DEF RowPassed
  <2>8. RowsPassed(HeaderOfRoot, m + 1, S, b)
    <3> PICK j : j = m + 1
      OBVIOUS
    <3>4. 0 .. j - 1 = 0 .. m
      BY <2>3
    <3>0. RowsPassed(HeaderOfRoot, m, s, b) /\ HeaderOfRoot.val = root
      BY <2>6 DEF RootBegun
    <3>1. S[0] = HeaderOfRoot.next
      <4>1. 0 \in 0 .. m
        BY <2>3
      <4> QED BY <2>5, <3>0, <4>1 DEF RowsPassed
    <3>2. ASSUME NEW n \in 0 .. m
          PROVE  /\ b[n] \in 0 .. size /\ S[n + 1] \in 0 .. size
                 /\ indexed(HeaderOfRoot.val, n, S[n]) = Parsed(n, b[n])
                 /\ RowPassed(b[n], S[n + 1])
      <4>1. CASE n = m
        <5>1. m \in 0 .. m
          BY <2>3
        <5> QED BY <2>2, <2>5, <2>6, <2>7, <3>0, <4>1, <5>1
      <4>2. CASE n # m
        <5>1. n \in 0 .. m - 1 /\ n \in 0 .. m /\ n + 1 \in 0 .. m
          BY <2>3, <4>2
        <5>2. /\ b[n] \in 0 .. size /\ s[n + 1] \in 0 .. size
              /\ indexed(HeaderOfRoot.val, n, s[n]) = Parsed(n, b[n])
              /\ RowPassed(b[n], s[n + 1])
          BY <3>0, <5>1 DEF RowsPassed
        <5> QED BY <2>5, <5>1, <5>2
      <4> QED BY <4>1, <4>2
    <3>3. RowsPassed(HeaderOfRoot, j, S, b)
      BY <3>1, <3>2, <3>4, Zenon DEF RowsPassed
    <3> QED BY <3>3
  <2>9. done'.rows = m + 1 /\ rmode' = "rows" /\ root' = root /\ rpos' = e
    BY <1>3
  <2>10. RootBegun(root', done'.rows, S, b) /\ rpos' = S[done'.rows]
    BY <2>5, <2>6, <2>8, <2>9 DEF RootBegun
  <2> QED BY <2>9, <2>10 DEF Passes
<1> QED BY <1>1, <1>2, <1>3

LEMMA CloseRowsPasses ==
  ASSUME ReaderInv, RowsShape, Passes(root, row, done, rpos, rmode), closeRows
  PROVE  Passes(root', row', done', rpos', rmode')
<1> DEFINE end == finishArray(root, rpos)
<1>1. /\ rmode = "rows" /\ done.rows = root.length
      /\ \/ Throw
         \/ /\ end.ok /\ skipPadding[end.next] = size
            /\ rmode' = "done" /\ rpos' = size
            /\ UNCHANGED <<minimum_columns, root, row, done, width, cells>>
  BY Zenon DEF closeRows
<1>2. CASE Throw
  BY <1>2 DEF Throw, Passes
<1>3. CASE /\ end.ok /\ skipPadding[end.next] = size
           /\ rmode' = "done" /\ rpos' = size
           /\ UNCHANGED <<minimum_columns, root, row, done, width, cells>>
  <2>1. PICK s, b : RootBegun(root, done.rows, s, b) /\ rpos = s[done.rows]
    BY <1>1 DEF Passes
  <2>2. end = Parsed(root.length, end.next)
    BY <1>3, ParsedEnd
  <2>3. \E q : /\ finishArray(root, s[root.length]) = Parsed(root.length, q)
               /\ skipPadding[q] = size
    BY <1>1, <1>3, <2>1, <2>2
  <2> HIDE DEF end
  <2>4. AllPassed(s, b)
    BY <1>1, <2>1, <2>3, Zenon DEF AllPassed, RootBegun, HeaderOfRoot
  <2> QED BY <1>3, <2>4 DEF Passes
<1> QED BY <1>1, <1>2, <1>3

-----------------------------------------------------------------------------
FollowInv ==
  /\ \A s, b : AllPassed(s, b) => Goes(s, b, frames, mode, pos, value)
  /\ Passes(root, row, done, rpos, rmode)

LEMMA StepFollowed ==
  ASSUME MaxDepth >= 2, StreamInv, FollowInv, Step, UNCHANGED rowVars
  PROVE  FollowInv'
<1>1. ReaderInv /\ input \in Seq(Byte) /\ input' = input
  <2>1. input' = input
    BY Zenon DEF Step, readHeader, readValue, tooDeepOrEnded, skipCountMarker,
       openObject, openArray, readLeafValue, objectLoop, denseLoop, sparseLoop,
       readPropertyKey, readSparseIndex, readProperty, readElement, finish,
       Fail, Continue, Return, Attempt, GotKey
  <2> QED BY <2>1, FramesKnown DEF StreamInv, ReadInv
<1>2. ASSUME NEW s, NEW b, AllPassed(s, b)'
      PROVE  Goes(s, b, frames, mode, pos, value)'
  <2>1. AllPassed(s, b)
    BY <1>1, <1>2, SamePassed
  <2>2. Goes(s, b, frames', mode', pos', value')
    BY <1>1, <2>1, StepGoes DEF FollowInv
  <2> QED BY <1>1, <2>2, SameGoing
<1>3. Passes(root, row, done, rpos, rmode)'
  <2>1. /\ root' = root /\ row' = row /\ done' = done /\ rpos' = rpos
        /\ rmode' = rmode
    BY DEF rowVars
  <2>2. Passes(root', row', done', rpos', rmode')
    BY <2>1 DEF FollowInv
  <2>3. \A outer, inner, count, p, where :
          Passes(outer, inner, count, p, where)
            => Passes(outer, inner, count, p, where)'
    BY <1>1, SamePasses
  <2>4. Passes(root', row', done', rpos', rmode')
          => Passes(root, row, done, rpos, rmode)'
    BY <2>3
  <2> QED BY <2>2, <2>4
<1> QED BY <1>2, <1>3 DEF FollowInv

LEMMA ReadRowsFollowed ==
  ASSUME StreamInv, FollowInv, readRows \/ UNCHANGED allVars
  PROVE  FollowInv'
<1>1. /\ ReaderInv /\ input \in Seq(Byte) /\ input' = input /\ RowsShape
      /\ frames' = frames /\ mode' = mode /\ pos' = pos /\ value' = value
  BY FramesKnown DEF StreamInv, ReadInv, readRows, allVars, rvars
<1>2. ASSUME NEW s, NEW b, AllPassed(s, b)'
      PROVE  Goes(s, b, frames, mode, pos, value)'
  <2>1. AllPassed(s, b)
    BY <1>1, <1>2, SamePassed
  <2>2. Goes(s, b, frames', mode', pos', value')
    BY <1>1, <2>1 DEF FollowInv
  <2> QED BY <1>1, <2>2, SameGoing
<1>3. Passes(root', row', done', rpos', rmode')
  <2>1. CASE readRows
    BY <1>1, <2>1, RowsHeaderPasses, OpenRowPasses, ReadCellPasses,
       CloseRowPasses, CloseRowsPasses DEF readRows, FollowInv
  <2>2. CASE UNCHANGED allVars
    BY <2>2 DEF allVars, rowVars, FollowInv
  <2> QED BY <2>1, <2>2
<1>4. \A outer, inner, count, p, where :
        Passes(outer, inner, count, p, where)
          => Passes(outer, inner, count, p, where)'
  BY <1>1, SamePasses
<1>5. Passes(root', row', done', rpos', rmode')
        => Passes(root, row, done, rpos, rmode)'
  BY <1>4
<1> QED BY <1>2, <1>3, <1>5 DEF FollowInv

LEMMA FollowStarts == StreamAtStart => FollowInv
<1> SUFFICES ASSUME StreamAtStart PROVE FollowInv
  OBVIOUS
<1>1. mode = "header" /\ Len(frames) = 0 /\ rmode = "header"
  BY DEF StreamAtStart, AtStart
<1> QED BY <1>1 DEF FollowInv, Goes, Passes

LEMMA FollowKeeps ==
  ASSUME MaxDepth >= 2
  PROVE  StreamInv /\ FollowInv /\ [RowsNext]_allVars =>
           StreamInv' /\ FollowInv'
BY RowsKeep, StepFollowed, ReadRowsFollowed DEF RowsNext

LEMMA StreamIsWhole ==
  ASSUME StreamInv, FollowInv PROVE StreamedIsRead
<1> SUFFICES ASSUME rmode = "done"
             PROVE  /\ mode = "done"
                    /\ Len(value.kids) = root.length
                    /\ Len(cells) = root.length
                         * (IF width = <<>> THEN 0 ELSE width[1])
  BY Zenon DEF StreamedIsRead
<1>1. PICK s, b : AllPassed(s, b)
  BY DEF FollowInv, Passes
<1>2. mode # "failed"
  BY <1>1 DEF FollowInv, Goes
<1>3. mode = "done"
  BY <1>2 DEF StreamInv, readEnded
<1>4. Len(value.kids) = root.length
  BY <1>3 DEF StreamInv, Paired, Follows
<1>5. Len(cells) = root.length * (IF width = <<>> THEN 0 ELSE width[1])
  <2>1. done.rows = root.length /\ done.cells = 0 /\ root.length \in Nat
    BY DEF StreamInv, RowsShape
  <2> PICK r : r = root.length
    OBVIOUS
  <2>2. CASE width = <<>>
    <3>1. Len(cells) = 0
      BY <2>2 DEF StreamInv, RowsShape
    <3>2. r * 0 = 0
      BY <2>1
    <3> QED BY <2>1, <2>2, <3>1, <3>2
  <2>3. CASE width # <<>>
    <3>1. PICK w \in Nat : width = <<w>>
      BY <2>3 DEF StreamInv, RowsShape
    <3>2. width[1] = w
      BY <3>1
    <3>3. Len(cells) = r * w + 0
      BY <2>1, <2>3, <3>2 DEF StreamInv, RowsShape
    <3>4. r * w \in Nat
      BY <2>1, ScaledNext
    <3>5. Len(cells) = r * w
      BY <3>3, <3>4
    <3> QED BY <2>3, <3>2, <3>5
  <2> QED BY <2>2, <2>3
<1> QED BY <1>3, <1>4, <1>5

(* What a stream ends well on, read() decodes, and the consumer has been   *)
(* given all of it; for which read() must be allowed two levels of arrays. *)
THEOREM StreamIsRead ==
  ASSUME MaxDepth >= 2 PROVE RowsSpec => []StreamedIsRead
<1>1. RowsInit => StreamInv /\ FollowInv
  BY RowsInitStarts, RowsStart, FollowStarts
<1>2. StreamInv /\ FollowInv /\ [RowsNext]_allVars => StreamInv' /\ FollowInv'
  BY FollowKeeps
<1>3. StreamInv /\ FollowInv => StreamedIsRead
  BY StreamIsWhole
<1> QED BY <1>1, <1>2, <1>3, PTL DEF RowsSpec

-----------------------------------------------------------------------------
(* The arms of the benchmark on the same bytes: only the stream arm moves  *)
(* the stream, and the others look at what it and read() have left.        *)

(* What v8.serialize makes of a data set are bytes, which is all that the  *)
(* proofs need to know of it.                                              *)
DatasetsAreBytes ==
  \A d \in Datasets : serialize(makeRows(d)) \in Seq(Byte)

LEMMA BoundaryStarts ==
  ASSUME DatasetsAreBytes PROVE BoundaryInit => StreamAtStart
<1> SUFFICES ASSUME BoundaryInit PROVE StreamAtStart
  OBVIOUS
<1>1. CASE Init
  BY <1>1, ReaderAssumption
  DEF BoundaryInit, Init, Start, AtStart, StreamAtStart
<1>2. CASE dataset \in Datasets /\ Start(serialize(makeRows(dataset)))
  <2> PICK bytes : bytes = serialize(makeRows(dataset))
    OBVIOUS
  <2>1. bytes \in Seq(Byte) /\ Start(bytes)
    BY <1>2 DEF DatasetsAreBytes
  <2> QED BY <2>1 DEF BoundaryInit, Start, AtStart, StreamAtStart
<1> QED BY <1>1, <1>2 DEF BoundaryInit

LEMMA ArmsOnlyLook == [BoundaryNext]_boundaryVars => [RowsNext]_allVars
<1> SUFFICES ASSUME [BoundaryNext]_boundaryVars PROVE [RowsNext]_allVars
  OBVIOUS
<1>1. ASSUME NEW arm, NEW rows, consumeRows(arm, rows)
      PROVE  UNCHANGED allVars
  BY <1>1, Zenon DEF consumeRows, consumeRow, Feed
<1>2. CASE Step /\ UNCHANGED <<rowVars, armVars>>
  BY <1>2, Zenon DEF RowsNext
<1>3. CASE streamRows
  BY <1>3, Zenon DEF streamRows, RowsNext
<1>4. CASE ConsumeDecodedRows \/ ConsumeRowsGeneric \/ ConsumeRowsOptimized
  BY <1>1, <1>4, Zenon
  DEF ConsumeDecodedRows, ConsumeRowsGeneric, ConsumeRowsOptimized
<1>5. CASE ConsumeNativeRows
  BY <1>5, Zenon DEF ConsumeNativeRows, Feed
<1>6. CASE UNCHANGED boundaryVars
  BY <1>6 DEF boundaryVars
<1> QED BY <1>2, <1>3, <1>4, <1>5, <1>6, Zenon DEF BoundaryNext

(* The same of every run of the benchmark, generated data sets included:   *)
(* what the stream arm consumes, ConsumeSerializedRows() in                *)
(* boundary_addon.cc, is what read() has built for the tree arm.           *)
THEOREM ArmsReadTheSame ==
  ASSUME DatasetsAreBytes, MaxDepth >= 2
  PROVE  BoundarySpec => [](CellsAreTrue /\ StreamedIsRead /\ ReadIsStreamed)
<1>1. BoundaryInit => StreamInv /\ FollowInv
  BY BoundaryStarts, RowsStart, FollowStarts
<1>2. StreamInv /\ FollowInv /\ [BoundaryNext]_boundaryVars =>
        StreamInv' /\ FollowInv'
  BY ArmsOnlyLook, FollowKeeps
<1>3. StreamInv /\ FollowInv =>
        CellsAreTrue /\ StreamedIsRead /\ ReadIsStreamed
  BY StreamHasCells, StreamIsWhole, StreamGoesOn
<1> QED BY <1>1, <1>2, <1>3, PTL DEF BoundarySpec
=============================================================================
