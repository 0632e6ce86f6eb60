---------------------------- MODULE ReaderProofs ----------------------------
(***************************************************************************)
(* Proofs about the Reader, for every input, every nesting limit and every *)
(* width of the integers: it stays inside its input and within its depth,  *)
(* and what it returns is a tree of bounded height.                        *)
(***************************************************************************)
EXTENDS Reader, DataProofs

-----------------------------------------------------------------------------
(* The reading primitives.                                                 *)

(* A result r: it leads to an offset of the input, and if it is one, its   *)
(* value is in T.                                                          *)
Parses(r, T) ==
  r.ok \in BOOLEAN /\ r.next \in 0 .. size /\ (r.ok => r.val \in T)

LEMMA MalformedParses ==
  ASSUME NEW T, input \in Seq(Byte)
  PROVE  Parses(Malformed, T)
BY DEF Parses, Malformed, size

LEMMA ParsedParses ==
  ASSUME NEW T, NEW v \in T, NEW next \in 0 .. size
  PROVE  Parses(Parsed(v, next), T)
BY DEF Parses, Parsed

LEMMA ByteRange == \A x \in Byte : x \in Nat /\ x <= 255
BY DEF Byte

LEMMA AtType ==
  ASSUME input \in Seq(Byte)
  PROVE  /\ size \in Nat /\ DOMAIN input = 1 .. size
         /\ \A p \in 0 .. size - 1 : at(p) \in Byte
         /\ \A p \in Int : at(p) \in Int
<1>1. size \in Nat /\ DOMAIN input = 1 .. size
  BY DEF size
<1>2. \A p \in 0 .. size - 1 : at(p) \in Byte
  BY <1>1 DEF at, size
<1>3. \A p \in Int : p \notin 0 .. size - 1 => at(p) = Outside
  BY SMT DEF at
<1>4. Outside \in Int
  BY SMT DEF Outside
<1> QED BY <1>1, <1>2, <1>3, <1>4, ByteRange

(* A count within an interval is at most its length.                       *)
LEMMA CountBound ==
  ASSUME NEW a \in Int, NEW b \in Int, a <= b + 1, NEW S \in SUBSET (a .. b)
  PROVE  Cardinality(S) \in 0 .. b - a + 1
<1>1. IsFiniteSet(a .. b) /\ Cardinality(a .. b) = b - a + 1
  BY FS_Interval
<1>2. IsFiniteSet(S) /\ Cardinality(S) <= Cardinality(a .. b)
  BY <1>1, FS_Subset
<1>3. Cardinality(S) \in Nat
  BY <1>2, FS_CardinalityType
<1> QED BY <1>1, <1>2, <1>3

LEMMA SkipRange ==
  ASSUME input \in Seq(Byte), NEW p \in 0 .. size
  PROVE  skipPadding[p] \in p .. size
<1> DEFINE S == {q \in p .. size - 1 : \A k \in p .. q : at(k) = Padding}
<1>1. size \in Nat
  BY AtType
<1>2. Cardinality(S) \in 0 .. size - p
  <2>1. S \in SUBSET (p .. size - 1)
    OBVIOUS
  <2> HIDE DEF S
  <2>2. Cardinality(S) \in 0 .. (size - 1) - p + 1
    <3>1. p \in Int /\ size - 1 \in Int /\ p <= (size - 1) + 1
      BY <1>1
    <3> QED BY <2>1, <3>1, CountBound
  <2> QED BY <1>1, <2>2
<1>3. skipPadding[p] = p + Cardinality(S)
  BY DEF skipPadding
<1> HIDE DEF S
<1> QED BY <1>1, <1>2, <1>3

LEMMA ReadByteParses ==
  ASSUME input \in Seq(Byte), NEW p \in 0 .. size
  PROVE  Parses(readByte[p], Byte)
<1>1. CASE p = size
  BY <1>1, MalformedParses DEF readByte
<1>2. CASE p # size
  <2>1. size \in Nat /\ \A q \in 0 .. size - 1 : at(q) \in Byte
    BY AtType
  <2>2. p \in 0 .. size - 1 /\ p + 1 \in 0 .. size
    BY <1>2, <2>1
  <2>3. at(p) \in Byte
    BY <2>1, <2>2
  <2> QED BY <1>2, <2>2, <2>3, ParsedParses DEF readByte
<1> QED BY <1>1, <1>2

LEMMA ReadTagParses ==
  ASSUME input \in Seq(Byte), NEW p \in 0 .. size
  PROVE  Parses(readTag[p], Byte)
<1>1. size \in Nat /\ skipPadding[p] \in p .. size
  BY SkipRange, AtType
<1>2. skipPadding[p] \in 0 .. size
  BY <1>1
<1> QED BY <1>2, ReadByteParses DEF readTag

LEMMA WeightType == \A i \in 1 .. 5 : weight[i] \in Nat
BY SMT DEF weight

LEMMA ProductNat == \A a, b \in Nat : a * b \in Nat
OBVIOUS

LEMMA ReadVarintParses ==
  ASSUME input \in Seq(Byte), NEW p \in 0 .. size
  PROVE  Parses(readVarint[p], Nat)
<1> DEFINE most == IF size - p < MaxGroups THEN size - p ELSE MaxGroups
           S == {k \in 1 .. most :
                   \A j \in 1 .. k : at(p + j - 1) >= GroupBase}
           more == Cardinality(S)
           part(j) == IF j <= more + 1
                      THEN (at(p + j - 1) % GroupBase) * weight[j] ELSE 0
           sum == part(1) + part(2) + part(3) + part(4) + part(5)
<1>1. size \in Nat /\ most \in 0 .. size - p
  <2>1. size \in Nat /\ MaxGroups \in Nat
    BY AtType, WidthAssumption
  <2> QED BY <2>1
<1>2. more \in 0 .. most
  <2>1. S \in SUBSET (1 .. most)
    OBVIOUS
  <2> HIDE DEF S, most
  <2>2. most \in Int /\ 1 \in Int /\ 1 <= most + 1
    BY <1>1
  <2>3. Cardinality(S) \in 0 .. (most - 1) + 1
    BY <2>1, <2>2, CountBound
  <2> QED BY <1>1, <2>3
<1>3. sum \in Nat
  <2>1. ASSUME NEW j \in 1 .. 5 PROVE part(j) \in Nat
    <3> DEFINE group == at(p + j - 1) % GroupBase
    <3>1. at(p + j - 1) \in Int
      BY AtType
    <3>2. group \in Nat
      BY <3>1 DEF GroupBase
    <3>3. weight[j] \in Nat
      BY WeightType
    <3>4. part(j) = IF j <= more + 1 THEN group * weight[j] ELSE 0
      OBVIOUS
    <3> HIDE DEF group, part, more
    <3> QED BY <3>2, <3>3, <3>4, ProductNat
  <2>2. /\ part(1) \in Nat /\ part(2) \in Nat /\ part(3) \in Nat
        /\ part(4) \in Nat /\ part(5) \in Nat
    BY <2>1
  <2> HIDE DEF part
  <2> QED BY ONLY <2>2 DEF sum
<1>4. readVarint[p] = IF more = most \/ TooWide(p, more + 1) THEN Malformed
                      ELSE Parsed(sum, p + more + 1)
  BY Zenon DEF readVarint
<1> HIDE DEF most, more, sum
<1>5. more # most => p + more + 1 \in 0 .. size
  BY <1>1, <1>2
<1> QED BY <1>3, <1>4, <1>5, MalformedParses, ParsedParses

LEMMA SliceType ==
  ASSUME input \in Seq(Byte), NEW p \in 0 .. size, NEW n \in 0 .. size - p
  PROVE  slice(p, n) \in Seq(Byte) /\ Len(slice(p, n)) = n
<1>1. \A i \in 1 .. n : at(p + i - 1) \in Byte
  BY AtType
<1> QED BY <1>1, AtType DEF slice

LEMMA ReadBytesParses ==
  ASSUME input \in Seq(Byte), NEW p \in 0 .. size
  PROVE  Parses(readBytes[p], Seq(Byte))
<1> DEFINE n == readVarint[p]
<1>1. Parses(n, Nat) /\ size \in Nat
  BY ReadVarintParses, AtType
<1>2. readBytes[p] = IF ~n.ok \/ n.val > size - n.next THEN Malformed
                     ELSE Parsed(slice(n.next, n.val), n.next + n.val)
  BY DEF readBytes
<1> HIDE DEF n
<1>3. CASE ~n.ok \/ n.val > size - n.next
  BY <1>2, <1>3, MalformedParses
<1>4. CASE ~(~n.ok \/ n.val > size - n.next)
  <2>1. /\ n.next \in 0 .. size /\ n.val \in 0 .. size - n.next
        /\ n.next + n.val \in 0 .. size
    BY <1>1, <1>4 DEF Parses
  <2>2. slice(n.next, n.val) \in Seq(Byte)
    BY <2>1, SliceType
  <2> QED BY <1>2, <1>4, <2>1, <2>2, ParsedParses
<1> QED BY <1>3, <1>4

-----------------------------------------------------------------------------
(* Values without parts.                                                   *)

IntegerType == {"int32", "uint32"}

(* The data of a value fits its type: one number, or units of a string or  *)
(* bytes of the input; and a view has whole elements.                      *)
DataSound(v) ==
  /\ v.type \in IntegerType => Len(v.data) = 1
  /\ v.type \notin IntegerType => v.data \in Seq(CodeUnit)
  /\ v.type \in ViewType => Len(v.data) % elementSize[v.type] = 0

SoundLeaf == {v \in LeafValue : DataSound(v)}

LEMMA CodeUnitRange ==
  /\ \A u \in CodeUnit : u \in Nat /\ u <= 65535
  /\ \A u \in Nat : u <= 65535 => u \in CodeUnit
<1>1. MaxCodeUnit \in Nat /\ \A u \in Int : u <= MaxCodeUnit <=> u <= 65535
  BY SMT DEF MaxCodeUnit
<1> QED BY <1>1, SMT DEF CodeUnit

LEMMA BytesAreUnits ==
  /\ \A s \in Seq(Byte) : s \in Seq(CodeUnit)
  /\ \A s \in Seq(CodeUnit) : s \in Seq(Int)
<1>1. Byte \subseteq CodeUnit /\ CodeUnit \subseteq Int
  BY ByteRange, CodeUnitRange
<1> QED BY <1>1, SeqMonotonic

LEMMA ViewTypes ==
  /\ ViewType = {"Int8Array", "Uint8Array", "Uint8ClampedArray", "Int16Array",
                 "Uint16Array", "Int32Array", "Uint32Array", "Float32Array",
                 "Float64Array", "BigInt64Array", "BigUint64Array", "DataView"}
  /\ \A t \in ViewType : elementSize[t] \in {1, 2, 4, 8}
<1>1. ViewType = {"Int8Array", "Uint8Array", "Uint8ClampedArray", "Int16Array",
                  "Uint16Array", "Int32Array", "Uint32Array", "Float32Array",
                  "Float64Array", "BigInt64Array", "BigUint64Array", "DataView"}
  BY DEF ViewType, viewTag
<1>2. \A t \in ViewType : elementSize[t] \in {1, 2, 4, 8}
  BY DEF elementSize
<1> QED BY <1>1, <1>2

(* The tags of the view types differ.                                      *)
LEMMA ViewTagsDiffer ==
  \A s, t \in ViewType : viewTag[s] = viewTag[t] => s = t
BY DEF ViewType, viewTag

PlainType == {"undefined", "null", "boolean", "double", "date", "string",
              "arrayBuffer"}

LEMMA PlainLeaf ==
  ASSUME NEW type \in PlainType, NEW data \in Seq(CodeUnit)
  PROVE  Leaf(type, data) \in SoundLeaf
<1>1. data \in Seq(Int)
  BY BytesAreUnits
<1>2. type \in LeafType /\ type \notin IntegerType /\ type \notin ViewType
  BY ViewTypes DEF PlainType, LeafType, IntegerType
<1> QED BY <1>1, <1>2 DEF Leaf, SoundLeaf, LeafValue, DataSound

LEMMA IntegerLeaf ==
  ASSUME NEW type \in IntegerType, NEW n \in Int
  PROVE  Leaf(type, <<n>>) \in SoundLeaf
<1>1. type \in LeafType /\ type \notin ViewType
  BY ViewTypes DEF IntegerType, LeafType
<1> QED BY <1>1 DEF Leaf, SoundLeaf, LeafValue, DataSound

LEMMA ViewLeaf ==
  ASSUME NEW type \in ViewType, NEW data \in Seq(Byte),
         Len(data) % elementSize[type] = 0
  PROVE  Leaf(type, data) \in SoundLeaf
<1>1. data \in Seq(CodeUnit) /\ data \in Seq(Int)
  BY BytesAreUnits
<1>2. type \in LeafType /\ type \notin IntegerType
  BY ViewTypes DEF IntegerType, LeafType
<1> QED BY <1>1, <1>2 DEF Leaf, SoundLeaf, LeafValue, DataSound

LEMMA ReadNumbersParse ==
  ASSUME input \in Seq(Byte), NEW p \in 0 .. size
  PROVE  Parses(readInt32(p), SoundLeaf) /\ Parses(readUint32(p), SoundLeaf)
<1> DEFINE n == readVarint[p]
<1>1. Parses(n, Nat)
  BY ReadVarintParses
<1>2. /\ readInt32(p) = IF n.ok THEN Parsed(Leaf("int32", <<unZigZag(n.val)>>),
                                            n.next)
                        ELSE Malformed
      /\ readUint32(p) = IF n.ok THEN Parsed(Leaf("uint32", <<n.val>>), n.next)
                         ELSE Malformed
  BY DEF readInt32, readUint32
<1> HIDE DEF n
<1>3. CASE ~n.ok
  BY <1>2, <1>3, MalformedParses
<1>4. CASE n.ok
  <2>1. n.val \in Nat /\ n.next \in 0 .. size
    BY <1>1, <1>4 DEF Parses
  <2>2. unZigZag(n.val) \in Int
    BY <2>1 DEF unZigZag
  <2>3. /\ Leaf("int32", <<unZigZag(n.val)>>) \in SoundLeaf
        /\ Leaf("uint32", <<n.val>>) \in SoundLeaf
    BY <2>1, <2>2, IntegerLeaf DEF IntegerType
  <2> QED BY <1>2, <1>4, <2>1, <2>3, ParsedParses
<1> QED BY <1>3, <1>4

LEMMA ReadDoubleParses ==
  ASSUME input \in Seq(Byte), NEW p \in 0 .. size, NEW type \in PlainType
  PROVE  Parses(readDouble(p, type), SoundLeaf)
<1>1. CASE size - p < DoubleSize
  BY <1>1, MalformedParses DEF readDouble
<1>2. CASE ~(size - p < DoubleSize)
  <2>1. DoubleSize \in 0 .. size - p /\ p + DoubleSize \in 0 .. size
    <3>1. size \in Nat
      BY AtType
    <3> QED BY <1>2, <3>1 DEF DoubleSize
  <2>2. slice(p, DoubleSize) \in Seq(CodeUnit)
    BY <2>1, SliceType, BytesAreUnits
  <2>3. Leaf(type, slice(p, DoubleSize)) \in SoundLeaf
    BY <2>2, PlainLeaf
  <2> QED BY <1>2, <2>1, <2>3, ParsedParses DEF readDouble
<1> QED BY <1>1, <1>2

LEMMA ReadOneByteStringParses ==
  ASSUME input \in Seq(Byte), NEW p \in 0 .. size
  PROVE  Parses(readOneByteString(p), SoundLeaf)
<1> DEFINE s == readBytes[p]
<1>1. Parses(s, Seq(Byte))
  BY ReadBytesParses
<1>2. readOneByteString(p) =
        IF s.ok THEN Parsed(Leaf("string", s.val), s.next) ELSE Malformed
  BY DEF readOneByteString
<1> HIDE DEF s
<1>3. CASE ~s.ok
  BY <1>2, <1>3, MalformedParses
<1>4. CASE s.ok
  <2>1. s.val \in Seq(CodeUnit) /\ s.next \in 0 .. size
    BY <1>1, <1>4, BytesAreUnits DEF Parses
  <2>2. Leaf("string", s.val) \in SoundLeaf
    BY <2>1, PlainLeaf DEF PlainType
  <2> QED BY <1>2, <1>4, <2>1, <2>2, ParsedParses
<1> QED BY <1>3, <1>4

LEMMA ReadTwoByteStringParses ==
  ASSUME input \in Seq(Byte), NEW p \in 0 .. size
  PROVE  Parses(readTwoByteString(p), SoundLeaf)
<1> DEFINE s == readBytes[p]
           units == [i \in 1 .. Len(s.val) \div 2 |->
                       s.val[2 * i - 1] + 256 * s.val[2 * i]]
<1>1. Parses(s, Seq(Byte))
  BY ReadBytesParses
<1>2. readTwoByteString(p) =
        IF ~s.ok \/ Len(s.val) % 2 # 0 THEN Malformed
        ELSE Parsed(Leaf("string", units), s.next)
  BY Zenon DEF readTwoByteString
<1> HIDE DEF s
<1>3. CASE ~s.ok \/ Len(s.val) % 2 # 0
  BY <1>2, <1>3, MalformedParses
<1>4. CASE ~(~s.ok \/ Len(s.val) % 2 # 0)
  <2>1. s.val \in Seq(Byte) /\ s.next \in 0 .. size
    BY <1>1, <1>4 DEF Parses
  <2> DEFINE length == Len(s.val)
             half == length \div 2
  <2>2. length \in Nat /\ half \in Nat /\ 2 * half <= length
    <3>1. length \in Nat
      BY <2>1
    <3> HIDE DEF length
    <3> QED BY <3>1
  <2>3. ASSUME NEW i \in 1 .. half
        PROVE  s.val[2 * i - 1] + 256 * s.val[2 * i] \in CodeUnit
    <3> HIDE DEF half
    <3>1. 2 * i - 1 \in 1 .. length /\ 2 * i \in 1 .. length
      <4> HIDE DEF length
      <4> QED BY <2>2
    <3>2. s.val[2 * i - 1] \in Byte /\ s.val[2 * i] \in Byte
      BY <2>1, <3>1
    <3> DEFINE low == s.val[2 * i - 1]
               high == s.val[2 * i]
    <3>3. low \in Nat /\ low <= 255 /\ high \in Nat /\ high <= 255
      BY <3>2, ByteRange
    <3> HIDE DEF low, high
    <3>4. low + 256 * high \in Nat /\ low + 256 * high <= 65535
      BY <3>3, SMT
    <3>5. low + 256 * high \in CodeUnit
      BY <3>4, CodeUnitRange, SMT
    <3> QED BY <3>5 DEF low, high
  <2>4. units \in Seq(CodeUnit)
    <3>1. units = [i \in 1 .. half |-> s.val[2 * i - 1] + 256 * s.val[2 * i]]
      OBVIOUS
    <3> HIDE DEF half, units
    <3> QED BY <2>2, <2>3, <3>1
  <2> HIDE DEF units
  <2>5. Leaf("string", units) \in SoundLeaf
    BY <2>4, PlainLeaf DEF PlainType
  <2> QED BY <1>2, <1>4, <2>1, <2>5, ParsedParses
<1> QED BY <1>3, <1>4

LEMMA ReadUtf8StringParses ==
  ASSUME input \in Seq(Byte), NEW p \in 0 .. size
  PROVE  Parses(readUtf8String(p), SoundLeaf)
<1> DEFINE s == readBytes[p]
           decoded == consumeUtf8[s.val]
<1>1. Parses(s, Seq(Byte))
  BY ReadBytesParses
<1>2. readUtf8String(p) =
        IF ~s.ok \/ ~decoded.ok THEN Malformed
        ELSE Parsed(Leaf("string", decoded.units), s.next)
  BY DEF readUtf8String
<1> HIDE DEF s
<1>3. CASE ~s.ok \/ ~decoded.ok
  BY <1>2, <1>3, MalformedParses
<1>4. CASE ~(~s.ok \/ ~decoded.ok)
  <2>1. s.val \in Seq(Byte) /\ s.next \in 0 .. size
    BY <1>1, <1>4 DEF Parses
  <2>2. s.val \in Seq(Int)
    BY <2>1, BytesAreUnits
  <2>3. decoded.units \in Seq(Unit)
    BY <2>2, ConsumedUnits
  <2>4. Unit = CodeUnit
    BY DEF Unit, MaxUnit, CodeUnit, MaxCodeUnit
  <2> HIDE DEF decoded
  <2>5. Leaf("string", decoded.units) \in SoundLeaf
    BY <2>3, <2>4, PlainLeaf DEF PlainType
  <2> QED BY <1>2, <1>4, <2>1, <2>5, ParsedParses
<1> QED BY <1>3, <1>4

LEMMA SelectedType ==
  ASSUME NEW backing \in Seq(Byte), NEW offset \in Nat, NEW length \in Nat,
         InRange(backing, offset, length)
  PROVE  /\ selected(backing, offset, length) \in Seq(Byte)
         /\ Len(selected(backing, offset, length)) = length
<1>1. \A i \in 1 .. length :
        offset + i \in 1 .. Len(backing) /\ backing[offset + i] \in Byte
  BY DEF InRange
<1>2. selected(backing, offset, length) =
        [i \in 1 .. length |-> backing[offset + i]]
  BY <1>1, SMT DEF selected
<1> QED BY <1>1, <1>2

LEMMA ReadViewParses ==
  ASSUME input \in Seq(Byte), NEW p \in 0 .. size, NEW backing \in Seq(Byte)
  PROVE  Parses(readView(backing, p), SoundLeaf)
<1> DEFINE tag == readVarint[p]
           offset == readVarint[tag.next]
           length == readVarint[offset.next]
           flags == readVarint[length.next]
           type == CHOOSE t \in ViewType : viewTag[t] = tag.val
           data == selected(backing, offset.val, length.val)
           accepted ==
             /\ tag.ok /\ offset.ok /\ length.ok /\ flags.ok
             /\ flags.val = 0
             /\ InRange(backing, offset.val, length.val)
             /\ \E t \in ViewType :
                  /\ viewTag[t] = tag.val
                  /\ offset.val % elementSize[t] = 0
                  /\ length.val % elementSize[t] = 0
<1>1. Parses(tag, Nat)
  BY ReadVarintParses
<1>2. Parses(offset, Nat)
  BY <1>1, ReadVarintParses DEF Parses
<1>3. Parses(length, Nat)
  BY <1>2, ReadVarintParses DEF Parses
<1>4. Parses(flags, Nat)
  BY <1>3, ReadVarintParses DEF Parses
<1>5. readView(backing, p) =
        IF accepted THEN Parsed(Leaf(type, data), flags.next) ELSE Malformed
  BY Zenon DEF readView
<1> HIDE DEF tag, offset, length, flags
<1>6. CASE ~accepted
  BY <1>5, <1>6, MalformedParses
<1>7. CASE accepted
  <2>1. PICK t \in ViewType : /\ viewTag[t] = tag.val
                              /\ length.val % elementSize[t] = 0
    BY <1>7
  <2>2. type = t
    BY <2>1, ViewTagsDiffer
  <2>3. offset.val \in Nat /\ length.val \in Nat /\ flags.next \in 0 .. size
    BY <1>2, <1>3, <1>4, <1>7 DEF Parses
  <2>4. data \in Seq(Byte) /\ Len(data) = length.val
    BY <1>7, <2>3, SelectedType
  <2> HIDE DEF type, data
  <2>5. Leaf(type, data) \in SoundLeaf
    BY <2>1, <2>2, <2>4, ViewLeaf
  <2> QED BY <1>5, <1>7, <2>3, <2>5, ParsedParses
<1> QED BY <1>6, <1>7

LEMMA ReadArrayBufferParses ==
  ASSUME input \in Seq(Byte), NEW p \in 0 .. size
  PROVE  Parses(readArrayBuffer(p), SoundLeaf)
<1> DEFINE backing == readBytes[p]
           next == skipPadding[backing.next]
<1>1. Parses(backing, Seq(Byte))
  BY ReadBytesParses
<1>2. size \in Nat /\ next \in 0 .. size
  <2>1. size \in Nat /\ backing.next \in 0 .. size
    BY <1>1, AtType DEF Parses
  <2> HIDE DEF backing
  <2>2. next \in backing.next .. size
    BY <2>1, SkipRange
  <2> HIDE DEF next
  <2> QED BY <2>1, <2>2
<1>3. readArrayBuffer(p) =
        IF ~backing.ok THEN Malformed
        ELSE IF at(next) = ViewTag THEN readView(backing.val, next + 1)
        ELSE Parsed(Leaf("arrayBuffer", backing.val), next)
  BY Zenon DEF readArrayBuffer
<1> HIDE DEF backing, next
<1>4. CASE ~backing.ok
  BY <1>3, <1>4, MalformedParses
<1>5. CASE backing.ok
  <2>1. backing.val \in Seq(Byte)
    BY <1>1, <1>5 DEF Parses
  <2>2. CASE at(next) = ViewTag
    <3>1. next # size
      BY <1>2, <2>2, SMT DEF at, Outside, ViewTag
    <3>2. next + 1 \in 0 .. size
      BY <1>2, <3>1
    <3> QED BY <1>3, <1>5, <2>1, <2>2, <3>2, ReadViewParses
  <2>3. CASE at(next) # ViewTag
    <3>1. Leaf("arrayBuffer", backing.val) \in SoundLeaf
      BY <2>1, PlainLeaf, BytesAreUnits DEF PlainType
    <3> QED BY <1>2, <1>3, <1>5, <2>3, <3>1, ParsedParses
  <2> QED BY <2>2, <2>3
<1> QED BY <1>4, <1>5

LEMMA ReadHostObjectParses ==
  ASSUME input \in Seq(Byte), NEW p \in 0 .. size
  PROVE  Parses(readHostObject(p), SoundLeaf)
<1> DEFINE kind == readVarint[p]
           data == readBytes[kind.next]
           type == hostViewType[kind.val + 1]
           accepted == /\ kind.ok /\ kind.val < Len(hostViewType) /\ data.ok
                       /\ Len(data.val) % elementSize[type] = 0
<1>1. Parses(kind, Nat)
  BY ReadVarintParses
<1>2. Parses(data, Seq(Byte))
  BY <1>1, ReadBytesParses DEF Parses
<1>3. readHostObject(p) =
        IF accepted THEN Parsed(Leaf(type, data.val), data.next) ELSE Malformed
  BY Zenon DEF readHostObject
<1>4. \A i \in 1 .. 13 : hostViewType[i] \in ViewType
  BY ViewTypes DEF hostViewType
<1>5. Len(hostViewType) = 13
  BY DEF hostViewType
<1> HIDE DEF kind, data
<1>6. CASE ~accepted
  BY <1>3, <1>6, MalformedParses
<1>7. CASE accepted
  <2>1. /\ kind.val \in Nat /\ kind.val < 13
        /\ data.val \in Seq(Byte) /\ data.next \in 0 .. size
    BY <1>1, <1>2, <1>5, <1>7 DEF Parses
  <2>2. type \in ViewType
    <3> DEFINE k == kind.val
    <3>1. k \in Nat /\ k < 13
      BY <2>1
    <3> HIDE DEF k
    <3>2. k + 1 \in 1 .. 13
      BY <3>1
    <3>3. hostViewType[k + 1] \in ViewType
      BY <1>4, <3>2
    <3> QED BY <3>3 DEF k
  <2> HIDE DEF type
  <2>3. Leaf(type, data.val) \in SoundLeaf
    BY <1>7, <2>1, <2>2, ViewLeaf
  <2> QED BY <1>3, <1>7, <2>1, <2>3, ParsedParses
<1> QED BY <1>6, <1>7

(* Whatever the tag, a value without parts that is read is sound.          *)
LEMMA ReadLeafParses ==
  ASSUME input \in Seq(Byte), NEW p \in 0 .. size, NEW tag \in Byte
  PROVE  Parses(readLeaf(tag, p), SoundLeaf)
<1>1. /\ <<>> \in Seq(CodeUnit) /\ <<0>> \in Seq(CodeUnit)
      /\ <<1>> \in Seq(CodeUnit)
  <2>1. 0 \in CodeUnit /\ 1 \in CodeUnit
    BY CodeUnitRange
  <2> QED BY <2>1
<1>2. \A type \in PlainType, data \in {<<>>, <<0>>, <<1>>} :
        Parses(Constant(p, type, data), SoundLeaf)
  BY <1>1, PlainLeaf, ParsedParses DEF Constant
<1> DEFINE R == {Constant(p, "undefined", <<>>), Constant(p, "null", <<>>),
                 Constant(p, "boolean", <<1>>), Constant(p, "boolean", <<0>>),
                 readInt32(p), readUint32(p), readDouble(p, "double"),
                 readDouble(p, "date"), readUtf8String(p),
                 readOneByteString(p), readTwoByteString(p),
                 readArrayBuffer(p), readHostObject(p), Malformed}
<1>3. readLeaf(tag, p) \in R
  BY Zenon DEF readLeaf
<1>4. \A r \in R : Parses(r, SoundLeaf)
  BY <1>2, ReadNumbersParse, ReadDoubleParses, ReadUtf8StringParses,
     ReadOneByteStringParses, ReadTwoByteStringParses, ReadArrayBufferParses,
     ReadHostObjectParses, MalformedParses DEF PlainType
<1> HIDE DEF R
<1> QED BY <1>3, <1>4

-----------------------------------------------------------------------------
(* readVarint() reads the number whose digits the groups carry.            *)

(* The k-th byte behind p is the first without a continuation bit.         *)
EndsAt(p, k) ==
  /\ k <= size - p
  /\ at(p + k - 1) < GroupBase
  /\ \A j \in 1 .. k - 1 : at(p + j - 1) >= GroupBase

(* The groups behind p are the digits of n.                                *)
Carried(p, k, n) ==
  /\ n \div weight[k] < GroupBase
  /\ \A j \in 1 .. k :
       (n \div weight[j]) % GroupBase = at(p + j - 1) % GroupBase

LEMMA FirstLastGroup ==
  ASSUME input \in Seq(Byte), NEW p \in 0 .. size, NEW most \in 0 .. size - p
  PROVE  LET more == Cardinality({k \in 1 .. most :
                            \A j \in 1 .. k : at(p + j - 1) >= GroupBase})
         IN /\ \A k \in 1 .. most : EndsAt(p, k) => more = k - 1
            /\ more # most => more + 1 \in 1 .. most /\ EndsAt(p, more + 1)
<1> DEFINE group(j) == at(p + j - 1)
           S == {k \in 1 .. most : \A j \in 1 .. k : group(j) >= GroupBase}
           T == {j \in 1 .. most : group(j) >= GroupBase}
           GapAt(k) == k \notin T /\ \A j \in 1 .. k - 1 : j \in T
<1>1. /\ size \in Nat /\ most \in Nat /\ GroupBase \in Nat
      /\ \A j \in 1 .. most : group(j) \in Nat
  <2>1. size \in Nat /\ \A q \in 0 .. size - 1 : at(q) \in Nat
    BY AtType, ByteRange
  <2>2. \A j \in 1 .. most : p + j - 1 \in 0 .. size - 1
    BY <2>1
  <2> QED BY <2>1, <2>2 DEF GroupBase
<1>2. \A k \in 1 .. most : EndsAt(p, k) <=>
        group(k) < GroupBase /\ \A j \in 1 .. k - 1 : group(j) >= GroupBase
  <2>1. \A k \in 1 .. most : k <= size - p
    BY <1>1
  <2> QED BY <2>1 DEF EndsAt
<1> HIDE DEF group
<1>3. S = {k \in 1 .. most : \A j \in 1 .. k : j \in T}
  <2>1. \A k \in 1 .. most, j \in Int : j \in 1 .. k => j \in 1 .. most
    BY <1>1
  <2> QED BY <2>1
<1>4. \A k \in 1 .. most : EndsAt(p, k) <=> GapAt(k)
  <2>1. \A k \in 1 .. most, j \in Int : j \in 1 .. k - 1 => j \in 1 .. most
    BY <1>1
  <2> QED BY <1>1, <1>2, <2>1
<1>5. T \in SUBSET (1 .. most)
  OBVIOUS
<1> HIDE DEF T
<1>6. /\ \A k \in 1 .. most : GapAt(k) => Cardinality(S) = k - 1
      /\ Cardinality(S) # most =>
           Cardinality(S) + 1 \in 1 .. most /\ GapAt(Cardinality(S) + 1)
  <2> DEFINE U == {k \in 1 .. most : \A j \in 1 .. k : j \in T}
  <2>1. most \in Nat
    BY <1>1
  <2>2. /\ \A k \in 1 .. most : GapAt(k) => Cardinality(U) = k - 1
        /\ Cardinality(U) # most =>
             Cardinality(U) + 1 \in 1 .. most /\ GapAt(Cardinality(U) + 1)
    BY ONLY <1>5, <2>1, BeforeGap, Zenon
  <2> QED BY <1>3, <2>2, Zenon
<1> HIDE DEF GapAt
<1>7. /\ \A k \in 1 .. most : EndsAt(p, k) => Cardinality(S) = k - 1
      /\ Cardinality(S) # most =>
           Cardinality(S) + 1 \in 1 .. most /\ EndsAt(p, Cardinality(S) + 1)
  BY <1>4, <1>6, Zenon
<1> QED BY <1>7, Zenon DEF S, group

(* What the groups of a number add up to is the number they carry.         *)
LEMMA GroupsAddUp ==
  ASSUME NEW p, NEW k \in 1 .. 5, \A j \in 1 .. k : at(p + j - 1) \in Nat,
         at(p + k - 1) < GroupBase
  PROVE  LET part(j) == IF j <= k
                        THEN (at(p + j - 1) % GroupBase) * weight[j] ELSE 0
             sum == part(1) + part(2) + part(3) + part(4) + part(5)
         IN /\ sum \in Nat /\ Carried(p, k, sum)
            /\ at(p + k - 1) * weight[k] <= sum
            /\ sum < (at(p + k - 1) + 1) * weight[k]
            /\ \A n \in Nat : Carried(p, k, n) => n = sum
<1> DEFINE group(j) == at(p + j - 1)
           part(j) == IF j <= k
                      THEN (at(p + j - 1) % GroupBase) * weight[j] ELSE 0
           d(j) == IF j <= k THEN group(j) % 128 ELSE 0
           sum == part(1) + part(2) + part(3) + part(4) + part(5)
<1>1. /\ \A j \in 1 .. k : group(j) \in Nat
      /\ group(k) < 128
  BY DEF GroupBase
<1>2. \A j \in 1 .. 5 : part(j) = d(j) * weight[j]
  <2>1. \A j \in 1 .. 5 : weight[j] \in Nat
    BY WeightType
  <2> QED BY <2>1 DEF GroupBase
<1>3. ASSUME NEW n
      PROVE  Carried(p, k, n) <=>
               /\ n \div weight[k] < 128
               /\ \A j \in 1 .. k : (n \div weight[j]) % 128 = d(j)
  BY DEF Carried, GroupBase
<1> HIDE DEF group, part
<1>4. /\ \A j \in 1 .. 5 : d(j) \in Digit /\ (j > k => d(j) = 0)
      /\ d(k) = group(k)
  <2>1. \A n \in Nat : n % 128 \in Digit /\ (n < 128 => n % 128 = n)
    BY DEF Digit
  <2>2. ASSUME NEW j \in 1 .. 5
        PROVE  d(j) \in Digit /\ (j > k => d(j) = 0)
    BY <1>1, <2>1 DEF Digit
  <2>3. d(k) = group(k)
    BY <1>1, <2>1
  <2> QED BY <2>2, <2>3
<1> HIDE DEF d
<1>5. PICK a \in Digit, b \in Digit, c \in Digit, e \in Digit,
           f \in Digit :
        a = d(1) /\ b = d(2) /\ c = d(3) /\ e = d(4) /\ f = d(5)
  <2>1. /\ d(1) \in Digit /\ d(2) \in Digit /\ d(3) \in Digit
        /\ d(4) \in Digit /\ d(5) \in Digit
    BY <1>4
  <2> QED BY <2>1, Zenon
<1>6. sum = DigitSum(a, b, c, e, f)
  BY <1>2, <1>5 DEF DigitSum
<1>7. (k < 2 => b = 0) /\ (k < 3 => c = 0) /\ (k < 4 => e = 0)
      /\ (k < 5 => f = 0)
  BY <1>4, <1>5
<1> DEFINE last == LastDigit(k, a, b, c, e, f)
<1>8. last = group(k) /\ last \in 0 .. 127
  BY <1>4, <1>5 DEF Digit, LastDigit
<1> HIDE DEF sum
<1>9. /\ sum \in Nat /\ sum \div weight[k] = last
      /\ (sum \div weight[1]) % 128 = a /\ (sum \div weight[2]) % 128 = b
      /\ (sum \div weight[3]) % 128 = c /\ (sum \div weight[4]) % 128 = e
      /\ (sum \div weight[5]) % 128 = f
      /\ last * weight[k] <= sum /\ sum < (last + 1) * weight[k]
  <2>1. /\ k \in 1 .. 5 /\ a \in Digit /\ b \in Digit /\ c \in Digit
        /\ e \in Digit /\ f \in Digit
        /\ (k < 2 => b = 0) /\ (k < 3 => c = 0) /\ (k < 4 => e = 0)
        /\ (k < 5 => f = 0)
    BY <1>5, <1>7
  <2>2. HasDigits(k, a, b, c, e, f)
    BY ONLY <2>1, FiveDigits
  <2> QED BY <1>6, <2>2, Zenon DEF HasDigits
<1> HIDE DEF last
<1>10. /\ sum \div weight[k] < 128
       /\ \A j \in 1 .. k : (sum \div weight[j]) % 128 = d(j)
  <2>1. \A j \in 1 .. 5 : (sum \div weight[j]) % 128 = d(j)
    BY <1>5, <1>9
  <2> QED BY <1>8, <1>9, <2>1
<1>11. ASSUME NEW n \in Nat, Carried(p, k, n) PROVE n = sum
  <2>1. /\ n \div weight[k] < 128
        /\ \A j \in 1 .. k : (n \div weight[j]) % 128
                               = (sum \div weight[j]) % 128
    BY <1>3, <1>10, <1>11
  <2> QED BY <1>9, <1>10, <2>1, DigitsDecide
<1> QED BY <1>3, <1>8, <1>9, <1>10, <1>11 DEF sum, part, group

(* readVarint() accepts exactly the numbers that fit a uint32.             *)
LEMMA ReadVarintExact ==
  ASSUME input \in Seq(Byte), NEW p \in 0 .. size
  PROVE  LET r == readVarint[p]
         IN /\ r.ok => \E k \in 1 .. MaxGroups :
                         /\ r.next = p + k /\ EndsAt(p, k)
                         /\ r.val \in U32 /\ Carried(p, k, r.val)
            /\ \A k \in 1 .. MaxGroups, n \in U32 :
                 EndsAt(p, k) /\ Carried(p, k, n) => r = Parsed(n, p + k)
<1> DEFINE most == IF size - p < MaxGroups THEN size - p ELSE MaxGroups
           more == Cardinality({k \in 1 .. most :
                                 \A j \in 1 .. k : at(p + j - 1) >= GroupBase})
           part(j) == IF j <= more + 1
                      THEN (at(p + j - 1) % GroupBase) * weight[j] ELSE 0
           sum == part(1) + part(2) + part(3) + part(4) + part(5)
<1>1. /\ size \in Nat /\ most \in 0 .. size - p /\ most <= MaxGroups
      /\ \A k \in 1 .. MaxGroups : k <= size - p => k <= most
  <2>1. size \in Nat /\ MaxGroups \in Nat /\ p \in Int
    BY AtType, WidthAssumption
  <2> QED BY <2>1
<1>2. readVarint[p] = IF more = most \/ TooWide(p, more + 1) THEN Malformed
                      ELSE Parsed(sum, p + more + 1)
  BY Zenon DEF readVarint
<1> HIDE DEF most
<1>3. /\ \A k \in 1 .. most : EndsAt(p, k) => more = k - 1
      /\ more # most => more + 1 \in 1 .. most /\ EndsAt(p, more + 1)
  BY <1>1, FirstLastGroup
<1>4. more \in Nat \/ more = most
  BY <1>1, <1>3
<1> HIDE DEF more
<1> DEFINE g == more + 1
<1>5. ASSUME g \in 1 .. most, EndsAt(p, g)
      PROVE  /\ sum \in Nat /\ Carried(p, g, sum)
             /\ \A n \in Nat : Carried(p, g, n) => n = sum
             /\ TooWide(p, g) <=> sum \notin U32
  <2>1. /\ g \in 1 .. 5 /\ g \in 1 .. MaxGroups
        /\ at(p + g - 1) < GroupBase
    BY <1>1, <1>5, WidthAssumption DEF EndsAt
  <2>2. \A j \in 1 .. g : at(p + j - 1) \in Nat
    <3>1. \A j \in 1 .. g : p + j - 1 \in 0 .. size - 1
      BY <1>1, <1>5
    <3> QED BY <3>1, AtType, ByteRange
  <2> HIDE DEF g
  <2> DEFINE last == at(p + g - 1)
             item(j) == IF j <= g
                        THEN (at(p + j - 1) % GroupBase) * weight[j] ELSE 0
             total == item(1) + item(2) + item(3) + item(4) + item(5)
  <2>3. /\ total \in Nat /\ Carried(p, g, total)
        /\ last * weight[g] <= total
        /\ total < (last + 1) * weight[g]
        /\ \A n \in Nat : Carried(p, g, n) => n = total
    BY <2>1, <2>2, GroupsAddUp
  <2>4. total = sum
    BY Zenon DEF g
  <2>5. last \in 0 .. 127
    <3>1. g \in 1 .. g
      BY <2>1
    <3>2. last \in Nat /\ last < GroupBase
      BY <2>1, <2>2, <3>1, Zenon
    <3> HIDE DEF last
    <3> QED BY <3>2 DEF GroupBase
  <2> HIDE DEF sum, total, last
  <2>6. TooWide(p, g) <=> g = MaxGroups /\ last >= TopLimit
    BY DEF TooWide, last
  <2>7. sum \notin U32 <=> g = MaxGroups /\ last >= TopLimit
    BY <2>1, <2>3, <2>4, <2>5, TopGroup
  <2> QED BY <2>3, <2>4, <2>6, <2>7
<1>6. ASSUME readVarint[p].ok
      PROVE  \E k \in 1 .. MaxGroups :
               /\ readVarint[p].next = p + k /\ EndsAt(p, k)
               /\ readVarint[p].val \in U32
               /\ Carried(p, k, readVarint[p].val)
  <2>1. more # most /\ ~TooWide(p, g)
    BY <1>2, <1>6 DEF Malformed
  <2>2. g \in 1 .. most /\ EndsAt(p, g)
    BY <1>3, <2>1
  <2>3. readVarint[p] = Parsed(sum, p + more + 1)
    BY <1>2, <2>1
  <2>4. readVarint[p].val = sum /\ readVarint[p].next = p + more + 1
    BY <2>3 DEF Parsed
  <2>5. p + more + 1 = p + g /\ g \in 1 .. MaxGroups
    BY <1>1, <1>4, <2>1, <2>2, WidthAssumption
  <2>6. sum \in U32 /\ Carried(p, g, sum)
    BY <1>5, <2>1, <2>2
  <2> QED BY <2>2, <2>4, <2>5, <2>6
<1>7. ASSUME NEW k \in 1 .. MaxGroups, NEW n \in U32,
             EndsAt(p, k), Carried(p, k, n)
      PROVE  readVarint[p] = Parsed(n, p + k)
  <2>1. k \in 1 .. most /\ more = k - 1 /\ n \in Nat
    <3>1. k \in 1 .. most /\ n \in Nat
      BY <1>1, <1>7, NumberRange DEF EndsAt
    <3>2. more = k - 1
      BY <1>3, <1>7, <3>1
    <3> QED BY <3>1, <3>2
  <2>2. g = k /\ p + more + 1 = p + k /\ more # most
    BY <1>1, <2>1
  <2>3. n = sum /\ ~TooWide(p, g)
    BY <1>5, <1>7, <2>1, <2>2
  <2> QED BY <1>2, <2>2, <2>3
<1> QED BY <1>6, <1>7

(* Where readTag() finds a tag, and where finish() finds the end.          *)
LEMMA AllPadding ==
  ASSUME input \in Seq(Byte), NEW p \in 0 .. size,
         \A q \in p .. size - 1 : at(q) = Padding
  PROVE  skipPadding[p] = size
<1> DEFINE S == {q \in p .. size - 1 : \A k \in p .. q : at(k) = Padding}
<1>1. size \in Nat
  BY AtType
<1>2. S = p .. size - 1
  BY <1>1
<1>3. Cardinality(p .. size - 1) = IF p > size - 1 THEN 0 ELSE size - 1 - p + 1
  BY <1>1, FS_Interval
<1>4. skipPadding[p] = p + Cardinality(S)
  BY DEF skipPadding
<1> HIDE DEF S
<1> QED BY <1>1, <1>2, <1>3, <1>4

LEMMA NoPadding ==
  ASSUME input \in Seq(Byte), NEW p \in 0 .. size - 1, at(p) # Padding
  PROVE  skipPadding[p] = p /\ readTag[p] = Parsed(at(p), p + 1)
<1> DEFINE S == {q \in p .. size - 1 : \A k \in p .. q : at(k) = Padding}
<1>1. size \in Nat
  BY AtType
<1>2. S = {}
  BY <1>1
<1>3. Cardinality({}) = 0
  BY FS_EmptySet
<1>4. skipPadding[p] = p + Cardinality(S)
  BY <1>1 DEF skipPadding
<1> HIDE DEF S
<1>5. skipPadding[p] = p
  BY <1>2, <1>3, <1>4
<1>6. readTag[p] = readByte[p] /\ readByte[p] = Parsed(at(p), p + 1)
  BY <1>1, <1>5 DEF readTag, readByte
<1> QED BY <1>5, <1>6

-----------------------------------------------------------------------------
(* The inductive invariant.  A tree that is being read has bounded height: *)
(* there are sets L[0], L[1], ..., L[MaxDepth] of values, each over the    *)
(* set before it, such that what is read at depth d is in L[MaxDepth - d]. *)

NodeOver(K) ==
  {v \in [type : LeafType, data : Seq(Int), keys : Seq(Seq(Int)),
          kids : Seq(K)] :
     /\ DataSound(v)
     /\ v.type = "object" => Len(v.keys) = Len(v.kids)
     /\ v.type \notin {"array", "object"} => v.kids = <<>>}

Below(L, n) == IF n = 0 THEN {} ELSE L[n - 1]

Strata(L) == \A n \in 0 .. MaxDepth : L[n] \subseteq NodeOver(Below(L, n))

Frame(K) ==
  [kind : {"object", "dense", "sparse"}, length : Nat,
   awaiting : {"key", "value"}, key : Seq(Int), keys : Seq(Seq(Int)),
   kids : Seq(K)]

(* The i-th open container: what it holds is low enough, an array holds no *)
(* more than it declared, less if it waits for an element, and it declared *)
(* no more than the input has bytes.                                       *)
FrameSound(L, f, i, waits) ==
  /\ f \in Frame(Below(L, MaxDepth + 1 - i))
  /\ f.kind = "object" => Len(f.keys) = Len(f.kids)
  /\ f.kind = "dense" =>
       Len(f.kids) <= f.length /\ (waits => Len(f.kids) < f.length)
  /\ f.length <= size

Waits(stack, where, i) == i < Len(stack) \/ where \in {"value", "returned"}

StackSound(L, stack, where) ==
  /\ IsSeq(stack) /\ Len(stack) <= MaxDepth + 1
  /\ \A i \in 1 .. Len(stack) :
       FrameSound(L, stack[i], i, Waits(stack, where, i))

ReaderOver(L) ==
  /\ input \in Seq(Byte) /\ pos \in 0 .. size /\ mode \in Modes
  /\ StackSound(L, frames, mode)
  /\ mode = "header" => pos = 0 /\ frames = <<>>
  /\ mode = "loop" => frames # <<>>
  /\ mode = "returned" =>
       Len(frames) <= MaxDepth /\ value \in L[MaxDepth - Len(frames)]
  /\ mode = "done" => frames = <<>> /\ value \in L[MaxDepth]

ReaderInv == \E L : Strata(L) /\ ReaderOver(L)

-----------------------------------------------------------------------------
(* Lower sets grow, and what was sound stays sound.                        *)

Grows(L, M) == \A n \in 0 .. MaxDepth : L[n] \subseteq M[n]

LEMMA NodeMonotonic ==
  ASSUME NEW K, NEW J, K \subseteq J
  PROVE  NodeOver(K) \subseteq NodeOver(J) /\ Frame(K) \subseteq Frame(J)
<1>1. \A s \in Seq(K) : s \in Seq(J)
  BY SeqMonotonic
<1> QED BY <1>1 DEF NodeOver, Frame

LEMMA BelowMonotonic ==
  ASSUME NEW L, NEW M, Grows(L, M), NEW n \in 0 .. MaxDepth + 1
  PROVE  Below(L, n) \subseteq Below(M, n)
<1>1. n # 0 => n - 1 \in 0 .. MaxDepth
  BY ReaderAssumption
<1> QED BY <1>1 DEF Below, Grows

LEMMA StackMonotonic ==
  ASSUME NEW L, NEW M, Grows(L, M), NEW stack, NEW where,
         StackSound(L, stack, where)
  PROVE  StackSound(M, stack, where)
<1>1. ASSUME NEW i \in 1 .. Len(stack)
      PROVE  stack[i] \in Frame(Below(M, MaxDepth + 1 - i))
  <2>1. MaxDepth + 1 - i \in 0 .. MaxDepth + 1
    BY SequencesAre, ReaderAssumption DEF StackSound
  <2>2. stack[i] \in Frame(Below(L, MaxDepth + 1 - i))
    BY DEF StackSound, FrameSound
  <2> DEFINE K == Below(L, MaxDepth + 1 - i)
             J == Below(M, MaxDepth + 1 - i)
  <2>3. K \subseteq J
    BY <2>1, BelowMonotonic
  <2> HIDE DEF K, J
  <2>4. Frame(K) \subseteq Frame(J)
    BY <2>3, NodeMonotonic
  <2> QED BY <2>2, <2>4 DEF K, J
<1> QED BY <1>1 DEF StackSound, FrameSound

(* A node over the lower sets can be added to its set.                     *)
LEMMA NodeAdded ==
  ASSUME NEW L, Strata(L), NEW n \in 0 .. MaxDepth,
         NEW v \in NodeOver(Below(L, n))
  PROVE  \E M : Strata(M) /\ Grows(L, M) /\ v \in M[n]
<1> DEFINE M == [k \in 0 .. MaxDepth |->
                   IF k = n THEN L[k] \cup {v} ELSE L[k]]
<1>1. Grows(L, M) /\ v \in M[n]
  BY DEF Grows
<1>2. ASSUME NEW k \in 0 .. MaxDepth PROVE M[k] \subseteq NodeOver(Below(M, k))
  <2>1. NodeOver(Below(L, k)) \subseteq NodeOver(Below(M, k))
    <3>1. k \in 0 .. MaxDepth + 1
      BY ReaderAssumption
    <3> HIDE DEF M
    <3> QED BY <1>1, <3>1, BelowMonotonic, NodeMonotonic
  <2>2. L[k] \subseteq NodeOver(Below(L, k))
    BY DEF Strata
  <2>3. M[k] \subseteq L[k] \cup (IF k = n THEN {v} ELSE {})
    OBVIOUS
  <2> HIDE DEF M
  <2> QED BY <2>1, <2>2, <2>3
<1> HIDE DEF M
<1> QED BY <1>1, <1>2 DEF Strata

LEMMA LeafIsNode == ASSUME NEW K PROVE SoundLeaf \subseteq NodeOver(K)
<1>1. ASSUME NEW v \in SoundLeaf PROVE v \in NodeOver(K)
  <2>1. /\ v \in [type : LeafType, data : Seq(Int),
                 keys : {<<>>}, kids : {<<>>}]
        /\ DataSound(v)
    BY DEF SoundLeaf, LeafValue
  <2>2. <<>> \in Seq(Seq(Int)) /\ <<>> \in Seq(K)
    OBVIOUS
  <2>3. v \in [type : LeafType, data : Seq(Int), keys : Seq(Seq(Int)),
               kids : Seq(K)]
    BY <2>1, <2>2
  <2>4. v.keys = <<>> /\ v.kids = <<>>
    BY <2>1
  <2> QED BY <2>1, <2>3, <2>4 DEF NodeOver
<1> QED BY <1>1

-----------------------------------------------------------------------------
(* What the steps do with the stack.                                       *)

LEMMA StackKept ==
  ASSUME NEW L, NEW stack, NEW where, NEW there, StackSound(L, stack, where),
         stack = <<>> \/ there \in {"loop", "failed", "done"}
           \/ where \in {"value", "returned"}
           \/ LET f == stack[Len(stack)]
              IN  f.kind = "dense" => Len(f.kids) < f.length
  PROVE  StackSound(L, stack, there)
<1>1. Len(stack) \in Nat /\ (stack = <<>> <=> Len(stack) = 0)
  BY SequencesAre DEF StackSound
<1>2. ASSUME NEW i \in 1 .. Len(stack)
      PROVE  FrameSound(L, stack[i], i, Waits(stack, there, i))
  <2>1. FrameSound(L, stack[i], i, Waits(stack, where, i))
    BY DEF StackSound
  <2>2. CASE Waits(stack, there, i) => Waits(stack, where, i)
    BY <2>1, <2>2 DEF FrameSound
  <2>3. CASE ~(Waits(stack, there, i) => Waits(stack, where, i))
    <3>1. /\ i = Len(stack) /\ there \in {"value", "returned"}
          /\ where \notin {"value", "returned"} /\ stack # <<>>
      BY <1>1, <2>3 DEF Waits
    <3>2. stack[i].kind = "dense" => Len(stack[i].kids) < stack[i].length
      BY <3>1
    <3> QED BY <2>1, <3>2 DEF FrameSound
  <2> QED BY <2>2, <2>3
<1> QED BY <1>2 DEF StackSound

LEMMA StackPushed ==
  ASSUME NEW L, NEW stack, StackSound(L, stack, "value"),
         Len(stack) <= MaxDepth, NEW kind \in {"object", "dense", "sparse"},
         NEW length \in Nat, length <= size
  PROVE  LET new == Append(stack, NewFrame(kind, length))
         IN  StackSound(L, new, "loop") /\ new # <<>>
<1> DEFINE new == Append(stack, NewFrame(kind, length))
<1>1. /\ IsSeq(stack) /\ Len(stack) \in Nat
      /\ IsSeq(new) /\ Len(new) = Len(stack) + 1
      /\ new[Len(stack) + 1] = NewFrame(kind, length)
      /\ \A i \in 1 .. Len(stack) : new[i] = stack[i]
  BY SequenceAppended, SequencesAre DEF StackSound
<1>2. FrameSound(L, NewFrame(kind, length), Len(stack) + 1, FALSE)
  BY DEF FrameSound, NewFrame, Frame
<1> HIDE DEF new
<1>3. ASSUME NEW i \in 1 .. Len(new)
      PROVE  FrameSound(L, new[i], i, Waits(new, "loop", i))
  <2>1. CASE i = Len(stack) + 1
    <3>1. ~Waits(new, "loop", i)
      BY <1>1, <2>1 DEF Waits
    <3>2. new[i] = NewFrame(kind, length)
      BY <1>1, <2>1
    <3> QED BY <1>2, <2>1, <3>1, <3>2 DEF FrameSound
  <2>2. CASE i \in 1 .. Len(stack)
    <3>1. FrameSound(L, stack[i], i, TRUE)
      BY <2>2 DEF StackSound, Waits
    <3> QED BY <1>1, <2>2, <3>1 DEF FrameSound
  <2> QED BY <1>1, <2>1, <2>2
<1>4. Len(new) <= MaxDepth + 1 /\ new # <<>>
  BY <1>1, SequencesAre, ReaderAssumption
<1> QED BY <1>1, <1>3, <1>4 DEF StackSound, new

LEMMA StackPopped ==
  ASSUME NEW L, NEW stack, NEW where, StackSound(L, stack, where), stack # <<>>
  PROVE  LET new == SubSeq(stack, 1, Len(stack) - 1)
         IN  StackSound(L, new, "returned") /\ Len(new) = Len(stack) - 1
<1> DEFINE new == SubSeq(stack, 1, Len(stack) - 1)
<1>1. /\ Len(stack) \in Nat \ {0}
      /\ IsSeq(new) /\ Len(new) = Len(stack) - 1
      /\ \A i \in 1 .. Len(new) : new[i] = stack[i]
  BY SequenceShortened, SequencesAre DEF StackSound
<1> HIDE DEF new
<1>2. ASSUME NEW i \in 1 .. Len(new)
      PROVE  FrameSound(L, new[i], i, Waits(new, "returned", i))
  <2>1. i \in 1 .. Len(stack) /\ i < Len(stack)
    BY <1>1
  <2>2. FrameSound(L, stack[i], i, TRUE)
    BY <2>1 DEF StackSound, Waits
  <2> QED BY <1>1, <2>2 DEF FrameSound
<1>3. Len(new) <= MaxDepth + 1
  BY <1>1, ReaderAssumption DEF StackSound
<1> QED BY <1>1, <1>2, <1>3 DEF StackSound, new

LEMMA TopReplaced ==
  ASSUME NEW L, NEW stack, NEW where, NEW there, StackSound(L, stack, where),
         stack # <<>>, NEW f, FrameSound(L, f, Len(stack), FALSE),
         there \in {"value", "returned"} => FrameSound(L, f, Len(stack), TRUE)
  PROVE  LET new == [stack EXCEPT ![Len(stack)] = f]
         IN  StackSound(L, new, there) /\ Len(new) = Len(stack)
<1> DEFINE new == [stack EXCEPT ![Len(stack)] = f]
<1>1. /\ Len(stack) \in Nat \ {0} /\ Len(stack) <= MaxDepth + 1
      /\ IsSeq(new) /\ Len(new) = Len(stack) /\ new[Len(stack)] = f
      /\ \A i \in 1 .. Len(stack) - 1 : new[i] = stack[i]
  <2>1. IsSeq(stack) /\ Len(stack) <= MaxDepth + 1
    BY DEF StackSound
  <2> QED BY ONLY <2>1, stack # <<>>, LastReplaced, SequencesAre
<1> HIDE DEF new
<1>2. ASSUME NEW i \in 1 .. Len(new)
      PROVE  FrameSound(L, new[i], i, Waits(new, there, i))
  <2>1. CASE i = Len(stack)
    BY <1>1, <2>1 DEF Waits, FrameSound
  <2>2. CASE i \in 1 .. Len(stack) - 1
    <3>1. i \in 1 .. Len(stack) /\ i < Len(stack)
      BY <1>1, <2>2
    <3>2. FrameSound(L, stack[i], i, TRUE)
      BY <3>1 DEF StackSound, Waits
    <3> QED BY <1>1, <2>2, <3>2 DEF FrameSound
  <2> QED BY <1>1, <2>1, <2>2
<1> QED BY <1>1, <1>2 DEF StackSound, new

-----------------------------------------------------------------------------
(* The outcomes of a step.                                                 *)

(* An outcome is sound if all that it assigns is, for some higher sets.    *)
LEMMA OutcomeSound ==
  ASSUME NEW L, Strata(L), input \in Seq(Byte), input' = input,
         pos' \in 0 .. size, mode' \in Modes \ {"header"},
         StackSound(L, frames', mode'),
         mode' = "loop" => frames' # <<>>,
         mode' = "returned" => /\ Len(frames') <= MaxDepth
                               /\ value' \in L[MaxDepth - Len(frames')],
         mode' = "done" => frames' = <<>> /\ value' \in L[MaxDepth]
  PROVE  ReaderInv'
<1>1. size' = size
  BY DEF size
<1>2. StackSound(L, frames, mode)'
  BY <1>1 DEF StackSound, FrameSound, Waits, Frame, Below, IsSeq
<1>3. ReaderOver(L)'
  BY <1>1, <1>2 DEF ReaderOver
<1>4. Strata(L)'
  BY DEF Strata, Below, NodeOver, DataSound
<1> QED BY <1>3, <1>4 DEF ReaderInv

LEMMA FailKeeps ==
  ASSUME NEW L, Strata(L), ReaderOver(L), Fail
  PROVE  ReaderInv'
<1>1. /\ input' = input /\ pos' = pos /\ frames' = frames
      /\ mode' = "failed" /\ mode' \in Modes \ {"header"}
      /\ input \in Seq(Byte) /\ pos \in 0 .. size
  BY DEF Fail, ReaderOver, Modes
<1>2. StackSound(L, frames', mode')
  BY <1>1, StackKept DEF ReaderOver
<1> QED BY <1>1, <1>2, OutcomeSound

LEMMA ContinueKeeps ==
  ASSUME NEW L, Strata(L), ReaderOver(L), NEW next \in 0 .. size, NEW stack,
         NEW where \in {"value", "loop", "done"},
         StackSound(L, stack, where),
         where = "loop" => stack # <<>>,
         where = "done" => stack = <<>> /\ value \in L[MaxDepth],
         Continue(next, stack, where)
  PROVE  ReaderInv'
<1>1. /\ input' = input /\ pos' = next /\ frames' = stack /\ value' = value
      /\ mode' = where /\ mode' \in Modes \ {"header"}
      /\ input \in Seq(Byte)
  BY DEF Continue, ReaderOver, Modes
<1> QED BY <1>1, OutcomeSound

LEMMA ReturnKeeps ==
  ASSUME NEW L, Strata(L), ReaderOver(L), NEW next \in 0 .. size, NEW stack,
         StackSound(L, stack, "returned"), Len(stack) <= MaxDepth,
         NEW v \in NodeOver(Below(L, MaxDepth - Len(stack))),
         Return(v, next, stack)
  PROVE  ReaderInv'
<1> DEFINE n == MaxDepth - Len(stack)
<1>1. n \in 0 .. MaxDepth
  BY SequencesAre, ReaderAssumption DEF StackSound
<1>2. PICK M : Strata(M) /\ Grows(L, M) /\ v \in M[n]
  <2> HIDE DEF n
  <2>1. v \in NodeOver(Below(L, n))
    BY DEF n
  <2> QED BY <1>1, <2>1, NodeAdded
<1>3. /\ input' = input /\ pos' = next /\ frames' = stack /\ value' = v
      /\ mode' = "returned" /\ mode' \in Modes \ {"header"}
      /\ input \in Seq(Byte)
  BY DEF Return, ReaderOver, Modes
<1>4. StackSound(M, frames', mode')
  BY <1>2, <1>3, StackMonotonic
<1> QED BY <1>2, <1>3, <1>4, OutcomeSound

-----------------------------------------------------------------------------
(* One lemma for each action.                                              *)

LEMMA ReadHeaderKeeps ==
  ASSUME NEW L, Strata(L), ReaderOver(L), readHeader
  PROVE  ReaderInv'
<1> DEFINE magic == readByte[0]
           version == readVarint[magic.next]
<1>1. /\ mode = "header"
      /\ Fail \/ Continue(version.next, frames, "value")
  BY Zenon DEF readHeader
<1>2. version.next \in 0 .. size
  <2>1. input \in Seq(Byte) /\ 0 \in 0 .. size
    BY AtType DEF ReaderOver
  <2>2. Parses(magic, Byte)
    BY <2>1, ReadByteParses
  <2> HIDE DEF magic
  <2>3. Parses(version, Nat)
    BY <2>1, <2>2, ReadVarintParses DEF Parses
  <2> QED BY <2>3 DEF Parses
<1>3. StackSound(L, frames, "value")
  BY <1>1, StackKept DEF ReaderOver
<1> QED BY <1>1, <1>2, <1>3, FailKeeps, ContinueKeeps

(* What is known where a value is about to be read.                        *)
LEMMA AtValue ==
  ASSUME NEW L, ReaderOver(L), NEW tags, TagIn(tags)
  PROVE  /\ input \in Seq(Byte) /\ mode = "value" /\ Len(frames) <= MaxDepth
         /\ behindTag \in 0 .. size /\ readTag[pos].val \in Byte \cap tags
         /\ StackSound(L, frames, "value")
<1>1. Parses(readTag[pos], Byte)
  BY ReadTagParses DEF ReaderOver
<1> QED BY <1>1 DEF ReaderOver, TagIn, behindTag, Parses

LEMMA SkipCountMarkerKeeps ==
  ASSUME NEW L, Strata(L), ReaderOver(L), skipCountMarker
  PROVE  ReaderInv'
<1> DEFINE count == readVarint[behindTag]
<1>1. /\ TagIn({CountMarkerTag})
      /\ Fail \/ Continue(count.next, frames, "value")
  BY Zenon DEF skipCountMarker
<1>2. count.next \in 0 .. size /\ StackSound(L, frames, "value")
  BY <1>1, AtValue, ReadVarintParses DEF Parses
<1> QED BY <1>1, <1>2, FailKeeps, ContinueKeeps

LEMMA OpenObjectKeeps ==
  ASSUME NEW L, Strata(L), ReaderOver(L), openObject
  PROVE  ReaderInv'
<1> DEFINE stack == Append(frames, NewFrame("object", 0))
<1>1. TagIn({ObjectTag}) /\ Continue(behindTag, stack, "loop")
  BY DEF openObject
<1>2. behindTag \in 0 .. size /\ 0 <= size
  BY <1>1, AtValue, AtType
<1>3. StackSound(L, stack, "loop") /\ stack # <<>>
  BY <1>1, <1>2, AtValue, StackPushed
<1> HIDE DEF stack
<1> QED BY <1>1, <1>2, <1>3, ContinueKeeps

LEMMA OpenArrayKeeps ==
  ASSUME NEW L, Strata(L), ReaderOver(L), NEW tag,
         NEW kind \in {"dense", "sparse"}, openArray(tag, kind)
  PROVE  ReaderInv'
<1> DEFINE length == readVarint[behindTag]
           stack == Append(frames, NewFrame(kind, length.val))
<1>1. /\ TagIn({tag})
      /\ \/ Fail
         \/ /\ length.ok /\ length.val <= size - length.next
            /\ Continue(length.next, stack, "loop")
  BY Zenon DEF openArray
<1>2. CASE Fail
  BY <1>2, FailKeeps
<1>3. CASE /\ length.ok /\ length.val <= size - length.next
           /\ Continue(length.next, stack, "loop")
  <2>1. Parses(length, Nat) /\ size \in Nat
    BY <1>1, AtValue, AtType, ReadVarintParses
  <2> HIDE DEF length
  <2>2. length.val \in Nat /\ length.next \in 0 .. size
    BY <1>3, <2>1 DEF Parses
  <2>3. length.val <= size
    <3> DEFINE n == length.val
               p == length.next
    <3>1. n \in Nat /\ p \in Nat /\ n <= size - p
      BY <1>3, <2>1, <2>2
    <3> HIDE DEF n, p
    <3>2. n <= size
      BY <2>1, <3>1
    <3> QED BY <3>2 DEF n
  <2>4. StackSound(L, stack, "loop") /\ stack # <<>>
    BY <1>1, <2>2, <2>3, AtValue, StackPushed
  <2> HIDE DEF stack
  <2> QED BY <1>3, <2>2, <2>4, ContinueKeeps
<1> QED BY <1>1, <1>2, <1>3

LEMMA ReadLeafValueKeeps ==
  ASSUME NEW L, Strata(L), ReaderOver(L), readLeafValue
  PROVE  ReaderInv'
<1> DEFINE r == readLeaf(readTag[pos].val, behindTag)
           tags == Byte \ {CountMarkerTag, ObjectTag, DenseTag, SparseTag}
<1>1. TagIn(tags) /\ Attempt(r)
  BY DEF readLeafValue
<1> HIDE DEF tags
<1>2. Parses(r, SoundLeaf)
  BY <1>1, AtValue, ReadLeafParses
<1> HIDE DEF r
<1>3. Fail \/ (r.ok /\ Return(r.val, r.next, frames))
  <2>1. IF r.ok THEN Return(r.val, r.next, frames) ELSE Fail
    BY <1>1, Zenon DEF Attempt
  <2>2. CASE r.ok
    BY <2>1, <2>2, Zenon
  <2>3. CASE ~r.ok
    BY <2>1, <2>3, Zenon
  <2> QED BY <2>2, <2>3
<1>4. CASE r.ok /\ Return(r.val, r.next, frames)
  <2>1. /\ r.next \in 0 .. size
        /\ r.val \in NodeOver(Below(L, MaxDepth - Len(frames)))
    BY <1>2, <1>4, LeafIsNode DEF Parses
  <2>2. StackSound(L, frames, "returned") /\ Len(frames) <= MaxDepth
    BY <1>1, AtValue, StackKept
  <2> QED BY <1>4, <2>1, <2>2, ReturnKeeps
<1> QED BY <1>3, <1>4, FailKeeps

(* What is known of the innermost open container.                          *)
LEMMA AtTop ==
  ASSUME NEW L, ReaderOver(L), frames # <<>>
  PROVE  /\ Len(frames) \in 1 .. MaxDepth + 1
         /\ FrameSound(L, top, Len(frames), mode \in {"value", "returned"})
<1>1. Len(frames) \in Nat \ {0} /\ Len(frames) <= MaxDepth + 1
  BY SequencesAre DEF ReaderOver, StackSound
<1>2. Len(frames) \in 1 .. MaxDepth + 1 /\ Len(frames) \in 1 .. Len(frames)
  BY <1>1, ReaderAssumption
<1>3. FrameSound(L, frames[Len(frames)], Len(frames),
                 Waits(frames, mode, Len(frames)))
  BY <1>2 DEF ReaderOver, StackSound
<1> QED BY <1>1, <1>2, <1>3 DEF top, Waits, FrameSound

(* A container that ends is a node over what it holds, and its caller gets *)
(* it back.                                                                *)
LEMMA FinishedKeeps ==
  ASSUME NEW L, Strata(L), ReaderOver(L), mode = "loop",
         NEW next \in 0 .. size, Return(Finished, next, callers)
  PROVE  ReaderInv'
<1> DEFINE n == MaxDepth + 1 - Len(frames)
           K == Below(L, n)
<1>1. /\ Len(frames) \in 1 .. MaxDepth + 1 /\ frames # <<>>
      /\ FrameSound(L, top, Len(frames), FALSE)
  BY AtTop DEF ReaderOver, FrameSound
<1>2. Finished \in NodeOver(K)
  <2> HIDE DEF K
  <2>1. /\ top \in Frame(K)
        /\ top.kind = "object" => Len(top.keys) = Len(top.kids)
    BY <1>1 DEF FrameSound, K
  <2>2. top.keys \in Seq(Seq(Int)) /\ top.kids \in Seq(K)
    BY <2>1 DEF Frame
  <2>3. Finished.type = IF top.kind = "object" THEN "object" ELSE "array"
    BY DEF Finished
  <2>4. /\ Finished.data = <<>> /\ Finished.keys = top.keys
        /\ Finished.kids = top.kids
    BY DEF Finished
  <2>5. Finished \in [type : {"array", "object"}, data : {<<>>},
                      keys : Seq(Seq(Int)), kids : Seq(K)]
    BY <2>2 DEF Finished
  <2>6. {"array", "object"} \subseteq LeafType \ (IntegerType \cup ViewType)
    BY ViewTypes DEF LeafType, IntegerType
  <2>7. <<>> \in Seq(Int) /\ <<>> \in Seq(CodeUnit)
    OBVIOUS
  <2>8. DataSound(Finished)
    BY <2>3, <2>4, <2>6, <2>7 DEF DataSound
  <2> QED BY <2>1, <2>3, <2>4, <2>5, <2>6, <2>7, <2>8 DEF NodeOver
<1>3. /\ StackSound(L, callers, "returned") /\ Len(callers) = Len(frames) - 1
      /\ Len(callers) <= MaxDepth /\ MaxDepth - Len(callers) = n
  <2>1. StackSound(L, callers, "returned") /\ Len(callers) = Len(frames) - 1
    BY <1>1, StackPopped DEF ReaderOver, callers
  <2> QED BY <1>1, <2>1, ReaderAssumption
<1> HIDE DEF n
<1>4. Finished \in NodeOver(Below(L, MaxDepth - Len(callers)))
  BY <1>2, <1>3
<1> QED BY <1>3, <1>4, ReturnKeeps

(* A container that is not yet full asks for a value.                      *)
LEMMA AskingKeeps ==
  ASSUME NEW L, Strata(L), ReaderOver(L), mode = "loop",
         top.kind = "dense" => Len(top.kids) < top.length,
         Continue(skipPadding[pos], frames, "value")
  PROVE  ReaderInv'
<1>1. skipPadding[pos] \in 0 .. size
  <2>1. /\ input \in Seq(Byte) /\ pos \in 0 .. size /\ size \in Nat
        /\ skipPadding[pos] \in pos .. size
    BY SkipRange, AtType DEF ReaderOver
  <2> QED BY <2>1
<1>2. StackSound(L, frames, "value")
  BY StackKept DEF ReaderOver, top
<1> QED BY <1>1, <1>2, ContinueKeeps

(* The offsets behind the tag and the varints that end a container.        *)
LEMMA EndOffsets ==
  ASSUME input \in Seq(Byte), pos \in 0 .. size
  PROVE  LET tag == readTag[pos]
             first == readVarint[tag.next]
             second == readVarint[first.next]
         IN  first.next \in 0 .. size /\ second.next \in 0 .. size
<1> DEFINE tag == readTag[pos]
           first == readVarint[tag.next]
           second == readVarint[first.next]
<1>1. tag.next \in 0 .. size
  BY ReadTagParses DEF Parses
<1> HIDE DEF tag
<1>2. first.next \in 0 .. size
  BY <1>1, ReadVarintParses DEF Parses
<1> HIDE DEF first
<1>3. second.next \in 0 .. size
  BY <1>2, ReadVarintParses DEF Parses
<1> QED BY <1>2, <1>3 DEF tag, first

LEMMA LoopKeeps ==
  ASSUME NEW L, Strata(L), ReaderOver(L), objectLoop \/ denseLoop \/ sparseLoop
  PROVE  ReaderInv'
<1> DEFINE tag == readTag[pos]
           first == readVarint[tag.next]
           second == readVarint[first.next]
<1>1. /\ mode = "loop"
      /\ \/ Fail
         \/ /\ top.kind = "dense" => Len(top.kids) < top.length
            /\ Continue(skipPadding[pos], frames, "value")
         \/ Return(Finished, first.next, callers)
         \/ Return(Finished, second.next, callers)
  <2>1. CASE objectLoop
    BY <2>1, Zenon DEF objectLoop, AtLoop
  <2>2. CASE denseLoop
    BY <2>2, Zenon DEF denseLoop, AtLoop
  <2>3. CASE sparseLoop
    BY <2>3, Zenon DEF sparseLoop, AtLoop
  <2> QED BY <2>1, <2>2, <2>3
<1>2. first.next \in 0 .. size /\ second.next \in 0 .. size
  BY Zenon, EndOffsets DEF ReaderOver
<1> HIDE DEF first, second
<1> QED BY <1>1, <1>2, FailKeeps, AskingKeeps, FinishedKeeps

-----------------------------------------------------------------------------
(* What a container does with the value it asked for.                      *)

(* The quotient by a power of ten, taken digit by digit.                   *)
LEMMA QuotientDigit ==
  \A m \in Nat, k \in 1 .. 10 : 48 + ((m \div power[k]) % 10) \in Int
BY SMT DEF power

LEMMA DecimalType == \A n \in Int : decimal(n) \in Seq(Int)
<1> SUFFICES ASSUME NEW n \in Int PROVE decimal(n) \in Seq(Int)
  OBVIOUS
<1> DEFINE magnitude == IF n < 0 THEN -n ELSE n
           S == {k \in 2 .. 10 : magnitude >= power[k]}
           digits == 1 + Cardinality(S)
           digit(i) == 48 + ((magnitude \div power[digits - i + 1]) % 10)
           number == [i \in 1 .. digits |-> digit(i)]
           sign == IF n < 0 THEN <<45>> ELSE <<>>
<1>1. magnitude \in Nat
  OBVIOUS
<1>2. digits \in 1 .. 10
  <2>1. S \in SUBSET (2 .. 10)
    OBVIOUS
  <2> HIDE DEF S
  <2>2. 2 \in Int /\ 10 \in Int /\ 2 <= 10 + 1
    OBVIOUS
  <2>3. Cardinality(S) \in 0 .. 10 - 2 + 1
    BY ONLY <2>1, <2>2, CountBound
  <2> QED BY <2>3
<1> HIDE DEF magnitude, digits
<1>3. ASSUME NEW i \in 1 .. digits PROVE digit(i) \in Int
  <2>1. digits - i + 1 \in 1 .. 10
    BY <1>2
  <2> QED BY <1>1, <2>1, QuotientDigit
<1> HIDE DEF digit
<1>4. number \in Seq(Int)
  BY <1>2, <1>3
<1>5. sign \in Seq(Int)
  OBVIOUS
<1>6. decimal(n) = sign \o number
  BY Zenon DEF decimal, magnitude, digits, digit
<1> HIDE DEF number, sign
<1> QED BY <1>4, <1>5, <1>6

(* A value just returned is a node, and it is one that the container which *)
(* asked for it may hold.                                                  *)
LEMMA AtReturnOf ==
  ASSUME NEW L, Strata(L), ReaderOver(L), NEW kinds, NEW awaiting,
         AtReturn(kinds, awaiting)
  PROVE  /\ mode = "returned" /\ frames # <<>> /\ top.kind \in kinds
         /\ FrameSound(L, top, Len(frames), TRUE)
         /\ value \in Below(L, MaxDepth + 1 - Len(frames))
         /\ \E K : value \in NodeOver(K)
<1>1. mode = "returned" /\ frames # <<>> /\ top.kind \in kinds
  BY DEF AtReturn
<1>2. Len(frames) \in 1 .. MaxDepth + 1 /\ FrameSound(L, top, Len(frames), TRUE)
  BY <1>1, AtTop DEF FrameSound
<1> DEFINE n == MaxDepth - Len(frames)
<1>3. Len(frames) <= MaxDepth /\ value \in L[n]
  BY <1>1 DEF ReaderOver
<1>4. n \in 0 .. MaxDepth /\ MaxDepth + 1 - Len(frames) = n + 1
  BY <1>2, <1>3, ReaderAssumption
<1> HIDE DEF n
<1>5. value \in Below(L, n + 1)
  BY <1>3, <1>4 DEF Below
<1>6. value \in NodeOver(Below(L, n))
  BY <1>3, <1>4 DEF Strata
<1> QED BY <1>1, <1>2, <1>4, <1>5, <1>6

(* A container that takes a value replaces its frame.                      *)
LEMMA TakenKeeps ==
  ASSUME NEW L, Strata(L), ReaderOver(L), frames # <<>>,
         NEW where \in {"value", "loop"}, NEW f,
         FrameSound(L, f, Len(frames), FALSE),
         where = "value" => FrameSound(L, f, Len(frames), TRUE),
         Continue(pos, [frames EXCEPT ![Len(frames)] = f], where)
  PROVE  ReaderInv'
<1> DEFINE new == [frames EXCEPT ![Len(frames)] = f]
<1>1. where \in {"value", "returned"} => FrameSound(L, f, Len(frames), TRUE)
  OBVIOUS
<1>2. StackSound(L, new, where) /\ Len(new) = Len(frames)
  <2>1. StackSound(L, frames, mode)
    BY DEF ReaderOver
  <2> QED BY <1>1, <2>1, TopReplaced
<1>3. new # <<>> /\ pos \in 0 .. size
  BY <1>2, SequencesAre DEF ReaderOver, StackSound
<1> HIDE DEF new
<1> QED BY <1>2, <1>3, ContinueKeeps DEF new

LEMMA GotKeyKeeps ==
  ASSUME NEW L, Strata(L), ReaderOver(L), mode = "returned", frames # <<>>,
         NEW key \in Seq(Int), GotKey(key)
  PROVE  ReaderInv'
<1> DEFINE f == [top EXCEPT !.awaiting = "value", !.key = key]
           n == Len(frames)
           K == Below(L, MaxDepth + 1 - n)
<1>1. n \in Nat /\ FrameSound(L, top, n, TRUE)
  BY AtTop DEF FrameSound
<1>2. FrameSound(L, f, n, TRUE)
  <2> HIDE DEF n
  <2>1. top \in Frame(K)
    BY <1>1 DEF FrameSound
  <2> HIDE DEF K
  <2>2. /\ f \in Frame(K) /\ f.kind = top.kind /\ f.length = top.length
        /\ f.keys = top.keys /\ f.kids = top.kids
    BY <2>1 DEF Frame
  <2> QED BY <1>1, <2>2 DEF FrameSound, K
<1>3. [frames EXCEPT ![Len(frames)].awaiting = "value",
                     ![Len(frames)].key = key]
        = [frames EXCEPT ![n] = f]
  BY DEF top
<1>4. Continue(pos, [frames EXCEPT ![n] = f], "value")
  BY <1>3 DEF GotKey
<1> HIDE DEF f
<1>5. FrameSound(L, f, n, FALSE)
  BY <1>2 DEF FrameSound
<1> QED BY <1>2, <1>4, <1>5, TakenKeeps

LEMMA ReadKeyKeeps ==
  ASSUME NEW L, Strata(L), ReaderOver(L), readPropertyKey \/ readSparseIndex
  PROVE  ReaderInv'
<1>1. mode = "returned" /\ frames # <<>> /\ \E K : value \in NodeOver(K)
  BY AtReturnOf DEF readPropertyKey, readSparseIndex
<1>2. value.type \in IntegerType => value.data[1] \in Int
  BY <1>1 DEF NodeOver, DataSound
<1>3. value.data \in Seq(Int)
  BY <1>1 DEF NodeOver
<1>4. value.type = "string" \/ IsInteger(value) =>
        PropertyKey(value) \in Seq(Int)
  BY <1>2, <1>3, DecimalType DEF PropertyKey, IsInteger, IntegerType
<1>5. Fail \/ \E key \in Seq(Int) : GotKey(key)
  <2>1. CASE readPropertyKey
    BY <1>4, <2>1 DEF readPropertyKey
  <2>2. CASE readSparseIndex
    <3>1. <<>> \in Seq(Int)
      OBVIOUS
    <3> QED BY <2>2, <3>1, Zenon DEF readSparseIndex
  <2> QED BY <2>1, <2>2
<1> QED BY <1>1, <1>5, FailKeeps, GotKeyKeeps

LEMMA ReadPropertyKeeps ==
  ASSUME NEW L, Strata(L), ReaderOver(L), readProperty
  PROVE  ReaderInv'
<1> DEFINE keys == IF top.kind = "object" THEN Append(top.keys, top.key)
                   ELSE top.keys
           kids == Append(top.kids, value)
           f == [top EXCEPT !.awaiting = "key", !.kids = kids, !.keys = keys]
           n == Len(frames)
           K == Below(L, MaxDepth + 1 - n)
<1>1. /\ frames # <<>> /\ top.kind \in {"object", "sparse"}
      /\ FrameSound(L, top, n, TRUE) /\ value \in K
  BY AtReturnOf DEF readProperty
<1>2. Fail \/ Continue(pos, [frames EXCEPT ![n] = f], "loop")
  BY Zenon DEF readProperty
<1> HIDE DEF K, n
<1>3. top \in Frame(K)
  BY <1>1 DEF FrameSound, K
<1>4. /\ top.keys \in Seq(Seq(Int)) /\ top.key \in Seq(Int)
      /\ top.kids \in Seq(K)
  BY <1>3 DEF Frame
<1>5. keys \in Seq(Seq(Int)) /\ kids \in Seq(K)
  BY <1>1, <1>4
<1>6. top.kind = "object" => Len(keys) = Len(kids)
  BY <1>1, <1>4 DEF FrameSound
<1> HIDE DEF keys, kids
<1>7. /\ f \in Frame(K) /\ f.kind = top.kind /\ f.length = top.length
      /\ f.keys = keys /\ f.kids = kids
  BY <1>3, <1>5 DEF Frame
<1> HIDE DEF f
<1>8. FrameSound(L, f, n, FALSE)
  BY <1>1, <1>6, <1>7 DEF FrameSound, K
<1> QED BY <1>1, <1>2, <1>8, FailKeeps, TakenKeeps DEF n

LEMMA ReadElementKeeps ==
  ASSUME NEW L, Strata(L), ReaderOver(L), readElement
  PROVE  ReaderInv'
<1> DEFINE kids == Append(top.kids, value)
           f == [top EXCEPT !.kids = kids]
           n == Len(frames)
           K == Below(L, MaxDepth + 1 - n)
<1>1. /\ frames # <<>> /\ top.kind \in {"dense"}
      /\ FrameSound(L, top, n, TRUE) /\ value \in K
  <2>1. AtReturn({"dense"}, "key")
    BY DEF readElement
  <2> QED BY <2>1, AtReturnOf
<1>2. Continue(pos, [frames EXCEPT ![n] = f], "loop")
  <2>1. [frames EXCEPT ![Len(frames)].kids = Append(@, value)]
          = [frames EXCEPT ![n] = f]
    BY DEF top
  <2> QED BY <2>1 DEF readElement
<1> HIDE DEF K, n
<1>3. top \in Frame(K)
  BY <1>1 DEF FrameSound, K
<1>4. /\ kids \in Seq(K) /\ Len(top.kids) \in Nat /\ top.length \in Nat
      /\ Len(kids) = Len(top.kids) + 1
  BY <1>1, <1>3 DEF Frame
<1> HIDE DEF kids
<1>5. /\ f \in Frame(K) /\ f.kind = top.kind /\ f.length = top.length
      /\ f.keys = top.keys /\ f.kids = kids
  BY <1>3, <1>4 DEF Frame
<1> HIDE DEF f
<1>6. Len(f.kids) <= f.length
  BY <1>1, <1>4, <1>5 DEF FrameSound
<1>7. FrameSound(L, f, n, FALSE)
  BY <1>1, <1>5, <1>6 DEF FrameSound, K
<1> QED BY <1>1, <1>2, <1>7, TakenKeeps DEF n

LEMMA FinishKeeps ==
  ASSUME NEW L, Strata(L), ReaderOver(L), finish
  PROVE  ReaderInv'
<1>1. /\ mode = "returned" /\ frames = <<>>
      /\ Fail \/ Continue(size, frames, "done")
  BY DEF finish
<1>2. value \in L[MaxDepth] /\ size \in 0 .. size
  BY <1>1, AtType, ReaderAssumption DEF ReaderOver
<1>3. StackSound(L, frames, "done")
  BY <1>1, StackKept DEF ReaderOver
<1> QED BY <1>1, <1>2, <1>3, FailKeeps, ContinueKeeps

-----------------------------------------------------------------------------
(* The invariant.                                                          *)

(* Any bytes may be read from the start.                                   *)
AtStart ==
  input \in Seq(Byte) /\ pos = 0 /\ frames = <<>> /\ mode = "header"

LEMMA StartHolds == AtStart => ReaderInv
<1> SUFFICES ASSUME AtStart PROVE ReaderInv
  OBVIOUS
<1> DEFINE L == [n \in 0 .. MaxDepth |-> {}]
<1>1. Strata(L)
  BY DEF Strata
<1> HIDE DEF L
<1>2. /\ input \in Seq(Byte) /\ pos = 0 /\ frames = <<>> /\ mode = "header"
  BY DEF AtStart
<1>3. pos \in 0 .. size
  BY <1>2, AtType
<1>4. StackSound(L, frames, mode)
  <2>1. IsSeq(frames) /\ Len(frames) = 0
    BY <1>2 DEF IsSeq
  <2>2. Len(frames) <= MaxDepth + 1 /\ 1 .. Len(frames) = {}
    BY <2>1, ReaderAssumption
  <2> QED BY <2>1, <2>2 DEF StackSound
<1> QED BY <1>1, <1>2, <1>3, <1>4 DEF ReaderInv, ReaderOver, Modes

LEMMA StepKeeps == ReaderInv /\ Step => ReaderInv'
<1> SUFFICES ASSUME ReaderInv, Step PROVE ReaderInv'
  OBVIOUS
<1>1. PICK L : Strata(L) /\ ReaderOver(L)
  BY DEF ReaderInv
<1>2. CASE readHeader
  BY <1>1, <1>2, ReadHeaderKeeps
<1>3. CASE readValue
  <2>1. CASE tooDeepOrEnded
    BY <1>1, <2>1, FailKeeps DEF tooDeepOrEnded
  <2>2. CASE skipCountMarker
    BY <1>1, <2>2, SkipCountMarkerKeeps
  <2>3. CASE openObject
    BY <1>1, <2>3, OpenObjectKeeps
  <2>4. CASE openArray(DenseTag, "dense") \/ openArray(SparseTag, "sparse")
    BY <1>1, <2>4, OpenArrayKeeps
  <2>5. CASE readLeafValue
    BY <1>1, <2>5, ReadLeafValueKeeps
  <2> QED BY <1>3, <2>1, <2>2, <2>3, <2>4, <2>5 DEF readValue
<1>4. CASE objectLoop \/ denseLoop \/ sparseLoop
  BY <1>1, <1>4, LoopKeeps
<1>5. CASE readPropertyKey \/ readSparseIndex
  BY <1>1, <1>5, ReadKeyKeeps
<1>6. CASE readProperty
  BY <1>1, <1>6, ReadPropertyKeeps
<1>7. CASE readElement
  BY <1>1, <1>7, ReadElementKeeps
<1>8. CASE finish
  BY <1>1, <1>8, FinishKeeps
<1> QED BY <1>2, <1>3, <1>4, <1>5, <1>6, <1>7, <1>8 DEF Step

LEMMA StutterKeeps == ReaderInv /\ UNCHANGED rvars => ReaderInv'
<1> SUFFICES ASSUME ReaderInv, UNCHANGED rvars PROVE ReaderInv'
  OBVIOUS
<1>1. PICK L : Strata(L) /\ ReaderOver(L)
  BY DEF ReaderInv
<1>2. /\ input' = input /\ pos' = pos /\ frames' = frames /\ mode' = mode
      /\ value' = value /\ size' = size
  BY DEF rvars, size
<1>3. StackSound(L, frames, mode)'
  <2>1. StackSound(L, frames, mode)
    BY <1>1 DEF ReaderOver
  <2> QED BY <1>2, <2>1
            DEF StackSound, FrameSound, Waits, Frame, Below, IsSeq
<1>4. ReaderOver(L)'
  BY <1>1, <1>2, <1>3 DEF ReaderOver
<1>5. Strata(L)'
  BY <1>1 DEF Strata, Below, NodeOver, DataSound
<1> QED BY <1>4, <1>5 DEF ReaderInv

LEMMA InvariantImplies == ReaderInv => TypeOK /\ OnlyInputIsRead /\ FramesSound
<1> SUFFICES ASSUME ReaderInv PROVE TypeOK /\ OnlyInputIsRead /\ FramesSound
  OBVIOUS
<1>1. PICK L : Strata(L) /\ ReaderOver(L)
  BY DEF ReaderInv
<1>2. ASSUME NEW i \in 1 .. Len(frames)
      PROVE  LET f == frames[i]
             IN  /\ f.kind \in {"object", "dense", "sparse"}
                 /\ f.length \in Nat /\ f.length <= size
                 /\ f.awaiting \in {"key", "value"}
                 /\ IsSeq(f.keys) /\ IsSeq(f.kids)
                 /\ f.kind = "dense" => Len(f.kids) <= f.length
                 /\ f.kind = "object" => Len(f.keys) = Len(f.kids)
  <2> DEFINE f == frames[i]
             K == Below(L, MaxDepth + 1 - i)
  <2>1. FrameSound(L, f, i, Waits(frames, mode, i))
    BY <1>1 DEF ReaderOver, StackSound
  <2> HIDE DEF f
  <2>2. f \in Frame(K)
    BY <2>1 DEF FrameSound
  <2> HIDE DEF K
  <2>3. /\ f.kind \in {"object", "dense", "sparse"} /\ f.length \in Nat
        /\ f.awaiting \in {"key", "value"}
        /\ f.keys \in Seq(Seq(Int)) /\ f.kids \in Seq(K)
    BY <2>2 DEF Frame
  <2> QED BY <2>1, <2>3, SequencesAre DEF FrameSound, f
<1>3. TypeOK
  BY <1>1, <1>2 DEF TypeOK, ReaderOver
<1>4. FramesSound
  BY <1>1, <1>2 DEF FramesSound, ReaderOver, StackSound
<1>5. OnlyInputIsRead
  <2> SUFFICES ASSUME mode = "returned", value.type \notin {"int32", "uint32"}
               PROVE  \A i \in 1 .. Len(value.data) : value.data[i] \in CodeUnit
    BY DEF OnlyInputIsRead
  <2>1. MaxDepth - Len(frames) \in 0 .. MaxDepth
    BY <1>1, SequencesAre, ReaderAssumption DEF ReaderOver, StackSound
  <2>2. DataSound(value)
    BY <1>1, <2>1 DEF ReaderOver, Strata, NodeOver
  <2> QED BY <2>2 DEF DataSound, IntegerType
<1> QED BY <1>3, <1>4, <1>5

(* Whatever the bytes, the Reader keeps a sound state.                     *)
THEOREM ReaderInvariant == Spec => []ReaderInv
<1>1. Init => ReaderInv
  BY StartHolds, ReaderAssumption DEF Init, Start, AtStart
<1>2. ReaderInv /\ [Next]_rvars => ReaderInv'
  BY StepKeeps, StutterKeeps DEF Next
<1> QED BY <1>1, <1>2, PTL DEF Spec

(* Whatever the bytes, read() stays between begin_ and end_, hands out     *)
(* nothing that is not in its input, never has more containers open than   *)
(* kMaxNestingDepth allows, and reserves no array longer than its input.   *)
THEOREM ReaderIsSafe == Spec => [](TypeOK /\ OnlyInputIsRead /\ FramesSound)
BY ReaderInvariant, InvariantImplies, PTL

-----------------------------------------------------------------------------
(* What is read at an offset depends on the bytes alone, and padding is    *)
(* skipped once.                                                           *)
LEMMA SameBytes ==
  ASSUME input' = input, input \in Seq(Byte)
  PROVE  /\ size' = size
         /\ skipPadding' = skipPadding /\ readTag' = readTag
         /\ readVarint' = readVarint /\ readBytes' = readBytes
<1>1. size' = size
  BY DEF size
<1>2. \A p : at(p)' = at(p)
  BY <1>1 DEF at
<1>3. skipPadding' = skipPadding
  BY <1>1, <1>2 DEF skipPadding
<1>4. readByte' = readByte
  BY <1>1, <1>2 DEF readByte
<1>5. readTag' = readTag
  BY <1>1, <1>3, <1>4 DEF readTag
<1>6. readVarint' = readVarint
  <2>1. ASSUME NEW p \in 0 .. size PROVE readVarint'[p] = readVarint[p]
    <3> DEFINE most == IF size - p < MaxGroups THEN size - p ELSE MaxGroups
               more == Cardinality({k \in 1 .. most :
                         \A j \in 1 .. k : at(p + j - 1) >= GroupBase})
               part(j) == IF j <= more + 1
                          THEN (at(p + j - 1) % GroupBase) * weight[j] ELSE 0
    <3>1. most' = most
      BY <1>1
    <3>2. {k \in 1 .. most : \A j \in 1 .. k : at(p + j - 1) >= GroupBase}'
            = {k \in 1 .. most : \A j \in 1 .. k : at(p + j - 1) >= GroupBase}
      BY <1>2, <3>1
    <3>3. more' = more
      BY <3>2
    <3>4. \A j : part(j)' = part(j)
      BY <1>2, <3>3
    <3>5. TooWide(p, more + 1)' = TooWide(p, more + 1)
      BY <1>2, <3>3 DEF TooWide
    <3>6. readVarint[p] =
            IF more = most \/ TooWide(p, more + 1) THEN Malformed
            ELSE Parsed(part(1) + part(2) + part(3) + part(4) + part(5),
                        p + more + 1)
      <4>1. p \in 0 .. size
        OBVIOUS
      <4> QED BY ONLY <4>1, Zenon DEF readVarint
    <3>7. readVarint'[p] =
            IF (more = most \/ TooWide(p, more + 1))' THEN Malformed
            ELSE Parsed((part(1) + part(2) + part(3) + part(4) + part(5))',
                        (p + more + 1)')
      <4>1. p \in 0 .. size'
        BY <1>1
      <4> QED BY ONLY <4>1, Zenon DEF readVarint, Parsed, Malformed
    <3> HIDE DEF most, more, part
    <3> QED BY <3>1, <3>3, <3>4, <3>5, <3>6, <3>7
  <2>2. DOMAIN readVarint = 0 .. size /\ DOMAIN readVarint' = 0 .. size'
    BY DEF readVarint
  <2> QED BY <1>1, <2>1, <2>2 DEF readVarint
<1>7. \A p, n : slice(p, n)' = slice(p, n)
  BY <1>2 DEF slice
<1>8. readBytes' = readBytes
  BY <1>1, <1>6, <1>7 DEF readBytes
<1> QED BY <1>1, <1>3, <1>5, <1>6, <1>8

LEMMA SkipTwice ==
  ASSUME input \in Seq(Byte), NEW p \in 0 .. size
  PROVE  skipPadding[skipPadding[p]] = skipPadding[p]
<1>1. size \in Nat
  BY AtType
<1> DEFINE E == {e \in p .. size : e = size \/ at(e) # Padding}
<1>2. E \in SUBSET Nat /\ size \in E
  BY <1>1
<1>3. PICK e \in E : \A d \in E : e <= d
  BY <1>2, LeastNumber
<1>4. e \in p .. size /\ (e = size \/ at(e) # Padding)
  OBVIOUS
<1>5. \A k \in p .. e - 1 : at(k) = Padding
  BY <1>1, <1>3, <1>4
<1> HIDE DEF E
<1> DEFINE S == {q \in p .. size - 1 : \A k \in p .. q : at(k) = Padding}
<1>6. S = p .. e - 1
  BY <1>1, <1>4, <1>5
<1>7. Cardinality(p .. e - 1) = e - p
  <2>1. Cardinality(p .. e - 1)
          = IF p > e - 1 THEN 0 ELSE e - 1 - p + 1
    BY <1>1, <1>4, FS_Interval
  <2> QED BY <1>1, <1>4, <2>1
<1>8. skipPadding[p] = p + Cardinality(S)
  BY DEF skipPadding
<1> HIDE DEF S
<1>9. skipPadding[p] = e
  BY <1>1, <1>4, <1>6, <1>7, <1>8
<1>10. CASE e = size
  BY <1>1, <1>9, <1>10, AllPadding
<1>11. CASE e # size
  <2>1. e \in 0 .. size - 1
    BY <1>1, <1>4, <1>11
  <2> QED BY <1>4, <1>9, <1>11, <2>1, NoPadding
<1> QED BY <1>10, <1>11

LEMMA TagBehindPadding ==
  ASSUME input \in Seq(Byte), NEW p \in 0 .. size
  PROVE  readTag[skipPadding[p]] = readTag[p]
<1>1. skipPadding[p] \in p .. size /\ size \in Nat
  BY SkipRange, AtType
<1>2. skipPadding[p] \in 0 .. size
  BY <1>1
<1> QED BY <1>2, SkipTwice DEF readTag
=============================================================================
