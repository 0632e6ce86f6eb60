---------------------------- MODULE WriterProofs ----------------------------
(***************************************************************************)
(* Proofs about Writer, for every width of the integers and every set of   *)
(* inputs.  Each method is first shown to be one of six shapes of step;    *)
(* the invariants are then proved once per shape.  The second half sets    *)
(* the Writer beside the record of what its caller asked for, with and     *)
(* without allocation failures: its frames stay sound, they describe the   *)
(* containers of the record, and what it accepts the Document allows.      *)
(***************************************************************************)
EXTENDS FaultyWriter, DataProofs

-----------------------------------------------------------------------------
(* What the emitters produce.                                              *)

LEMMA WidthType == U32Size \in Nat \ {0} /\ U32Max \in Nat
BY WidthAssumption DEF U32Size, U32Max, weight

LEMMA VarintType ==
  ASSUME NEW n \in Nat
  PROVE  varint(n) \in Seq(Byte)
<1>1. varintSize(n) \in 1 .. 5
  <2>1. varintSize(n) \in 1 .. MaxGroups
    BY GroupsCounted
  <2> QED BY <2>1, WidthAssumption
<1>2. ASSUME NEW i \in 1 .. varintSize(n)
      PROVE  ((n \div weight[i]) % GroupBase)
               + (IF i < varintSize(n) THEN GroupBase ELSE 0) \in Byte
  <2>1. weight[i] \in Nat \ {0}
    BY <1>1 DEF weight
  <2>2. n \div weight[i] \in Int
    BY <2>1
  <2>3. (n \div weight[i]) % 128 \in 0 .. 127
    BY <2>2
  <2> QED BY <2>3 DEF GroupBase, Byte
<1>3. varint(n) = [i \in 1 .. varintSize(n) |->
                     ((n \div weight[i]) % GroupBase)
                       + (IF i < varintSize(n) THEN GroupBase ELSE 0)]
  BY VarintWritten
<1> QED BY <1>1, <1>2, <1>3

LEMMA ZigZagType ==
  ASSUME NEW v \in Int
  PROVE  zigZag(v) \in Nat
BY DEF zigZag

(* An emitter's result: bytes, and an exception that is never the one      *)
(* reserved for misuse of the API.                                         *)
RawResult == [put : Seq(Byte),
              thrown : {"none", "length_error", "invalid_argument"}]

LEMMA TaggedType ==
  ASSUME NEW tag \in Byte, NEW payload \in Seq(Byte)
  PROVE  tagged(tag, payload) \in RawResult
<1>1. Len(payload) \in Nat
  OBVIOUS
<1>2. <<tag>> \in Seq(Byte) /\ varint(Len(payload)) \in Seq(Byte)
  BY <1>1, VarintType
<1>3. <<tag>> \o varint(Len(payload)) \o payload \in Seq(Byte)
  BY <1>2
<1> QED BY <1>2, <1>3 DEF tagged, RawResult, Emits, Aborts

LEMMA HalfUnits ==
  ASSUME NEW u \in CodeUnit
  PROVE  u % 256 \in Byte /\ u \div 256 \in Byte /\ (u <= 255 => u \in Byte)
<1>1. u \in Int /\ 0 <= u /\ u <= 65535
  <2>1. MaxCodeUnit = 65535
    BY DEF MaxCodeUnit
  <2>2. MaxCodeUnit \in Int
    BY <2>1
  <2>3. u \in Int /\ 0 <= u /\ u <= MaxCodeUnit
    BY <2>2 DEF CodeUnit
  <2> QED BY <2>1, <2>3
<1>2. u % 256 \in 0 .. 255
  BY <1>1
<1>3. u \div 256 \in 0 .. 255
  BY <1>1
<1> QED BY <1>1, <1>2, <1>3 DEF Byte

LEMMA PaddingType ==
  ASSUME NEW n
  PROVE  twoBytePadding(n) \in Seq(Byte)
<1>1. twoBytePadding(n) = <<>> \/ twoBytePadding(n) = <<Padding>>
  BY Zenon DEF twoBytePadding
<1>2. <<Padding>> \in Seq(Byte)
  BY DEF Padding, Byte
<1>3. <<>> \in Seq(Byte)
  OBVIOUS
<1> QED BY <1>1, <1>2, <1>3, Zenon

LEMMA UnitBytesType ==
  ASSUME NEW units \in Seq(CodeUnit)
  PROVE  /\ unitBytes(units) \in Seq(Byte)
         /\ Len(unitBytes(units)) = 2 * Len(units)
<1>1. ASSUME NEW i \in 1 .. 2 * Len(units)
      PROVE  (IF i % 2 = 1 THEN units[(i + 1) \div 2] % 256
                           ELSE units[i \div 2] \div 256) \in Byte
  <2>1. CASE i % 2 = 1
    <3>1. (i + 1) \div 2 \in 1 .. Len(units)
      BY <2>1
    <3>2. units[(i + 1) \div 2] \in CodeUnit
      BY <3>1, ElementOfSeq
    <3> QED BY <2>1, <3>2, HalfUnits
  <2>2. CASE i % 2 # 1
    <3>1. i \div 2 \in 1 .. Len(units)
      BY <2>2
    <3>2. units[i \div 2] \in CodeUnit
      BY <3>1, ElementOfSeq
    <3> QED BY <2>2, <3>2, HalfUnits
  <2> QED BY <2>1, <2>2
<1> QED BY <1>1 DEF unitBytes

LEMMA RawUtf16Type ==
  ASSUME NEW units \in Seq(CodeUnit)
  PROVE  rawUtf16(units) \in RawResult
<1>1. CASE allLatin1(units)
  <2>1. ASSUME NEW i \in 1 .. Len(units) PROVE units[i] \in Byte
    <3>1. units[i] \in CodeUnit
      BY ElementOfSeq
    <3>2. units[i] <= 255
      BY <1>1 DEF allLatin1
    <3> QED BY <3>1, <3>2, HalfUnits
  <2>2. units \in Seq(Byte)
    BY <2>1
  <2>3. OneByteTag \in Byte
    BY DEF OneByteTag, Byte
  <2>4. tagged(OneByteTag, units) \in RawResult
    BY <2>2, <2>3, TaggedType
  <2> QED BY <1>1, <2>4 DEF rawUtf16
<1>2. CASE ~allLatin1(units)
  <2>1. 2 * Len(units) \in Nat
    OBVIOUS
  <2>2. twoBytePadding(2 * Len(units)) \in Seq(Byte)
    BY PaddingType
  <2>3. varint(2 * Len(units)) \in Seq(Byte)
    BY <2>1, VarintType
  <2>4. unitBytes(units) \in Seq(Byte)
    BY UnitBytesType
  <2>5. <<TwoByteTag>> \in Seq(Byte)
    BY DEF TwoByteTag, Byte
  <2>6. twoBytePadding(2 * Len(units)) \o <<TwoByteTag>>
          \o varint(2 * Len(units)) \o unitBytes(units) \in Seq(Byte)
    BY <2>2, <2>3, <2>4, <2>5
  <2> QED BY <1>2, <2>6 DEF rawUtf16, RawResult, Emits, Aborts
<1> QED BY <1>1, <1>2

Binary == [null : BOOLEAN, data : Seq(Byte)]

LEMMA RawArrayBufferType ==
  ASSUME NEW b \in Binary
  PROVE  rawArrayBuffer(b) \in RawResult
<1>1. b.data \in Seq(Byte) /\ BufferTag \in Byte
  BY DEF Binary, BufferTag, Byte
<1>2. tagged(BufferTag, b.data) \in RawResult
  BY <1>1, TaggedType
<1>3. <<>> \in Seq(Byte)
  OBVIOUS
<1> QED BY <1>2, <1>3 DEF rawArrayBuffer, RawResult, Aborts

LEMMA RawViewType ==
  ASSUME NEW b \in Binary, NEW t \in ViewType
  PROVE  rawView(t, b) \in RawResult
<1> DEFINE backing == rawArrayBuffer(b)
<1>1. backing \in RawResult
  BY RawArrayBufferType
<1>2. <<ViewTag, viewTag[t]>> \in Seq(Byte)
  BY DEF ViewTag, viewTag, ViewType, Byte
<1>3. varint(0) \in Seq(Byte) /\ varint(Len(b.data)) \in Seq(Byte)
  <2>1. Len(b.data) \in Nat
    BY DEF Binary
  <2> QED BY <2>1, VarintType
<1>4. backing.put \o <<ViewTag, viewTag[t]>> \o varint(0)
        \o varint(Len(b.data)) \o varint(0) \in Seq(Byte)
  BY <1>1, <1>2, <1>3 DEF RawResult
<1> QED BY <1>1, <1>4 DEF rawView, RawResult, Emits

-----------------------------------------------------------------------------
(* The shapes a step can have.                                             *)

NewFrame == {f \in Frame : /\ f.count = 0
                           /\ f.expecting_key = (f.kind = "Object")}

Refused == call'.thrown # "none" /\ UNCHANGED state
Wrote(put) ==
  /\ beginValue(<<>>) /\ bytes' = bytes \o put
  /\ call'.op \in LeafMethods /\ call'.thrown # "logic_error"
Opened(put, f) ==
  /\ beginValue(<<f>>) /\ bytes' = bytes \o put
  /\ call'.op \in {"beginObject", "beginArray"} /\ call'.thrown = "none"
Named(put, waits) ==
  /\ AcceptsKey /\ bytes' = bytes \o put /\ has_root' = has_root
  /\ stack' = [stack EXCEPT ![Len(stack)].expecting_key = waits]
  /\ call'.op = "key" /\ call'.thrown # "logic_error"
Ended(put, kind) ==
  /\ AcceptsEnd(kind) /\ bytes' = bytes \o put /\ has_root' = has_root
  /\ stack' = SubSeq(stack, 1, Len(stack) - 1)
  /\ call'.op \in {"endObject", "endArray"} /\ call'.thrown = "none"
Taken ==
  /\ AcceptsTake /\ bytes' = <<>> /\ UNCHANGED <<stack, has_root>>
  /\ call'.op = "take" /\ call'.thrown = "none"
Wiped ==
  /\ bytes' = Header /\ stack' = <<>> /\ has_root' = FALSE
  /\ call'.op = "reset" /\ call'.thrown = "none"

CallType == [op : Methods, arg : LeafValue,
             thrown : Exceptions \cup {"none"}, out : Seq(Byte)]

LEMMA LeafIsTyped ==
  ASSUME NEW type \in LeafType, NEW data \in Seq(Int)
  PROVE  Leaf(type, data) \in LeafValue /\ NoValue \in LeafValue
<1>1. <<>> \in Seq(Int)
  OBVIOUS
<1>2. "none" \in LeafType
  BY DEF LeafType
<1> QED BY <1>1, <1>2 DEF Leaf, LeafValue, NoValue

LEMMA BytesAreInts ==
  ASSUME NEW s, s \in Seq(Byte) \/ s \in Seq(CodeUnit)
  PROVE  s \in Seq(Int)
<1>1. Byte \subseteq Int /\ CodeUnit \subseteq Int
  BY DEF Byte, CodeUnit
<1> QED BY <1>1, SeqMonotonic

LEMMA WriteLeaf ==
  ASSUME NEW op \in LeafMethods, NEW arg \in LeafValue, NEW raw \in RawResult,
         Write(op, arg, raw, <<>>)
  PROVE  /\ Refused \/ \E put \in Seq(Byte) : Wrote(put)
         /\ call' \in CallType
<1>1. /\ <<>> \in Seq(Byte)
      /\ raw.put \in Seq(Byte)
      /\ raw.thrown \in Exceptions \cup {"none"}
      /\ raw.thrown # "logic_error"
  BY DEF RawResult, Exceptions
<1>2. op \in Methods /\ "logic_error" \in Exceptions
  BY DEF Methods, Exceptions
<1>3. CASE beginValue(<<>>) /\ bytes' = bytes \o raw.put
           /\ call' = Call(op, arg, raw.thrown, <<>>)
  <2>1. Wrote(raw.put)
    BY <1>1, <1>3 DEF Wrote, Call
  <2> QED BY <1>1, <1>2, <1>3, <2>1 DEF CallType, Call
<1>4. CASE Refuse(op, arg, "logic_error")
  BY <1>1, <1>2, <1>4 DEF Refuse, Refused, CallType, Call
<1> QED BY <1>3, <1>4 DEF Write

LEMMA WriteOpen ==
  ASSUME NEW op \in {"beginObject", "beginArray"}, NEW arg \in LeafValue,
         NEW put \in Seq(Byte), NEW f \in NewFrame,
         Write(op, arg, Emits(put), <<f>>)
  PROVE  /\ Refused \/ Opened(put, f)
         /\ call' \in CallType
<1>1. <<>> \in Seq(Byte)
  OBVIOUS
<1>2. op \in Methods /\ "logic_error" \in Exceptions
  BY DEF Methods, Exceptions
<1>3. CASE beginValue(<<f>>) /\ bytes' = bytes \o put
           /\ call' = Call(op, arg, "none", <<>>)
  BY <1>1, <1>2, <1>3 DEF Opened, Call, CallType
<1>4. CASE Refuse(op, arg, "logic_error")
  BY <1>1, <1>2, <1>4 DEF Refuse, Refused, CallType, Call
<1> QED BY <1>3, <1>4 DEF Write, Emits

StepShape ==
  \/ Refused
  \/ \E put \in Seq(Byte) : Wrote(put)
  \/ \E put \in Seq(Byte), f \in NewFrame : Opened(put, f)
  \/ \E put \in Seq(Byte), waits \in BOOLEAN : Named(put, waits)
  \/ \E put \in Seq(Byte), kind \in {"Object", "Array"} : Ended(put, kind)
  \/ Taken
  \/ Wiped

LEMMA EmitsType ==
  ASSUME NEW put \in Seq(Byte)
  PROVE  Emits(put) \in RawResult
BY DEF Emits, RawResult

LEMMA WriteValueShape ==
  ASSUME WriteValue
  PROVE  StepShape /\ call' \in CallType
<1> DEFINE Goal == /\ Refused \/ \E put \in Seq(Byte) : Wrote(put)
                   /\ call' \in CallType
<1>0. SUFFICES Goal
  BY DEF StepShape
<1>1. ASSUME NEW type \in LeafType, NEW tag \in Byte, scalar(type, tag)
      PROVE  Goal
  <2>1. <<tag>> \in Seq(Byte) /\ <<>> \in Seq(Int)
    OBVIOUS
  <2>2. Emits(<<tag>>) \in RawResult /\ Leaf(type, <<>>) \in LeafValue
    BY <2>1, EmitsType, LeafIsTyped
  <2>3. "scalar" \in LeafMethods
    BY DEF LeafMethods
  <2> QED BY <1>1, <2>2, <2>3, WriteLeaf DEF scalar
<1>2. CASE undefined
  <2>1. "undefined" \in LeafType /\ UndefinedTag \in Byte
    BY DEF LeafType, UndefinedTag, Byte
  <2> QED BY <1>1, <1>2, <2>1 DEF undefined
<1>3. CASE null
  <2>1. "null" \in LeafType /\ NullTag \in Byte
    BY DEF LeafType, NullTag, Byte
  <2> QED BY <1>1, <1>3, <2>1 DEF null
<1>4. ASSUME NEW v \in BOOLEAN, boolean(v) PROVE Goal
  <2>1. "boolean" \in LeafMethods /\ "boolean" \in LeafType
    BY DEF LeafMethods, LeafType
  <2>2. (IF v THEN TrueTag ELSE FalseTag) \in Byte
    BY DEF TrueTag, FalseTag, Byte
  <2>3. <<IF v THEN TrueTag ELSE FalseTag>> \in Seq(Byte)
    BY <2>2
  <2>4. <<IF v THEN 1 ELSE 0>> \in Seq(Int)
    OBVIOUS
  <2>5. /\ Emits(<<IF v THEN TrueTag ELSE FalseTag>>) \in RawResult
        /\ Leaf("boolean", <<IF v THEN 1 ELSE 0>>) \in LeafValue
    BY <2>1, <2>3, <2>4, EmitsType, LeafIsTyped
  <2> QED BY <1>4, <2>1, <2>5, WriteLeaf DEF boolean
<1>5. ASSUME NEW v \in Int32Inputs, int32(v) PROVE Goal
  <2>1. v \in Int
    BY InputAssumption, WidthType DEF I32
  <2>2. varint(zigZag(v)) \in Seq(Byte)
    BY <2>1, ZigZagType, VarintType
  <2>3. <<Int32Tag>> \in Seq(Byte)
    BY DEF Int32Tag, Byte
  <2>4. <<Int32Tag>> \o varint(zigZag(v)) \in Seq(Byte)
    BY <2>2, <2>3
  <2>5. "int32" \in LeafMethods /\ "int32" \in LeafType /\ <<v>> \in Seq(Int)
    BY <2>1 DEF LeafMethods, LeafType
  <2>6. /\ Emits(<<Int32Tag>> \o varint(zigZag(v))) \in RawResult
        /\ Leaf("int32", <<v>>) \in LeafValue
    BY <2>4, <2>5, EmitsType, LeafIsTyped
  <2> QED BY <1>5, <2>5, <2>6, WriteLeaf DEF int32
<1>6. ASSUME NEW v \in Uint32Inputs, uint32(v) PROVE Goal
  <2>1. v \in Nat
    BY InputAssumption DEF U32
  <2>2. varint(v) \in Seq(Byte)
    BY <2>1, VarintType
  <2>3. <<Uint32Tag>> \in Seq(Byte)
    BY DEF Uint32Tag, Byte
  <2>4. <<Uint32Tag>> \o varint(v) \in Seq(Byte)
    BY <2>2, <2>3
  <2>5. "uint32" \in LeafMethods /\ "uint32" \in LeafType /\ <<v>> \in Seq(Int)
    BY <2>1 DEF LeafMethods, LeafType
  <2>6. /\ Emits(<<Uint32Tag>> \o varint(v)) \in RawResult
        /\ Leaf("uint32", <<v>>) \in LeafValue
    BY <2>4, <2>5, EmitsType, LeafIsTyped
  <2> QED BY <1>6, <2>5, <2>6, WriteLeaf DEF uint32
<1>7. ASSUME NEW v \in DoubleInputs, number(v) \/ date(v) PROVE Goal
  <2>1. v \in Seq(Byte) /\ v \in Seq(Int)
    BY InputAssumption, BytesAreInts
  <2>2. <<DoubleTag>> \in Seq(Byte) /\ <<DateTag>> \in Seq(Byte)
    BY DEF DoubleTag, DateTag, Byte
  <2>3. <<DoubleTag>> \o v \in Seq(Byte) /\ <<DateTag>> \o v \in Seq(Byte)
    BY <2>1, <2>2
  <2>4. /\ "number" \in LeafMethods /\ "double" \in LeafType
        /\ "date" \in LeafMethods /\ "date" \in LeafType
    BY DEF LeafMethods, LeafType
  <2>5. /\ Emits(<<DoubleTag>> \o v) \in RawResult
        /\ Emits(<<DateTag>> \o v) \in RawResult
        /\ Leaf("double", v) \in LeafValue /\ Leaf("date", v) \in LeafValue
    BY <2>1, <2>3, <2>4, EmitsType, LeafIsTyped
  <2>6. CASE number(v)
    BY <2>4, <2>5, <2>6, WriteLeaf DEF number
  <2>7. CASE date(v)
    BY <2>4, <2>5, <2>7, WriteLeaf DEF date
  <2> QED BY <1>7, <2>6, <2>7
<1>8. ASSUME NEW s \in Utf8Inputs, string8(s) PROVE Goal
  <2>1. s.utf8 \in Seq(Byte) /\ s.units \in Seq(CodeUnit)
    BY InputAssumption
  <2>2. s.units \in Seq(Int)
    BY <2>1, BytesAreInts
  <2>3. /\ "string8" \in LeafMethods /\ "string" \in LeafType
        /\ Utf8Tag \in Byte
    BY DEF LeafMethods, LeafType, Utf8Tag, Byte
  <2>4. /\ rawUtf8(s.utf8) \in RawResult
        /\ Leaf("string", s.units) \in LeafValue
    BY <2>1, <2>2, <2>3, TaggedType, LeafIsTyped DEF rawUtf8
  <2> QED BY <1>8, <2>3, <2>4, WriteLeaf DEF string8
<1>9. ASSUME NEW s \in Utf16Inputs, string16(s) PROVE Goal
  <2>1. s \in Seq(CodeUnit) /\ s \in Seq(Int)
    BY InputAssumption, BytesAreInts
  <2>2. "string16" \in LeafMethods /\ "string" \in LeafType
    BY DEF LeafMethods, LeafType
  <2>3. rawUtf16(s) \in RawResult /\ Leaf("string", s) \in LeafValue
    BY <2>1, <2>2, RawUtf16Type, LeafIsTyped
  <2> QED BY <1>9, <2>2, <2>3, WriteLeaf DEF string16
<1>10. ASSUME NEW b \in BinaryInputs, arrayBuffer(b) PROVE Goal
  <2>1. b \in Binary
    BY InputAssumption DEF Binary
  <2>2. b.data \in Seq(Int)
    BY <2>1, BytesAreInts DEF Binary
  <2>3. "arrayBuffer" \in LeafMethods /\ "arrayBuffer" \in LeafType
    BY DEF LeafMethods, LeafType
  <2>4. /\ rawArrayBuffer(b) \in RawResult
        /\ Leaf("arrayBuffer", b.data) \in LeafValue
    BY <2>1, <2>2, <2>3, RawArrayBufferType, LeafIsTyped
  <2> QED BY <1>10, <2>3, <2>4, WriteLeaf DEF arrayBuffer
<1>11. ASSUME NEW b \in BinaryInputs, NEW t \in ViewInputs,
              arrayBufferView(t, b)
       PROVE  Goal
  <2>1. b \in Binary /\ t \in ViewType
    BY InputAssumption DEF Binary
  <2>2. b.data \in Seq(Int)
    BY <2>1, BytesAreInts DEF Binary
  <2>3. "arrayBufferView" \in LeafMethods /\ t \in LeafType
    BY <2>1 DEF LeafMethods, LeafType
  <2>4. rawView(t, b) \in RawResult /\ Leaf(t, b.data) \in LeafValue
    BY <2>1, <2>2, <2>3, RawViewType, LeafIsTyped
  <2>5. CASE Write("arrayBufferView", Leaf(t, b.data), rawView(t, b), <<>>)
    BY <2>3, <2>4, <2>5, WriteLeaf
  <2>6. CASE Refuse("arrayBufferView", Leaf(t, b.data), "invalid_argument")
    <3>1. <<>> \in Seq(Byte)
      OBVIOUS
    <3>2. "arrayBufferView" \in Methods /\ "invalid_argument" \in Exceptions
      BY DEF Methods, LeafMethods, Exceptions
    <3> QED BY <2>4, <2>6, <3>1, <3>2
            DEF Refuse, Refused, CallType, Call, Exceptions
  <2> QED BY <1>11, <2>5, <2>6 DEF arrayBufferView
<1> QED BY <1>2, <1>3, <1>4, <1>5, <1>6, <1>7, <1>8, <1>9, <1>10, <1>11
        DEF WriteValue

LEMMA RefuseType ==
  ASSUME NEW op \in Methods, NEW arg \in LeafValue,
         Refuse(op, arg, "logic_error")
  PROVE  Refused /\ call' \in CallType
<1>1. <<>> \in Seq(Byte) /\ "logic_error" \in Exceptions
  BY DEF Exceptions
<1> QED BY <1>1 DEF Refuse, Refused, CallType, Call, Exceptions

LEMMA NoValueType == NoValue \in LeafValue /\ <<>> \in Seq(Byte)
<1>1. "none" \in LeafType /\ <<>> \in Seq(Int)
  BY DEF LeafType
<1>2. Leaf("none", <<>>) \in LeafValue
  BY <1>1, LeafIsTyped
<1>3. <<>> \in Seq(Byte)
  OBVIOUS
<1> QED BY <1>2, <1>3 DEF NoValue

LEMMA LengthsFit == 0 \in U32 /\ \A n \in U32 : n \in Nat
BY WidthType DEF U32

LEMMA BackType ==
  ASSUME stack \in Seq(Frame), stack # <<>>
  PROVE  Len(stack) \in 1 .. Len(stack) /\ back \in Frame
<1>1. Len(stack) \in 1 .. Len(stack)
  BY EmptySeq
<1> QED BY <1>1, ElementOfSeq DEF back

LEMMA KeyShape ==
  ASSUME NEW s \in Utf16Inputs, key(s)
  PROVE  StepShape /\ call' \in CallType
<1> DEFINE raw == rawUtf16(s)
           arg == Leaf("string", s)
<1>1. s \in Seq(CodeUnit) /\ s \in Seq(Int)
  BY InputAssumption, BytesAreInts
<1>2. "string" \in LeafType /\ "key" \in Methods
  BY DEF LeafType, Methods
<1>3. raw \in RawResult /\ arg \in LeafValue
  BY <1>1, <1>2, RawUtf16Type, LeafIsTyped
<1>4. CASE AcceptsKey /\ bytes' = bytes \o raw.put
           /\ stack' = [stack EXCEPT ![Len(stack)].expecting_key =
                          raw.thrown # "none"]
           /\ call' = Call("key", arg, raw.thrown, <<>>)
           /\ UNCHANGED has_root
  <2> DEFINE waits == raw.thrown # "none"
  <2>1. /\ raw.put \in Seq(Byte)
        /\ raw.thrown \in Exceptions \cup {"none"}
        /\ raw.thrown # "logic_error"
    BY <1>3 DEF RawResult, Exceptions
  <2>2. Named(raw.put, waits)
    BY <1>4, <2>1 DEF Named, Call
  <2>3. StepShape
    BY <2>1, <2>2 DEF StepShape
  <2> QED BY <1>2, <1>3, <1>4, <2>1, <2>3, NoValueType DEF CallType, Call
<1>5. CASE Refuse("key", arg, "logic_error")
  BY <1>2, <1>3, <1>5, RefuseType DEF StepShape
<1> QED BY <1>4, <1>5 DEF key

LEMMA OpenShape ==
  ASSUME beginObject \/ \E n \in LengthInputs : beginArray(n)
  PROVE  StepShape /\ call' \in CallType
<1>1. CASE beginObject
  <2> DEFINE f == [kind |-> "Object", count |-> 0, expected |-> 0,
                   expecting_key |-> TRUE]
  <2>1. f \in NewFrame
    <3>1. f \in Frame
      BY LengthsFit DEF Frame
    <3> QED BY <3>1 DEF NewFrame
  <2>2. <<ObjectTag>> \in Seq(Byte)
    BY DEF ObjectTag, Byte
  <2>3. "object" \in LeafType /\ <<>> \in Seq(Int)
    BY DEF LeafType
  <2>4. Leaf("object", <<>>) \in LeafValue
    BY <2>3, LeafIsTyped
  <2>5. Write("beginObject", Leaf("object", <<>>), Emits(<<ObjectTag>>), <<f>>)
    BY <1>1 DEF beginObject
  <2> HIDE DEF f
  <2>6. (Refused \/ Opened(<<ObjectTag>>, f)) /\ call' \in CallType
    BY <2>1, <2>2, <2>4, <2>5, WriteOpen
  <2> QED BY <2>1, <2>2, <2>6 DEF StepShape
<1>2. ASSUME NEW n \in LengthInputs, beginArray(n)
      PROVE  StepShape /\ call' \in CallType
  <2> DEFINE f == [kind |-> "Array", count |-> 0, expected |-> n,
                   expecting_key |-> FALSE]
             put == <<DenseTag>> \o varint(n)
  <2>1. n \in U32 /\ n \in Nat
    BY InputAssumption, LengthsFit
  <2>2. f \in NewFrame
    <3>1. f \in Frame
      BY <2>1, LengthsFit DEF Frame
    <3> QED BY <3>1 DEF NewFrame
  <2>3. <<DenseTag>> \in Seq(Byte) /\ varint(n) \in Seq(Byte)
    BY <2>1, VarintType DEF DenseTag, Byte
  <2>4. put \in Seq(Byte)
    BY <2>3
  <2>5. "array" \in LeafType /\ <<n>> \in Seq(Int)
    BY <2>1 DEF LeafType
  <2>6. Leaf("array", <<n>>) \in LeafValue
    BY <2>5, LeafIsTyped
  <2>7. Write("beginArray", Leaf("array", <<n>>), Emits(put), <<f>>)
    BY <1>2 DEF beginArray
  <2> HIDE DEF f, put
  <2>8. (Refused \/ Opened(put, f)) /\ call' \in CallType
    BY <2>2, <2>4, <2>6, <2>7, WriteOpen
  <2> QED BY <2>2, <2>4, <2>8 DEF StepShape
<1> QED BY <1>1, <1>2

LEMMA EndShape ==
  ASSUME stack \in Seq(Frame), endObject \/ endArray
  PROVE  StepShape /\ call' \in CallType
<1>1. /\ "endObject" \in Methods /\ "endArray" \in Methods
      /\ "none" \in Exceptions \cup {"none"}
  BY DEF Methods
<1>2. stack # <<>> => back.count \in Nat /\ back.expected \in Nat
  BY BackType, LengthsFit DEF Frame
<1>3. <<EndObjectTag>> \in Seq(Byte) /\ <<EndDenseTag>> \in Seq(Byte)
  BY DEF EndObjectTag, EndDenseTag, Byte
<1>4. stack # <<>> => /\ <<EndObjectTag>> \o varint(back.count) \in Seq(Byte)
                      /\ <<EndDenseTag>> \o varint(0) \o varint(back.expected)
                           \in Seq(Byte)
  <2>1. SUFFICES ASSUME stack # <<>>
                 PROVE  /\ <<EndObjectTag>> \o varint(back.count) \in Seq(Byte)
                        /\ <<EndDenseTag>> \o varint(0)
                             \o varint(back.expected) \in Seq(Byte)
    OBVIOUS
  <2>2. /\ varint(0) \in Seq(Byte) /\ varint(back.count) \in Seq(Byte)
        /\ varint(back.expected) \in Seq(Byte)
    BY <1>2, <2>1, VarintType
  <2> QED BY <1>3, <2>2
<1>5. ASSUME NEW op \in {"endObject", "endArray"},
             NEW kind \in {"Object", "Array"},
             NEW put, stack # <<>> => put \in Seq(Byte), End(op, kind, put)
      PROVE  StepShape /\ call' \in CallType
  <2>1. CASE AcceptsEnd(kind) /\ stack' = SubSeq(stack, 1, Len(stack) - 1)
             /\ bytes' = bytes \o put
             /\ call' = Call(op, NoValue, "none", <<>>) /\ UNCHANGED has_root
    <3>1. put \in Seq(Byte)
      BY <1>5, <2>1 DEF AcceptsEnd
    <3>2. Ended(put, kind)
      BY <2>1 DEF Ended, Call
    <3>3. StepShape
      BY <3>1, <3>2 DEF StepShape
    <3> QED BY <1>1, <2>1, <3>3, NoValueType DEF CallType, Call
  <2>2. CASE Refuse(op, NoValue, "logic_error")
    BY <1>1, <2>2, NoValueType, RefuseType DEF StepShape
  <2> QED BY <1>5, <2>1, <2>2 DEF End
<1> QED BY <1>4, <1>5 DEF endObject, endArray

LEMMA TakeShape ==
  ASSUME bytes \in Seq(Byte), take \/ reset
  PROVE  StepShape /\ call' \in CallType
<1>1. "take" \in Methods /\ "reset" \in Methods
  BY DEF Methods
<1>2. CASE reset
  BY <1>1, <1>2, NoValueType DEF reset, StepShape, Wiped, CallType, Call
<1>3. CASE take
  <2>1. CASE Refuse("take", NoValue, "logic_error")
    BY <1>1, <2>1, NoValueType, RefuseType DEF StepShape
  <2>2. CASE AcceptsTake /\ call' = Call("take", NoValue, "none", bytes)
             /\ bytes' = <<>> /\ UNCHANGED <<stack, has_root>>
    BY <1>1, <2>2, NoValueType DEF StepShape, Taken, CallType, Call
  <2> QED BY <1>3, <2>1, <2>2 DEF take
<1> QED BY <1>2, <1>3

LEMMA NextShape ==
  ASSUME TypeOK, Next
  PROVE  StepShape /\ call' \in CallType
BY WriteValueShape, KeyShape, OpenShape, EndShape, TakeShape
   DEF Next, WriteKey, Open, TypeOK

-----------------------------------------------------------------------------
(* The invariants, shape by shape.                                         *)

LEMMA SmallMod ==
  ASSUME NEW x \in Nat, x < U32Size
  PROVE  x % U32Size = x
BY WidthType

(* What beginValue() makes of the frames, and how many there are after it. *)
LEMMA CountedFrames ==
  ASSUME stack \in Seq(Frame)
  PROVE  /\ counted \in Seq(Frame)
         /\ Len(counted) = Len(stack)
         /\ \A i \in 1 .. Len(stack) :
              counted[i] = IF i = Len(stack)
                           THEN [back EXCEPT
                                   !.count = (back.count + 1) % U32Size,
                                   !.expecting_key = (back.kind = "Object")]
                           ELSE stack[i]
<1>1. CASE stack = <<>>
  BY <1>1 DEF counted
<1>2. CASE stack # <<>>
  <2> DEFINE f == [back EXCEPT !.count = (back.count + 1) % U32Size,
                               !.expecting_key = (back.kind = "Object")]
  <2>1. back \in Frame /\ Len(stack) \in 1 .. Len(stack)
    BY <1>2, BackType
  <2>2. (back.count + 1) % U32Size \in U32
    <3>1. back.count + 1 \in Nat
      BY <2>1, LengthsFit DEF Frame
    <3> QED BY <3>1, WidthType DEF U32, U32Max
  <2>3. f \in Frame
    BY <2>1, <2>2 DEF Frame
  <2>4. counted = [stack EXCEPT ![Len(stack)] = f]
    BY <1>2 DEF counted, back
  <2> HIDE DEF f
  <2>5. /\ counted \in Seq(Frame)
        /\ Len(counted) = Len(stack)
        /\ \A i \in 1 .. Len(stack) :
             counted[i] = IF i = Len(stack) THEN f ELSE stack[i]
    BY <2>1, <2>3, <2>4, ExceptSeq
  <2> QED BY <2>5 DEF f
<1> QED BY <1>1, <1>2

-----------------------------------------------------------------------------
FrameOK(frames, i) ==
  /\ frames[i].kind = "Array" => frames[i].count <= frames[i].expected
  /\ (frames[i].kind = "Object" /\ i < Len(frames)) => frames[i].expecting_key
  /\ (frames[i].kind = "Array" /\ i < Len(frames)) => frames[i].count > 0

(* What a call does to the frames, whatever it writes.                     *)
StackStep ==
  \/ UNCHANGED <<stack, has_root>>
  \/ beginValue(<<>>)
  \/ \E f \in NewFrame : beginValue(<<f>>)
  \/ /\ AcceptsKey /\ has_root' = has_root
     /\ \E waits \in BOOLEAN :
          stack' = [stack EXCEPT ![Len(stack)].expecting_key = waits]
  \/ /\ \E kind \in {"Object", "Array"} : AcceptsEnd(kind)
     /\ stack' = SubSeq(stack, 1, Len(stack) - 1) /\ has_root' = has_root
  \/ stack' = <<>> /\ has_root' = FALSE

LEMMA ShapeIsStackStep == StepShape => StackStep
BY DEF StepShape, StackStep, Refused, Wrote, Opened, Named, Ended, Taken,
       Wiped, state

LEMMA FramesStep ==
  ASSUME stack \in Seq(Frame), has_root \in BOOLEAN, OuterFramesWait,
         StackStep
  PROVE  stack' \in Seq(Frame) /\ has_root' \in BOOLEAN /\ OuterFramesWait'
<1> DEFINE Goal == /\ stack' \in Seq(Frame) /\ has_root' \in BOOLEAN
                   /\ stack' # <<>> => has_root'
                   /\ \A i \in 1 .. Len(stack') : FrameOK(stack', i)
<1>0. /\ stack \in Seq(Frame) /\ Len(stack) \in Nat
      /\ stack # <<>> => has_root
      /\ \A i \in 1 .. Len(stack) : FrameOK(stack, i)
  BY DEF OuterFramesWait, FrameOK
<1>1. SUFFICES Goal
  BY DEF OuterFramesWait, FrameOK
<1>2. CASE UNCHANGED <<stack, has_root>>
  BY <1>0, <1>2
(* The frame a value is counted in is complete for an outer frame.         *)
<1>3. ASSUME AcceptsValue, NEW i \in 1 .. Len(stack)
      PROVE  /\ counted[i].kind = "Array" =>
                  /\ counted[i].count > 0
                  /\ counted[i].count <= counted[i].expected
             /\ counted[i].kind = "Object" => counted[i].expecting_key
  <2>1. /\ stack # <<>> /\ stack[i] \in Frame /\ back \in Frame
        /\ FrameOK(stack, i) /\ back = stack[Len(stack)]
    BY <1>0, BackType, ElementOfSeq, EmptySeq DEF back
  <2>2. CASE i # Len(stack)
    <3>1. counted[i] = stack[i] /\ i < Len(stack)
      BY <1>0, <2>2, CountedFrames
    <3> QED BY <2>1, <3>1 DEF FrameOK, Frame
  <2>3. CASE i = Len(stack)
    <3>1. counted[i] = [back EXCEPT !.count = (back.count + 1) % U32Size,
                                    !.expecting_key = (back.kind = "Object")]
      BY <1>0, <2>3, CountedFrames
    <3>2. /\ counted[i].kind = back.kind
          /\ counted[i].expected = back.expected
          /\ counted[i].count = (back.count + 1) % U32Size
          /\ counted[i].expecting_key = (back.kind = "Object")
      BY <2>1, <3>1 DEF Frame
    <3>3. CASE back.kind = "Array"
      <4>1. back.count # back.expected /\ back.count <= back.expected
        BY <1>3, <2>1, <2>3, <3>3 DEF AcceptsValue, FrameOK
      <4>2. /\ back.count \in Nat /\ back.expected \in Nat
            /\ back.expected < U32Size
        BY <2>1, WidthType DEF Frame, U32, U32Max
      <4>3. (back.count + 1) % U32Size = back.count + 1
        <5>1. /\ back.count + 1 \in Nat /\ U32Size \in Nat
              /\ back.count + 1 < U32Size
          BY <4>1, <4>2, WidthType
        <5> QED BY <5>1, SmallMod
      <4> QED BY <3>2, <3>3, <4>1, <4>2, <4>3
    <3>4. CASE back.kind # "Array"
      BY <3>2, <3>4
    <3> QED BY <3>3, <3>4
  <2> QED BY <2>2, <2>3
<1>4. CASE beginValue(<<>>)
  <2>1. counted \in Seq(Frame) /\ Len(counted) = Len(stack)
    BY <1>0, CountedFrames
  <2>2. stack' = counted
    BY <1>4, <2>1, ConcatEmptySeq DEF beginValue
  <2>3. \A i \in 1 .. Len(stack') : FrameOK(stack', i)
    BY <1>3, <1>4, <2>1, <2>2 DEF beginValue, FrameOK
  <2> QED BY <1>4, <2>1, <2>2, <2>3 DEF beginValue
<1>5. ASSUME NEW f \in NewFrame, beginValue(<<f>>) PROVE Goal
  <2>1. counted \in Seq(Frame) /\ Len(counted) = Len(stack)
    BY <1>0, CountedFrames
  <2>2. f \in Frame /\ <<f>> \in Seq(Frame) /\ Len(<<f>>) = 1 /\ <<f>>[1] = f
    BY DEF NewFrame
  <2>3. /\ stack' \in Seq(Frame) /\ Len(stack') = Len(stack) + 1
        /\ \A i \in 1 .. Len(stack') :
             stack'[i] = IF i <= Len(stack) THEN counted[i] ELSE f
    <3>1. stack' = counted \o <<f>>
      BY <1>5 DEF beginValue
    <3> HIDE DEF FrameOK
    <3> QED BY <1>0, <2>1, <2>2, <3>1, ConcatProperties
  <2>4. ASSUME NEW i \in 1 .. Len(stack') PROVE FrameOK(stack', i)
    <3>1. CASE i <= Len(stack)
      BY <1>0, <1>3, <1>5, <2>3, <3>1 DEF beginValue, FrameOK
    <3>2. CASE i > Len(stack)
      <4>1. i = Len(stack') /\ stack'[i] = f
        BY <1>0, <2>3, <3>2
      <4>2. f.count = 0 /\ f.expected \in Nat
        BY <2>2, LengthsFit DEF NewFrame, Frame
      <4> QED BY <4>1, <4>2 DEF FrameOK
    <3> QED BY <1>0, <2>3, <3>1, <3>2
  <2> QED BY <1>5, <2>3, <2>4 DEF beginValue
<1>6. ASSUME NEW waits \in BOOLEAN, AcceptsKey, has_root' = has_root,
             stack' = [stack EXCEPT ![Len(stack)].expecting_key = waits]
      PROVE  Goal
  <2> DEFINE f == [back EXCEPT !.expecting_key = waits]
  <2>1. /\ back \in Frame /\ Len(stack) \in 1 .. Len(stack)
        /\ stack # <<>> /\ back.kind = "Object"
    BY <1>0, <1>6, BackType DEF AcceptsKey
  <2>2. f \in Frame /\ f.kind = "Object"
    BY <2>1 DEF Frame
  <2>3. stack' = [stack EXCEPT ![Len(stack)] = f]
    BY <1>6 DEF back
  <2> HIDE DEF f
  <2>4. /\ stack' \in Seq(Frame) /\ Len(stack') = Len(stack)
        /\ \A i \in 1 .. Len(stack) :
             stack'[i] = IF i = Len(stack) THEN f ELSE stack[i]
    BY <1>0, <2>1, <2>2, <2>3, ExceptSeq
  <2>5. \A i \in 1 .. Len(stack') : FrameOK(stack', i)
    BY <1>0, <2>2, <2>4 DEF FrameOK
  <2> QED BY <1>0, <1>6, <2>1, <2>4, <2>5
<1>7. ASSUME NEW kind \in {"Object", "Array"}, AcceptsEnd(kind),
             stack' = SubSeq(stack, 1, Len(stack) - 1), has_root' = has_root
      PROVE  Goal
  <2>1. Len(stack) \in 1 .. Len(stack) /\ stack # <<>>
    BY <1>0, <1>7, BackType DEF AcceptsEnd
  <2>2. \A i \in 1 .. Len(stack) - 1 : stack[i] \in Frame
    BY <1>0, <2>1, ElementOfSeq
  <2>3. /\ stack' \in Seq(Frame) /\ Len(stack') = Len(stack) - 1
        /\ \A i \in 1 .. Len(stack) - 1 : stack'[i] = stack[i]
    <3> DEFINE n == Len(stack) - 1
    <3>1. n \in Nat /\ \A i \in 1 .. n : stack[i] \in Frame
      BY <1>0, <2>1, <2>2
    <3> HIDE DEF n
    <3>2. /\ SubSeq(stack, 1, n) \in Seq(Frame)
          /\ Len(SubSeq(stack, 1, n)) = IF 1 <= n THEN n - 1 + 1 ELSE 0
          /\ \A i \in 1 .. n - 1 + 1 : SubSeq(stack, 1, n)[i] = stack[1 + i - 1]
      BY <3>1, SubSeqProperties
    <3>3. /\ SubSeq(stack, 1, n) \in Seq(Frame)
          /\ Len(SubSeq(stack, 1, n)) = n
          /\ \A i \in 1 .. n : SubSeq(stack, 1, n)[i] = stack[i]
      BY <3>1, <3>2
    <3> QED BY <1>7, <3>3 DEF n
  <2>4. \A i \in 1 .. Len(stack') : FrameOK(stack', i)
    BY <1>0, <2>3 DEF FrameOK
  <2> QED BY <1>0, <1>7, <2>1, <2>3, <2>4
<1>8. CASE stack' = <<>> /\ has_root' = FALSE
  <2>1. stack' \in Seq(Frame) /\ Len(stack') = 0
    BY <1>8, EmptySeq
  <2>2. has_root' \in BOOLEAN /\ (stack' # <<>> => has_root')
    BY <1>8
  <2> HIDE DEF FrameOK
  <2> QED BY <2>1, <2>2
<1> QED BY <1>2, <1>4, <1>5, <1>6, <1>7, <1>8 DEF StackStep

(* Every step keeps the types.                                             *)
LEMMA TypeStep ==
  ASSUME TypeOK, OuterFramesWait, Next
  PROVE  TypeOK' /\ OuterFramesWait'
<1>1. StepShape /\ call' \in CallType
  BY NextShape
<1>2. stack' \in Seq(Frame) /\ has_root' \in BOOLEAN /\ OuterFramesWait'
  BY <1>1, ShapeIsStackStep, FramesStep DEF TypeOK
<1>3. \/ bytes' = bytes \/ bytes' = <<>> \/ bytes' = Header
      \/ \E put \in Seq(Byte) : bytes' = bytes \o put
  BY <1>1 DEF StepShape, Refused, Wrote, Opened, Named, Ended, Taken, Wiped,
              state
<1>4. /\ bytes \in Seq(Byte) /\ <<>> \in Seq(Byte) /\ Header \in Seq(Byte)
      /\ \A put \in Seq(Byte) : bytes \o put \in Seq(Byte)
  BY ConcatProperties DEF TypeOK, Header, FormatVersion, Byte
<1>5. bytes' \in Seq(Byte)
  BY <1>3, <1>4
<1> QED BY <1>1, <1>2, <1>5 DEF TypeOK, CallType

LEMMA HeaderStep ==
  ASSUME TypeOK, HeaderOrDrained, Next
  PROVE  HeaderOrDrained'
<1>0. /\ bytes \in Seq(Byte) /\ Len(bytes) \in Nat
      /\ <<>> \in Seq(Byte) /\ Len(<<>>) = 0
  BY EmptySeq DEF TypeOK
<1>1. StepShape
  BY NextShape
(* Every step that appends needs a state in which the buffer is not empty. *)
<1>2. ASSUME NEW put \in Seq(Byte), bytes' = bytes \o put, bytes # <<>>
      PROVE  HeaderOrDrained'
  <2>1. Len(bytes) >= 2 /\ bytes[1] = 255 /\ bytes[2] = FormatVersion
    BY <1>2 DEF HeaderOrDrained
  <2>2. /\ Len(bytes \o put) >= 2
        /\ (bytes \o put)[1] = bytes[1] /\ (bytes \o put)[2] = bytes[2]
    BY <1>0, <2>1, ConcatProperties
  <2> QED BY <1>2, <2>1, <2>2 DEF HeaderOrDrained
<1>3. CASE Refused
  BY <1>3 DEF Refused, state, HeaderOrDrained
<1>4. ASSUME NEW put \in Seq(Byte), Wrote(put) PROVE HeaderOrDrained'
  <2>1. bytes # <<>>
    BY <1>4, <1>0 DEF Wrote, beginValue, AcceptsValue, HeaderOrDrained
  <2> QED BY <1>2, <1>4, <2>1 DEF Wrote
<1>5. ASSUME NEW put \in Seq(Byte), NEW f \in NewFrame, Opened(put, f)
      PROVE  HeaderOrDrained'
  <2>1. bytes # <<>>
    BY <1>5, <1>0 DEF Opened, beginValue, AcceptsValue, HeaderOrDrained
  <2> QED BY <1>2, <1>5, <2>1 DEF Opened
<1>6. ASSUME NEW put \in Seq(Byte), NEW waits \in BOOLEAN, Named(put, waits)
      PROVE  HeaderOrDrained'
  <2>1. bytes # <<>>
    BY <1>6, <1>0 DEF Named, AcceptsKey, HeaderOrDrained
  <2> QED BY <1>2, <1>6, <2>1 DEF Named
<1>7. ASSUME NEW put \in Seq(Byte), NEW kind \in {"Object", "Array"},
             Ended(put, kind)
      PROVE  HeaderOrDrained'
  <2>1. bytes # <<>>
    BY <1>7, <1>0 DEF Ended, AcceptsEnd, HeaderOrDrained
  <2> QED BY <1>2, <1>7, <2>1 DEF Ended
<1>8. CASE Taken
  BY <1>8 DEF Taken, AcceptsTake, HeaderOrDrained
<1>9. CASE Wiped
  <2>1. Len(Header) = 2 /\ Header[1] = 255 /\ Header[2] = FormatVersion
    BY DEF Header
  <2> QED BY <1>9, <2>1 DEF Wiped, HeaderOrDrained
<1> QED BY <1>1, <1>3, <1>4, <1>5, <1>6, <1>7, <1>8, <1>9 DEF StepShape

-----------------------------------------------------------------------------
(* The invariants together, and the theorems.                              *)

WriterInv == TypeOK /\ OuterFramesWait /\ HeaderOrDrained

LEMMA WriterInvInit == Init => WriterInv
<1> SUFFICES ASSUME Init PROVE WriterInv
  OBVIOUS
<1>1. TypeOK
  <2>1. /\ Header \in Seq(Byte) /\ <<>> \in Seq(Byte) /\ <<>> \in Seq(Frame)
    BY DEF Header, FormatVersion, Byte
  <2>2. Call("construct", NoValue, "none", <<>>) \in CallType
    BY NoValueType DEF Call, CallType, Methods
  <2> QED BY <2>1, <2>2 DEF Init, TypeOK, CallType
<1>2. OuterFramesWait
  <2>1. Len(<<>>) = 0
    OBVIOUS
  <2> QED BY <2>1 DEF Init, OuterFramesWait
<1>3. HeaderOrDrained
  <2>1. Len(Header) = 2 /\ Header[1] = 255 /\ Header[2] = FormatVersion
    BY DEF Header
  <2> QED BY <2>1 DEF Init, HeaderOrDrained
<1> QED BY <1>1, <1>2, <1>3 DEF WriterInv

LEMMA WriterInvStep == WriterInv /\ [Next]_vars => WriterInv'
<1> SUFFICES ASSUME WriterInv, [Next]_vars PROVE WriterInv'
  OBVIOUS
<1>1. CASE Next
  BY <1>1, TypeStep, HeaderStep DEF WriterInv
<1>2. CASE UNCHANGED vars
  BY <1>2 DEF vars, WriterInv, TypeOK, OuterFramesWait, HeaderOrDrained
<1> QED BY <1>1, <1>2

(* The types, the outer frames and the header, which need each other.      *)
THEOREM WriterInvariant == Spec => []WriterInv
BY WriterInvInit, WriterInvStep, PTL DEF Spec

(* Type correctness: the buffer holds bytes, the stack holds frames whose  *)
(* counts are uint32, and has_root_ is a Boolean, after any calls.         *)
THEOREM TypeCorrect == Spec => []TypeOK
<1>1. WriterInv => TypeOK
  BY DEF WriterInv
<1> QED BY <1>1, WriterInvariant, PTL

(* Outer containers were counted in their parent before they were opened,  *)
(* and no array exceeds its declared length (beginValue, endArray).        *)
THEOREM OuterFramesAlwaysWait == Spec => []OuterFramesWait
<1>1. WriterInv => OuterFramesWait
  BY DEF WriterInv
<1> QED BY <1>1, WriterInvariant, PTL

(* A buffer that holds anything starts with the version header, and one    *)
(* that take() emptied is never written to before reset().                 *)
THEOREM HeaderAlwaysFirst == Spec => []HeaderOrDrained
<1>1. WriterInv => HeaderOrDrained
  BY DEF WriterInv
<1> QED BY <1>1, WriterInvariant, PTL

(* A call that throws std::logic_error leaves the writer as it was.        *)
THEOREM MisuseNeverHarms == Spec => MisuseIsHarmless
<1>1. WriterInv /\ [Next]_vars
        => [call'.thrown = "logic_error" => UNCHANGED state]_vars
  <2> SUFFICES ASSUME WriterInv, Next, call'.thrown = "logic_error"
               PROVE  UNCHANGED state
    OBVIOUS
  <2>1. StepShape
    BY NextShape DEF WriterInv
  <2> QED BY <2>1 DEF StepShape, Refused, Wrote, Opened, Named, Ended,
                      Taken, Wiped
<1> QED BY <1>1, WriterInvariant, PTL DEF Spec, MisuseIsHarmless

(* The stack grows by one for every begin call that returns and shrinks by *)
(* one for every end call that returns, and by nothing else.               *)
THEOREM StackBalancesCalls == Spec => BalanceFollowsCalls
<1> DEFINE Change == IF call'.thrown # "none" THEN 0
                     ELSE IF call'.op \in {"beginObject", "beginArray"} THEN 1
                     ELSE IF call'.op \in {"endObject", "endArray"} THEN -1
                     ELSE 0
           Balanced == call'.op \notin {"take", "reset"} =>
                         Len(stack') = Len(stack) + Change
<1>1. WriterInv /\ [Next]_vars => [Balanced]_vars
  <2> SUFFICES ASSUME WriterInv, Next PROVE Balanced
    OBVIOUS
  <2>0. stack \in Seq(Frame) /\ Len(stack) \in Nat /\ StepShape
        /\ counted \in Seq(Frame) /\ Len(counted) = Len(stack)
    BY NextShape, CountedFrames DEF WriterInv, TypeOK
  <2>1. CASE Refused
    BY <2>0, <2>1 DEF Refused, state
  <2>2. ASSUME NEW put \in Seq(Byte), Wrote(put) PROVE Balanced
    <3>1. stack' = counted
      BY <2>0, <2>2, ConcatEmptySeq DEF Wrote, beginValue
    <3>2. Change = 0
      BY <2>2 DEF Wrote, LeafMethods
    <3> QED BY <2>0, <3>1, <3>2
  <2>3. ASSUME NEW put \in Seq(Byte), NEW f \in NewFrame, Opened(put, f)
        PROVE  Balanced
    <3>1. <<f>> \in Seq(Frame) /\ Len(<<f>>) = 1
      BY DEF NewFrame
    <3>2. Len(stack') = Len(stack) + 1
      BY <2>0, <2>3, <3>1, ConcatProperties DEF Opened, beginValue
    <3>3. Change = 1
      BY <2>3 DEF Opened
    <3> QED BY <3>2, <3>3
  <2>4. ASSUME NEW put \in Seq(Byte), NEW waits \in BOOLEAN, Named(put, waits)
        PROVE  Balanced
    <3>1. Len(stack') = Len(stack)
      BY <2>0, <2>4 DEF Named
    <3>2. Change = 0
      BY <2>4 DEF Named
    <3> QED BY <2>0, <3>1, <3>2
  <2>5. ASSUME NEW put \in Seq(Byte), NEW kind \in {"Object", "Array"},
               Ended(put, kind)
        PROVE  Balanced
    <3>1. Len(stack) \in 1 .. Len(stack)
      BY <2>0, <2>5, BackType DEF Ended, AcceptsEnd
    <3>2. Len(stack') = Len(stack) - 1
      BY <2>0, <2>5, <3>1 DEF Ended
    <3>3. Change = -1
      BY <2>5 DEF Ended
    <3> QED BY <2>0, <3>2, <3>3
  <2>6. CASE Taken \/ Wiped
    BY <2>6 DEF Taken, Wiped
  <2> QED BY <2>0, <2>1, <2>2, <2>3, <2>4, <2>5, <2>6 DEF StepShape
<1> QED BY <1>1, WriterInvariant, PTL DEF Spec, BalanceFollowsCalls

-----------------------------------------------------------------------------
(* Two-byte strings.                                                       *)

LEMMA VarintLength ==
  ASSUME NEW n \in Nat
  PROVE  Len(varint(n)) = varintSize(n)
<1>1. varintSize(n) \in 1 .. 5
  <2>1. varintSize(n) \in 1 .. MaxGroups
    BY GroupsCounted
  <2> QED BY <2>1, WidthAssumption
<1>2. varint(n) = [i \in 1 .. varintSize(n) |->
                     ((n \div weight[i]) % GroupBase)
                       + (IF i < varintSize(n) THEN GroupBase ELSE 0)]
  BY VarintWritten
<1> QED BY <1>1, <1>2

(* The padding puts the units, which come last, at an even offset.         *)
LEMMA UnitsStartEven ==
  ASSUME NEW units \in Seq(CodeUnit), ~allLatin1(units),
         rawUtf16(units).thrown = "none", bytes \in Seq(Byte)
  PROVE  \E head \in Seq(Byte) :
           /\ bytes \o rawUtf16(units).put = head \o unitBytes(units)
           /\ Len(head) % 2 = 0
<1> DEFINE n == 2 * Len(units)
           pad == twoBytePadding(n)
           tag == <<TwoByteTag>>
           head == bytes \o (pad \o tag \o varint(n))
<1>1. n \in Nat
  OBVIOUS
<1> HIDE DEF n
<1>2. /\ varint(n) \in Seq(Byte) /\ Len(varint(n)) = varintSize(n)
      /\ varintSize(n) \in Nat
  <2>1. varintSize(n) \in 1 .. MaxGroups
    BY <1>1, GroupsCounted
  <2> QED BY <1>1, <2>1, VarintType, VarintLength
<1>3. tag \in Seq(Byte) /\ Len(tag) = 1
  BY DEF TwoByteTag, Byte
<1>4. pad \in Seq(Byte)
  BY PaddingType
<1>5. (Len(bytes) + Len(pad) + 1 + varintSize(n)) % 2 = 0
  <2> DEFINE k == Len(bytes) + 1 + varintSize(n)
  <2>1. k \in Nat /\ Len(bytes) \in Nat
    BY <1>2
  <2>2. pad = IF k % 2 = 0 THEN <<>> ELSE <<Padding>>
    BY DEF twoBytePadding
  <2>3. /\ k % 2 = 0 => pad = <<>>
        /\ k % 2 # 0 => pad = <<Padding>>
    BY <2>2
  <2> HIDE DEF k, pad
  <2>4. CASE k % 2 = 0
    <3>1. Len(pad) = 0
      BY <2>3, <2>4
    <3> QED BY <1>2, <2>1, <2>4, <3>1 DEF k
  <2>5. CASE k % 2 # 0
    <3>1. Len(pad) = 1
      BY <2>3, <2>5
    <3>2. (k + 1) % 2 = 0
      BY <2>1, <2>5
    <3>3. Len(bytes) + Len(pad) + 1 + varintSize(n) = k + 1
      BY <1>2, <2>1, <3>1 DEF k
    <3> QED BY <3>2, <3>3
  <2> QED BY <2>4, <2>5
<1>6. unitBytes(units) \in Seq(Byte)
  BY UnitBytesType
<1>7. rawUtf16(units).put = pad \o tag \o varint(n) \o unitBytes(units)
  BY DEF rawUtf16, Emits, Aborts, n
<1> HIDE DEF pad, tag
<1>8. /\ pad \o tag \o varint(n) \in Seq(Byte)
      /\ Len(pad \o tag \o varint(n)) = Len(pad) + 1 + varintSize(n)
  <2> DEFINE x == pad \o tag
             y == varint(n)
  <2>1. x \in Seq(Byte) /\ Len(x) = Len(pad) + Len(tag)
    BY ONLY <1>3, <1>4, ConcatProperties
  <2>2. y \in Seq(Byte) /\ Len(y) = varintSize(n)
    BY <1>2
  <2> HIDE DEF x, y
  <2>3. x \o y \in Seq(Byte) /\ Len(x \o y) = Len(x) + Len(y)
    BY ONLY <2>1, <2>2, ConcatProperties
  <2> QED BY <1>2, <1>3, <2>1, <2>2, <2>3 DEF x, y
<1>9. head \in Seq(Byte) /\ Len(head) % 2 = 0
  <2>1. /\ head \in Seq(Byte)
        /\ Len(head) = Len(bytes) + (Len(pad) + 1 + varintSize(n))
    BY <1>8, ConcatProperties
  <2>2. Len(head) = Len(bytes) + Len(pad) + 1 + varintSize(n)
    BY <1>2, <1>4, <2>1
  <2> QED BY <1>5, <2>1, <2>2
<1>10. bytes \o rawUtf16(units).put = head \o unitBytes(units)
  <2> DEFINE x == pad \o tag \o varint(n)
             u == unitBytes(units)
  <2>1. x \in Seq(Byte) /\ u \in Seq(Byte)
    BY <1>6, <1>8
  <2>2. rawUtf16(units).put = x \o u /\ head = bytes \o x
    BY <1>7
  <2> HIDE DEF x, u, head
  <2>3. (bytes \o x) \o u = bytes \o (x \o u)
    <3>1. bytes \in Seq(Byte)
      OBVIOUS
    <3> QED BY ONLY <2>1, <3>1, ConcatAssociative
  <2>4. bytes \o rawUtf16(units).put = head \o u
    BY <2>2, <2>3
  <2> QED BY <2>4 DEF u
<1> QED BY <1>9, <1>10

LEMMA TailOfConcat ==
  ASSUME NEW S, NEW s \in Seq(S), NEW t \in Seq(S)
  PROVE  /\ Len(s \o t) - Len(t) = Len(s)
         /\ SubSeq(s \o t, Len(s \o t) - Len(t) + 1, Len(s \o t)) = t
<1> DEFINE whole == s \o t
           m == Len(s) + 1
           part == SubSeq(whole, m, Len(whole))
<1>1. /\ whole \in Seq(S) /\ Len(whole) = Len(s) + Len(t)
      /\ Len(s) \in Nat /\ Len(t) \in Nat /\ m \in Nat
      /\ \A i \in 1 .. Len(s) + Len(t) :
           whole[i] = IF i <= Len(s) THEN s[i] ELSE t[i - Len(s)]
  BY ConcatProperties
<1>2. \A i \in m .. Len(whole) : whole[i] \in S
  BY <1>1, ElementOfSeq
<1> HIDE DEF whole
<1>3. /\ part \in Seq(S) /\ Len(part) = Len(t)
      /\ \A i \in 1 .. Len(whole) - m + 1 : part[i] = whole[m + i - 1]
  <2>1. /\ part \in Seq(S)
        /\ Len(part) = IF m <= Len(whole) THEN Len(whole) - m + 1 ELSE 0
        /\ \A i \in 1 .. Len(whole) - m + 1 : part[i] = whole[m + i - 1]
    BY <1>1, <1>2, SubSeqProperties
  <2> HIDE DEF part
  <2> QED BY <1>1, <2>1
<1>4. ASSUME NEW i \in 1 .. Len(t) PROVE part[i] = t[i]
  <2>1. /\ i \in 1 .. Len(whole) - m + 1
        /\ m + i - 1 \in 1 .. Len(s) + Len(t) /\ ~(m + i - 1 <= Len(s))
        /\ m + i - 1 - Len(s) = i /\ m + i - 1 = Len(s) + i
    BY <1>1
  <2>2. part[i] = whole[m + i - 1]
    BY <1>3, <2>1
  <2>3. whole[m + i - 1] = t[m + i - 1 - Len(s)]
    BY <1>1, <2>1
  <2> HIDE DEF part, m
  <2> QED BY <2>1, <2>2, <2>3
<1> HIDE DEF part
<1>5. part = t
  BY <1>3, <1>4, SeqEqual
<1>6. Len(whole) - Len(t) = Len(s)
  BY <1>1
<1> QED BY <1>5, <1>6 DEF part, whole

(* Only string16() and key() write a text given as code units.             *)
LEMMA TextWritten ==
  ASSUME Next, call'.op \in {"string16", "key"}, call'.thrown = "none"
  PROVE  \E s \in Utf16Inputs :
           /\ call'.arg.data = s /\ rawUtf16(s).thrown = "none"
           /\ bytes' = bytes \o rawUtf16(s).put
<1>1. ASSUME NEW op, NEW arg, NEW raw, NEW pushed, Write(op, arg, raw, pushed)
      PROVE  /\ call'.op = op /\ call'.arg = arg
             /\ raw.thrown = "none" /\ bytes' = bytes \o raw.put
  BY <1>1 DEF Write, Refuse, Call
<1>2. ASSUME NEW s \in Utf16Inputs, string16(s) \/ key(s)
      PROVE  /\ call'.arg.data = s /\ rawUtf16(s).thrown = "none"
             /\ bytes' = bytes \o rawUtf16(s).put
  BY <1>1, <1>2 DEF string16, key, Refuse, Call, Leaf
<1>3. ASSUME WriteValue, \A s \in Utf16Inputs : ~string16(s) PROVE FALSE
  <2>1. ~undefined /\ ~null /\ \A v \in BOOLEAN : ~boolean(v)
    BY <1>1 DEF undefined, null, scalar, boolean
  <2>2. /\ \A v : ~int32(v) /\ ~uint32(v) /\ ~number(v) /\ ~date(v)
        /\ \A s : ~string8(s) /\ ~arrayBuffer(s)
    BY <1>1 DEF int32, uint32, number, date, string8, arrayBuffer
  <2>3. \A b, t : ~arrayBufferView(t, b)
    BY <1>1 DEF arrayBufferView, Refuse, Call
  <2> QED BY <1>3, <2>1, <2>2, <2>3 DEF WriteValue
<1>4. ~Open
  BY <1>1 DEF Open, beginObject, beginArray
<1>5. ~endObject /\ ~endArray /\ ~take /\ ~reset
  BY DEF endObject, endArray, End, take, reset, Refuse, Call
<1> QED BY <1>2, <1>3, <1>4, <1>5 DEF Next, WriteKey

(* The units of a two-byte string or key end the message at that moment    *)
(* and start at an even offset of it, whatever came before.                *)
THEOREM TwoByteStringsAligned == Spec => TwoByteAligned
<1> DEFINE units == call'.arg.data
           Aligned == /\ (Len(bytes') - 2 * Len(units)) % 2 = 0
                      /\ SubSeq(bytes', Len(bytes') - 2 * Len(units) + 1,
                                Len(bytes')) = unitBytes(units)
           Wrote2 == /\ call'.op \in {"string16", "key"}
                     /\ call'.thrown = "none" /\ ~allLatin1(units)
<1>1. ASSUME WriterInv, Next, Wrote2 PROVE Aligned
  <2>1. PICK s \in Utf16Inputs :
          /\ units = s /\ rawUtf16(s).thrown = "none"
          /\ bytes' = bytes \o rawUtf16(s).put
    BY <1>1, TextWritten
  <2>2. s \in Seq(CodeUnit) /\ ~allLatin1(s) /\ bytes \in Seq(Byte)
    BY <1>1, <2>1, InputAssumption DEF WriterInv, TypeOK
  <2>3. PICK head \in Seq(Byte) :
          bytes' = head \o unitBytes(s) /\ Len(head) % 2 = 0
    BY <2>1, <2>2, UnitsStartEven
  <2>4. unitBytes(s) \in Seq(Byte) /\ Len(unitBytes(s)) = 2 * Len(s)
    BY <2>2, UnitBytesType
  <2>5. /\ Len(bytes') - 2 * Len(s) = Len(head)
        /\ SubSeq(bytes', Len(bytes') - 2 * Len(s) + 1, Len(bytes'))
             = unitBytes(s)
    <3>1. PICK u : u = unitBytes(s)
      OBVIOUS
    <3>2. PICK n : n = 2 * Len(s)
      OBVIOUS
    <3>3. u \in Seq(Byte) /\ Len(u) = n /\ bytes' = head \o u
      BY <2>3, <2>4, <3>1, <3>2
    <3>4. /\ Len(bytes') - n = Len(head)
          /\ SubSeq(bytes', Len(bytes') - n + 1, Len(bytes')) = u
      BY <3>3, TailOfConcat
    <3> QED BY <3>1, <3>2, <3>4
  <2> QED BY <2>1, <2>3, <2>5
<1>2. WriterInv /\ [Next]_vars => [Wrote2 => Aligned]_vars
  BY <1>1
<1> QED BY <1>2, WriterInvariant, PTL DEF Spec, TwoByteAligned

-----------------------------------------------------------------------------
(* What a call does to the frames.                                         *)

ObjectFrame ==
  [kind |-> "Object", count |-> 0, expected |-> 0, expecting_key |-> TRUE]
ArrayFrame(n) ==
  [kind |-> "Array", count |-> 0, expected |-> n, expecting_key |-> FALSE]

LEMMA FreshFrames ==
  ObjectFrame \in NewFrame /\ \A n \in LengthInputs : ArrayFrame(n) \in NewFrame
<1>1. ObjectFrame \in Frame
  BY LengthsFit DEF ObjectFrame, Frame
<1>2. \A n \in LengthInputs : ArrayFrame(n) \in Frame
  BY LengthsFit, InputAssumption DEF ArrayFrame, Frame
<1> QED BY <1>1, <1>2 DEF NewFrame, ObjectFrame, ArrayFrame

(* What a call that returns was asked for, and did to the frames.          *)
ValueWritten ==
  /\ call'.op \in LeafMethods /\ call'.arg \in Offered
  /\ beginValue(<<>>)
ObjectOpened ==
  /\ call'.op = "beginObject" /\ call'.arg = Leaf("object", <<>>)
  /\ beginValue(<<ObjectFrame>>)
ArrayOpened(n) ==
  /\ call'.op = "beginArray" /\ call'.arg = Leaf("array", <<n>>)
  /\ beginValue(<<ArrayFrame(n)>>)
KeyWritten(s) ==
  /\ call'.op = "key" /\ call'.arg = Leaf("string", s)
  /\ AcceptsKey /\ has_root' = has_root
  /\ stack' = [stack EXCEPT ![Len(stack)].expecting_key = FALSE]
ContainerEnded(kind) ==
  /\ call'.op \in {"endObject", "endArray"}
  /\ AcceptsEnd(kind) /\ has_root' = has_root
  /\ stack' = SubSeq(stack, 1, Len(stack) - 1)
MessageTaken ==
  call'.op = "take" /\ AcceptsTake /\ UNCHANGED <<stack, has_root>>
AllReset ==
  call'.op = "reset" /\ stack' = <<>> /\ has_root' = FALSE

Returned ==
  \/ ValueWritten
  \/ ObjectOpened
  \/ \E n \in LengthInputs : ArrayOpened(n)
  \/ \E s \in Utf16Inputs : KeyWritten(s)
  \/ \E kind \in {"Object", "Array"} : ContainerEnded(kind)
  \/ MessageTaken
  \/ AllReset

Answered ==
  StackStep /\ IF call'.thrown = "none" THEN Returned ELSE call'.op # "reset"

LEMMA RefusalAnswers ==
  ASSUME NEW op, NEW arg, NEW error, error # "none", op # "reset",
         Refuse(op, arg, error)
  PROVE  Answered
BY DEF Refuse, Answered, StackStep, state, Call

LEMMA WriteAnswers ==
  ASSUME NEW op \in LeafMethods, NEW arg \in Offered, NEW raw,
         Write(op, arg, raw, <<>>)
  PROVE  Answered
<1>1. CASE Refuse(op, arg, "logic_error")
  BY <1>1, RefusalAnswers DEF LeafMethods
<1>2. CASE beginValue(<<>>) /\ call' = Call(op, arg, raw.thrown, <<>>)
  BY <1>2 DEF LeafMethods, Answered, StackStep, Returned, ValueWritten, Call
<1> QED BY <1>1, <1>2 DEF Write

LEMMA ValueAnswers == ASSUME WriteValue PROVE Answered
<1>1. ASSUME NEW type \in {"undefined", "null"}, NEW tag, scalar(type, tag)
      PROVE  Answered
  <2>1. Leaf(type, <<>>) \in Offered /\ "scalar" \in LeafMethods
    BY DEF Offered, LeafMethods
  <2> QED BY <1>1, <2>1, WriteAnswers DEF scalar
<1>2. CASE undefined \/ null
  BY <1>1, <1>2 DEF undefined, null
<1>3. ASSUME NEW v \in BOOLEAN, boolean(v) PROVE Answered
  <2>1. /\ Leaf("boolean", <<IF v THEN 1 ELSE 0>>) \in Offered
        /\ "boolean" \in LeafMethods
    BY DEF Offered, LeafMethods
  <2> QED BY <1>3, <2>1, WriteAnswers DEF boolean
<1>4. ASSUME NEW v \in Int32Inputs, int32(v) PROVE Answered
  <2>1. Leaf("int32", <<v>>) \in Offered /\ "int32" \in LeafMethods
    BY DEF Offered, LeafMethods
  <2> QED BY <1>4, <2>1, WriteAnswers DEF int32
<1>5. ASSUME NEW v \in Uint32Inputs, uint32(v) PROVE Answered
  <2>1. Leaf("uint32", <<v>>) \in Offered /\ "uint32" \in LeafMethods
    BY DEF Offered, LeafMethods
  <2> QED BY <1>5, <2>1, WriteAnswers DEF uint32
<1>6. ASSUME NEW v \in DoubleInputs, number(v) \/ date(v) PROVE Answered
  <2>1. /\ Leaf("double", v) \in Offered /\ "number" \in LeafMethods
        /\ Leaf("date", v) \in Offered /\ "date" \in LeafMethods
    BY DEF Offered, LeafMethods
  <2> QED BY <1>6, <2>1, WriteAnswers DEF number, date
<1>7. ASSUME NEW s \in Utf8Inputs, string8(s) PROVE Answered
  <2>1. Leaf("string", s.units) \in Offered /\ "string8" \in LeafMethods
    BY DEF Offered, LeafMethods
  <2> QED BY <1>7, <2>1, WriteAnswers DEF string8
<1>8. ASSUME NEW s \in Utf16Inputs, string16(s) PROVE Answered
  <2>1. Leaf("string", s) \in Offered /\ "string16" \in LeafMethods
    BY DEF Offered, LeafMethods
  <2> QED BY <1>8, <2>1, WriteAnswers DEF string16
<1>9. ASSUME NEW b \in BinaryInputs, arrayBuffer(b) PROVE Answered
  <2>1. Leaf("arrayBuffer", b.data) \in Offered /\ "arrayBuffer" \in LeafMethods
    BY DEF Offered, LeafMethods
  <2> QED BY <1>9, <2>1, WriteAnswers DEF arrayBuffer
<1>10. ASSUME NEW b \in BinaryInputs, NEW t \in ViewInputs,
              arrayBufferView(t, b)
       PROVE  Answered
  <2>1. Leaf(t, b.data) \in Offered /\ "arrayBufferView" \in LeafMethods
    BY DEF Offered, LeafMethods
  <2>2. CASE Refuse("arrayBufferView", Leaf(t, b.data), "invalid_argument")
    BY <2>2, RefusalAnswers
  <2>3. CASE Write("arrayBufferView", Leaf(t, b.data), rawView(t, b), <<>>)
    BY <2>1, <2>3, WriteAnswers
  <2> QED BY <1>10, <2>2, <2>3 DEF arrayBufferView
<1> QED BY <1>2, <1>3, <1>4, <1>5, <1>6, <1>7, <1>8, <1>9, <1>10 DEF WriteValue

LEMMA KeyAnswers == ASSUME WriteKey PROVE Answered
<1>1. PICK s \in Utf16Inputs : key(s)
  BY DEF WriteKey
<1> DEFINE raw == rawUtf16(s)
           arg == Leaf("string", s)
           waits == raw.thrown # "none"
<1>2. CASE Refuse("key", arg, "logic_error")
  BY <1>2, RefusalAnswers
<1>3. CASE /\ AcceptsKey /\ UNCHANGED has_root
           /\ stack' = [stack EXCEPT ![Len(stack)].expecting_key = waits]
           /\ call' = Call("key", arg, raw.thrown, <<>>)
  <2>1. waits \in BOOLEAN
    OBVIOUS
  <2>2. StackStep
    BY <1>3, <2>1 DEF StackStep
  <2>3. call'.op = "key" /\ call'.arg = arg /\ call'.thrown = raw.thrown
    BY <1>3 DEF Call
  <2>4. ASSUME call'.thrown = "none" PROVE KeyWritten(s)
    <3>1. waits = FALSE
      BY <2>3, <2>4
    <3> QED BY <1>3, <2>3, <3>1 DEF KeyWritten
  <2> QED BY <2>2, <2>3, <2>4 DEF Answered, Returned
<1> QED BY <1>1, <1>2, <1>3 DEF key

LEMMA OpenAnswers ==
  ASSUME beginObject \/ \E n \in LengthInputs : beginArray(n)
  PROVE  Answered
<1>1. CASE beginObject
  <2>1. \/ Refuse("beginObject", Leaf("object", <<>>), "logic_error")
        \/ /\ beginValue(<<ObjectFrame>>)
           /\ call' = Call("beginObject", Leaf("object", <<>>), "none", <<>>)
    BY <1>1 DEF beginObject, Write, Emits, ObjectFrame
  <2>2. CASE /\ beginValue(<<ObjectFrame>>)
             /\ call' = Call("beginObject", Leaf("object", <<>>), "none", <<>>)
    BY <2>2, FreshFrames DEF Answered, StackStep, Returned, ObjectOpened, Call
  <2> QED BY <2>1, <2>2, RefusalAnswers
<1>2. ASSUME NEW n \in LengthInputs, beginArray(n) PROVE Answered
  <2>1. \/ Refuse("beginArray", Leaf("array", <<n>>), "logic_error")
        \/ /\ beginValue(<<ArrayFrame(n)>>)
           /\ call' = Call("beginArray", Leaf("array", <<n>>), "none", <<>>)
    BY <1>2 DEF beginArray, Write, Emits, ArrayFrame
  <2>2. CASE /\ beginValue(<<ArrayFrame(n)>>)
             /\ call' = Call("beginArray", Leaf("array", <<n>>), "none", <<>>)
    BY <2>2, FreshFrames DEF Answered, StackStep, Returned, ArrayOpened, Call
  <2> QED BY <2>1, <2>2, RefusalAnswers
<1> QED BY <1>1, <1>2

LEMMA EndAnswers == ASSUME endObject \/ endArray PROVE Answered
<1>1. ASSUME NEW op \in {"endObject", "endArray"},
             NEW kind \in {"Object", "Array"}, NEW put, End(op, kind, put)
      PROVE  Answered
  <2>1. CASE Refuse(op, NoValue, "logic_error")
    BY <2>1, RefusalAnswers
  <2>2. CASE /\ AcceptsEnd(kind) /\ UNCHANGED has_root
             /\ stack' = SubSeq(stack, 1, Len(stack) - 1)
             /\ call' = Call(op, NoValue, "none", <<>>)
    BY <2>2 DEF Answered, StackStep, Returned, ContainerEnded, Call
  <2> QED BY <1>1, <2>1, <2>2 DEF End
<1> QED BY <1>1 DEF endObject, endArray

LEMMA TakeAnswers == ASSUME take \/ reset PROVE Answered
<1>1. CASE reset
  BY <1>1 DEF reset, Answered, StackStep, Returned, AllReset, Call
<1>2. CASE take
  <2>1. CASE Refuse("take", NoValue, "logic_error")
    BY <2>1, RefusalAnswers
  <2>2. CASE /\ AcceptsTake /\ UNCHANGED <<stack, has_root>>
             /\ call' = Call("take", NoValue, "none", bytes)
    BY <2>2 DEF Answered, StackStep, Returned, MessageTaken, Call
  <2> QED BY <1>2, <2>1, <2>2 DEF take
<1> QED BY <1>1, <1>2

LEMMA NextAnswers == ASSUME Next PROVE Answered
BY ValueAnswers, KeyAnswers, OpenAnswers, EndAnswers, TakeAnswers DEF Next, Open

(* A failure of the allocator only does to the frames what calls do.       *)
LEMMA RunsOutStackStep == ASSUME RunsOut PROVE StackStep
<1>1. ASSUME NEW op, NEW arg, NEW raw, NEW n, NEW t,
             tornValue(op, arg, raw, n, t)
      PROVE  StackStep
  BY <1>1 DEF tornValue, StackStep
<1>2. CASE tornLeaf
  BY <1>1, <1>2 DEF tornLeaf
<1>3. CASE tornKey
  BY <1>3 DEF tornKey, StackStep
<1>4. ASSUME NEW op, NEW arg, NEW put, tornBegin(op, arg, put)
      PROVE  StackStep
  BY <1>1, <1>4 DEF tornBegin, StackStep
<1>5. ASSUME NEW op, NEW kind \in {"Object", "Array"}, NEW put,
             tornEnd(op, kind, put)
      PROVE  StackStep
  BY <1>5 DEF tornEnd, StackStep
<1>6. CASE tornReset
  BY <1>6 DEF tornReset, StackStep
<1> QED BY <1>2, <1>3, <1>4, <1>5, <1>6 DEF RunsOut

-----------------------------------------------------------------------------
(* The inductive invariant: a container of the record for every frame.     *)
(* The values the record holds have no common type; V is the set of those  *)
(* that were placed so far.                                                *)

Container(V) ==
  [type : {"array", "object"}, data : Seq(Int), keys : Seq(Seq(Int)),
   kids : Seq(V)]

(* FrameMatches, with the number of values that are counted but not placed *)
(* yet: one in every container but the innermost.                          *)
Agrees(frame, held, pending) ==
  /\ frame.kind = Kind(held)
  /\ frame.kind = "Array" =>
       held.data = <<frame.expected>> /\ frame.count = Len(held.kids) + pending
  /\ frame.kind = "Object" =>
       Len(held.keys) = Len(held.kids)
         + (IF pending = 1 \/ ~frame.expecting_key THEN 1 ELSE 0)

Pending(i, n) == IF i < n THEN 1 ELSE 0

Matches(V, containers, frames) ==
  /\ containers \in Seq(Container(V)) /\ Len(containers) = Len(frames)
  /\ \A i \in 1 .. Len(frames) :
       Agrees(frames[i], containers[i], Pending(i, Len(frames)))

RootMatches(frames, tree, has) ==
  /\ has <=> (frames # <<>> \/ tree # NoValue)
  /\ frames # <<>> => tree = NoValue

RecordInv ==
  /\ stack \in Seq(Frame) /\ has_root \in BOOLEAN /\ OuterFramesWait
  /\ ~broken => /\ \E V : Matches(V, open, stack)
                /\ RootMatches(stack, root, has_root)

(* All frames have a value pending, and an object will then want a key.    *)
AllPending(V, containers, frames) ==
  /\ containers \in Seq(Container(V)) /\ Len(containers) = Len(frames)
  /\ \A i \in 1 .. Len(frames) :
       /\ Agrees(frames[i], containers[i], 1)
       /\ frames[i].kind = "Object" => frames[i].expecting_key

LEMMA ContainerMonotonic ==
  ASSUME NEW V, NEW W, V \subseteq W
  PROVE  Seq(Container(V)) \subseteq Seq(Container(W))
<1>1. Seq(V) \subseteq Seq(W)
  BY SeqMonotonic
<1>2. Container(V) \subseteq Container(W)
  BY <1>1 DEF Container
<1> QED BY <1>2, SeqMonotonic

LEMMA GrownAgrees ==
  ASSUME NEW V, NEW held \in Container(V), NEW frame, Agrees(frame, held, 1),
         frame.kind = "Object" => frame.expecting_key, NEW v \in V
  PROVE  LET grown == [held EXCEPT !.kids = Append(held.kids, v)]
         IN  grown \in Container(V) /\ Agrees(frame, grown, 0)
<1> DEFINE kids == Append(held.kids, v)
           grown == [held EXCEPT !.kids = kids]
<1>1. /\ held.kids \in Seq(V) /\ Len(held.kids) \in Nat
      /\ kids \in Seq(V) /\ Len(kids) = Len(held.kids) + 1
  BY DEF Container
<1> HIDE DEF kids
<1>2. /\ grown \in Container(V) /\ grown.kids = kids
      /\ grown.type = held.type /\ grown.data = held.data
      /\ grown.keys = held.keys
  BY <1>1 DEF Container
<1> HIDE DEF grown
<1>3. Agrees(frame, grown, 0)
  BY <1>1, <1>2 DEF Agrees, Kind
<1> QED BY <1>2, <1>3 DEF grown, kids

(* A value that is placed is no longer pending in its container.           *)
LEMMA PlaceMatches ==
  ASSUME NEW V, NEW containers, NEW frames \in Seq(Frame),
         AllPending(V, containers, frames),
         NEW v, v.type # "none", D!Place(v, containers),
         containers # <<>> => root = NoValue
  PROVE  (\E W : Matches(W, open', frames)) /\ RootMatches(frames, root', TRUE)
<1> DEFINE n == Len(frames)
           W == V \cup {v}
<1>1. containers \in Seq(Container(W)) /\ Len(containers) = n /\ n \in Nat
  BY ContainerMonotonic DEF AllPending
<1>2. CASE containers = <<>>
  <2>1. open' = <<>> /\ root' = v /\ v # NoValue /\ n = 0 /\ frames = <<>>
    BY <1>1, <1>2 DEF D!Place, NoValue, Leaf
  <2>2. open' \in Seq(Container(V)) /\ Len(open') = 0
    BY <2>1
  <2>3. Matches(V, open', frames)
    BY <2>1, <2>2 DEF Matches
  <2> QED BY <2>1, <2>3 DEF RootMatches
<1>3. CASE containers # <<>>
  <2> DEFINE held == containers[n]
             grown == [held EXCEPT !.kids = Append(held.kids, v)]
  <2>1. n \in 1 .. n /\ frames # <<>>
    BY <1>1, <1>3
  <2>2. held \in Container(W)
    BY <1>1, <2>1, ElementOfSeq
  <2>3. /\ Agrees(frames[n], held, 1)
        /\ frames[n].kind = "Object" => frames[n].expecting_key
    BY <2>1 DEF AllPending
  <2>4. grown \in Container(W) /\ Agrees(frames[n], grown, 0)
    BY <2>2, <2>3, GrownAgrees
  <2>5. open' = [containers EXCEPT ![n] = grown] /\ root' = root
    BY <1>1, <1>3 DEF D!Place
  <2> HIDE DEF grown, held, W
  <2>6. /\ open' \in Seq(Container(W)) /\ Len(open') = n
        /\ \A i \in 1 .. n : open'[i] = IF i = n THEN grown ELSE containers[i]
    BY <1>1, <2>1, <2>4, <2>5, ExceptSeq
  <2>7. ASSUME NEW i \in 1 .. n
        PROVE  Agrees(frames[i], open'[i], Pending(i, n))
    <3>1. CASE i = n
      BY <2>1, <2>4, <2>6, <3>1 DEF Pending
    <3>2. CASE i # n
      <4>1. i < n /\ open'[i] = containers[i] /\ Pending(i, n) = 1
        BY <2>6, <3>2 DEF Pending
      <4> QED BY <4>1 DEF AllPending
    <3> QED BY <3>1, <3>2
  <2>8. Matches(W, open', frames)
    BY <2>6, <2>7 DEF Matches
  <2> QED BY <1>3, <2>1, <2>5, <2>8 DEF RootMatches
<1> QED BY <1>2, <1>3

(* What is known of the innermost container.                               *)
LEMMA AtBack ==
  ASSUME NEW V, Matches(V, open, stack), stack \in Seq(Frame), stack # <<>>
  PROVE  /\ open # <<>> /\ Len(stack) \in 1 .. Len(stack)
         /\ back \in Frame /\ D!inner \in Container(V)
         /\ D!inner = open[Len(stack)] /\ back = stack[Len(stack)]
         /\ Agrees(back, D!inner, 0)
<1>1. Len(stack) \in 1 .. Len(stack) /\ back \in Frame
  BY BackType
<1>2. open \in Seq(Container(V)) /\ Len(open) = Len(stack)
  BY DEF Matches
<1>3. open # <<>> /\ D!inner = open[Len(stack)] /\ D!inner \in Container(V)
  BY <1>1, <1>2, ElementOfSeq DEF D!inner
<1>4. Pending(Len(stack), Len(stack)) = 0
  BY <1>1 DEF Pending
<1>5. Agrees(stack[Len(stack)], open[Len(stack)],
             Pending(Len(stack), Len(stack)))
  BY <1>1 DEF Matches
<1> QED BY <1>1, <1>3, <1>4, <1>5 DEF back

(* Where the Writer accepts a value there is room for it in the record.    *)
LEMMA RoomAgrees ==
  ASSUME NEW V, Matches(V, open, stack), RootMatches(stack, root, has_root),
         stack \in Seq(Frame), OuterFramesWait, AcceptsValue
  PROVE  D!HasRoom /\ root = NoValue
<1>1. CASE stack = <<>>
  <2>1. open = <<>> /\ root = NoValue
    BY <1>1 DEF Matches, RootMatches, AcceptsValue
  <2> QED BY <2>1 DEF D!HasRoom, D!NoValue, D!Leaf, NoValue, Leaf
<1>2. CASE stack # <<>>
  <2> DEFINE held == D!inner
             n == Len(stack)
  <2>1. /\ open # <<>> /\ n \in 1 .. n /\ back \in Frame
        /\ held \in Container(V) /\ back = stack[n] /\ Agrees(back, held, 0)
    BY <1>2, AtBack
  <2>2. /\ Len(held.kids) \in Nat /\ Len(held.keys) \in Nat
        /\ held.type \in {"array", "object"}
    BY <2>1 DEF Container
  <2>3. root = NoValue
    BY <1>2 DEF RootMatches
  <2> HIDE DEF held
  <2>4. CASE back.kind = "Array"
    <3>1. back.count <= back.expected /\ back.count # back.expected
      BY <1>2, <2>1, <2>4 DEF OuterFramesWait, AcceptsValue
    <3>2. /\ held.type = "array" /\ held.data[1] = back.expected
          /\ back.count = Len(held.kids)
      BY <2>1, <2>2, <2>4 DEF Agrees, Kind
    <3>3. back.count \in Nat /\ back.expected \in Nat
      BY <2>1, LengthsFit DEF Frame
    <3>4. Len(held.kids) < held.data[1]
      BY <3>1, <3>2, <3>3
    <3> QED BY <2>1, <2>3, <3>2, <3>4 DEF D!HasRoom, held
  <2>5. CASE back.kind = "Object"
    <3>1. ~back.expecting_key
      BY <1>2, <2>5 DEF AcceptsValue
    <3>2. held.type # "array" /\ Len(held.keys) = Len(held.kids) + 1
      BY <2>1, <2>2, <2>5, <3>1 DEF Agrees, Kind
    <3> QED BY <2>1, <2>3, <3>2 DEF D!HasRoom, held
  <2> QED BY <2>1, <2>4, <2>5 DEF Frame
<1> QED BY <1>1, <1>2

(* beginValue() makes a value pending in every frame.                      *)
LEMMA CountedPending ==
  ASSUME NEW V, Matches(V, open, stack), stack \in Seq(Frame),
         OuterFramesWait, AcceptsValue
  PROVE  counted \in Seq(Frame) /\ AllPending(V, open, counted)
<1> DEFINE n == Len(stack)
<1>1. /\ counted \in Seq(Frame) /\ Len(counted) = n
      /\ open \in Seq(Container(V)) /\ Len(open) = n
  BY CountedFrames DEF Matches
<1>2. ASSUME NEW i \in 1 .. n
      PROVE  /\ Agrees(counted[i], open[i], 1)
             /\ counted[i].kind = "Object" => counted[i].expecting_key
  <2>1. stack # <<>>
    BY <1>2
  <2>2. CASE i # n
    <3>1. i < n /\ counted[i] = stack[i] /\ Pending(i, n) = 1
      BY <2>2, CountedFrames DEF Pending
    <3> QED BY <3>1 DEF Matches, OuterFramesWait
  <2>3. CASE i = n
    <3> DEFINE held == open[n]
               f == counted[n]
    <3>1. /\ back \in Frame /\ held \in Container(V) /\ n \in 1 .. n
          /\ back = stack[n] /\ Agrees(back, held, 0)
      BY <2>1, AtBack
    <3>2. f = [back EXCEPT !.count = (back.count + 1) % U32Size,
                           !.expecting_key = (back.kind = "Object")]
      BY <3>1, CountedFrames
    <3>3. /\ f.kind = back.kind /\ f.expected = back.expected
          /\ f.count = (back.count + 1) % U32Size
          /\ f.expecting_key = (back.kind = "Object")
      BY <3>1, <3>2 DEF Frame
    <3>4. Len(held.kids) \in Nat /\ Len(held.keys) \in Nat
      BY <3>1 DEF Container
    <3> HIDE DEF f, held
    <3>5. CASE back.kind = "Array"
      <4>1. back.count <= back.expected /\ back.count # back.expected
        BY <2>1, <3>1, <3>5 DEF OuterFramesWait, AcceptsValue
      <4>2. /\ back.count \in Nat /\ back.expected \in Nat
            /\ back.expected < U32Size
        BY <3>1, WidthType DEF Frame, U32, U32Max
      <4>3. (back.count + 1) % U32Size = back.count + 1
        <5>1. /\ back.count + 1 \in Nat /\ U32Size \in Nat
              /\ back.count + 1 < U32Size
          BY <4>1, <4>2, WidthType
        <5> QED BY <5>1, SmallMod
      <4>4. Agrees(f, held, 1)
        BY <3>1, <3>3, <3>4, <3>5, <4>2, <4>3 DEF Agrees
      <4> QED BY <2>3, <3>3, <3>5, <4>4 DEF f, held
    <3>6. CASE back.kind = "Object"
      <4>1. ~back.expecting_key
        BY <2>1, <3>6 DEF AcceptsValue
      <4>2. Agrees(f, held, 1)
        BY <3>1, <3>3, <3>4, <3>6, <4>1 DEF Agrees
      <4> QED BY <2>3, <3>3, <3>6, <4>2 DEF f, held
    <3> QED BY <3>1, <3>5, <3>6 DEF Frame
  <2> QED BY <2>2, <2>3
<1> QED BY <1>1, <1>2 DEF AllPending

-----------------------------------------------------------------------------
(* A call that returns and is followed in the record.                      *)

Followed ==
  /\ \E W : Matches(W, open', stack')
  /\ RootMatches(stack', root', has_root')
  /\ [D!Next]_(D!vars)

LEMMA OfferedIsPlaceable ==
  ASSUME NEW v \in Offered
  PROVE  v.type # "none"
<1>1. "none" \notin {"arrayBuffer"} \cup ViewInputs
  BY InputAssumption DEF ViewType, viewTag
<1>2. CASE v \in {Leaf(type, b.data) : type \in {"arrayBuffer"} \cup ViewInputs,
                                      b \in BinaryInputs}
  BY <1>1, <1>2 DEF Leaf
<1>3. CASE v.type \in {"undefined", "null", "boolean", "int32", "uint32",
                      "double", "date", "string"}
  BY <1>3
<1> QED BY <1>2, <1>3 DEF Offered, Leaf

LEMMA ValueFollowed ==
  ASSUME NEW V, Matches(V, open, stack), RootMatches(stack, root, has_root),
         stack \in Seq(Frame), OuterFramesWait,
         ValueWritten, call'.thrown = "none", Follow
  PROVE  Followed
<1> DEFINE v == call'.arg
<1>1. v \in Offered /\ v.type # "none"
  BY OfferedIsPlaceable DEF ValueWritten
<1>2. AcceptsValue /\ has_root' = TRUE /\ stack' = counted \o <<>>
  BY DEF ValueWritten, beginValue
<1>3. counted \in Seq(Frame) /\ AllPending(V, open, counted)
  BY <1>2, CountedPending
<1>4. stack' = counted
  BY <1>2, <1>3, ConcatEmptySeq
<1>5. D!Place(v, open) /\ UNCHANGED published
  BY DEF Follow, ValueWritten, LeafMethods
<1>6. D!HasRoom /\ root = NoValue
  BY <1>2, RoomAgrees
<1> HIDE DEF v
<1>7. (\E W : Matches(W, open', counted)) /\ RootMatches(counted, root', TRUE)
  BY <1>1, <1>3, <1>5, <1>6, PlaceMatches
<1>8. D!Put(v)
  BY <1>5, <1>6 DEF D!Put
<1> QED BY <1>1, <1>2, <1>4, <1>7, <1>8 DEF Followed, D!Next

LEMMA OpenFollowed ==
  ASSUME NEW V, Matches(V, open, stack), RootMatches(stack, root, has_root),
         stack \in Seq(Frame), OuterFramesWait,
         NEW f \in Frame, NEW v \in Container(V), Agrees(f, v, 0),
         beginValue(<<f>>), open' = Append(open, v),
         UNCHANGED <<root, published>>
  PROVE  /\ \E W : Matches(W, open', stack')
         /\ RootMatches(stack', root', has_root')
         /\ D!OpenContainer(v)
<1> DEFINE n == Len(stack)
<1>1. AcceptsValue /\ has_root' = TRUE /\ stack' = counted \o <<f>>
  BY DEF beginValue
<1>2. /\ counted \in Seq(Frame) /\ Len(counted) = n /\ n \in Nat
      /\ open \in Seq(Container(V)) /\ Len(open) = n
      /\ \A i \in 1 .. n : Agrees(counted[i], open[i], 1)
  BY <1>1, CountedPending, CountedFrames DEF AllPending
<1>3. <<f>> \in Seq(Frame) /\ Len(<<f>>) = 1 /\ <<f>>[1] = f
  OBVIOUS
<1> HIDE DEF n
<1>4. /\ Len(stack') = n + 1 /\ stack'[n + 1] = f
      /\ \A i \in 1 .. n : stack'[i] = counted[i]
  <2> DEFINE x == <<f>>
             y == counted
             z == stack'
  <2>1. /\ x \in Seq(Frame) /\ Len(x) = 1 /\ x[1] = f
        /\ y \in Seq(Frame) /\ Len(y) = n /\ n \in Nat /\ z = y \o x
    BY <1>1, <1>2, <1>3
  <2> HIDE DEF x, y, z
  <2>2. /\ Len(z) = Len(y) + Len(x)
        /\ \A i \in 1 .. Len(y) + Len(x) :
             z[i] = IF i <= Len(y) THEN y[i] ELSE x[i - Len(y)]
    BY ONLY <2>1, ConcatProperties
  <2>3. Len(z) = n + 1 /\ z[n + 1] = f /\ \A i \in 1 .. n : z[i] = y[i]
    BY ONLY <2>1, <2>2
  <2> QED BY <2>3 DEF y, z
<1>5. /\ open' \in Seq(Container(V)) /\ Len(open') = n + 1
      /\ open'[n + 1] = v /\ \A i \in 1 .. n : open'[i] = open[i]
  BY <1>2, AppendProperties
<1>6. ASSUME NEW i \in 1 .. n + 1
      PROVE  Agrees(stack'[i], open'[i], Pending(i, n + 1))
  <2>1. CASE i = n + 1
    BY <1>2, <1>4, <1>5, <2>1 DEF Pending
  <2>2. CASE i # n + 1
    <3>1. i \in 1 .. n /\ i < n + 1 /\ Pending(i, n + 1) = 1
      BY <1>2, <2>2 DEF Pending
    <3> QED BY <1>2, <1>4, <1>5, <3>1
  <2> QED BY <2>1, <2>2
<1>7. Matches(V, open', stack')
  BY <1>4, <1>5, <1>6 DEF Matches
<1>8. D!HasRoom /\ root = NoValue
  BY <1>1, RoomAgrees
<1>9. stack' # <<>>
  BY <1>2, <1>4
<1> QED BY <1>1, <1>7, <1>8, <1>9 DEF RootMatches, D!OpenContainer

LEMMA ContainerFollowed ==
  ASSUME NEW V, Matches(V, open, stack), RootMatches(stack, root, has_root),
         stack \in Seq(Frame), OuterFramesWait,
         ObjectOpened \/ \E n \in LengthInputs : ArrayOpened(n),
         call'.thrown = "none", Follow
  PROVE  Followed
<1>1. open' = Append(open, call'.arg) /\ UNCHANGED <<root, published>>
  BY DEF Follow, ObjectOpened, ArrayOpened
<1>2. <<>> \in Seq(Int) /\ <<>> \in Seq(Seq(Int)) /\ <<>> \in Seq(V)
  OBVIOUS
<1>3. CASE ObjectOpened
  <2> DEFINE v == Leaf("object", <<>>)
  <2>1. /\ v \in Container(V) /\ v.type = "object"
        /\ v.keys = <<>> /\ v.kids = <<>>
    BY <1>2 DEF Leaf, Container
  <2>2. ObjectFrame \in Frame
    BY FreshFrames DEF NewFrame
  <2>3. Agrees(ObjectFrame, v, 0)
    BY <2>1 DEF Agrees, ObjectFrame, Kind
  <2>4. beginValue(<<ObjectFrame>>) /\ open' = Append(open, v)
    BY <1>1, <1>3 DEF ObjectOpened
  <2>5. v = D!OpenObject
    BY DEF D!OpenObject, D!Leaf, Leaf
  <2> HIDE DEF v
  <2>6. /\ \E W : Matches(W, open', stack')
        /\ RootMatches(stack', root', has_root') /\ D!OpenContainer(v)
    BY <1>1, <2>1, <2>2, <2>3, <2>4, OpenFollowed
  <2> QED BY <2>5, <2>6 DEF Followed, D!Next
<1>4. ASSUME NEW n \in LengthInputs, ArrayOpened(n) PROVE Followed
  <2> DEFINE v == Leaf("array", <<n>>)
  <2>1. n \in Int
    BY InputAssumption, LengthsFit
  <2>2. /\ v \in Container(V) /\ v.type = "array"
        /\ v.data = <<n>> /\ v.kids = <<>>
    BY <1>2, <2>1 DEF Leaf, Container
  <2>3. ArrayFrame(n) \in Frame
    BY FreshFrames DEF NewFrame
  <2>4. Agrees(ArrayFrame(n), v, 0)
    BY <2>2 DEF Agrees, ArrayFrame, Kind
  <2>5. beginValue(<<ArrayFrame(n)>>) /\ open' = Append(open, v)
    BY <1>1, <1>4 DEF ArrayOpened
  <2>6. v = D!OpenArray(n)
    BY DEF D!OpenArray, D!Leaf, Leaf
  <2> HIDE DEF v
  <2>7. /\ \E W : Matches(W, open', stack')
        /\ RootMatches(stack', root', has_root') /\ D!OpenContainer(v)
    BY <1>1, <2>2, <2>3, <2>4, <2>5, OpenFollowed
  <2> QED BY <2>6, <2>7 DEF Followed, D!Next
<1> QED BY <1>3, <1>4

LEMMA KeyFollowed ==
  ASSUME NEW V, Matches(V, open, stack), RootMatches(stack, root, has_root),
         stack \in Seq(Frame), OuterFramesWait,
         NEW s \in Utf16Inputs, KeyWritten(s), call'.thrown = "none", Follow
  PROVE  Followed
<1> DEFINE n == Len(stack)
           held == D!inner
           f == [back EXCEPT !.expecting_key = FALSE]
           named == [held EXCEPT !.keys = Append(held.keys, s)]
<1>1. /\ stack # <<>> /\ back.kind = "Object" /\ back.expecting_key = TRUE
      /\ has_root' = has_root
      /\ stack' = [stack EXCEPT ![Len(stack)].expecting_key = FALSE]
  <2>1. back.expecting_key /\ back \in Frame /\ stack # <<>>
    BY BackType DEF KeyWritten, AcceptsKey
  <2>2. back.expecting_key = TRUE
    BY <2>1 DEF Frame
  <2> QED BY <2>1, <2>2 DEF KeyWritten, AcceptsKey
<1>2. /\ open # <<>> /\ n \in 1 .. n /\ n \in Nat
      /\ back \in Frame /\ back = stack[n]
      /\ held \in Container(V) /\ held = open[n] /\ Agrees(back, held, 0)
  BY <1>1, AtBack
<1>3. open \in Seq(Container(V)) /\ Len(open) = n
  BY DEF Matches
<1>4. s \in Seq(Int) /\ call'.arg.data = s
  BY InputAssumption, BytesAreInts DEF KeyWritten, Leaf
<1>5. /\ open' = [open EXCEPT ![Len(open)].keys = Append(@, s)]
      /\ UNCHANGED <<root, published>>
  BY <1>4 DEF Follow, KeyWritten
<1>6. f \in Frame /\ f.kind = "Object" /\ ~f.expecting_key
  BY <1>1, <1>2 DEF Frame
<1>7. /\ Append(held.keys, s) \in Seq(Seq(Int))
      /\ Len(Append(held.keys, s)) = Len(held.keys) + 1
      /\ Len(held.keys) \in Nat /\ Len(held.kids) \in Nat
  BY <1>2, <1>4 DEF Container
<1>8. /\ named \in Container(V) /\ named.type = held.type
      /\ named.kids = held.kids /\ Len(named.keys) = Len(held.keys) + 1
  <2> DEFINE keys == Append(held.keys, s)
  <2> HIDE DEF keys, held
  <2> QED BY <1>2, <1>7 DEF Container, keys
<1>9. open' = [open EXCEPT ![n] = named] /\ stack' = [stack EXCEPT ![n] = f]
  BY <1>1, <1>2, <1>3, <1>5
<1>10. Len(held.keys) = Len(held.kids)
  <2>1. back.kind = "Object" /\ back.expecting_key
    BY <1>1
  <2> HIDE DEF held
  <2> QED BY <1>2, <1>7, <2>1 DEF Agrees
<1>11. held.type = "object"
  BY <1>1, <1>2 DEF Agrees, Kind, Container
<1> HIDE DEF n, held, f, named
<1>12. Agrees(f, named, 0)
  BY <1>6, <1>7, <1>8, <1>10, <1>11 DEF Agrees, Kind
<1>13. /\ open' \in Seq(Container(V)) /\ Len(open') = n
       /\ \A i \in 1 .. n : open'[i] = IF i = n THEN named ELSE open[i]
  BY <1>2, <1>3, <1>8, <1>9, ExceptSeq
<1>14. /\ Len(stack') = n
       /\ \A i \in 1 .. n : stack'[i] = IF i = n THEN f ELSE stack[i]
  BY <1>2, <1>6, <1>9, ExceptSeq DEF n
<1>15. ASSUME NEW i \in 1 .. n PROVE Agrees(stack'[i], open'[i], Pending(i, n))
  <2>1. CASE i = n
    BY <1>2, <1>12, <1>13, <1>14, <2>1 DEF Pending
  <2>2. CASE i # n
    BY <1>13, <1>14, <2>2 DEF Matches, n
  <2> QED BY <2>1, <2>2
<1>16. Matches(V, open', stack')
  BY <1>13, <1>14, <1>15 DEF Matches
<1>17. RootMatches(stack', root', has_root')
  <2>1. stack' # <<>>
    BY <1>2, <1>14
  <2> QED BY <1>1, <1>5, <2>1 DEF RootMatches
<1>18. D!Name(s)
  BY <1>2, <1>5, <1>10, <1>11 DEF D!Name, D!Complete, held
<1> QED BY <1>16, <1>17, <1>18 DEF Followed, D!Next

LEMMA EndFollowed ==
  ASSUME NEW V, Matches(V, open, stack), RootMatches(stack, root, has_root),
         stack \in Seq(Frame), OuterFramesWait,
         NEW kind \in {"Object", "Array"}, ContainerEnded(kind),
         call'.thrown = "none", Follow
  PROVE  Followed
<1> DEFINE n == Len(stack)
           held == D!inner
           frames == SubSeq(stack, 1, n - 1)
<1>1. /\ stack # <<>> /\ back.kind = kind /\ has_root' = has_root
      /\ stack' = frames
  BY DEF ContainerEnded, AcceptsEnd
<1>2. /\ open # <<>> /\ n \in 1 .. n /\ n \in Nat /\ n - 1 \in 0 .. n
      /\ back \in Frame /\ held \in Container(V) /\ Agrees(back, held, 0)
  BY <1>1, AtBack
<1>3. open \in Seq(Container(V)) /\ Len(open) = n
  BY DEF Matches
<1>4. D!Place(D!finished, D!outer) /\ UNCHANGED published
  BY DEF Follow, ContainerEnded
<1>5. /\ Len(held.kids) \in Nat /\ Len(held.keys) \in Nat
      /\ held.type \in {"array", "object"}
  BY <1>2 DEF Container
<1>6. D!finished.type # "none"
  <2>1. D!finished = [held EXCEPT !.data = <<>>]
    BY DEF D!finished
  <2> HIDE DEF held
  <2> QED BY <1>2, <2>1 DEF Container
<1>7. D!Complete
  <2>1. CASE kind = "Array"
    <3>1. back.count = back.expected
      BY <2>1 DEF ContainerEnded, AcceptsEnd
    <3>2. held.type = "array" /\ Len(held.kids) = held.data[1]
      <4>1. back.kind = "Array" /\ back.count \in Nat
        BY <1>1, <1>2, <2>1, LengthsFit DEF Frame
      <4> HIDE DEF held
      <4> QED BY <1>2, <1>5, <3>1, <4>1 DEF Agrees, Kind
    <3> QED BY <3>2 DEF D!Complete
  <2>2. CASE kind = "Object"
    <3>1. back.expecting_key
      BY <2>2 DEF ContainerEnded, AcceptsEnd
    <3>2. held.type # "array" /\ Len(held.keys) = Len(held.kids)
      <4>1. back.kind = "Object"
        BY <1>1, <2>2
      <4> HIDE DEF held
      <4> QED BY <1>2, <1>5, <3>1, <4>1 DEF Agrees, Kind
    <3> QED BY <3>2 DEF D!Complete
  <2> QED BY <2>1, <2>2
<1>8. root = NoValue /\ has_root = TRUE
  BY <1>1 DEF RootMatches, OuterFramesWait
<1>9. D!outer = SubSeq(open, 1, n - 1)
  BY <1>3 DEF D!outer
<1> HIDE DEF held
<1>10. /\ frames \in Seq(Frame) /\ Len(frames) = n - 1
       /\ D!outer \in Seq(Container(V)) /\ Len(D!outer) = n - 1
       /\ \A i \in 1 .. n - 1 : frames[i] = stack[i] /\ D!outer[i] = open[i]
  <2> HIDE DEF n
  <2>1. 1 \in 1 .. n /\ n = Len(stack)
    BY <1>2 DEF n
  <2>2. CASE n = 1
    BY <1>2, <1>3, <1>9, <2>1, <2>2, SubSeqProperties
  <2>3. CASE n # 1
    <3>1. n - 1 \in 1 .. n
      BY <1>2, <2>3
    <3> QED BY <1>2, <1>3, <1>9, <2>1, <3>1, SubSeqProperties
  <2> QED BY <2>2, <2>3
<1>11. AllPending(V, D!outer, frames)
  <2>1. ASSUME NEW i \in 1 .. n - 1
        PROVE  /\ Agrees(stack[i], open[i], 1)
               /\ stack[i].kind = "Object" => stack[i].expecting_key
    <3>1. i \in 1 .. n /\ i < n /\ Pending(i, n) = 1
      BY <1>2 DEF Pending
    <3> QED BY <3>1 DEF Matches, OuterFramesWait
  <2> HIDE DEF frames
  <2> QED BY <1>10, <2>1 DEF AllPending
<1> HIDE DEF frames
<1>12. (\E W : Matches(W, open', frames)) /\ RootMatches(frames, root', TRUE)
  BY <1>4, <1>6, <1>8, <1>10, <1>11, PlaceMatches
<1>13. D!Close
  BY <1>2, <1>4, <1>7 DEF D!Close
<1> QED BY <1>1, <1>8, <1>12, <1>13 DEF Followed, D!Next

LEMMA TakeFollowed ==
  ASSUME NEW V, Matches(V, open, stack), RootMatches(stack, root, has_root),
         MessageTaken, call'.thrown = "none", Follow
  PROVE  Followed
<1>1. /\ open' = open /\ root' = root /\ stack' = stack /\ has_root' = has_root
      /\ published' = published \/ published' = <<root>>
  BY DEF Follow, MessageTaken
<1>2. root # NoValue
  BY DEF MessageTaken, AcceptsTake, RootMatches
<1>3. D!Publish \/ UNCHANGED D!vars
  BY <1>1, <1>2 DEF D!Publish, D!vars, D!NoValue, D!Leaf, NoValue, Leaf
<1>4. /\ \E W : Matches(W, open', stack')
      /\ RootMatches(stack', root', has_root')
  BY <1>1
<1> QED BY <1>3, <1>4 DEF Followed, D!Next

LEMMA EmptyMatches ==
  Matches({}, <<>>, <<>>) /\ RootMatches(<<>>, NoValue, FALSE)
<1>1. <<>> \in Seq(Container({}))
  OBVIOUS
<1> QED BY <1>1 DEF Matches, RootMatches

LEMMA ResetFollowed ==
  ASSUME AllReset, call'.thrown = "none", Follow
  PROVE  Followed
<1>1. /\ open' = <<>> /\ root' = NoValue /\ published' = <<>>
      /\ stack' = <<>> /\ has_root' = FALSE
  BY DEF AllReset, Follow
<1>2. D!Discard
  BY <1>1 DEF D!Discard, D!NoValue, D!Leaf, NoValue, Leaf
<1> QED BY <1>1, <1>2, EmptyMatches DEF Followed, D!Next

LEMMA ReturnFollowed ==
  ASSUME RecordInv, ~broken, Returned, call'.thrown = "none", Follow
  PROVE  Followed
<1>1. PICK V : Matches(V, open, stack)
  BY DEF RecordInv
<1>2. /\ RootMatches(stack, root, has_root)
      /\ stack \in Seq(Frame) /\ OuterFramesWait
  BY DEF RecordInv
<1> QED BY <1>1, <1>2, ValueFollowed, ContainerFollowed, KeyFollowed,
           EndFollowed, TakeFollowed, ResetFollowed DEF Returned

-----------------------------------------------------------------------------
(* The invariant holds initially and is kept.                              *)

LEMMA RecordInvInit == RInit => RecordInv
<1>1. <<>> \in Seq(Frame)
  OBVIOUS
<1>2. RInit => OuterFramesWait
  BY DEF RInit, Init, OuterFramesWait
<1> QED BY <1>1, <1>2, EmptyMatches DEF RInit, Init, RecordInv

LEMMA RecordInvStep ==
  ASSUME RecordInv, [FNext]_rvars
  PROVE  RecordInv' /\ (~broken' => [D!Next]_(D!vars))
<1> DEFINE Kept == /\ \E W : Matches(W, open', stack')
                   /\ RootMatches(stack', root', has_root')
           Typed == /\ stack' \in Seq(Frame) /\ has_root' \in BOOLEAN
                    /\ OuterFramesWait'
<1>1. SUFFICES Typed /\ (~broken' => Kept /\ [D!Next]_(D!vars))
  BY DEF RecordInv
<1>2. stack \in Seq(Frame) /\ has_root \in BOOLEAN /\ OuterFramesWait
  BY DEF RecordInv
<1>3. ~broken => (\E V : Matches(V, open, stack))
                 /\ RootMatches(stack, root, has_root)
  BY DEF RecordInv
<1>4. CASE UNCHANGED rvars
  <2>1. StackStep
    BY <1>4 DEF StackStep, rvars
  <2>2. Typed
    BY <1>2, <2>1, FramesStep
  <2>3. Kept <=> /\ \E V : Matches(V, open, stack)
                 /\ RootMatches(stack, root, has_root)
    BY <1>4 DEF rvars
  <2>4. broken' = broken /\ UNCHANGED D!vars
    BY <1>4 DEF rvars, D!vars
  <2> QED BY <1>3, <2>2, <2>3, <2>4
<1>5. CASE runOut
  BY <1>2, <1>5, RunsOutStackStep, FramesStep DEF runOut
<1>6. CASE RNext
  <2>1. Answered /\ Follow /\ Notice
    BY <1>6, NextAnswers DEF RNext
  <2>2. Typed
    BY <1>2, <2>1, FramesStep DEF Answered
  <2>3. ASSUME ~broken' PROVE Kept /\ [D!Next]_(D!vars)
    <3>1. CASE call'.op = "reset"
      <4>1. call'.thrown = "none" /\ AllReset
        BY <2>1, <3>1 DEF Answered, Returned, ValueWritten, ObjectOpened,
                          ArrayOpened, KeyWritten, ContainerEnded,
                          MessageTaken, LeafMethods
      <4> QED BY <2>1, <4>1, ResetFollowed DEF Followed
    <3>2. CASE call'.op # "reset"
      <4>1. ~broken /\ (call'.thrown = "none" \/ state' = state)
        BY <2>1, <2>3, <3>2 DEF Notice
      <4>2. CASE call'.thrown = "none"
        BY <2>1, <4>1, <4>2, ReturnFollowed DEF Answered, Followed
      <4>3. CASE call'.thrown # "none"
        <5>1. /\ stack' = stack /\ has_root' = has_root
              /\ open' = open /\ root' = root /\ published' = published
          BY <2>1, <4>1, <4>3 DEF Follow, state
        <5> QED BY <1>3, <4>1, <5>1 DEF D!vars
      <4> QED BY <4>2, <4>3
    <3> QED BY <3>1, <3>2
  <2> QED BY <2>2, <2>3
<1> QED BY <1>4, <1>5, <1>6 DEF FNext

LEMMA RecordedIsFaulty == RSpec => FSpec
BY PTL DEF RSpec, FSpec, FNext

-----------------------------------------------------------------------------
(* The theorems.                                                           *)

(* RecordInv is an invariant of a Writer whose allocations may fail.       *)
THEOREM RecordInvariant == FSpec => []RecordInv
<1>1. RecordInv /\ [FNext]_rvars => RecordInv'
  BY RecordInvStep
<1> QED BY RecordInvInit, <1>1, PTL DEF FSpec

(* Whatever an allocation failure left undone, a container other than the  *)
(* innermost waits for its next key or has counted the element that is     *)
(* open in it, and no array is overfull: beginValue() counts the value     *)
(* before any byte of it is out, and a frame is pushed last.               *)
THEOREM FramesStaySound == FSpec => []OuterFramesWait
<1>1. RecordInv => OuterFramesWait
  BY DEF RecordInv
<1> QED BY RecordInvariant, <1>1, PTL

(* The frames of the writer describe the containers of the message its     *)
(* caller has asked for: their number and kinds, the lengths declared, the *)
(* elements written and the keys that wait for a value.                    *)
THEOREM FramesFollowCalls == FSpec => []FramesMatchRecord
<1>1. ASSUME NEW V, Matches(V, open, stack), stack \in Seq(Frame)
      PROVE  /\ Len(open) = Len(stack)
             /\ \A i \in 1 .. Len(stack) : FrameMatches(i)
  <2>1. Len(open) = Len(stack)
    BY <1>1 DEF Matches
  <2>2. ASSUME NEW i \in 1 .. Len(stack) PROVE FrameMatches(i)
    <3>1. Agrees(stack[i], open[i], Pending(i, Len(stack)))
      BY <1>1 DEF Matches
    <3>2. CASE i < Len(stack)
      <4>1. Pending(i, Len(stack)) = 1
        BY <3>2 DEF Pending
      <4> QED BY <3>1, <3>2, <4>1 DEF Agrees, FrameMatches
    <3>3. CASE ~(i < Len(stack))
      <4>1. Pending(i, Len(stack)) = 0
        BY <3>3 DEF Pending
      <4> QED BY <3>1, <3>3, <4>1 DEF Agrees, FrameMatches
    <3> QED BY <3>2, <3>3
  <2> QED BY <2>1, <2>2
<1>2. RecordInv => FramesMatchRecord
  BY <1>1 DEF RecordInv, FramesMatchRecord, RootMatches
<1> QED BY RecordInvariant, <1>2, PTL

(* What a Writer accepts, a Document allows: as long as no call failed     *)
(* half-way since the last reset(), the calls that return build one value  *)
(* tree from the outside in, close every container complete, and hand out  *)
(* finished trees only.  reset() repairs the Writer whatever a failure has *)
(* left behind.                                                            *)
THEOREM DocumentsAreBuilt == FSpec => BuildsDocument
<1>1. RInit => D!Init
  BY DEF RInit, D!Init, D!NoValue, D!Leaf, NoValue, Leaf
<1>2. RecordInv /\ [FNext]_rvars => [~broken' => [D!Next]_(D!vars)]_rvars
  BY RecordInvStep
<1> QED BY RecordInvariant, <1>1, <1>2, PTL DEF FSpec, BuildsDocument

(* The same without allocation failures.                                   *)
THEOREM RecordedDocumentsAreBuilt ==
  RSpec => [](OuterFramesWait /\ FramesMatchRecord) /\ BuildsDocument
BY RecordedIsFaulty, FramesStaySound, FramesFollowCalls, DocumentsAreBuilt, PTL
=============================================================================
