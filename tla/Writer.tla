------------------------------- MODULE Writer -------------------------------
(***************************************************************************)
(* v8serial::Writer: the push API that serialises one value per message    *)
(* into a byte vector.  One action per public method; each action is the   *)
(* whole method, with the refusals and the failures it can end in.  An     *)
(* instance is used by one thread at a time, so calls do not overlap.      *)
(***************************************************************************)
EXTENDS Wire

CONSTANTS
  Int32Inputs, Uint32Inputs, \* arguments of int32() and uint32()
  DoubleInputs,              \* the eight bytes of a double
  Utf8Inputs,                \* [utf8 |-> its bytes, units |-> its code units]
  Utf16Inputs,               \* code unit sequences
  BinaryInputs,              \* [null |-> data is nullptr, data |-> the bytes]
  ViewInputs,                \* view types
  LengthInputs,              \* arguments of beginArray()
  MaxBytes,                  \* bound: no write starts beyond this size
  MaxOpen                    \* bound: open containers

ASSUME InputAssumption ==
  /\ Int32Inputs \subseteq I32
  /\ Uint32Inputs \subseteq U32
  /\ DoubleInputs \subseteq Seq(Byte)
  /\ Utf8Inputs \subseteq [utf8 : Seq(Byte), units : Seq(CodeUnit)]
  /\ Utf16Inputs \subseteq Seq(CodeUnit)
  /\ BinaryInputs \subseteq [null : BOOLEAN, data : Seq(Byte)]
  /\ ViewInputs \subseteq ViewType
  /\ LengthInputs \subseteq U32

VARIABLES
  bytes,     \* bytes_
  stack,     \* stack_, innermost container last
  has_root,  \* has_root_
  call       \* the last call: its method, its argument, how it ended

state == <<bytes, stack, has_root>>
vars == <<bytes, stack, has_root, call>>

Frame == [kind : {"Object", "Array"}, count : U32, expected : U32,
          expecting_key : BOOLEAN]

(* The methods that write a value without parts, and all of them.          *)
LeafMethods == {"scalar", "boolean", "int32", "uint32", "number", "date",
                "string8", "string16", "arrayBuffer", "arrayBufferView"}
Methods == LeafMethods \cup {"construct", "key", "beginObject", "endObject",
                             "beginArray", "endArray", "take", "reset"}
Exceptions == {"logic_error", "invalid_argument", "length_error"}

Call(op, arg, thrown, out) ==
  [op |-> op, arg |-> arg, thrown |-> thrown, out |-> out]

back == stack[Len(stack)]

-----------------------------------------------------------------------------
(* What the raw emitters append to bytes_, and the exception that cuts     *)
(* them short ("none" when they return).                                   *)
Emits(put) == [put |-> put, thrown |-> "none"]
Aborts(put, error) == [put |-> put, thrown |-> error]

(* tag, checkedVarint(size), payload: checkedVarint throws after the tag   *)
(* is out.                                                                 *)
tagged(tag, payload) ==
  IF Len(payload) > U32Max
  THEN Aborts(<<tag>>, "length_error")
  ELSE Emits(<<tag>> \o varint(Len(payload)) \o payload)

rawUtf8(utf8) == tagged(Utf8Tag, utf8)

allLatin1(units) == \A i \in 1 .. Len(units) : units[i] <= 255

(* Two-byte payloads are padded to an even offset; host byte order is      *)
(* little endian here.                                                     *)
twoBytePadding(byte_length) ==
  IF (Len(bytes) + 1 + varintSize(byte_length)) % 2 = 0
  THEN <<>> ELSE <<Padding>>

unitBytes(units) ==
  [i \in 1 .. 2 * Len(units) |->
     IF i % 2 = 1 THEN units[(i + 1) \div 2] % 256
                  ELSE units[i \div 2] \div 256]

rawUtf16(units) ==
  IF allLatin1(units) THEN tagged(OneByteTag, units)
  ELSE IF Len(units) > U32Max \div 2 THEN Aborts(<<>>, "length_error")
  ELSE Emits(twoBytePadding(2 * Len(units)) \o <<TwoByteTag>>
               \o varint(2 * Len(units)) \o unitBytes(units))

rawArrayBuffer(b) ==
  IF b.null /\ b.data # <<>> THEN Aborts(<<>>, "invalid_argument")
  ELSE tagged(BufferTag, b.data)

rawView(type, b) ==
  LET backing == rawArrayBuffer(b)
  IN IF backing.thrown # "none" THEN backing
     ELSE Emits(backing.put \o <<ViewTag, viewTag[type]>> \o varint(0)
                  \o varint(Len(b.data)) \o varint(0))

-----------------------------------------------------------------------------
(* Mutant: an array takes one element too many.                            *)
AcceptsOneMore ==
  IF stack = <<>> THEN ~has_root
  ELSE IF back.kind = "Object" THEN ~back.expecting_key
  ELSE back.count <= back.expected

(* beginValue(): the checks, and the bookkeeping done before any byte of   *)
(* the value is out.  The uint32 count of an object wraps.                 *)
AcceptsValue ==
  IF stack = <<>> THEN ~has_root
  ELSE IF back.kind = "Object" THEN ~back.expecting_key
  ELSE back.count # back.expected

counted ==
  IF stack = <<>> THEN stack
  ELSE [stack EXCEPT ![Len(stack)] =
          [back EXCEPT !.count = (back.count + 1) % U32Size,
                       !.expecting_key = (back.kind = "Object")]]

beginValue(pushed) ==
  /\ AcceptsValue
  /\ has_root' = TRUE
  /\ stack' = counted \o pushed

Refuse(op, arg, error) ==
  /\ call' = Call(op, arg, error, <<>>)
  /\ UNCHANGED state

(* A method that begins a value and emits it.                              *)
Write(op, arg, raw, pushed) ==
  \/ /\ beginValue(pushed)
     /\ bytes' = bytes \o raw.put
     /\ call' = Call(op, arg, raw.thrown, <<>>)
  \/ ~AcceptsValue /\ Refuse(op, arg, "logic_error")

scalar(type, tag) == Write("scalar", Leaf(type, <<>>), Emits(<<tag>>), <<>>)

undefined == scalar("undefined", UndefinedTag)
null == scalar("null", NullTag)
boolean(value) ==
  Write("boolean", Leaf("boolean", <<IF value THEN 1 ELSE 0>>),
        Emits(<<IF value THEN TrueTag ELSE FalseTag>>), <<>>)
int32(value) ==
  Write("int32", Leaf("int32", <<value>>),
        Emits(<<Int32Tag>> \o varint(zigZag(value))), <<>>)
uint32(value) ==
  Write("uint32", Leaf("uint32", <<value>>),
        Emits(<<Uint32Tag>> \o varint(value)), <<>>)
number(value) ==
  Write("number", Leaf("double", value), Emits(<<DoubleTag>> \o value), <<>>)
date(value) ==
  Write("date", Leaf("date", value), Emits(<<DateTag>> \o value), <<>>)
string8(s) == Write("string8", Leaf("string", s.units), rawUtf8(s.utf8), <<>>)
string16(units) ==
  Write("string16", Leaf("string", units), rawUtf16(units), <<>>)
arrayBuffer(b) ==
  Write("arrayBuffer", Leaf("arrayBuffer", b.data), rawArrayBuffer(b), <<>>)

arrayBufferView(type, b) ==
  IF elementSize[type] = 0 \/ Len(b.data) % elementSize[type] # 0
  THEN Refuse("arrayBufferView", Leaf(type, b.data), "invalid_argument")
  ELSE Write("arrayBufferView", Leaf(type, b.data), rawView(type, b), <<>>)

beginObject ==
  Write("beginObject", Leaf("object", <<>>), Emits(<<ObjectTag>>),
        <<[kind |-> "Object", count |-> 0, expected |-> 0,
           expecting_key |-> TRUE]>>)

beginArray(length) ==
  Write("beginArray", Leaf("array", <<length>>),
        Emits(<<DenseTag>> \o varint(length)),
        <<[kind |-> "Array", count |-> 0, expected |-> length,
           expecting_key |-> FALSE]>>)

(* key(): rawUtf16 runs before expecting_key is cleared, so a length_error *)
(* leaves the object still waiting for a key.                              *)
AcceptsKey == stack # <<>> /\ back.kind = "Object" /\ back.expecting_key

key(units) ==
  LET raw == rawUtf16(units)
      arg == Leaf("string", units)
  IN \/ /\ AcceptsKey
        /\ bytes' = bytes \o raw.put
        /\ stack' = [stack EXCEPT ![Len(stack)].expecting_key =
                       raw.thrown # "none"]
        /\ call' = Call("key", arg, raw.thrown, <<>>)
        /\ UNCHANGED has_root
     \/ ~AcceptsKey /\ Refuse("key", arg, "logic_error")

(* Mutants: the element count is not compared; the frame is popped before  *)
(* the count is compared.                                                  *)
AcceptsAnyCount(kind) ==
  /\ stack # <<>>
  /\ back.kind = kind
  /\ kind = "Object" => back.expecting_key

EndPoppedFirst(op, kind, terminal) ==
  /\ stack # <<>> /\ back.kind = kind
  /\ stack' = SubSeq(stack, 1, Len(stack) - 1)
  /\ UNCHANGED has_root
  /\ IF IF kind = "Object" THEN back.expecting_key
                           ELSE back.count = back.expected
     THEN bytes' = bytes \o terminal /\ call' = Call(op, NoValue, "none", <<>>)
     ELSE bytes' = bytes /\ call' = Call(op, NoValue, "logic_error", <<>>)

(* endObject(), endArray(): the frame is popped only when it is complete.  *)
AcceptsEnd(kind) ==
  /\ stack # <<>>
  /\ back.kind = kind
  /\ IF kind = "Object" THEN back.expecting_key
                        ELSE back.count = back.expected

End(op, kind, terminal) ==
  \/ /\ AcceptsEnd(kind)
     /\ stack' = SubSeq(stack, 1, Len(stack) - 1)
     /\ bytes' = bytes \o terminal
     /\ call' = Call(op, NoValue, "none", <<>>)
     /\ UNCHANGED has_root
  \/ ~AcceptsEnd(kind) /\ Refuse(op, NoValue, "logic_error")

endObject ==
  End("endObject", "Object", <<EndObjectTag>> \o varint(back.count))
endArray ==
  End("endArray", "Array",
      <<EndDenseTag>> \o varint(0) \o varint(back.expected))

(* take(): the vector is moved out, which leaves it empty; the flags stay. *)
AcceptsTake == stack = <<>> /\ has_root

take ==
  \/ /\ AcceptsTake
     /\ call' = Call("take", NoValue, "none", bytes)
     /\ bytes' = <<>>
     /\ UNCHANGED <<stack, has_root>>
  \/ ~AcceptsTake /\ Refuse("take", NoValue, "logic_error")

(* Mutant: the header is not written again.                                *)
resetWithoutHeader ==
  /\ bytes' = <<>>
  /\ stack' = <<>>
  /\ has_root' = FALSE
  /\ call' = Call("reset", NoValue, "none", <<>>)

(* Mutant: the flag is not cleared.                                        *)
resetKeepingRoot ==
  /\ bytes' = Header
  /\ stack' = <<>>
  /\ has_root' = has_root
  /\ call' = Call("reset", NoValue, "none", <<>>)

reset ==
  /\ bytes' = Header
  /\ stack' = <<>>
  /\ has_root' = FALSE
  /\ call' = Call("reset", NoValue, "none", <<>>)

-----------------------------------------------------------------------------
Init ==
  /\ bytes = Header
  /\ stack = <<>>
  /\ has_root = FALSE
  /\ call = Call("construct", NoValue, "none", <<>>)

WriteValue ==
  \/ undefined
  \/ null
  \/ \E v \in BOOLEAN : boolean(v)
  \/ \E v \in Int32Inputs : int32(v)
  \/ \E v \in Uint32Inputs : uint32(v)
  \/ \E v \in DoubleInputs : number(v) \/ date(v)
  \/ \E s \in Utf8Inputs : string8(s)
  \/ \E s \in Utf16Inputs : string16(s)
  \/ \E b \in BinaryInputs : arrayBuffer(b)
  \/ \E b \in BinaryInputs, t \in ViewInputs : arrayBufferView(t, b)

WriteKey == \E s \in Utf16Inputs : key(s)

Open ==
  /\ Len(stack) < MaxOpen
  /\ beginObject \/ \E n \in LengthInputs : beginArray(n)

Next ==
  \/ Len(bytes) < MaxBytes /\ (WriteValue \/ WriteKey \/ Open)
  \/ endObject
  \/ endArray
  \/ take
  \/ reset

Spec == Init /\ [][Next]_vars

-----------------------------------------------------------------------------
(* Properties.                                                             *)

(* Every variable has the type the class declares for it.                  *)
TypeOK ==
  /\ bytes \in Seq(Byte)
  /\ stack \in Seq(Frame)
  /\ has_root \in BOOLEAN
  /\ call \in [op : Methods, arg : LeafValue,
               thrown : Exceptions \cup {"none"}, out : Seq(Byte)]

(* A container other than the innermost one was already counted in its     *)
(* parent when it was opened: an outer object waits for its next key, an   *)
(* outer array holds at least the element that is still open.  No array    *)
(* ever holds more elements than it declared, and nothing is open in a     *)
(* message that has no root.  beginValue() relies on all of this when a    *)
(* nested endObject()/endArray() hands control back to the parent.         *)
OuterFramesWait ==
  /\ stack # <<>> => has_root
  /\ \A i \in 1 .. Len(stack) :
       /\ stack[i].kind = "Array" => stack[i].count <= stack[i].expected
       /\ (stack[i].kind = "Object" /\ i < Len(stack))
            => stack[i].expecting_key
       /\ (stack[i].kind = "Array" /\ i < Len(stack))
            => stack[i].count > 0

(* Bytes never appear behind a lost header: either the buffer starts with  *)
(* the version header, or it was moved out by take() and then the writer   *)
(* refuses every value, key and end until reset() writes a new header.     *)
HeaderOrDrained ==
  \/ Len(bytes) >= 2 /\ bytes[1] = 255 /\ bytes[2] = FormatVersion
  \/ bytes = <<>> /\ has_root /\ stack = <<>>

(* A call that throws std::logic_error has no effect: a caller may catch   *)
(* the misuse and go on with the message (every check in beginValue(),     *)
(* key(), endObject(), endArray() and take() comes before any change).     *)
MisuseIsHarmless == [][call'.thrown = "logic_error" => UNCHANGED state]_vars

(* A container is opened or closed only by a begin or end call that        *)
(* returns, take() and reset() aside: the caller's calls stay balanced     *)
(* with the stack whatever throws in between, half-way failures included.  *)
BalanceFollowsCalls ==
  [][call'.op \notin {"take", "reset"} =>
       Len(stack') = Len(stack)
         + (IF call'.thrown # "none" THEN 0
            ELSE IF call'.op \in {"beginObject", "beginArray"} THEN 1
            ELSE IF call'.op \in {"endObject", "endArray"} THEN -1
            ELSE 0)]_vars

(* The payload of a two-byte string starts at an even offset of the        *)
(* message, whatever was written before it: V8 reads it in place as        *)
(* 16-bit units (rawUtf16 counts the tag and the length it has yet to      *)
(* write when it decides on the padding byte).                             *)
TwoByteAligned ==
  [][ (/\ call'.op \in {"string16", "key"}
       /\ call'.thrown = "none"
       /\ ~allLatin1(call'.arg.data))
        => /\ (Len(bytes') - 2 * Len(call'.arg.data)) % 2 = 0
           /\ SubSeq(bytes', Len(bytes') - 2 * Len(call'.arg.data) + 1,
                     Len(bytes')) = unitBytes(call'.arg.data) ]_vars
=============================================================================
