-------------------------------- MODULE Wire --------------------------------
(***************************************************************************)
(* The wire format the Writer and the Reader share: tags, view types,      *)
(* uint32 varints and the decoded value tree.                              *)
(*                                                                         *)
(* Bytes are the real bytes (0..255) and a varint group carries the real   *)
(* seven bits.  The width of the integer types is a parameter: a uint32 is *)
(* MaxGroups groups of which the last may only use TopLimit values (5 and  *)
(* 16 in the code), so that a small instance reaches the limit.            *)
(***************************************************************************)
EXTENDS Integers, Sequences, FiniteSets

CONSTANTS MaxGroups, TopLimit

ASSUME WidthAssumption == /\ MaxGroups \in 1 .. 5
                          /\ TopLimit \in 2 .. 128

Byte == 0 .. 255
MaxCodeUnit == 65535
CodeUnit == 0 .. MaxCodeUnit
GroupBase == 128

(* What a unit of the i-th varint group is worth.                          *)
weight == <<1, 128, 16384, 2097152, 268435456>>

U32Size == weight[MaxGroups] * TopLimit
U32Max == U32Size - 1
U32 == 0 .. U32Max
I32 == -(U32Size \div 2) .. (U32Size \div 2) - 1

FormatVersion == 15
Header == <<255, FormatVersion>>
DoubleSize == 8

-----------------------------------------------------------------------------
(* Tags, as the characters the code writes and switches on.                *)

Padding == 0
UndefinedTag == 95      \* '_'
NullTag == 48           \* '0'
TrueTag == 84           \* 'T'
FalseTag == 70          \* 'F'
Int32Tag == 73          \* 'I'
Uint32Tag == 85         \* 'U'
DoubleTag == 78         \* 'N'
DateTag == 68           \* 'D'
Utf8Tag == 83           \* 'S'
OneByteTag == 34        \* '"'
TwoByteTag == 99        \* 'c'
ObjectTag == 111        \* 'o'
EndObjectTag == 123     \* '{'
DenseTag == 65          \* 'A'
EndDenseTag == 36       \* '$'
SparseTag == 97         \* 'a'
EndSparseTag == 64      \* '@'
HoleTag == 45           \* '-'
BufferTag == 66         \* 'B'
ViewTag == 86           \* 'V'
HostObjectTag == 92     \* '\'
CountMarkerTag == 63    \* '?'

(* ArrayBufferViewType, the tag of each, and its element size.             *)
viewTag == [Int8Array |-> 98, Uint8Array |-> 66, Uint8ClampedArray |-> 67,
            Int16Array |-> 119, Uint16Array |-> 87, Int32Array |-> 100,
            Uint32Array |-> 68, Float32Array |-> 102, Float64Array |-> 70,
            BigInt64Array |-> 113, BigUint64Array |-> 81, DataView |-> 63]

ViewType == DOMAIN viewTag

elementSize ==
  [t \in ViewType |->
     IF t \in {"Int16Array", "Uint16Array"} THEN 2
     ELSE IF t \in {"Int32Array", "Uint32Array", "Float32Array"} THEN 4
     ELSE IF t \in {"Float64Array", "BigInt64Array", "BigUint64Array"} THEN 8
     ELSE 1]

-----------------------------------------------------------------------------
(* Mutant: the first value of each size gets one group too few.            *)
varintSizeOffByOne(n) ==
  1 + Cardinality({k \in 2 .. MaxGroups : n > weight[k]})

(* varintSize() counts, before a length is written, how often it is        *)
(* divided until it fits a group.                                          *)
varintSize(n) ==
  1 + Cardinality({k \in 2 .. MaxGroups : n >= weight[k]})

(* Mutant: a last group of one is not written.                             *)
varintGroupsAboveOne(n) ==
  {i \in 1 .. MaxGroups : \A j \in 2 .. i : n \div weight[j] > 1}

(* varint() has a loop of its own, which emits groups as long as something *)
(* of n is left: least significant first, all but the last with the        *)
(* continuation bit.                                                       *)
varintGroups(n) ==
  {i \in 1 .. MaxGroups : \A j \in 2 .. i : n \div weight[j] # 0}

varint(n) ==
  [i \in varintGroups(n) |->
     ((n \div weight[i]) % GroupBase)
       + (IF i + 1 \in varintGroups(n) THEN GroupBase ELSE 0)]

(* Mutant: the sign is not folded into the last bit.                       *)
zigZagUnfolded(n) == IF n >= 0 THEN 2 * n ELSE -2 * n

(* (value << 1) ^ (value >> 31), on a two's complement int32.              *)
zigZag(n) == IF n >= 0 THEN 2 * n ELSE -2 * n - 1

unZigZag(u) == IF u % 2 = 0 THEN u \div 2 ELSE -((u + 1) \div 2)

-----------------------------------------------------------------------------
(* A value tree.  data is the payload: a number as a one-element sequence, *)
(* the code units of a string, the bytes of a double or a binary value.    *)
(* The i-th property of an object is named keys[i] and holds kids[i].      *)
Leaf(type, data) ==
  [type |-> type, data |-> data, keys |-> <<>>, kids |-> <<>>]

LeafType == {"none", "undefined", "null", "boolean", "int32", "uint32",
             "double", "date", "string", "array", "object", "arrayBuffer"}
              \cup ViewType

LeafValue ==
  [type : LeafType, data : Seq(Int), keys : {<<>>}, kids : {<<>>}]

NoValue == Leaf("none", <<>>)

(* A sequence, whatever its elements are.                                  *)
IsSeq(s) == s \in Seq({s[i] : i \in 1 .. Len(s)})
=============================================================================
