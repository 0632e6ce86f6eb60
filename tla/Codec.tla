-------------------------------- MODULE Codec -------------------------------
(***************************************************************************)
(* The encodings inside a message, varint, ZigZag and UTF-8, each defined  *)
(* in a way that shares nothing with the decoders of the Reader, and what  *)
(* the Reader makes of a message that is one number or one UTF-8 string.   *)
(***************************************************************************)
EXTENDS Reader, Functions

-----------------------------------------------------------------------------
(* The definitions are about the bytes behind the root tag.                *)
IsRoot(tags) ==
  size >= 3 /\ SubSeq(input, 1, 2) = Header /\ input[3] \in tags

rest == SubSeq(input, 4, size)

RootReturned == mode = "returned" /\ frames = <<>>

(* The groups up to the k-th end a number, and n is that number: they are  *)
(* its digits in base 128, and it has no further ones.                     *)
IsNumber(s, k) == s[k] < 128 /\ \A j \in 1 .. k - 1 : s[j] >= 128

worth == <<1, 128, 128 * 128, 128 * 128 * 128, 128 * 128 * 128 * 128>>
Means(s, k, n) ==
  /\ n \div worth[k] < 128
  /\ \A j \in 1 .. k : (n \div worth[j]) % 128 = s[j] % 128

(* ZigZag as it is computed: (n << 1) ^ (n >> 31) on two's complement, of  *)
(* which the second operand has all bits set or none.                      *)
ShiftedAndFolded(n) ==
  LET doubled == (2 * (n % U32Size)) % U32Size
  IN IF n < 0 THEN U32Max - doubled ELSE doubled

(* What stands for a decoded number on the wire.                           *)
OnTheWire(v) ==
  IF v.type = "int32" THEN ShiftedAndFolded(v.data[1]) ELSE v.data[1]

(* UTF-8 the other way round: how a code point is written.                 *)
ScalarValue(cp) == cp \in 0 .. 55295 \/ cp \in 57344 .. 1114111
Tail6(cp, unit) == 128 + ((cp \div unit) % 64)
Utf8Of(cp) ==
  IF cp < 128 THEN <<cp>>
  ELSE IF cp < 2048 THEN <<192 + (cp \div 64), Tail6(cp, 1)>>
  ELSE IF cp < 65536
  THEN <<224 + (cp \div 4096), Tail6(cp, 64), Tail6(cp, 1)>>
  ELSE <<240 + (cp \div 262144), Tail6(cp, 4096), Tail6(cp, 64),
         Tail6(cp, 1)>>

Lead == <<0, 192, 224, 240>>
Payload(s) ==
  (s[1] - Lead[Len(s)]) * 64 ^ (Len(s) - 1)
    + FoldFunction(+, 0, [j \in 2 .. Len(s) |->
                            (s[j] - 128) * 64 ^ (Len(s) - j)])
IsCharacter(s) == ScalarValue(Payload(s)) /\ Utf8Of(Payload(s)) = s

(* The ways to cut s into characters: one, or none.                        *)
Characters(s) ==
  LET from[i \in 1 .. Len(s) + 1] ==
        IF i = Len(s) + 1 THEN {<<>>}
        ELSE UNION {{<<Payload(SubSeq(s, i, i + n))>> \o more :
                       more \in from[i + n + 1]} :
                     n \in {m \in 0 .. 3 : i + m <= Len(s) /\
                                IsCharacter(SubSeq(s, i, i + m))}}
  IN from[1]

(* UTF-16 the other way round: a high and a low surrogate are one          *)
(* character.                                                              *)
PairAt(units, i) ==
  /\ i < Len(units)
  /\ units[i] \in 55296 .. 56319 /\ units[i + 1] \in 56320 .. 57343

CodePoints(units) ==
  LET from[i \in 1 .. Len(units) + 1] ==
        IF i > Len(units) THEN <<>>
        ELSE IF PairAt(units, i)
        THEN <<65536 + (units[i] - 55296) * 1024 + (units[i + 1] - 56320)>>
               \o from[i + 2]
        ELSE <<units[i]>> \o from[i + 1]
  IN from[1]

-----------------------------------------------------------------------------
(* Properties.                                                             *)

(* readVarint() accepts exactly the numbers of at most MaxGroups groups    *)
(* that fit a uint32: what it looks at is only the last group, yet no      *)
(* number ever wraps, and it reads no further than the number.             *)
VarintIsExact ==
  IsRoot({Uint32Tag, Int32Tag}) =>
    LET Ends(k) == k <= Len(rest) /\ IsNumber(rest, k)
    IN /\ RootReturned =>
            \E k \in 1 .. MaxGroups :
              /\ pos = 3 + k /\ Ends(k)
              /\ OnTheWire(value) \in U32 /\ Means(rest, k, OnTheWire(value))
       /\ mode = "failed" =>
            ~\E k \in 1 .. MaxGroups :
               /\ Ends(k) /\ \E n \in U32 : Means(rest, k, n)
               /\ \A i \in k + 1 .. Len(rest) : rest[i] = Padding

(* What writeUint32() and writeInt32() write for a number that was read is *)
(* that number again, in the shortest form there is, and varintSize(),     *)
(* which places the padding of a two-byte string, is its length.           *)
NumbersAreWritten ==
  IsRoot({Uint32Tag, Int32Tag}) /\ RootReturned =>
    LET n == value.data[1]
        wire == IF value.type = "int32" THEN zigZag(n) ELSE n
        written == varint(wire)
        last == Len(written)
    IN /\ IsNumber(written, last)
       /\ Means(written, last, OnTheWire(value))
       /\ last = 1 \/ written[last] # 0
       /\ varintSize(wire) = last

(* A decoded string is the characters of the input; and every input that   *)
(* is not made of characters, because it is overlong, truncated, a         *)
(* surrogate or out of range, is rejected.                                 *)
Utf8IsExact ==
  IsRoot({Utf8Tag}) /\ rest # <<>> /\ rest[1] = Len(rest) - 1 =>
    LET characters == Characters(SubSeq(rest, 2, Len(rest)))
    IN /\ RootReturned => CodePoints(value.data) \in characters
       /\ mode = "failed" => characters = {}
=============================================================================
