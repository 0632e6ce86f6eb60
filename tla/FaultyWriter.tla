---------------------------- MODULE FaultyWriter ----------------------------
(***************************************************************************)
(* The Writer when memory runs out.  bytes_ grows a push_back() or an      *)
(* insert() at a time and any of them may throw bad_alloc, which leaves    *)
(* what was written before; stack_ has FramesReserved places and may throw *)
(* beyond them.  The caller catches the exception and goes on as it likes: *)
(* it finishes the message, or starts over with reset().                   *)
(***************************************************************************)
EXTENDS RecordedWriter

CONSTANT FramesReserved  \* what the constructor reserves for stack_

ASSUME FramesAssumption == FramesReserved \in Nat

Fails(op, arg) == call' = Call(op, arg, "bad_alloc", <<>>)

(* bytes_ grows by a part of put, which ends in n bytes inserted at once   *)
(* and t single bytes behind them.                                         *)
Torn(put, n, t) ==
  \E k \in 0 .. Len(put) - 1 :
    /\ k <= Len(put) - n - t \/ k >= Len(put) - t
    /\ bytes' = bytes \o SubSeq(put, 1, k)

tornValue(op, arg, raw, n, t) ==
  /\ beginValue(<<>>)
  /\ raw.thrown = "none"
  /\ Torn(raw.put, n, t)
  /\ Fails(op, arg)

tornLeaf ==
  \/ tornValue("scalar", Leaf("null", <<>>), Emits(<<NullTag>>), 0, 0)
  \/ \E v \in Int32Inputs :
       tornValue("int32", Leaf("int32", <<v>>),
                 Emits(<<Int32Tag>> \o varint(zigZag(v))), 0, 0)
  \/ \E v \in DoubleInputs :
       tornValue("number", Leaf("double", v),
                 Emits(<<DoubleTag>> \o v), DoubleSize, 0)
  \/ \E s \in Utf8Inputs :
       tornValue("string8", Leaf("string", s.units), rawUtf8(s.utf8),
                 Len(s.utf8), 0)
  \/ \E s \in Utf16Inputs :
       tornValue("string16", Leaf("string", s), rawUtf16(s),
                 IF allLatin1(s) THEN Len(s) ELSE 2 * Len(s), 0)
  \/ \E b \in BinaryInputs :
       tornValue("arrayBuffer", Leaf("arrayBuffer", b.data),
                 rawArrayBuffer(b), Len(b.data), 0)
  \/ \E b \in BinaryInputs, type \in ViewInputs :
       /\ Len(b.data) % elementSize[type] = 0
       /\ tornValue("arrayBufferView", Leaf(type, b.data), rawView(type, b),
                    Len(b.data), 4 + Len(varint(Len(b.data))))

tornKey ==
  \E s \in Utf16Inputs :
    /\ AcceptsKey
    /\ rawUtf16(s).thrown = "none"
    /\ Torn(rawUtf16(s).put,
            IF allLatin1(s) THEN Len(s) ELSE 2 * Len(s), 0)
    /\ Fails("key", Leaf("string", s))
    /\ UNCHANGED <<stack, has_root>>

(* The bytes of the container are out, or some of them, but not its frame. *)
tornBegin(op, arg, put) ==
  \/ tornValue(op, arg, Emits(put), 0, 0)
  \/ /\ Len(stack) >= FramesReserved
     /\ beginValue(<<>>)
     /\ bytes' = bytes \o put
     /\ Fails(op, arg)

(* The frame is popped before its terminal is written.                     *)
tornEnd(op, kind, terminal) ==
  /\ AcceptsEnd(kind)
  /\ stack' = SubSeq(stack, 1, Len(stack) - 1)
  /\ Torn(terminal, 0, 0)
  /\ Fails(op, NoValue)
  /\ UNCHANGED has_root

(* bytes_ keeps its capacity, except when take() moved it out.             *)
tornReset ==
  /\ Len(bytes) < Len(Header)
  /\ stack' = <<>> /\ has_root' = FALSE
  /\ \E k \in 0 .. Len(Header) - 1 : bytes' = SubSeq(Header, 1, k)
  /\ Fails("reset", NoValue)

RunsOut ==
  \/ /\ Len(bytes) < MaxBytes
     /\ \/ tornLeaf \/ tornKey
        \/ tornBegin("beginObject", Leaf("object", <<>>), <<ObjectTag>>)
        \/ \E n \in LengthInputs :
             tornBegin("beginArray", Leaf("array", <<n>>),
                       <<DenseTag>> \o varint(n))
  \/ tornEnd("endObject", "Object", <<EndObjectTag>> \o varint(back.count))
  \/ tornEnd("endArray", "Array",
             <<EndDenseTag>> \o varint(0) \o varint(back.expected))
  \/ tornReset

runOut ==
  /\ RunsOut
  /\ broken' = TRUE
  /\ IF call'.op = "reset"
     THEN open' = <<>> /\ root' = NoValue /\ published' = <<>>
     ELSE UNCHANGED <<open, root, published>>

FNext == RNext \/ runOut

FSpec == RInit /\ [][FNext]_rvars

-----------------------------------------------------------------------------
(* Properties: RecordedWriter's FramesMatchRecord and BuildsDocument say   *)
(* here that reset() repairs the Writer however a failure has left it, and *)
(* OuterFramesWait that its frames stay sound without a reset().           *)
=============================================================================
