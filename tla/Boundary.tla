------------------------------ MODULE Boundary ------------------------------
(***************************************************************************)
(* The arms of the boundary benchmark: five ways to carry the same rows    *)
(* from JavaScript to a native consumer, which are comparable only if all  *)
(* of them feed it the same.  The stream arm consumes the cells of         *)
(* readRows() as it borrows them, the tree arm the value of read(), the    *)
(* generic and the optimized arm the JavaScript rows that value stands     *)
(* for, and the native arm makes the rows of a data set itself.            *)
(*                                                                         *)
(* The sink is what was mixed into it, not its checksum.  Each arm runs in *)
(* a process of its own: here one after the other, on the same bytes.      *)
(***************************************************************************)
EXTENDS Rows
LOCAL INSTANCE SequencesExt

CONSTANTS Datasets,  \* [rows, columns] of the generated data sets
          NoDataset  \* the message does not come from one

ASSUME DatasetsAssumption ==
  /\ NoDataset \notin Datasets
  /\ Datasets \subseteq [rows : Nat, columns : Nat]

VARIABLES
  dataset,    \* what the message was made from
  sink,       \* what each arm was mixed into
  ended,      \* how each arm ended, "no" while it runs
  row_index   \* the row the running arm is at

armVars == <<dataset, sink, ended, row_index>>
boundaryVars == <<allVars, armVars>>

(* The arms, each with the one that runs before it.                        *)
before == [tree |-> "stream", generic |-> "tree", optimized |-> "generic",
           native |-> "optimized"]
Arms == {"stream"} \cup DOMAIN before

-----------------------------------------------------------------------------
(* What the Consume functions mix into the sink.                           *)
ConsumeUndefined == <<"undefined", <<>>>>
ConsumeNull == <<"null", <<>>>>
ConsumeBoolean(b) == <<IF b THEN "true" ELSE "false", <<>>>>
ConsumeNumber(bits) == <<"number", bits>>
ConsumeString(length, units) == <<"string", <<length>> \o units>>
ConsumeUtf16(units) == ConsumeString(Len(units), units)
Step0x53544550 == <<"step", <<>>>>

(* The eight bytes of the double n / 2^e, for |n| < 2^20.                  *)
doubleBits(n, e) ==
  LET m == IF n < 0 THEN -n ELSE n
      k == CHOOSE k \in 0 .. 19 : 2 ^ k <= m /\ m < 2 ^ (k + 1)
      high == (1023 + k - e) * 2 ^ 20 + (m - 2 ^ k) * 2 ^ (20 - k)
  IN IF n = 0 THEN [i \in 1 .. DoubleSize |-> 0]
     ELSE <<0, 0, 0, 0, high % 256, (high \div 256) % 256,
            (high \div 65536) % 256,
            high \div 16777216 + (IF n < 0 THEN 128 ELSE 0)>>

(* Mutant: the length counts code points.                                  *)
ConsumeUtf8ByCodePoint(s) ==
  LET units == consumeUtf8[s].units
  IN ConsumeString(Cardinality({i \in 1 .. Len(s) : s[i] \div 64 # 2}), units)

(* It checks nothing: readScalar() has validated the bytes.                *)
ConsumeUtf8(s) ==
  LET count(first) == IF first < 128 THEN 0
                      ELSE IF first \div 32 = 6 THEN 1
                      ELSE IF first \div 16 = 14 THEN 2 ELSE 3
      code_points[i \in 1 .. Len(s) + 1] ==
        IF i = Len(s) + 1 THEN <<>>
        ELSE <<codePoint(s, i, count(s[i]))>>
               \o code_points[i + count(s[i]) + 1]
      utf16_length ==
        FoldSeq(LAMBDA c, n : n + (IF c <= 65535 THEN 1 ELSE 2), 0,
                code_points[1])
  IN ConsumeString(utf16_length,
       FlattenSeq([i \in 1 .. Len(code_points[1]) |->
                     appendCodePoint(code_points[1][i])]))

ConsumeDecodedScalar(v) ==
  CASE v.type = "undefined" -> ConsumeUndefined
    [] v.type = "null" -> ConsumeNull
    [] v.type = "boolean" -> ConsumeBoolean(v.data = <<1>>)
    [] v.type \in {"int32", "uint32"} ->
         ConsumeNumber(doubleBits(v.data[1], 0))
    [] v.type = "double" -> ConsumeNumber(v.data)
    [] v.type = "string" -> ConsumeUtf16(v.data)

(* The string views readScalar() hands out are bytes of the input; the     *)
(* other cells are values.                                                 *)
ConsumeBorrowedScalar(p) ==
  LET tag == readTag[p]
      bytes == readBytes[tag.next].val
  IN CASE tag.val = OneByteTag -> ConsumeString(Len(bytes), bytes)
       [] tag.val = Utf8Tag -> ConsumeUtf8(bytes)
       [] tag.val = TwoByteTag ->
            ConsumeString(Len(bytes) \div 2,
                          [i \in 1 .. Len(bytes) \div 2 |->
                             bytes[2 * i - 1] + 256 * bytes[2 * i]])
       [] OTHER -> ConsumeDecodedScalar(readScalar(p).val)

(* A JavaScript value is asked for its type, and a number for its double.  *)
ConsumeNapiScalar(js) ==
  CASE js.type = "undefined" -> ConsumeUndefined
    [] js.type = "null" -> ConsumeNull
    [] js.type = "boolean" -> ConsumeBoolean(js.data = <<1>>)
    [] js.type = "number" -> ConsumeNumber(js.data)
    [] js.type = "string" -> ConsumeUtf16(js.data)

(* What a decoded scalar is in JavaScript.                                 *)
JavaScript(v) ==
  IF IsInteger(v) THEN Leaf("number", doubleBits(v.data[1], 0))
  ELSE IF v.type = "double" THEN Leaf("number", v.data)
  ELSE v

-----------------------------------------------------------------------------
(* The data sets, as JavaScript makes them, and their message.             *)
Text(r) == <<114, 111, 119, 45>> \o decimal(r % 1024)
Number(n, e) == Leaf("number", doubleBits(n, e))
ArrayOf(kids) == [Leaf("array", <<>>) EXCEPT !.kids = kids]

makeCell(r, column) ==
  CASE column % 5 = 0 -> Number(r, 0)
    [] column % 5 = 1 -> Leaf("string", Text(r))
    [] column % 5 = 2 -> Number(r + 2, 2)
    [] column % 5 = 3 -> Leaf("boolean", <<1 - (r % 2)>>)
    [] OTHER -> IF r % 17 = 0 THEN Leaf("null", <<>>) ELSE Number(r, 0)

makeRows(d) ==
  ArrayOf([r \in 1 .. d.rows |->
             ArrayOf([c \in 1 .. d.columns |-> makeCell(r - 1, c - 1)])])

(* v8.serialize: a number that is a small integer is written as one.       *)
serializeScalar(js) ==
  CASE js.type = "null" -> <<NullTag>>
    [] js.type = "boolean" -> IF js.data = <<1>> THEN <<TrueTag>>
                              ELSE <<FalseTag>>
    [] js.type = "string" -> <<OneByteTag>> \o varint(Len(js.data)) \o js.data
    [] js.type = "number" ->
         IF \E n \in U32 : js.data = doubleBits(n, 0)
         THEN LET n == CHOOSE n \in U32 : js.data = doubleBits(n, 0)
              IN <<Int32Tag>> \o varint(zigZag(n))
         ELSE <<DoubleTag>> \o js.data

serializeArray(parts) ==
  <<DenseTag>> \o varint(Len(parts)) \o FlattenSeq(parts)
    \o <<EndDenseTag, 0>> \o varint(Len(parts))

serialize(js) ==
  Header \o serializeArray(
    [r \in 1 .. Len(js.kids) |->
       serializeArray([c \in 1 .. Len(js.kids[r].kids) |->
                         serializeScalar(js.kids[r].kids[c])])])

-----------------------------------------------------------------------------
(* ConsumeSerializedRows(): readRows() with a consumer that marks the end  *)
(* of a row at its last column.                                            *)

IsLastColumn(column, column_count) == column + 1 = column_count

consumeBorrowed(p) ==
  <<ConsumeBorrowedScalar(p)>>
    \o (IF IsLastColumn(done.cells, row.length) THEN <<Step0x53544550>>
        ELSE <<>>)

streamRows ==
  /\ readRows
  /\ sink' = [sink EXCEPT !.stream =
                @ \o (IF cells' = cells THEN <<>>
                      ELSE consumeBorrowed(
                             indexed(row, done.cells, rpos).next))]
  /\ ended' = [ended EXCEPT !.stream =
                 IF rmode' \in {"done", "failed"} THEN rmode' ELSE "no"]
  /\ UNCHANGED <<dataset, row_index>>

-----------------------------------------------------------------------------
(* The other arms, a row at a time.                                        *)
Running(arm) == ended[arm] = "no" /\ ended[before[arm]] # "no"

Feed(arm, marks, how, next) ==
  /\ sink' = [sink EXCEPT ![arm] = @ \o marks]
  /\ ended' = [ended EXCEPT ![arm] = how]
  /\ row_index' = next
  /\ UNCHANGED <<allVars, dataset>>

(* The cells of a row are consumed up to the first that is no scalar.      *)
CellType == ScalarType \cup {"number"}
scalars(parts) ==
  LET n == CHOOSE n \in 0 .. Len(parts) :
             /\ \A j \in 1 .. n : parts[j].type \in CellType
             /\ n < Len(parts) => parts[n + 1].type \notin CellType
  IN SubSeq(parts, 1, n)

(* The tree arm takes decoded values, the others JavaScript values.        *)
Consume(arm, v) ==
  IF arm = "tree" THEN ConsumeDecodedScalar(v)
  ELSE ConsumeNapiScalar(JavaScript(v))

consumeRow(arm, r) ==
  LET marks == [j \in 1 .. Len(scalars(r.kids)) |-> Consume(arm, r.kids[j])]
  IN IF Len(marks) = Len(r.kids)
     THEN Feed(arm, Append(marks, Step0x53544550), "no", row_index + 1)
     ELSE Feed(arm, marks, "failed", 0)

(* The generic arm asks every row for its length.                          *)
Fits(arm, rows) ==
  row_index > 0 /\ arm # "generic" =>
    Len(rows.kids[row_index + 1].kids) = Len(rows.kids[row_index].kids)

consumeRows(arm, rows) ==
  /\ Running(arm)
  /\ IF rows.type # "array" THEN Feed(arm, <<>>, "failed", 0)
     ELSE IF row_index = Len(rows.kids) THEN Feed(arm, <<>>, "done", 0)
     ELSE IF rows.kids[row_index + 1].type = "array" /\ Fits(arm, rows)
     THEN consumeRow(arm, rows.kids[row_index + 1])
     ELSE Feed(arm, <<>>, "failed", 0)

(* read() throws, or yields the tree; without a data set the JavaScript    *)
(* arms get what that tree stands for.                                     *)
tree == IF mode = "done" THEN value ELSE NoValue
jsRows == IF dataset = NoDataset THEN tree ELSE makeRows(dataset)

ConsumeDecodedRows == consumeRows("tree", tree)
ConsumeRowsGeneric == consumeRows("generic", jsRows)
ConsumeRowsOptimized == consumeRows("optimized", jsRows)

nativeCell(r, column) ==
  CASE column % 5 = 0 -> ConsumeNumber(doubleBits(r, 0))
    [] column % 5 = 1 -> ConsumeUtf16(Text(r))
    [] column % 5 = 2 -> ConsumeNumber(doubleBits(r + 2, 2))
    [] column % 5 = 3 -> ConsumeBoolean(r % 2 = 0)
    [] OTHER -> IF r % 17 = 0 THEN ConsumeNull
                ELSE ConsumeNumber(doubleBits(r, 0))

ConsumeNativeRows ==
  /\ Running("native") /\ dataset # NoDataset
  /\ IF row_index = dataset.rows THEN Feed("native", <<>>, "done", 0)
     ELSE Feed("native",
               Append([c \in 1 .. dataset.columns |->
                         nativeCell(row_index, c - 1)], Step0x53544550),
               "no", row_index + 1)

-----------------------------------------------------------------------------
BoundaryInit ==
  /\ \/ dataset = NoDataset /\ Init /\ minimum_columns \in MinimumColumns
     \/ /\ dataset \in Datasets /\ Start(serialize(makeRows(dataset)))
        /\ minimum_columns = 0
  /\ rpos = 0 /\ root = NoArray /\ row = NoArray
  /\ done = [rows |-> 0, cells |-> 0]
  /\ width = <<>> /\ rmode = "header" /\ cells = <<>>
  /\ sink = [arm \in Arms |-> <<>>]
  /\ ended = [arm \in Arms |-> "no"]
  /\ row_index = 0

BoundaryNext ==
  \/ Step /\ UNCHANGED <<rowVars, armVars>>
  \/ streamRows
  \/ ConsumeDecodedRows \/ ConsumeRowsGeneric \/ ConsumeRowsOptimized
  \/ ConsumeNativeRows

BoundarySpec == BoundaryInit /\ [][BoundaryNext]_boundaryVars

-----------------------------------------------------------------------------
(* Properties.                                                             *)

(* An empty row has no last column, so the stream arm cannot mark its end; *)
(* the benchmark has none.                                                 *)
NoEmptyRow ==
  \A i \in 1 .. Len(value.kids) :
    value.kids[i].type = "array" => value.kids[i].kids # <<>>

(* boundary_bench.js compares the checksums of all arms of a data set and  *)
(* throws "boundary benchmark arms produced different checksums".  On any  *)
(* bytes, whatever two arms feed the sink differs at most in where they    *)
(* stopped, even when readRows() fails in the middle of a row (the         *)
(* borrowed views decode to the strings of read(), the unchecked UTF-8     *)
(* loop included); two arms that finish have fed it the same; and none     *)
(* fails on a data set.                                                    *)
SinksAgree ==
  /\ NoEmptyRow =>
       \A a, b \in Arms :
         /\ IsPrefix(sink[a], sink[b]) \/ IsPrefix(sink[b], sink[a])
         /\ ended[a] = "done" /\ ended[b] = "done" => sink[a] = sink[b]
  /\ dataset # NoDataset => \A a \in Arms : ended[a] # "failed"
=============================================================================
