-------------------------------- MODULE Rows --------------------------------
(***************************************************************************)
(* Reader::readRows(): streams the cells of an array of rows to a consumer *)
(* without building a tree.  It is set beside Reader::read(): a second     *)
(* Reader on the same bytes, which starts when read() has ended so that    *)
(* the two results can be compared.                                        *)
(***************************************************************************)
EXTENDS Reader

CONSTANT MinimumColumns  \* the values of minimum_column_count

VARIABLES
  minimum_columns,  \* minimum_column_count
  rpos,     \* current_ - begin_
  root,     \* the header of the root array
  row,      \* the header of the row being read
  done,     \* row_index and column_index: rows and cells completed
  width,    \* <<expected_column_count>>, <<>> before the first row
  rmode,    \* where control is
  cells     \* what the consumer was called with

rowVars == <<minimum_columns, rpos, root, row, done, width, rmode, cells>>
allVars == <<rvars, rowVars>>

NoArray == [length |-> 0, sparse |-> FALSE]
ScalarTags == {UndefinedTag, NullTag, TrueTag, FalseTag, Int32Tag, Uint32Tag,
               DoubleTag, OneByteTag, Utf8Tag, TwoByteTag}

-----------------------------------------------------------------------------
readScalar(p) ==
  LET tag == readTag[p]
  IN IF tag.ok /\ tag.val \in ScalarTags THEN readLeaf(tag.val, tag.next)
     ELSE Malformed

readArrayHeader(p) ==
  LET tag == readTag[p]
      length == readVarint[tag.next]
  IN IF /\ tag.ok /\ tag.val \in {DenseTag, SparseTag}
        /\ length.ok /\ length.val <= size - length.next
     THEN Parsed([length |-> length.val, sparse |-> tag.val = SparseTag],
                 length.next)
     ELSE Malformed

(* readArrayIndex() must return n in front of the element n of a sparse    *)
(* array; a dense array has no index.                                      *)
indexIs(key, n) ==
  IF key.ok /\ IsInteger(key.val) /\ key.val.data[1] = n
  THEN Parsed(n, key.next) ELSE Malformed

indexed(array, n, p) ==
  IF array.sparse THEN indexIs(readScalar(p), n) ELSE Parsed(n, p)

finishArray(array, p) ==
  LET tag == readTag[p]
      count == readVarint[tag.next]
      length == readVarint[count.next]
  IN IF /\ tag.ok
        /\ tag.val = (IF array.sparse THEN EndSparseTag ELSE EndDenseTag)
        /\ count.ok
        /\ count.val = (IF array.sparse THEN array.length ELSE 0)
        /\ length.ok /\ length.val = array.length
     THEN Parsed(array.length, length.next)
     ELSE Malformed

-----------------------------------------------------------------------------
Throw == /\ rmode' = "failed"
         /\ UNCHANGED <<minimum_columns, rpos, root, row, done, width, cells>>

rowsHeader ==
  LET version == readVarint[1]
      header == readArrayHeader(version.next)
  IN /\ rmode = "header"
     /\ IF /\ size >= 2 /\ at(0) = 255
           /\ version.ok /\ version.val = FormatVersion
           /\ header.ok
        THEN /\ rmode' = "rows" /\ root' = header.val /\ rpos' = header.next
             /\ UNCHANGED <<minimum_columns, row, done, width, cells>>
        ELSE Throw

(* Mutant: a row must exceed the minimum.                                  *)
WidthExceedsMinimum(columns) ==
  columns > minimum_columns /\ (width = <<>> \/ width[1] = columns)

WidthFits(columns) ==
  columns >= minimum_columns /\ (width = <<>> \/ width[1] = columns)

openRow ==
  /\ rmode = "rows" /\ done.rows < root.length
  /\ \E index \in {indexed(root, done.rows, rpos)} :
     \E header \in {readArrayHeader(index.next)} :
       IF index.ok /\ header.ok /\ WidthFits(header.val.length)
       THEN /\ rmode' = "cells" /\ row' = header.val /\ rpos' = header.next
            /\ width' = <<header.val.length>>
            /\ UNCHANGED <<minimum_columns, root, done, cells>>
       ELSE Throw

(* Mutant: the column is counted before the consumer is called.            *)
consumeCounted(scalar) ==
  IF scalar.ok
  THEN /\ done' = [done EXCEPT !.cells = @ + 1]
       /\ cells' = Append(cells, [row |-> done.rows, column |-> done'.cells,
                                  columns |-> row.length,
                                  value |-> scalar.val])
       /\ rpos' = scalar.next
       /\ UNCHANGED <<minimum_columns, root, row, width, rmode>>
  ELSE Throw

(* The consumer is called with the cell before anything behind it is read. *)
consume(scalar) ==
  IF scalar.ok
  THEN /\ cells' = Append(cells, [row |-> done.rows, column |-> done.cells,
                                  columns |-> row.length,
                                  value |-> scalar.val])
       /\ done' = [done EXCEPT !.cells = @ + 1]
       /\ rpos' = scalar.next
       /\ UNCHANGED <<minimum_columns, root, row, width, rmode>>
  ELSE Throw

readCell ==
  /\ rmode = "cells" /\ done.cells < row.length
  /\ \E index \in {indexed(row, done.cells, rpos)} :
       IF index.ok
       THEN \E scalar \in {readScalar(index.next)} : consume(scalar)
       ELSE Throw

closeRow ==
  LET end == finishArray(row, rpos)
  IN /\ rmode = "cells" /\ done.cells = row.length
     /\ IF end.ok
        THEN /\ rmode' = "rows" /\ rpos' = end.next
             /\ done' = [rows |-> done.rows + 1, cells |-> 0]
             /\ UNCHANGED <<minimum_columns, root, row, width, cells>>
        ELSE Throw

(* Mutant: what follows the root array is not looked at.                   *)
closeRowsEarly ==
  LET end == finishArray(root, rpos)
  IN /\ rmode = "rows" /\ done.rows = root.length
     /\ IF end.ok
        THEN /\ rmode' = "done" /\ rpos' = size
             /\ UNCHANGED <<minimum_columns, root, row, done, width, cells>>
        ELSE Throw

closeRows ==
  LET end == finishArray(root, rpos)
  IN /\ rmode = "rows" /\ done.rows = root.length
     /\ IF end.ok /\ skipPadding[end.next] = size
        THEN /\ rmode' = "done" /\ rpos' = size
             /\ UNCHANGED <<minimum_columns, root, row, done, width, cells>>
        ELSE Throw

-----------------------------------------------------------------------------
readEnded == mode \in {"done", "failed"}

readRows ==
  /\ readEnded
  /\ rowsHeader \/ openRow \/ readCell \/ closeRow \/ closeRows
  /\ UNCHANGED rvars

RowsInit ==
  /\ Init
  /\ minimum_columns \in MinimumColumns
  /\ rpos = 0 /\ root = NoArray /\ row = NoArray
  /\ done = [rows |-> 0, cells |-> 0]
  /\ width = <<>> /\ rmode = "header" /\ cells = <<>>

RowsNext == (Step /\ UNCHANGED rowVars) \/ readRows

RowsSpec == RowsInit /\ [][RowsNext]_allVars

-----------------------------------------------------------------------------
(* Properties.                                                             *)

(* The consumer sees the cells of a matrix row by row, each once, with the *)
(* same number of columns throughout, however the stream ends; and while   *)
(* read() can decode the message, each is the cell read() puts at that     *)
(* place, even when the stream fails later on.                             *)
CellsAreTrue ==
  \A k \in 1 .. Len(cells) :
    /\ cells[k].columns = width[1]
    /\ cells[k].columns >= minimum_columns
    /\ cells[k].row * width[1] + cells[k].column + 1 = k
    /\ mode = "done" =>
         cells[k].value = value.kids[cells[k].row + 1].kids[cells[k].column + 1]

(* A stream that ends well has handed out all of a message read() decodes. *)
StreamedIsRead ==
  rmode = "done" =>
    /\ mode = "done"
    /\ Len(value.kids) = root.length
    /\ Len(cells) = root.length * (IF width = <<>> THEN 0 ELSE width[1])

(* Conversely, when read() decodes an array of rows of scalars of one      *)
(* width, the stream does not fail on it.                                  *)
ScalarType == {"undefined", "null", "boolean", "int32", "uint32", "double",
               "string"}

Matrix(v) ==
  /\ v.type = "array"
  /\ \A i \in 1 .. Len(v.kids) :
       /\ v.kids[i].type = "array"
       /\ Len(v.kids[i].kids) = Len(v.kids[1].kids)
       /\ Len(v.kids[i].kids) >= minimum_columns
       /\ \A j \in 1 .. Len(v.kids[i].kids) :
            v.kids[i].kids[j].type \in ScalarType

ReadIsStreamed ==
  rmode = "failed" /\ mode = "done" /\ Matrix(value) =>
    CountMarkerTag \in {input[i] : i \in 1 .. size}

(* v8-format.md on the standalone C++ reader: "It also ignores legacy      *)
(* kVerifyObjectCount markers as V8 does."                                 *)
CountMarkersIgnored ==
  rmode = "failed" /\ mode = "done" => ~Matrix(value)
=============================================================================
