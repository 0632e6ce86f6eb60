------------------------------ MODULE Traversal ------------------------------
(***************************************************************************)
(* How the addon encodes a JavaScript value.  encodeSync() walks the value *)
(* and drives a Writer (WriteJavaScriptValue); encodeAsync() first copies  *)
(* the value into a tree (CopyValue) which a worker then writes            *)
(* (WriteValue, Encode).  The two walks have the same shape, so they share *)
(* their actions here and differ in where a value goes.                    *)
(*                                                                         *)
(* Recursion is a stack of frames, one per activation that reads an array  *)
(* or an object.  Reading a property may run an accessor, and an accessor  *)
(* may change any object, those being walked included.  The Writer is a    *)
(* RecordedWriter, so that a message is known by the tree it describes.    *)
(***************************************************************************)
EXTENDS RecordedWriter

CONSTANTS
  Heaps,      \* the JavaScript heaps: functions from object numbers
  Roots,      \* the values passed to encodeSync() and encodeAsync()
  IntegerOf,  \* the integer a number is, for the numbers that are one
  MinusZero,  \* the bytes of -0
  StoredValues, StoredNames,  \* what an accessor may store, and where
  MaxDepth,   \* kMaxNestingDepth
  MaxChanges  \* bound: changes made by accessors

VARIABLES
  path,       \* "sync" or "async"
  heap,       \* the JavaScript objects
  changes,    \* the number of changes made by accessors
  argument,   \* the value passed in
  input,      \* the value being visited
  frames,     \* the active array and object loops, innermost last
  ancestors,  \* ancestors
  mode,       \* where control is
  error,      \* why it failed; "native" is a std::exception
  copying,    \* CopyValue: the trees under construction, innermost last
  copy,       \* CopyValue: its result
  pending     \* WriteValue: the trees being written, innermost last

world == <<path, heap, changes, argument>>
walkVars == <<world, input, frames, ancestors, mode, error>>
treeVars == <<copying, copy, pending>>
tvars == <<walkVars, treeVars, rvars>>

(* A slot of an array or object holds a value; reading a getter may run    *)
(* user code.  The slots of an array are what its indices yield, elements  *)
(* of its own and of its prototypes alike; listed are the indices of its   *)
(* own enumerable elements, and named counts its other own enumerable      *)
(* properties.  names is the enumeration order of an object, symbols       *)
(* included.                                                               *)
Slot(value, getter) == [value |-> value, getter |-> getter]
ArrayEntry(length, slots, listed, named) ==
  [kind |-> "array", length |-> length, slots |-> slots, listed |-> listed,
   named |-> named]
ObjectEntry(names, slots, plain) ==
  [kind |-> "object", names |-> names, slots |-> slots, plain |-> plain]
BinaryEntry(kind, data, usable) ==
  [kind |-> kind, data |-> data, usable |-> usable]

Ref(o) == Leaf("ref", <<o>>)
Symbol == <<-1>>
Scalars == {"undefined", "null", "boolean", "number", "string", "date"}

(* The strings a JavaScript engine can hold fit the format.                *)
Text == {s \in Seq(Int) : Len(s) <= U32Max \div 2}

(* A JavaScript value; a reference is to an object of the heap.            *)
IsValue(v, objects) ==
  /\ v = Leaf(v.type, v.data)
  /\ v.type \in Scalars \cup {"symbol", "ref"}
  /\ v.data \in Seq(Int)
  /\ v.type \in {"undefined", "null"} => v.data = <<>>
  /\ v.type = "boolean" => v.data \in {<<0>>, <<1>>}
  /\ v.type = "string" => v.data \in Text
  /\ v.type = "ref" => v.data[1] \in objects

(* The length of an array is a uint32, and the size of a typed array a     *)
(* multiple of that of its elements.                                       *)
IsEntry(e, objects) ==
  LET holds(fields) == /\ DOMAIN e = {"kind", "slots"} \cup fields
                       /\ \A n \in DOMAIN e.slots :
                            IsValue(e.slots[n].value, objects)
  IN IF e.kind = "array"
     THEN /\ holds({"length", "listed", "named"})
          /\ e.length \in U32 /\ e.named \in Nat
     ELSE IF e.kind = "object"
     THEN holds({"names", "plain"}) /\ e.names \in Seq(Text)
     ELSE /\ DOMAIN e = {"kind", "data", "usable"}
          /\ e.kind \in {"arrayBuffer"} \cup ViewType
          /\ e.data \in Seq(Int)
          /\ e.kind \in ViewType => Len(e.data) % elementSize[e.kind] = 0

(* The elements of an array that can be reached are below its length, own  *)
(* ones are reached, and the names of an object, symbols included, are     *)
(* those of its properties.                                                *)
Enumerated(e) ==
  /\ e.kind = "array" => /\ e.listed \subseteq DOMAIN e.slots
                         /\ DOMAIN e.slots \subseteq 0 .. e.length - 1
  /\ e.kind = "object" => DOMAIN e.slots = {e.names[i] : i \in DOMAIN e.names}

ASSUME TraversalAssumption ==
  /\ MaxDepth \in Nat
  /\ StoredNames \subseteq Text
  /\ \A h \in Heaps :
       /\ \A o \in DOMAIN h : IsEntry(h[o], DOMAIN h) /\ Enumerated(h[o])
       /\ \A v \in Roots \cup StoredValues : IsValue(v, DOMAIN h)

top == frames[Len(frames)]
target == input.data[1]
scanned == heap[top.obj]

-----------------------------------------------------------------------------
(* What a scalar becomes: a number is an int32 where it can be.            *)
wireScalar(v) ==
  IF v.type # "number" THEN v
  ELSE IF /\ v.data \in DOMAIN IntegerOf
          /\ IntegerOf[v.data] \in I32
          /\ v.data # MinusZero
  THEN Leaf("int32", <<IntegerOf[v.data]>>)
  ELSE Leaf("double", v.data)

binary(v) == [null |-> v.data = <<>>, data |-> v.data]

WriteLeaf(v) ==
  \/ v.type = "undefined" /\ undefined
  \/ v.type = "null" /\ null
  \/ v.type = "boolean" /\ boolean(v.data = <<1>>)
  \/ v.type = "int32" /\ int32(v.data[1])
  \/ v.type = "double" /\ number(v.data)
  \/ v.type = "date" /\ date(v.data)
  \/ v.type = "string" /\ string16(v.data)
  \/ v.type = "arrayBuffer" /\ arrayBuffer(binary(v))
  \/ v.type \in ViewType /\ arrayBufferView(v.type, binary(v))

Recorded(method) == method /\ Follow /\ Notice

Placed(v, containers) ==
  IF containers = <<>> THEN copying' = <<>> /\ copy' = v
  ELSE /\ copying' = [containers EXCEPT ![Len(containers)].kids =
                        Append(@, v)]
       /\ copy' = copy

(* Where a value goes: to the Writer, or into the copy.                    *)
innerCopy == copying[Len(copying)]

putLeaf(v) ==
  IF path = "sync" THEN Recorded(WriteLeaf(v)) /\ UNCHANGED treeVars
  ELSE Placed(v, copying) /\ UNCHANGED <<pending, rvars>>

putArray(length) ==
  IF path = "sync" THEN Recorded(beginArray(length)) /\ UNCHANGED treeVars
  ELSE /\ copying' = Append(copying, Leaf("array", <<>>))
       /\ UNCHANGED <<copy, pending, rvars>>

putObject ==
  IF path = "sync" THEN Recorded(beginObject) /\ UNCHANGED treeVars
  ELSE /\ copying' = Append(copying, Leaf("object", <<>>))
       /\ UNCHANGED <<copy, pending, rvars>>

putKey(name) ==
  IF path = "sync" THEN Recorded(key(name)) /\ UNCHANGED treeVars
  ELSE /\ copying' = [copying EXCEPT ![Len(copying)].keys = Append(@, name)]
       /\ UNCHANGED <<copy, pending, rvars>>

putEnd(type) ==
  IF path = "sync"
  THEN /\ Recorded(IF type = "array" THEN endArray ELSE endObject)
       /\ UNCHANGED treeVars
  ELSE /\ Placed(innerCopy, SubSeq(copying, 1, Len(copying) - 1))
       /\ UNCHANGED <<pending, rvars>>

(* A std::exception of the Writer ends the walk.                           *)
Proceed(next) ==
  IF call'.thrown = "none" THEN mode' = next /\ error' = error
  ELSE mode' = "thrown" /\ error' = "native"

(* An error ends the walk; nobody looks at ancestors afterwards.           *)
Throw(reason) ==
  /\ mode' = "thrown"
  /\ error' = reason
  /\ UNCHANGED <<world, input, frames, ancestors, treeVars,
                 rvars>>

afterValue(callers) == IF callers = <<>> THEN "end" ELSE "loop"

-----------------------------------------------------------------------------
(* A value is visited: the checks in the order of the code.                *)

(* Mutant: only the parent is compared.                                    *)
IsParent(o) == ancestors # <<>> /\ ancestors[Len(ancestors)] = o

(* Mutant: one level more than the worker writes.                          *)
tooDeepForWorker == Len(frames) > MaxDepth + 1

tooDeep == Len(frames) > MaxDepth
IsAncestor(o) == \E i \in 1 .. Len(ancestors) : ancestors[i] = o

visitable == mode = "value" /\ ~tooDeep
fresh == visitable /\ input.type = "ref" /\ ~IsAncestor(target)

refuse ==
  \/ mode = "value" /\ tooDeep /\ Throw("depth")
  \/ visitable /\ input.type = "symbol" /\ Throw("unsupported")
  \/ /\ visitable /\ input.type = "ref" /\ IsAncestor(target)
     /\ Throw("cyclic")
  \/ /\ fresh /\ heap[target].kind = "object" /\ ~heap[target].plain
     /\ Throw("not plain")
  \/ /\ fresh /\ heap[target].kind \notin {"array", "object"}
     /\ ~heap[target].usable
     /\ Throw("buffer")

encodeScalar ==
  /\ visitable /\ input.type \in Scalars
  /\ putLeaf(wireScalar(input))
  /\ Proceed(afterValue(frames))
  /\ UNCHANGED <<world, input, frames, ancestors>>

(* The object is an ancestor only until its bytes are out.                 *)
encodeBinary ==
  /\ fresh /\ heap[target].kind \notin {"array", "object"}
  /\ heap[target].usable
  /\ putLeaf(Leaf(heap[target].kind, heap[target].data))
  /\ Proceed(afterValue(frames))
  /\ UNCHANGED <<world, input, frames, ancestors>>

enter(names) ==
  /\ ancestors' = Append(ancestors, target)
  /\ frames' = Append(frames, [obj |-> target, index |-> 0, names |-> names])
  /\ Proceed("loop")
  /\ UNCHANGED <<world, input>>

openArray ==
  /\ fresh /\ heap[target].kind = "array"
  /\ putArray(heap[target].length)
  /\ enter(<<>>)

openObject ==
  /\ fresh /\ heap[target].kind = "object" /\ heap[target].plain
  /\ putObject
  /\ enter(heap[target].names)

-----------------------------------------------------------------------------
(* What an accessor may do to an entry of the heap.  An array is cut,      *)
(* grows unless it is full, loses an element, has one stored, loses the    *)
(* enumerable element in front of an inherited one (or has it hidden), or  *)
(* gets a named property.                                                  *)
Only(slots, names) == [n \in names |-> slots[n]]
With(slots, n, v) ==
  [m \in DOMAIN slots \cup {n} |->
     IF m = n THEN Slot(v, FALSE) ELSE slots[m]]

ArrayEdits(e) ==
  {ArrayEntry(n, Only(e.slots, DOMAIN e.slots \cap 0 .. n - 1),
              e.listed \cap 0 .. n - 1, e.named)
     : n \in {e.length - 1} \cap Nat}
    \cup {ArrayEntry(n, With(e.slots, e.length, v), e.listed \cup {e.length},
                     e.named)
            : n \in {e.length + 1} \cap U32, v \in StoredValues}
    \cup {[e EXCEPT !.slots = Only(@, DOMAIN @ \ {i}), !.listed = @ \ {i}]
            : i \in DOMAIN e.slots}
    \cup {[e EXCEPT !.slots = With(@, i, v), !.listed = @ \cup {i}]
            : i \in 0 .. e.length - 1, v \in StoredValues}
    \cup {[e EXCEPT !.listed = @ \ {i}] : i \in e.listed}
    \cup {[e EXCEPT !.named = 1]}

Without(names, n) ==
  LET gone == CHOOSE i \in 1 .. Len(names) : names[i] = n
  IN [i \in 1 .. Len(names) - 1 |-> names[IF i < gone THEN i ELSE i + 1]]

ObjectEdits(e) ==
  {[e EXCEPT !.names = Without(@, n),
             !.slots = Only(@, DOMAIN @ \ {n})] : n \in DOMAIN e.slots}
    \cup {[e EXCEPT !.names = IF n \in DOMAIN e.slots THEN @
                              ELSE Append(@, n),
                    !.slots = With(@, n, v)]
            : n \in StoredNames, v \in StoredValues}

Edits(e) ==
  IF e.kind = "array" THEN ArrayEdits(e)
  ELSE IF e.kind = "object" THEN ObjectEdits(e)
  ELSE {[e EXCEPT !.usable = FALSE]}

(* Get(): a getter returns, perhaps after changing an object, or throws.   *)
Get(slot, active) ==
  \/ /\ input' = slot.value /\ mode' = "value" /\ frames' = active
     /\ UNCHANGED <<world, ancestors, error, treeVars, rvars>>
  \/ /\ slot.getter /\ changes < MaxChanges
     /\ \E o \in DOMAIN heap : \E e \in Edits(heap[o]) :
          e # heap[o] /\ heap' = [heap EXCEPT ![o] = e]
     /\ changes' = changes + 1
     /\ input' = slot.value /\ mode' = "value" /\ frames' = active
     /\ UNCHANGED <<path, argument, ancestors, error, treeVars, rvars>>
  \/ slot.getter /\ Throw("getter")

advanced == [frames EXCEPT ![Len(frames)].index = @ + 1]

(* Mutant: ancestors is not popped.                                        *)
leaveAsAncestor ==
  /\ frames' = SubSeq(frames, 1, Len(frames) - 1)
  /\ ancestors' = ancestors
  /\ Proceed(afterValue(frames'))
  /\ UNCHANGED <<world, input>>

leave ==
  /\ frames' = SubSeq(frames, 1, Len(frames) - 1)
  /\ ancestors' = SubSeq(ancestors, 1, Len(ancestors) - 1)
  /\ Proceed(afterValue(frames'))
  /\ UNCHANGED <<world, input>>

-----------------------------------------------------------------------------
(* The array loop: the length is read anew in every round.                 *)
looping(kind) == mode = "loop" /\ scanned.kind = kind

arrayElement ==
  /\ looping("array") /\ top.index < scanned.length
  /\ IF top.index \in DOMAIN scanned.slots
     THEN Get(scanned.slots[top.index], advanced)
     ELSE Throw("sparse")

(* Mutant: named properties are not looked for.                            *)
OnlyElementsAssumed == TRUE

OnlyElements == Cardinality(scanned.listed) + scanned.named
                  = scanned.length

closeArray ==
  /\ looping("array") /\ top.index >= scanned.length
  /\ IF OnlyElements THEN putEnd("array") /\ leave ELSE Throw("named")

(* The object loop: over the names as they were at its start (mutant: as   *)
(* they are now), without those that are gone.                             *)
liveNames == scanned.names
ownNames == top.names

objectKey ==
  /\ looping("object") /\ top.index < Len(ownNames)
  /\ LET name == ownNames[top.index + 1]
     IN IF name = Symbol THEN Throw("symbol")
        ELSE IF name \notin DOMAIN scanned.slots
        THEN /\ frames' = advanced
             /\ UNCHANGED <<world, input, ancestors, mode,
                            error, treeVars, rvars>>
        ELSE /\ putKey(name)
             /\ Proceed("get")
             /\ UNCHANGED <<world, input, frames, ancestors>>

objectGet ==
  /\ mode = "get"
  /\ Get(scanned.slots[ownNames[top.index + 1]], advanced)

closeObject ==
  /\ looping("object") /\ top.index >= Len(ownNames)
  /\ putEnd("object")
  /\ leave

-----------------------------------------------------------------------------
(* Encode(): the worker writes the copy.  next is the child to write, 0    *)
(* before the container is begun.                                          *)
Node(v) == [value |-> v, next |-> 0]

startEncode ==
  /\ mode = "end" /\ path = "async"
  /\ pending' = <<Node(copy)>>
  /\ mode' = "encode"
  /\ UNCHANGED <<world, input, frames, ancestors, error,
                 copying, copy, rvars>>

node == pending[Len(pending)]
kids == node.value.kids
outerPending == SubSeq(pending, 1, Len(pending) - 1)

(* Mutant: the first child is passed over.                                 *)
begunLate ==
  [pending EXCEPT ![Len(pending)].next = IF @ = 0 THEN 2 ELSE @ + 1]

begun == [pending EXCEPT ![Len(pending)].next = @ + 1]
isContainer == node.value.type \in {"array", "object"}

writeBegin ==
  IF ~isContainer
  THEN Recorded(WriteLeaf(node.value)) /\ pending' = outerPending
  ELSE /\ Recorded(IF node.value.type = "array" THEN beginArray(Len(kids))
                 ELSE beginObject)
       /\ pending' = begun

writeChild ==
  /\ pending' = Append(begun, Node(kids[node.next]))
  /\ IF node.value.type = "object"
     THEN Recorded(key(node.value.keys[node.next]))
     ELSE UNCHANGED rvars

writeEnd ==
  /\ Recorded(IF node.value.type = "array" THEN endArray ELSE endObject)
  /\ pending' = outerPending

writeValue ==
  /\ mode = "encode" /\ pending # <<>>
  /\ IF Len(pending) - 1 > MaxDepth
     THEN Throw("native")
     ELSE /\ \/ node.next = 0 /\ writeBegin
             \/ node.next \in 1 .. Len(kids) /\ writeChild
             \/ isContainer /\ node.next > Len(kids) /\ writeEnd
          /\ Proceed("encode")
          /\ UNCHANGED <<world, input, frames, ancestors,
                         copying, copy>>

takeMessage ==
  /\ \/ mode = "end" /\ path = "sync"
     \/ mode = "encode" /\ pending = <<>>
  /\ Recorded(take)
  /\ Proceed("done")
  /\ UNCHANGED <<world, input, frames, ancestors, treeVars>>

-----------------------------------------------------------------------------
TraversalInit ==
  /\ RInit
  /\ path \in {"sync", "async"}
  /\ heap \in Heaps /\ argument \in Roots /\ input = argument
  /\ changes = 0 /\ frames = <<>> /\ ancestors = <<>>
  /\ mode = "value" /\ error = "none"
  /\ copying = <<>> /\ copy = NoValue /\ pending = <<>>

TraversalNext ==
  \/ refuse
  \/ encodeScalar \/ encodeBinary \/ openArray \/ openObject
  \/ arrayElement \/ closeArray
  \/ objectKey \/ objectGet \/ closeObject
  \/ startEncode \/ writeValue \/ takeMessage

TraversalSpec == TraversalInit /\ [][TraversalNext]_tvars

-----------------------------------------------------------------------------
(* Properties.                                                             *)

(* Whatever accessors do, no object is entered while it is being walked,   *)
(* and the recursion stays within the limit.                               *)
WalkIsBounded ==
  /\ Len(frames) <= MaxDepth + 1
  /\ \A i, j \in 1 .. Len(frames) : frames[i].obj = frames[j].obj => i = j

(* The containers under construction.                                      *)
Building == IF path = "sync" THEN open ELSE copying

(* keys are some of the first n names, in their order.                     *)
FollowUpTo(n, keys, names) ==
  \E at \in [1 .. Len(keys) -> 1 .. Len(names)] :
    /\ \A k \in 1 .. Len(keys) : keys[k] = names[at[k]] /\ at[k] <= n
    /\ \A k, l \in 1 .. Len(keys) : k < l => at[k] < at[l]

(* v8-format.md: the writer "snapshots keys before reading values, skips a *)
(* snapshotted property that a previous accessor deleted, and ignores      *)
(* properties added afterward".  Both paths keep to the snapshot's order.  *)
KeysFollowSnapshot ==
  mode \in {"value", "loop", "get"} =>
    \A i \in 1 .. Len(frames) :
      FollowUpTo(frames[i].index + 1, Building[i].keys, frames[i].names)

(* The tree the worker writes is the one CopyValue() made before           *)
(* encodeAsync() returned, whatever accessors did during the copy.         *)
CopyIsWritten == mode = "done" /\ path = "async" => published = <<copy>>

(* A std::exception of the Writer leaves encodeSync() through no handler   *)
(* that would turn it into a JavaScript error.  It takes an accessor that  *)
(* changes the value, or a buffer beyond the uint32 lengths of the format; *)
(* a copied value only fails for its size, and never for its shape or for  *)
(* its depth, which WriteValue() checks once more.                         *)
NativeForCause ==
  error = "native" =>
    \/ path = "sync" /\ changes > 0
    \/ /\ call.thrown = "length_error"
       /\ call.op \in {"arrayBuffer", "arrayBufferView"}
=============================================================================
