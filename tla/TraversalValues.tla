--------------------------- MODULE TraversalValues ---------------------------
(***************************************************************************)
(* What the message of a walk must be, by recursion over the heap it is    *)
(* given.                                                                  *)
(***************************************************************************)
EXTENDS Traversal

(* The elements of an array that its enumeration leaves out: they are not  *)
(* enumerable, or a prototype has them.                                    *)
hidden(e) == DOMAIN e.slots \ e.listed

(* Which arrays, plain objects and buffers can be encoded, as far as they  *)
(* themselves go.  An array is told by its elements; it has no named       *)
(* properties, except that as many as it has hidden elements pass          *)
(* unnoticed (NamedPropertiesThrow).                                       *)
describable(e) ==
  IF e.kind = "array"
  THEN DOMAIN e.slots = 0 .. e.length - 1 /\ e.named = Cardinality(hidden(e))
  ELSE IF e.kind = "object" THEN e.plain /\ Symbol \notin DOMAIN e.slots
  ELSE e.usable

(* The values e holds, in the order in which they are encoded.             *)
size(e) == IF e.kind = "array" THEN e.length ELSE Len(e.names)
part(e, i) == e.slots[IF e.kind = "array" THEN i - 1 ELSE e.names[i]].value

(* The tree a value stands for when it may have n levels and trees holds   *)
(* those of the objects.  Like the latter it is a sequence, <<>> if there  *)
(* is no tree.                                                             *)
valueTree(v, n, trees) ==
  IF n = 0 \/ v.type = "symbol" THEN <<>>
  ELSE IF v.type = "ref" THEN trees[v.data[1]] ELSE <<wireScalar(v)>>

containerTree(e, n, trees) ==
  LET kid(i) == valueTree(part(e, i), n, trees)
  IN IF \E i \in 1 .. size(e) : kid(i) = <<>> THEN <<>>
     ELSE <<[type |-> e.kind, data |-> <<>>,
             keys |-> IF e.kind = "array" THEN <<>> ELSE e.names,
             kids |-> [i \in 1 .. size(e) |-> kid(i)[1]]]>>

entryTree(e, n, trees) ==
  IF ~describable(e) THEN <<>>
  ELSE IF e.kind \in {"array", "object"} THEN containerTree(e, n, trees)
  ELSE <<Leaf(e.kind, e.data)>>

(* The trees of the objects that have at most n levels.  A cyclic value    *)
(* has none, however many levels it may have.                              *)
objectTrees[n \in Nat] ==
  [o \in DOMAIN heap |->
     IF n = 0 THEN <<>> ELSE entryTree(heap[o], n - 1, objectTrees[n - 1])]

(* A value of at most n levels; depths 0 to MaxDepth are within the limit. *)
TreeOf(v, n) == valueTree(v, n, objectTrees[n])
Described(v) == TreeOf(v, MaxDepth + 1)

(* While accessors change nothing, a message holds the scalars, elements   *)
(* and properties of the value that was passed in, in their order and at   *)
(* their places, shared objects at each of them; and a value that cannot   *)
(* be encoded never yields a message.                                      *)
EncodedIsInput ==
  mode = "done" /\ changes = 0 =>
    Described(argument) # <<>> /\ published = Described(argument)

(* Conversely nothing that can be encoded is refused; NativeForCause tells *)
(* when the Writer fails.                                                  *)
RefusedForCause ==
  mode = "thrown" /\ changes = 0 /\ error \notin {"getter", "native"} =>
    Described(argument) = <<>>

(* README: "Unsupported writer inputs throw before producing a buffer",    *)
(* named array properties among them.                                      *)
NamedPropertiesThrow ==
  mode = "done" /\ changes = 0 /\ argument.type = "ref" =>
    LET e == heap[argument.data[1]] IN e.kind = "array" => e.named = 0
=============================================================================
