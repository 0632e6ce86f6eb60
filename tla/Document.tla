------------------------------ MODULE Document ------------------------------
(***************************************************************************)
(* What the Writer promises, without bytes: a message is one value tree,   *)
(* built from the outside in by a single caller.  An array is closed with  *)
(* exactly the elements it declared, an object with one value per key, and *)
(* only a finished tree is published.                                      *)
(***************************************************************************)
EXTENDS Wire

CONSTANTS Leaves,   \* the values without parts
          Names,    \* the property keys, as code units
          Lengths   \* the lengths an array may declare

VARIABLES open,      \* the containers under construction, innermost last
          root,      \* the finished tree, or NoValue
          published  \* <<the last tree handed to the caller>>, or <<>>

vars == <<open, root, published>>

(* An open array carries its declared length in data, an open object one   *)
(* key more than values while it waits for a value.                        *)
inner == open[Len(open)]
OpenArray(length) == Leaf("array", <<length>>)
OpenObject == Leaf("object", <<>>)

HasRoom ==
  IF open = <<>> THEN root = NoValue
  ELSE IF inner.type = "array" THEN Len(inner.kids) < inner.data[1]
  ELSE Len(inner.keys) = Len(inner.kids) + 1

Complete ==
  IF inner.type = "array" THEN Len(inner.kids) = inner.data[1]
  ELSE Len(inner.keys) = Len(inner.kids)

finished == [inner EXCEPT !.data = <<>>]
outer == SubSeq(open, 1, Len(open) - 1)

(* A finished value becomes the root or the next part of its container.    *)
Place(v, containers) ==
  IF containers = <<>>
  THEN open' = <<>> /\ root' = v
  ELSE /\ open' = [containers EXCEPT ![Len(containers)].kids = Append(@, v)]
       /\ root' = root

Put(v) == HasRoom /\ Place(v, open) /\ UNCHANGED published

OpenContainer(v) ==
  HasRoom /\ open' = Append(open, v) /\ UNCHANGED <<root, published>>

Name(units) ==
  /\ open # <<>>
  /\ inner.type = "object"
  /\ Complete
  /\ open' = [open EXCEPT ![Len(open)].keys = Append(@, units)]
  /\ UNCHANGED <<root, published>>

Close ==
  open # <<>> /\ Complete /\ Place(finished, outer) /\ UNCHANGED published

(* The tree stays the root after it was published: only Discard makes room *)
(* for another one.                                                        *)
Publish == root # NoValue /\ published' = <<root>> /\ UNCHANGED <<open, root>>

Discard == open' = <<>> /\ root' = NoValue /\ published' = <<>>

Init == open = <<>> /\ root = NoValue /\ published = <<>>

Next ==
  \/ \E v \in Leaves : Put(v)
  \/ OpenContainer(OpenObject)
  \/ \E n \in Lengths : OpenContainer(OpenArray(n))
  \/ \E units \in Names : Name(units)
  \/ Close
  \/ Publish
  \/ Discard

Spec == Init /\ [][Next]_vars
=============================================================================
