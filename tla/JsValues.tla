------------------------------ MODULE JsValues ------------------------------
(***************************************************************************)
(* The JavaScript value a decoded tree stands for, by recursion over the   *)
(* tree, and that decodeSync() and decodeAsync() return just that.         *)
(***************************************************************************)
EXTENDS JsDecode

(* The value a tree stands for, without any order of steps: an object has  *)
(* each name once, at the place where it came first and with the value     *)
(* that came last, "__proto__" like any other.                             *)
Kept(keys) == {i \in 1 .. Len(keys) : \A j \in 1 .. i - 1 : keys[j] # keys[i]}
Nth(S, n) == CHOOSE i \in S : Cardinality({j \in S : j <= i}) = n
LastOf(keys, key) ==
  CHOOSE i \in 1 .. Len(keys) :
    keys[i] = key /\ \A j \in i + 1 .. Len(keys) : keys[j] # key

RECURSIVE StandsFor(_, _)
StandsFor(js, v) ==
  /\ js.type = JsType(v.type)
  /\ CASE v.type = "array" ->
            /\ Len(js.kids) = Len(v.kids)
            /\ \A i \in 1 .. Len(v.kids) : StandsFor(js.kids[i], v.kids[i])
       [] v.type = "object" ->
            /\ Len(js.keys) = Cardinality(Kept(v.keys))
            /\ Len(js.kids) = Len(js.keys)
            /\ \A n \in 1 .. Len(js.keys) :
                 /\ js.keys[n] = v.keys[Nth(Kept(v.keys), n)]
                 /\ StandsFor(js.kids[n], v.kids[LastOf(v.keys, js.keys[n])])
       [] OTHER -> js.data = v.data

BuiltIsDecoded == phase = "returned" => StandsFor(built, value)
=============================================================================
