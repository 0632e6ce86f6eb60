--------------------------- MODULE TraversalProofs ---------------------------
(***************************************************************************)
(* Proofs about the walk over a JavaScript value: it never enters an       *)
(* object twice at once nor goes beyond the limit, and the keys of an      *)
(* object follow the snapshot of its names, whatever accessors do to the   *)
(* heap in between and whichever of the two paths is taken.                *)
(*                                                                         *)
(* Then what each path does to its Writer: encodeSync() calls it in the    *)
(* order it expects until an accessor changes something; encodeAsync()     *)
(* makes a tree, which the worker writes part by part.                     *)
(*                                                                         *)
(* Last, what the message is: while accessors change nothing, the tree of  *)
(* the value passed in, and whatever has no tree is refused.               *)
(***************************************************************************)
EXTENDS TraversalValues, DataProofs

-----------------------------------------------------------------------------
(* The invariant.  Accessors may change any entry of the heap but never    *)
(* make it point outside.                                                  *)
HeapSound ==
  /\ \A o \in DOMAIN heap : IsEntry(heap[o], DOMAIN heap)
  /\ \A v \in StoredValues \cup {input} : IsValue(v, DOMAIN heap)

(* The loops that are active are those of the ancestors, no two of them    *)
(* over the same object.                                                   *)
Activation(f) ==
  /\ DOMAIN f = {"obj", "index", "names"}
  /\ f.obj \in DOMAIN heap
  /\ f.index \in Nat
  /\ f.names \in Seq(Text)

WalkSound ==
  /\ IsSeq(frames) /\ IsSeq(ancestors) /\ Len(ancestors) = Len(frames)
  /\ Len(frames) <= MaxDepth + 1
  /\ \A i \in 1 .. Len(frames) :
       Activation(frames[i]) /\ ancestors[i] = frames[i].obj
  /\ \A i, j \in 1 .. Len(frames) : frames[i].obj = frames[j].obj => i = j

(* A loop that was left to read a property had found the property there.   *)
ModeSound ==
  /\ mode \in {"loop", "get"} => frames # <<>>
  /\ mode = "get" =>
       /\ top.index < Len(top.names)
       /\ scanned.kind = "object"
       /\ top.names[top.index + 1] \in DOMAIN scanned.slots

(* The containers under construction are those of the loops, and hold the  *)
(* names the loops have been through, in this order.                       *)
Whole(v) == DOMAIN v = {"type", "data", "keys", "kids"} /\ IsSeq(v.keys)
Containers(s) == IsSeq(s) /\ \A i \in 1 .. Len(s) : Whole(s[i])

read(i) ==
  frames[i].index + (IF mode = "get" /\ i = Len(frames) THEN 1 ELSE 0)

walking == mode \in {"value", "loop", "get"}

KeysSound ==
  walking =>
    /\ Containers(Building) /\ Len(Building) = Len(frames)
    /\ \A i \in 1 .. Len(frames) :
         FollowUpTo(read(i), Building[i].keys, frames[i].names)

WalkInv == HeapSound /\ WalkSound /\ ModeSound /\ KeysSound

-----------------------------------------------------------------------------
(* Keys that follow names.                                                 *)

LEMMA NoKeysFollow ==
  ASSUME NEW n, NEW names
  PROVE  FollowUpTo(n, <<>>, names)
<1> DEFINE at == [k \in 1 .. Len(<<>>) |-> 1]
<1>1. Len(<<>>) = 0 /\ 1 .. Len(<<>>) = {}
  OBVIOUS
<1>2. at \in [1 .. Len(<<>>) -> 1 .. Len(names)]
  BY <1>1
<1> QED BY <1>1, <1>2 DEF FollowUpTo

LEMMA KeysFollowFurther ==
  ASSUME NEW n \in Nat, NEW m \in Nat, n <= m, NEW keys, NEW names,
         IsSeq(names), FollowUpTo(n, keys, names)
  PROVE  FollowUpTo(m, keys, names)
<1>1. PICK at \in [1 .. Len(keys) -> 1 .. Len(names)] :
        /\ \A k \in 1 .. Len(keys) : keys[k] = names[at[k]] /\ at[k] <= n
        /\ \A k, l \in 1 .. Len(keys) : k < l => at[k] < at[l]
  BY DEF FollowUpTo
<1>2. \A k \in 1 .. Len(keys) : at[k] \in Nat /\ at[k] <= m
  BY <1>1, SequencesAre
<1> QED BY <1>1, <1>2 DEF FollowUpTo

LEMMA NextKeyFollows ==
  ASSUME NEW n \in Nat, NEW keys, NEW names, IsSeq(keys), IsSeq(names),
         n < Len(names), FollowUpTo(n, keys, names)
  PROVE  FollowUpTo(n + 1, Append(keys, names[n + 1]), names)
<1> DEFINE more == Append(keys, names[n + 1])
<1>1. PICK at \in [1 .. Len(keys) -> 1 .. Len(names)] :
        /\ \A k \in 1 .. Len(keys) : keys[k] = names[at[k]] /\ at[k] <= n
        /\ \A k, l \in 1 .. Len(keys) : k < l => at[k] < at[l]
  BY DEF FollowUpTo
<1>2. /\ Len(keys) \in Nat /\ Len(names) \in Nat
      /\ Len(more) = Len(keys) + 1
      /\ more[Len(keys) + 1] = names[n + 1]
      /\ \A k \in 1 .. Len(keys) : more[k] = keys[k]
  BY SequenceAppended, SequencesAre
<1> HIDE DEF more
<1> DEFINE to == [k \in 1 .. Len(more) |->
                    IF k <= Len(keys) THEN at[k] ELSE n + 1]
<1>3. /\ \A k \in 1 .. Len(keys) : to[k] = at[k] /\ at[k] \in 1 .. Len(names)
      /\ to[Len(keys) + 1] = n + 1
      /\ DOMAIN to = 1 .. Len(more)
  BY <1>1, <1>2
<1>4. \A k \in 1 .. Len(more) : k \in 1 .. Len(keys) \/ k = Len(keys) + 1
  BY <1>2
<1>5. to \in [1 .. Len(more) -> 1 .. Len(names)]
  BY <1>1, <1>2
<1> HIDE DEF to
<1>6. \A k \in 1 .. Len(more) : more[k] = names[to[k]] /\ to[k] <= n + 1
  <2>1. TAKE k \in 1 .. Len(more)
  <2>2. CASE k = Len(keys) + 1
    BY <1>2, <1>3, <2>2
  <2>3. CASE k \in 1 .. Len(keys)
    <3>1. /\ to[k] = at[k] /\ at[k] \in Nat /\ at[k] <= n
          /\ more[k] = keys[k] /\ keys[k] = names[at[k]]
      BY <1>1, <1>2, <1>3, <2>3
    <3> QED BY <3>1
  <2> QED BY <1>4, <2>2, <2>3
<1>7. \A k, l \in 1 .. Len(more) : k < l => to[k] < to[l]
  <2>1. SUFFICES ASSUME NEW k \in 1 .. Len(more), NEW l \in 1 .. Len(more),
                        k < l
                 PROVE  to[k] < to[l]
    OBVIOUS
  <2>2. k \in 1 .. Len(keys)
    BY <1>2, <2>1
  <2>3. CASE l = Len(keys) + 1
    BY <1>1, <1>3, <2>2, <2>3
  <2>4. CASE l \in 1 .. Len(keys)
    BY <1>1, <1>3, <2>1, <2>2, <2>4
  <2> QED BY <1>4, <2>3, <2>4
<1> QED BY <1>5, <1>6, <1>7 DEF FollowUpTo, more

-----------------------------------------------------------------------------
(* Containers under construction.                                          *)

SameKeys(s, t) ==
  /\ Containers(t) /\ Len(t) = Len(s)
  /\ \A i \in 1 .. Len(s) : t[i].keys = s[i].keys

LEMMA PartAdded ==
  ASSUME NEW s, Containers(s), s # <<>>, NEW v
  PROVE  SameKeys(s, [s EXCEPT ![Len(s)].kids = Append(@, v)])
<1> DEFINE c == s[Len(s)]
           d == [c EXCEPT !.kids = Append(@, v)]
           t == [s EXCEPT ![Len(s)] = d]
<1>1. IsSeq(s) /\ Len(s) \in Nat \ {0}
  BY SequencesAre DEF Containers
<1>2. Whole(c)
  BY <1>1 DEF Containers
<1>3. Whole(d) /\ d.keys = c.keys
  BY <1>2 DEF Whole
<1> HIDE DEF d
<1>4. /\ IsSeq(t) /\ Len(t) = Len(s) /\ t[Len(s)] = d
      /\ \A i \in 1 .. Len(s) - 1 : t[i] = s[i]
  BY <1>1, LastReplaced
<1> HIDE DEF t
<1>5. \A i \in 1 .. Len(s) : Whole(t[i]) /\ t[i].keys = s[i].keys
  <2>1. TAKE i \in 1 .. Len(s)
  <2>2. CASE i = Len(s)
    BY <1>3, <1>4, <2>2
  <2>3. CASE i \in 1 .. Len(s) - 1
    BY <1>4, <2>3 DEF Containers
  <2> QED BY <1>1, <2>2, <2>3
<1>6. SameKeys(s, t)
  BY <1>4, <1>5 DEF SameKeys, Containers
<1> QED BY <1>6 DEF t, d

Keyed(s, t, name) ==
  /\ Containers(t) /\ Len(t) = Len(s)
  /\ t[Len(s)].keys = Append(s[Len(s)].keys, name)
  /\ \A i \in 1 .. Len(s) - 1 : t[i].keys = s[i].keys

LEMMA KeyAdded ==
  ASSUME NEW s, Containers(s), s # <<>>, NEW name
  PROVE  Keyed(s, [s EXCEPT ![Len(s)].keys = Append(@, name)], name)
<1> DEFINE c == s[Len(s)]
           d == [c EXCEPT !.keys = Append(@, name)]
           t == [s EXCEPT ![Len(s)] = d]
<1>1. IsSeq(s) /\ Len(s) \in Nat \ {0}
  BY SequencesAre DEF Containers
<1>2. Whole(c)
  BY <1>1 DEF Containers
<1>3. Whole(d) /\ d.keys = Append(c.keys, name)
  BY <1>2, SequenceAppended DEF Whole
<1> HIDE DEF d
<1>4. /\ IsSeq(t) /\ Len(t) = Len(s) /\ t[Len(s)] = d
      /\ \A i \in 1 .. Len(s) - 1 : t[i] = s[i]
  BY <1>1, LastReplaced
<1> HIDE DEF t
<1>5. \A i \in 1 .. Len(s) : Whole(t[i])
  <2>1. TAKE i \in 1 .. Len(s)
  <2>2. CASE i = Len(s)
    BY <1>3, <1>4, <2>2
  <2>3. CASE i \in 1 .. Len(s) - 1
    BY <1>4, <2>3 DEF Containers
  <2> QED BY <1>1, <2>2, <2>3
<1>6. \A i \in 1 .. Len(s) - 1 : t[i].keys = s[i].keys
  BY <1>4
<1>7. Keyed(s, t, name)
  BY <1>3, <1>4, <1>5, <1>6 DEF Keyed, Containers
<1> QED BY <1>7 DEF t, d

LEMMA ContainerAdded ==
  ASSUME NEW s, Containers(s), NEW type, NEW data
  PROVE  LET t == Append(s, Leaf(type, data))
         IN  /\ Containers(t) /\ Len(t) = Len(s) + 1
             /\ t[Len(s) + 1].keys = <<>>
             /\ \A i \in 1 .. Len(s) : t[i].keys = s[i].keys
<1> DEFINE v == Leaf(type, data)
           t == Append(s, v)
<1>1. Whole(v) /\ v.keys = <<>>
  <2>1. <<>> \in Seq({})
    OBVIOUS
  <2> QED BY <2>1, SequencesAre DEF Whole, Leaf
<1> HIDE DEF v
<1>2. IsSeq(s) /\ Len(s) \in Nat
  BY SequencesAre DEF Containers
<1>3. /\ IsSeq(t) /\ Len(t) = Len(s) + 1 /\ t[Len(s) + 1] = v
      /\ \A i \in 1 .. Len(s) : t[i] = s[i]
  BY <1>2, SequenceAppended
<1> HIDE DEF t
<1>4. \A i \in 1 .. Len(s) + 1 : Whole(t[i])
  <2>1. TAKE i \in 1 .. Len(s) + 1
  <2>2. CASE i = Len(s) + 1
    BY <1>1, <1>3, <2>2
  <2>3. CASE i \in 1 .. Len(s)
    BY <1>3, <2>3 DEF Containers
  <2> QED BY <1>2, <2>2, <2>3
<1> QED BY <1>1, <1>3, <1>4 DEF Containers, t, v

LEMMA ContainerRemoved ==
  ASSUME NEW s, Containers(s), s # <<>>
  PROVE  LET t == SubSeq(s, 1, Len(s) - 1)
         IN  /\ Containers(t) /\ Len(t) = Len(s) - 1
             /\ \A i \in 1 .. Len(t) : t[i].keys = s[i].keys
<1> DEFINE t == SubSeq(s, 1, Len(s) - 1)
<1>1. IsSeq(s) /\ Len(s) \in Nat \ {0}
  BY SequencesAre DEF Containers
<1>2. IsSeq(t) /\ Len(t) = Len(s) - 1 /\ \A i \in 1 .. Len(t) : t[i] = s[i]
  BY <1>1, SequenceShortened
<1> HIDE DEF t
<1>3. \A i \in 1 .. Len(t) : Whole(t[i]) /\ t[i].keys = s[i].keys
  BY <1>1, <1>2 DEF Containers
<1> QED BY <1>2, <1>3 DEF Containers, t

-----------------------------------------------------------------------------
(* What the calls of a walk do to the containers, on either path.          *)

LEMMA RefusedOrWritten ==
  ASSUME NEW op, NEW arg, NEW raw, NEW pushed, Write(op, arg, raw, pushed)
  PROVE  call'.op = op /\ call'.arg = arg
BY DEF Write, Refuse, Call

LEMMA LeafCalled ==
  ASSUME NEW v, WriteLeaf(v)
  PROVE  call'.op \in LeafMethods
<1>1. ASSUME NEW op, NEW arg, NEW raw, Write(op, arg, raw, <<>>)
      PROVE  call'.op = op
  BY <1>1, RefusedOrWritten
<1>2. CASE undefined \/ null
  BY <1>1, <1>2 DEF undefined, null, scalar, LeafMethods
<1>3. CASE boolean(v.data = <<1>>)
  BY <1>1, <1>3 DEF boolean, LeafMethods
<1>4. CASE int32(v.data[1])
  BY <1>1, <1>4 DEF int32, LeafMethods
<1>5. CASE number(v.data)
  BY <1>1, <1>5 DEF number, LeafMethods
<1>6. CASE date(v.data)
  BY <1>1, <1>6 DEF date, LeafMethods
<1>7. CASE string16(v.data)
  BY <1>1, <1>7 DEF string16, LeafMethods
<1>8. CASE arrayBuffer(binary(v))
  BY <1>1, <1>8 DEF arrayBuffer, LeafMethods
<1>9. CASE arrayBufferView(v.type, binary(v))
  BY <1>1, <1>9 DEF arrayBufferView, Refuse, Call, LeafMethods
<1> QED BY <1>2, <1>3, <1>4, <1>5, <1>6, <1>7, <1>8, <1>9 DEF WriteLeaf

LEMMA EmptyContainers ==
  SameKeys(<<>>, <<>>) /\ \A s : Containers(s) => (s = <<>> <=> Len(s) = 0)
<1>1. <<>> \in Seq({}) /\ Len(<<>>) = 0 /\ 1 .. 0 = {}
  OBVIOUS
<1>2. IsSeq(<<>>)
  BY <1>1, SequencesAre
<1>3. Containers(<<>>)
  BY <1>1, <1>2 DEF Containers
<1>4. SameKeys(<<>>, <<>>)
  BY <1>1, <1>3 DEF SameKeys
<1>5. \A s : Containers(s) => (s = <<>> <=> Len(s) = 0)
  BY SequencesAre DEF Containers
<1> QED BY <1>4, <1>5

(* A value is placed in the innermost container, if there is one.          *)
LEMMA LeafPut ==
  ASSUME NEW v, Containers(Building), path' = path, putLeaf(v),
         call'.thrown = "none"
  PROVE  SameKeys(Building, Building')
<1>1. CASE path = "sync"
  <2>1. /\ call'.op \in LeafMethods /\ Follow
        /\ Building = open /\ Building' = open'
    BY <1>1, LeafCalled DEF putLeaf, Recorded, Building
  <2>2. D!Place(call'.arg, open)
    BY <2>1 DEF Follow, LeafMethods
  <2>3. CASE open = <<>>
    BY <2>1, <2>2, <2>3, EmptyContainers DEF D!Place
  <2>4. CASE open # <<>>
    <3>1. Building' = [open EXCEPT ![Len(open)].kids = Append(@, call'.arg)]
      BY <2>1, <2>2, <2>4 DEF D!Place
    <3>2. Containers(open)
      BY <2>1
    <3>3. SameKeys(open, Building')
      BY ONLY <2>4, <3>1, <3>2, PartAdded, Zenon
    <3> QED BY <2>1, <3>3
  <2> QED BY <2>3, <2>4
<1>2. CASE path # "sync"
  <2>1. Placed(v, copying) /\ Building = copying /\ Building' = copying'
    BY <1>2 DEF putLeaf, Building
  <2>2. CASE copying = <<>>
    BY <2>1, <2>2, EmptyContainers DEF Placed
  <2>3. CASE copying # <<>>
    <3>1. Building' = [copying EXCEPT ![Len(copying)].kids = Append(@, v)]
      BY <2>1, <2>3 DEF Placed
    <3>2. Containers(copying)
      BY <2>1
    <3>3. SameKeys(copying, Building')
      BY ONLY <2>3, <3>1, <3>2, PartAdded, Zenon
    <3> QED BY <2>1, <3>3
  <2> QED BY <2>2, <2>3
<1> QED BY <1>1, <1>2

Begun(s, t) ==
  /\ Containers(t) /\ Len(t) = Len(s) + 1
  /\ t[Len(s) + 1].keys = <<>>
  /\ \A i \in 1 .. Len(s) : t[i].keys = s[i].keys

LEMMA ContainerPut ==
  ASSUME Containers(Building), path' = path, call'.thrown = "none",
         putObject \/ \E n : putArray(n)
  PROVE  Begun(Building, Building')
<1>1. CASE path = "sync"
  <2>1. PICK type, data : /\ call'.op \in {"beginObject", "beginArray"}
                          /\ call'.arg = Leaf(type, data)
    <3>1. CASE putObject
      <4>1. beginObject
        BY <1>1, <3>1 DEF putObject, Recorded
      <4>2. call'.op = "beginObject" /\ call'.arg = Leaf("object", <<>>)
        BY <4>1, RefusedOrWritten DEF beginObject
      <4> QED BY <4>2
    <3>2. ASSUME NEW n, putArray(n)
          PROVE  \E m : call'.op = "beginArray"
                         /\ call'.arg = Leaf("array", <<m>>)
      <4>1. beginArray(n)
        BY <1>1, <3>2 DEF putArray, Recorded
      <4> QED BY <4>1, RefusedOrWritten DEF beginArray
    <3>3. CASE \E n : putArray(n)
      <4>1. PICK m : call'.op = "beginArray"
                     /\ call'.arg = Leaf("array", <<m>>)
        BY <3>2, <3>3, Zenon
      <4> QED BY <4>1
    <3> QED BY <3>1, <3>3
  <2>2. Follow /\ Building = open /\ Building' = open'
    BY <1>1 DEF putObject, putArray, Recorded, Building
  <2>3. open' = Append(open, Leaf(type, data))
    BY <2>1, <2>2 DEF Follow
  <2> QED BY <2>2, <2>3, ContainerAdded DEF Begun
<1>2. CASE path # "sync"
  <2>1. PICK type : copying' = Append(copying, Leaf(type, <<>>))
    BY <1>2 DEF putObject, putArray
  <2>2. Building = copying /\ Building' = copying'
    BY <1>2 DEF Building
  <2> QED BY <2>1, <2>2, ContainerAdded DEF Begun
<1> QED BY <1>1, <1>2

LEMMA KeyPut ==
  ASSUME NEW name, Containers(Building), Building # <<>>, path' = path,
         putKey(name), call'.thrown = "none"
  PROVE  Keyed(Building, Building', name)
<1>1. CASE path = "sync"
  <2>1. call'.op = "key" /\ call'.arg = Leaf("string", name)
    BY <1>1 DEF putKey, Recorded, key, Refuse, Call
  <2>2. Follow /\ Building = open /\ Building' = open'
    BY <1>1 DEF putKey, Recorded, Building
  <2>3. call'.arg.data = name
    BY <2>1 DEF Leaf
  <2>4. open' = [open EXCEPT ![Len(open)].keys = Append(@, name)]
    BY <2>1, <2>2, <2>3 DEF Follow
  <2>5. Building' = [open EXCEPT ![Len(open)].keys = Append(@, name)]
    BY <2>2, <2>4
  <2>6. Containers(open) /\ open # <<>>
    BY <2>2
  <2>7. Keyed(open, Building', name)
    BY ONLY <2>5, <2>6, KeyAdded, Zenon
  <2> QED BY <2>2, <2>7
<1>2. CASE path # "sync"
  <2>1. copying' = [copying EXCEPT ![Len(copying)].keys = Append(@, name)]
    BY <1>2 DEF putKey
  <2>2. Building = copying /\ Building' = copying'
    BY <1>2 DEF Building
  <2>3. Building' = [copying EXCEPT ![Len(copying)].keys = Append(@, name)]
    BY <2>1, <2>2
  <2>4. Containers(copying) /\ copying # <<>>
    BY <2>2
  <2>5. Keyed(copying, Building', name)
    BY ONLY <2>3, <2>4, KeyAdded, Zenon
  <2> QED BY <2>2, <2>5
<1> QED BY <1>1, <1>2

(* A container is finished: its value is placed in the one around it.      *)
Ended(s, t) ==
  /\ Containers(t) /\ Len(t) = Len(s) - 1
  /\ \A i \in 1 .. Len(t) : t[i].keys = s[i].keys

LEMMA EndPut ==
  ASSUME NEW type, Containers(Building), Building # <<>>, path' = path,
         putEnd(type), call'.thrown = "none"
  PROVE  Ended(Building, Building')
<1> DEFINE s == Building
           rest == SubSeq(s, 1, Len(s) - 1)
<1>1. \/ rest = <<>> /\ Building' = <<>>
      \/ /\ rest # <<>>
         /\ \E v : Building' = [rest EXCEPT ![Len(rest)].kids = Append(@, v)]
  <2>1. CASE path = "sync"
    <3>1. call'.op \in {"endObject", "endArray"}
      BY <2>1 DEF putEnd, Recorded, endObject, endArray, End, Refuse, Call
    <3>2. Follow /\ s = open /\ Building' = open'
      BY <2>1 DEF putEnd, Recorded, Building
    <3>3. D!Place(D!finished, D!outer) /\ D!outer = rest
      BY <3>1, <3>2 DEF Follow, D!outer
    <3> HIDE DEF s, rest
    <3> QED BY <3>2, <3>3 DEF D!Place
  <2>2. CASE path # "sync"
    <3>1. Placed(innerCopy, rest) /\ Building' = copying'
      BY <2>2 DEF putEnd, Building
    <3> HIDE DEF s, rest
    <3> QED BY <3>1 DEF Placed
  <2> QED BY <2>1, <2>2
<1>2. /\ Containers(rest) /\ Len(rest) = Len(s) - 1
      /\ \A i \in 1 .. Len(rest) : rest[i].keys = s[i].keys
  BY ContainerRemoved
<1> HIDE DEF rest
<1>3. SameKeys(rest, Building')
  <2>1. CASE rest = <<>> /\ Building' = <<>>
    BY <2>1, EmptyContainers
  <2>2. ASSUME rest # <<>>, NEW v,
               Building' = [rest EXCEPT ![Len(rest)].kids = Append(@, v)]
        PROVE  SameKeys(rest, Building')
    BY ONLY <1>2, <2>2, PartAdded
  <2> QED BY <1>1, <2>1, <2>2
<1> HIDE DEF s
<1>4. Ended(s, Building')
  BY <1>2, <1>3 DEF SameKeys, Ended
<1> QED BY <1>4 DEF s
-----------------------------------------------------------------------------
(* An accessor leaves a sound entry sound.                                 *)

SlotsSound(slots, objects) ==
  \A n \in DOMAIN slots : IsValue(slots[n].value, objects)

LEMMA SlotsKept ==
  ASSUME NEW slots, NEW O, SlotsSound(slots, O)
  PROVE  /\ \A names \in SUBSET DOMAIN slots : SlotsSound(Only(slots, names), O)
         /\ \A n, v : IsValue(v, O) => SlotsSound(With(slots, n, v), O)
<1>1. ASSUME NEW names \in SUBSET DOMAIN slots
      PROVE  SlotsSound(Only(slots, names), O)
  BY <1>1 DEF SlotsSound, Only
<1>2. ASSUME NEW n, NEW v, IsValue(v, O)
      PROVE  SlotsSound(With(slots, n, v), O)
  BY <1>2 DEF SlotsSound, With, Slot
<1> QED BY <1>1, <1>2

BinarySound(kind, data) ==
  /\ kind \in {"arrayBuffer"} \cup ViewType
  /\ data \in Seq(Int)
  /\ kind \in ViewType => Len(data) % elementSize[kind] = 0

LEMMA EntryParts ==
  ASSUME NEW e, NEW O
  PROVE  /\ e.kind = "array" =>
              (IsEntry(e, O) <=>
                 /\ DOMAIN e = {"kind", "slots", "length", "listed", "named"}
                 /\ SlotsSound(e.slots, O)
                 /\ e.length \in U32 /\ e.named \in Nat)
         /\ e.kind = "object" =>
              (IsEntry(e, O) <=>
                 /\ DOMAIN e = {"kind", "slots", "names", "plain"}
                 /\ SlotsSound(e.slots, O) /\ e.names \in Seq(Text))
         /\ e.kind \notin {"array", "object"} =>
              (IsEntry(e, O) <=>
                 /\ DOMAIN e = {"kind", "data", "usable"}
                 /\ BinarySound(e.kind, e.data))
<1>1. CASE e.kind = "array"
  <2>1. {"kind", "slots"} \cup {"length", "listed", "named"}
          = {"kind", "slots", "length", "listed", "named"}
    OBVIOUS
  <2> QED BY <1>1, <2>1, Zenon DEF IsEntry, SlotsSound
<1>2. CASE e.kind = "object"
  <2>1. /\ {"kind", "slots"} \cup {"names", "plain"}
             = {"kind", "slots", "names", "plain"}
        /\ e.kind # "array"
    BY <1>2
  <2> QED BY <1>2, <2>1, Zenon DEF IsEntry, SlotsSound
<1>3. CASE e.kind \notin {"array", "object"}
  BY <1>3, Zenon DEF IsEntry, BinarySound
<1> QED BY <1>1, <1>2, <1>3

LEMMA NamesWithout ==
  ASSUME NEW T, NEW names \in Seq(T), NEW n
  PROVE  Without(names, n) \in Seq(T)
<1> DEFINE gone == CHOOSE i \in 1 .. Len(names) : names[i] = n
           kept(i) == IF i < gone THEN i ELSE i + 1
<1>1. Len(names) \in Nat
  OBVIOUS
<1>2. PICK m \in Nat : 1 .. m = 1 .. Len(names) - 1
  <2>1. CASE Len(names) = 0
    BY <2>1
  <2>2. CASE Len(names) # 0
    BY <1>1, <2>2
  <2> QED BY <2>1, <2>2
<1> HIDE DEF gone
<1>3. \A i \in 1 .. Len(names) - 1 : kept(i) \in 1 .. Len(names)
  BY <1>1
<1> HIDE DEF kept
<1>4. [i \in 1 .. m |-> names[kept(i)]] \in [1 .. m -> T]
  BY <1>2, <1>3
<1>5. Without(names, n) = [i \in 1 .. m |-> names[kept(i)]]
  BY <1>2 DEF Without, gone, kept
<1> QED BY <1>4, <1>5, SeqDef

LEMMA EditKeeps ==
  ASSUME NEW e, NEW O, IsEntry(e, O),
         \A v \in StoredValues : IsValue(v, O),
         NEW f \in Edits(e)
  PROVE  IsEntry(f, O) /\ f.kind = e.kind
<1>1. CASE e.kind = "array"
  <2>1. /\ DOMAIN e = {"kind", "slots", "length", "listed", "named"}
        /\ SlotsSound(e.slots, O) /\ e.length \in U32 /\ e.named \in Nat
    BY <1>1, EntryParts
  <2>2. f \in ArrayEdits(e)
    BY <1>1 DEF Edits
  <2> DEFINE Fine(g) == /\ g.kind = "array"
                        /\ DOMAIN g = {"kind", "slots", "length", "listed", "named"}
                        /\ SlotsSound(g.slots, O)
                        /\ g.length \in U32 /\ g.named \in Nat
  <2>3. ASSUME NEW n \in {e.length - 1} \cap Nat,
               f = ArrayEntry(n, Only(e.slots, DOMAIN e.slots \cap 0 .. n - 1),
                              e.listed \cap 0 .. n - 1, e.named)
        PROVE  Fine(f)
    <3>1. SlotsSound(Only(e.slots, DOMAIN e.slots \cap 0 .. n - 1), O)
      BY <2>1, SlotsKept
    <3>2. n \in U32
      <4>1. U32Max \in Int
        BY Widths, SMT DEF U32Max
      <4> QED BY <2>1, <2>3, <4>1 DEF U32
    <3> QED BY <2>1, <2>3, <3>1, <3>2 DEF ArrayEntry
  <2>4. ASSUME NEW n \in {e.length + 1} \cap U32, NEW v \in StoredValues,
               f = ArrayEntry(n, With(e.slots, e.length, v),
                              e.listed \cup {e.length}, e.named)
        PROVE  Fine(f)
    <3>1. SlotsSound(With(e.slots, e.length, v), O)
      BY <2>1, SlotsKept
    <3> QED BY <2>1, <2>4, <3>1 DEF ArrayEntry
  <2>5. ASSUME NEW i \in DOMAIN e.slots,
               f = [e EXCEPT !.slots = Only(@, DOMAIN @ \ {i}),
                             !.listed = @ \ {i}]
        PROVE  Fine(f)
    <3>1. SlotsSound(Only(e.slots, DOMAIN e.slots \ {i}), O)
      BY <2>1, SlotsKept
    <3>2. f.slots = Only(e.slots, DOMAIN e.slots \ {i})
      BY <2>1, <2>5
    <3> QED BY <1>1, <2>1, <2>5, <3>1, <3>2
  <2>6. ASSUME NEW i, NEW v \in StoredValues,
               f = [e EXCEPT !.slots = With(@, i, v), !.listed = @ \cup {i}]
        PROVE  Fine(f)
    <3>1. SlotsSound(With(e.slots, i, v), O)
      BY <2>1, SlotsKept
    <3>2. f.slots = With(e.slots, i, v)
      BY <2>1, <2>6
    <3> QED BY <1>1, <2>1, <2>6, <3>1, <3>2
  <2>7. ASSUME f = [e EXCEPT !.named = 1] PROVE Fine(f)
    BY <1>1, <2>1, <2>7
  <2>7a. ASSUME NEW i \in e.listed, f = [e EXCEPT !.listed = @ \ {i}]
         PROVE  Fine(f)
    BY <1>1, <2>1, <2>7a
  <2> HIDE DEF Fine
  <2> DEFINE Shorter(n) ==
               ArrayEntry(n, Only(e.slots, DOMAIN e.slots \cap 0 .. n - 1),
                          e.listed \cap 0 .. n - 1, e.named)
             Longer(n, v) ==
               ArrayEntry(n, With(e.slots, e.length, v),
                          e.listed \cup {e.length}, e.named)
             Sparse(i) == [e EXCEPT !.slots = Only(@, DOMAIN @ \ {i}),
                                    !.listed = @ \ {i}]
             Set(i, v) == [e EXCEPT !.slots = With(@, i, v),
                                    !.listed = @ \cup {i}]
             Hidden(i) == [e EXCEPT !.listed = @ \ {i}]
  <2>8. /\ \A n \in {e.length - 1} \cap Nat : f = Shorter(n) => Fine(f)
        /\ \A n \in {e.length + 1} \cap U32 : \A v \in StoredValues :
             f = Longer(n, v) => Fine(f)
        /\ \A i \in DOMAIN e.slots : f = Sparse(i) => Fine(f)
        /\ \A i : \A v \in StoredValues : f = Set(i, v) => Fine(f)
        /\ \A i \in e.listed : f = Hidden(i) => Fine(f)
    BY <2>3, <2>4, <2>5, <2>6, <2>7a, Zenon
  <2>9. f \in {Shorter(n) : n \in {e.length - 1} \cap Nat}
               \cup {Longer(n, v) : n \in {e.length + 1} \cap U32,
                                    v \in StoredValues}
               \cup {Sparse(i) : i \in DOMAIN e.slots}
               \cup {Set(i, v) : i \in 0 .. e.length - 1, v \in StoredValues}
               \cup {Hidden(i) : i \in e.listed}
               \cup {[e EXCEPT !.named = 1]}
    BY <2>2, PTL DEF ArrayEdits
  <2> HIDE DEF Shorter, Longer, Sparse, Set, Hidden
  <2>10. Fine(f)
    BY <2>7, <2>8, <2>9
  <2> QED BY <1>1, <2>10, EntryParts DEF Fine
<1>2. CASE e.kind = "object"
  <2>1. /\ DOMAIN e = {"kind", "slots", "names", "plain"}
        /\ SlotsSound(e.slots, O) /\ e.names \in Seq(Text)
    BY <1>2, EntryParts
  <2>2. f \in ObjectEdits(e)
    BY <1>2 DEF Edits
  <2> DEFINE Fine(g) == /\ g.kind = "object"
                        /\ DOMAIN g = {"kind", "slots", "names", "plain"}
                        /\ SlotsSound(g.slots, O) /\ g.names \in Seq(Text)
  <2>3. ASSUME NEW n \in DOMAIN e.slots,
               f = [e EXCEPT !.names = Without(@, n),
                             !.slots = Only(@, DOMAIN @ \ {n})]
        PROVE  Fine(f)
    <3>1. SlotsSound(Only(e.slots, DOMAIN e.slots \ {n}), O)
      BY <2>1, SlotsKept
    <3>2. /\ f.slots = Only(e.slots, DOMAIN e.slots \ {n})
          /\ f.names = Without(e.names, n)
      BY <2>1, <2>3
    <3> QED BY <1>2, <2>1, <2>3, <3>1, <3>2, NamesWithout
  <2>4. ASSUME NEW n \in StoredNames, NEW v \in StoredValues,
               f = [e EXCEPT !.names = IF n \in DOMAIN e.slots THEN @
                                       ELSE Append(@, n),
                             !.slots = With(@, n, v)]
        PROVE  Fine(f)
    <3>1. SlotsSound(With(e.slots, n, v), O)
      BY <2>1, SlotsKept
    <3>2. /\ f.slots = With(e.slots, n, v)
          /\ f.names = e.names \/ f.names = Append(e.names, n)
      BY <2>1, <2>4
    <3>3. f.names \in Seq(Text)
      <4>1. n \in Text
        BY ONLY TraversalAssumption, n \in StoredNames, Zenon
               DEF TraversalAssumption
      <4> HIDE DEF IsValue
      <4>2. Append(e.names, n) \in Seq(Text)
        BY ONLY <2>1, <4>1
      <4> QED BY <2>1, <3>2, <4>2
    <3> QED BY <1>2, <2>1, <2>4, <3>1, <3>2, <3>3
  <2> HIDE DEF Fine
  <2> DEFINE Fewer(n) ==
               [e EXCEPT !.names = Without(@, n),
                         !.slots = Only(@, DOMAIN @ \ {n})]
             Set(n, v) ==
               [e EXCEPT !.names = IF n \in DOMAIN e.slots THEN @
                                   ELSE Append(@, n),
                         !.slots = With(@, n, v)]
  <2>5. /\ \A n \in DOMAIN e.slots : f = Fewer(n) => Fine(f)
        /\ \A n \in StoredNames : \A v \in StoredValues :
             f = Set(n, v) => Fine(f)
    BY <2>3, <2>4, Zenon
  <2>6. f \in {Fewer(n) : n \in DOMAIN e.slots}
               \cup {Set(n, v) : n \in StoredNames, v \in StoredValues}
    BY <2>2, PTL DEF ObjectEdits
  <2> HIDE DEF Fewer, Set
  <2>7. Fine(f)
    BY <2>5, <2>6
  <2> QED BY <1>2, <2>7, EntryParts DEF Fine
<1>3. CASE e.kind \notin {"array", "object"}
  <2>1. DOMAIN e = {"kind", "data", "usable"} /\ BinarySound(e.kind, e.data)
    BY <1>3, EntryParts
  <2>2. f = [e EXCEPT !.usable = FALSE]
    BY <1>3 DEF Edits
  <2>3. /\ DOMAIN f = {"kind", "data", "usable"}
        /\ f.kind = e.kind /\ f.data = e.data
    BY <2>1, <2>2
  <2> QED BY <1>3, <2>1, <2>3, EntryParts
<1> QED BY <1>1, <1>2, <1>3
-----------------------------------------------------------------------------
(* What a step does to the loops.                                          *)

LEMMA HeapStays ==
  ASSUME HeapSound, UNCHANGED <<heap, input>>
  PROVE  HeapSound'
BY DEF HeapSound

LEMMA WalkStays ==
  ASSUME WalkSound, UNCHANGED <<frames, ancestors>>, DOMAIN heap' = DOMAIN heap
  PROVE  WalkSound'
BY DEF WalkSound, Activation

LEMMA KeysStay ==
  ASSUME WalkSound, KeysSound, mode = "value", UNCHANGED frames,
         mode' \in {"value", "loop", "end", "thrown"},
         walking' => SameKeys(Building, Building')
  PROVE  KeysSound'
<1>1. SUFFICES ASSUME walking'
               PROVE  /\ Containers(Building') /\ Len(Building') = Len(frames)
                      /\ \A i \in 1 .. Len(frames) :
                           FollowUpTo(read(i)', Building'[i].keys,
                                      frames[i].names)
  BY DEF KeysSound
<1>2. /\ Containers(Building) /\ Len(Building) = Len(frames)
      /\ \A i \in 1 .. Len(frames) :
           FollowUpTo(read(i), Building[i].keys, frames[i].names)
  BY DEF KeysSound, walking
<1>3. SameKeys(Building, Building')
  BY <1>1
<1>4. \A i \in 1 .. Len(frames) : read(i)' = read(i)
  BY <1>1 DEF read, walking
<1> HIDE DEF read, Building
<1> QED BY <1>2, <1>3, <1>4 DEF SameKeys

LEMMA KeysUnused ==
  ASSUME mode' \notin {"value", "loop", "get"}
  PROVE  KeysSound'
BY DEF KeysSound, walking

LEMMA AdvancedFrames ==
  ASSUME WalkSound, frames # <<>>
  PROVE  /\ IsSeq(advanced) /\ Len(advanced) = Len(frames)
         /\ \A i \in 1 .. Len(frames) :
              /\ DOMAIN advanced[i] = DOMAIN frames[i]
              /\ advanced[i].obj = frames[i].obj
              /\ advanced[i].names = frames[i].names
              /\ advanced[i].index =
                   frames[i].index + (IF i = Len(frames) THEN 1 ELSE 0)
<1> DEFINE f == [top EXCEPT !.index = @ + 1]
           t == [frames EXCEPT ![Len(frames)] = f]
<1>1. IsSeq(frames) /\ Len(frames) \in Nat \ {0}
  BY SequencesAre DEF WalkSound
<1>2. Len(frames) \in 1 .. Len(frames) /\ Activation(top)
  BY <1>1 DEF WalkSound, top
<1>3. /\ DOMAIN f = DOMAIN top /\ f.obj = top.obj /\ f.names = top.names
      /\ f.index = top.index + 1
  BY <1>2 DEF Activation
<1> HIDE DEF f
<1>4. /\ IsSeq(t) /\ Len(t) = Len(frames) /\ t[Len(frames)] = f
      /\ \A i \in 1 .. Len(frames) - 1 : t[i] = frames[i]
  BY <1>1, LastReplaced
<1>5. advanced = t
  BY DEF advanced, t, f, top
<1> HIDE DEF t
<1>6. ASSUME NEW i \in 1 .. Len(frames)
      PROVE  /\ DOMAIN t[i] = DOMAIN frames[i]
             /\ t[i].obj = frames[i].obj
             /\ t[i].names = frames[i].names
             /\ t[i].index =
                  frames[i].index + (IF i = Len(frames) THEN 1 ELSE 0)
  <2>1. CASE i = Len(frames)
    BY <1>3, <1>4, <2>1 DEF top
  <2>2. CASE i # Len(frames)
    <3>1. frames[i].index \in Nat
      BY DEF WalkSound, Activation
    <3>2. t[i] = frames[i]
      BY <1>1, <1>4, <2>2
    <3> QED BY <2>2, <3>1, <3>2
  <2> QED BY <2>1, <2>2
<1> QED BY <1>4, <1>5, <1>6

LEMMA WalkAdvances ==
  ASSUME WalkSound, frames # <<>>, frames' = advanced, UNCHANGED ancestors,
         DOMAIN heap' = DOMAIN heap
  PROVE  WalkSound'
<1>1. /\ IsSeq(frames') /\ Len(frames') = Len(frames)
      /\ \A i \in 1 .. Len(frames) :
           /\ DOMAIN frames'[i] = DOMAIN frames[i]
           /\ frames'[i].obj = frames[i].obj
           /\ frames'[i].names = frames[i].names
           /\ frames'[i].index =
                frames[i].index + (IF i = Len(frames) THEN 1 ELSE 0)
  BY AdvancedFrames
<1>2. ASSUME NEW i \in 1 .. Len(frames)
      PROVE  Activation(frames[i])' /\ ancestors'[i] = frames'[i].obj
  <2>1. Activation(frames[i]) /\ ancestors[i] = frames[i].obj
    BY DEF WalkSound
  <2> QED BY <1>1, <2>1 DEF Activation
<1>3. \A i, j \in 1 .. Len(frames) : frames'[i].obj = frames'[j].obj => i = j
  BY <1>1 DEF WalkSound
<1> QED BY <1>1, <1>2, <1>3 DEF WalkSound

LEMMA KeysAdvance ==
  ASSUME WalkSound, KeysSound, frames # <<>>, frames' = advanced,
         mode \in {"loop", "get"}, mode' \in {"value", "loop"},
         UNCHANGED <<path, open, copying>>
  PROVE  KeysSound'
<1>1. /\ Len(frames') = Len(frames)
      /\ \A i \in 1 .. Len(frames) :
           /\ frames'[i].names = frames[i].names
           /\ frames'[i].index =
                frames[i].index + (IF i = Len(frames) THEN 1 ELSE 0)
  BY AdvancedFrames
<1>2. \A i \in 1 .. Len(frames) :
        frames[i].index \in Nat /\ IsSeq(frames[i].names)
  BY SequencesAre DEF WalkSound, Activation
<1>3. Building' = Building
  BY DEF Building
<1>4. /\ Containers(Building) /\ Len(Building) = Len(frames)
      /\ \A i \in 1 .. Len(frames) :
           FollowUpTo(read(i), Building[i].keys, frames[i].names)
  BY DEF KeysSound, walking
<1> HIDE DEF Building
<1>5. ASSUME NEW i \in 1 .. Len(frames)
      PROVE  FollowUpTo(read(i)', Building[i].keys, frames[i].names)
  <2>1. read(i) \in Nat /\ read(i)' \in Nat /\ read(i) <= read(i)'
    BY <1>1, <1>2 DEF read
  <2> HIDE DEF read
  <2> QED BY <1>2, <1>4, <2>1, KeysFollowFurther
<1> QED BY <1>1, <1>3, <1>4, <1>5 DEF KeysSound

(* A property is read: an accessor may change the heap, not where it ends. *)
LEMMA GetReturns ==
  ASSUME HeapSound, NEW slot, NEW active, IsValue(slot.value, DOMAIN heap),
         Get(slot, active)
  PROVE  /\ DOMAIN heap' = DOMAIN heap /\ HeapSound'
         /\ UNCHANGED <<path, ancestors, treeVars, rvars>>
         /\ \/ mode' = "thrown" /\ frames' = frames
            \/ mode' = "value" /\ frames' = active
<1>1. CASE /\ input' = slot.value /\ mode' = "value" /\ frames' = active
           /\ UNCHANGED <<world, ancestors, error, treeVars, rvars>>
  BY <1>1 DEF world, HeapSound
<1>2. ASSUME NEW o \in DOMAIN heap, NEW e \in Edits(heap[o]),
             heap' = [heap EXCEPT ![o] = e],
             input' = slot.value, mode' = "value", frames' = active,
             UNCHANGED <<path, argument, ancestors, error, treeVars, rvars>>
      PROVE  /\ DOMAIN heap' = DOMAIN heap /\ HeapSound'
             /\ UNCHANGED <<path, ancestors, treeVars, rvars>>
             /\ mode' = "value" /\ frames' = active
  <2>1. DOMAIN heap' = DOMAIN heap
    BY <1>2
  <2>2. IsEntry(e, DOMAIN heap)
    BY EditKeeps DEF HeapSound
  <2>3. \A p \in DOMAIN heap : IsEntry(heap'[p], DOMAIN heap)
    BY <1>2, <2>2 DEF HeapSound
  <2>4. HeapSound'
    BY <1>2, <2>1, <2>3 DEF HeapSound
  <2> QED BY <1>2, <2>1, <2>4
<1>3. CASE Throw("getter")
  BY <1>3, HeapStays DEF Throw, world
<1> QED BY <1>1, <1>2, <1>3 DEF Get

(* A refusal, whatever its reason.                                         *)
LEMMA ThrowKeeps ==
  ASSUME WalkInv, NEW reason, Throw(reason)
  PROVE  WalkInv'
<1>1. mode' = "thrown" /\ UNCHANGED <<heap, input, frames, ancestors>>
  BY DEF Throw, world
<1>2. HeapSound' /\ WalkSound'
  BY <1>1, HeapStays, WalkStays DEF WalkInv
<1>3. ModeSound' /\ KeysSound'
  BY <1>1, KeysUnused DEF ModeSound
<1> QED BY <1>2, <1>3 DEF WalkInv
-----------------------------------------------------------------------------
(* The actions.                                                            *)

LEMMA RefuseKeeps == ASSUME WalkInv, refuse PROVE WalkInv'
BY ThrowKeeps DEF refuse

LEMMA AfterValue ==
  ASSUME frames' = frames, Proceed(afterValue(frames))
  PROVE  /\ mode' \in {"loop", "end", "thrown"}
         /\ mode' # "thrown" => call'.thrown = "none"
         /\ mode' = "loop" => frames' # <<>>
BY DEF Proceed, afterValue

LEMMA LeafKeeps ==
  ASSUME WalkInv, mode = "value", NEW v, putLeaf(v),
         Proceed(afterValue(frames)),
         UNCHANGED <<world, input, frames, ancestors>>
  PROVE  WalkInv'
<1>1. HeapSound' /\ WalkSound'
  BY HeapStays, WalkStays DEF WalkInv, world
<1>2. ModeSound'
  BY AfterValue DEF ModeSound
<1>3. walking' => SameKeys(Building, Building')
  <2>1. Containers(Building)
    BY DEF WalkInv, KeysSound, walking
  <2>2. path' = path
    BY DEF world
  <2> QED BY <2>1, <2>2, AfterValue, LeafPut DEF walking
<1>4. KeysSound'
  BY <1>3, AfterValue, KeysStay DEF WalkInv
<1> QED BY <1>1, <1>2, <1>4 DEF WalkInv

LEMMA EncodeKeeps ==
  ASSUME WalkInv, encodeScalar \/ encodeBinary
  PROVE  WalkInv'
BY LeafKeeps DEF encodeScalar, encodeBinary, visitable, fresh

LEMMA EnterKeeps ==
  ASSUME WalkInv, fresh, NEW names \in Seq(Text), enter(names),
         putObject \/ \E n : putArray(n)
  PROVE  WalkInv'
<1>0. PICK n : n = Len(frames)
  OBVIOUS
<1> DEFINE f == [obj |-> target, index |-> 0, names |-> names]
<1>1. /\ frames' = Append(frames, f) /\ ancestors' = Append(ancestors, target)
      /\ UNCHANGED <<path, heap, input>>
      /\ IF call'.thrown = "none" THEN mode' = "loop" ELSE mode' = "thrown"
  BY DEF enter, Proceed, world
<1>2. mode = "value" /\ n <= MaxDepth /\ target \in DOMAIN heap
  <2>1. mode = "value" /\ ~(n > MaxDepth) /\ input.type = "ref"
    BY <1>0 DEF fresh, visitable, tooDeep
  <2>2. n \in Nat
    BY <1>0, SequencesAre DEF WalkInv, WalkSound
  <2>3. target \in DOMAIN heap
    BY <2>1 DEF target, WalkInv, HeapSound, IsValue
  <2> QED BY <1>0, <2>1, <2>2, <2>3, TraversalAssumption
<1>3. IsSeq(frames) /\ IsSeq(ancestors) /\ Len(ancestors) = n /\ n \in Nat
  BY <1>0, SequencesAre DEF WalkInv, WalkSound
<1>4. /\ IsSeq(frames') /\ Len(frames') = n + 1 /\ frames'[n + 1] = f
      /\ \A i \in 1 .. n : frames'[i] = frames[i]
  BY <1>0, <1>1, <1>3, SequenceAppended
<1>5. /\ IsSeq(ancestors') /\ Len(ancestors') = n + 1
      /\ ancestors'[n + 1] = target
      /\ \A i \in 1 .. n : ancestors'[i] = ancestors[i]
  BY <1>0, <1>1, <1>3, SequenceAppended
<1>6. \A i \in 1 .. n : frames[i].obj # target
  BY <1>0, <1>3 DEF fresh, IsAncestor, WalkInv, WalkSound
<1>7. /\ DOMAIN f = {"obj", "index", "names"} /\ f.obj = target
      /\ f.index = 0 /\ f.names = names
  OBVIOUS
<1> HIDE DEF f
<1>8. ASSUME NEW i \in 1 .. n + 1
      PROVE  Activation(frames[i])' /\ ancestors'[i] = frames'[i].obj
  <2>1. CASE i = n + 1
    BY <1>1, <1>2, <1>4, <1>5, <1>7, <2>1 DEF Activation
  <2>2. CASE i \in 1 .. n
    <3>1. Activation(frames[i]) /\ ancestors[i] = frames[i].obj
      BY <1>0, <2>2 DEF WalkInv, WalkSound
    <3> QED BY <1>1, <1>4, <1>5, <2>2, <3>1 DEF Activation
  <2> QED BY <1>3, <2>1, <2>2
<1>9. \A i, j \in 1 .. n + 1 : frames'[i].obj = frames'[j].obj => i = j
  <2>1. \A i, j \in 1 .. n : frames[i].obj = frames[j].obj => i = j
    BY <1>0 DEF WalkInv, WalkSound
  <2>2. \A i \in 1 .. n + 1 : i \in 1 .. n \/ i = n + 1
    BY <1>3
  <2> QED BY <1>4, <1>6, <1>7, <2>1, <2>2
<1>10. WalkSound'
  <2>1. n + 1 <= MaxDepth + 1
    BY <1>2, <1>3, TraversalAssumption
  <2> QED BY <1>4, <1>5, <1>8, <1>9, <2>1 DEF WalkSound
<1>11. HeapSound'
  BY <1>1, HeapStays DEF WalkInv
<1>12. ModeSound'
  <2>1. frames' # <<>>
    BY <1>3, <1>4, SequencesAre
  <2> QED BY <1>1, <2>1 DEF ModeSound
<1>13. KeysSound'
  <2>1. CASE call'.thrown # "none"
    BY <1>1, <2>1, KeysUnused
  <2>2. CASE call'.thrown = "none"
    <3>1. /\ Containers(Building) /\ Len(Building) = n
          /\ \A i \in 1 .. n :
               FollowUpTo(read(i), Building[i].keys, frames[i].names)
      BY <1>0, <1>2 DEF WalkInv, KeysSound, walking
    <3>2. Begun(Building, Building')
      BY <1>1, <2>2, <3>1, ContainerPut
    <3>3. read(n + 1)' = 0 /\ \A i \in 1 .. n : read(i)' = read(i)
      <4>1. mode' = "loop"
        BY <1>1, <2>2
      <4>2. read(n + 1)' = 0
        <5>1. frames'[n + 1].index = 0
          BY <1>4, <1>7
        <5>2. read(n + 1)' = frames'[n + 1].index + 0
          BY <4>1 DEF read
        <5> QED BY <5>1, <5>2
      <4>3. \A i \in 1 .. n : read(i)' = read(i)
        BY <1>0, <1>2, <1>3, <1>4, <4>1 DEF read
      <4> QED BY <4>2, <4>3
    <3> HIDE DEF read, Building
    <3>4. \A i \in 1 .. n + 1 :
            FollowUpTo(read(i)', Building'[i].keys, frames'[i].names)
      <4>1. TAKE i \in 1 .. n + 1
      <4>2. CASE i = n + 1
        <5>1. Building'[i].keys = <<>>
          BY <3>1, <3>2, <4>2 DEF Begun
        <5> QED BY <5>1, NoKeysFollow
      <4>3. CASE i \in 1 .. n
        BY <1>4, <3>1, <3>2, <3>3, <4>3 DEF Begun
      <4> QED BY <1>3, <4>2, <4>3
    <3> QED BY <1>4, <3>1, <3>2, <3>4 DEF KeysSound, Begun
  <2> QED BY <2>1, <2>2
<1> QED BY <1>10, <1>11, <1>12, <1>13 DEF WalkInv

LEMMA OpenKeeps ==
  ASSUME WalkInv, openArray \/ openObject
  PROVE  WalkInv'
<1>1. CASE openArray
  <2>1. <<>> \in Seq(Text)
    OBVIOUS
  <2>2. fresh /\ putArray(heap[target].length) /\ enter(<<>>)
    BY <1>1 DEF openArray
  <2> QED BY <2>1, <2>2, EnterKeeps
<1>2. CASE openObject
  <2>1. /\ fresh /\ heap[target].kind = "object" /\ putObject
        /\ enter(heap[target].names)
    BY <1>2 DEF openObject
  <2>2. IsEntry(heap[target], DOMAIN heap)
    BY <2>1 DEF fresh, target, WalkInv, HeapSound, IsValue
  <2>3. heap[target].names \in Seq(Text)
    BY <2>1, <2>2, EntryParts
  <2> QED BY <2>1, <2>3, EnterKeeps
<1> QED BY <1>1, <1>2
LEMMA AtTop ==
  ASSUME WalkInv, frames # <<>>
  PROVE  /\ Len(frames) \in Nat \ {0} /\ Len(frames) \in 1 .. Len(frames)
         /\ Activation(top) /\ IsEntry(scanned, DOMAIN heap)
<1>1. Len(frames) \in Nat \ {0}
  BY SequencesAre DEF WalkInv, WalkSound
<1>2. Len(frames) \in 1 .. Len(frames)
  BY <1>1
<1>3. Activation(top)
  BY <1>2 DEF WalkInv, WalkSound, top
<1>4. IsEntry(scanned, DOMAIN heap)
  BY <1>3 DEF Activation, WalkInv, HeapSound, scanned
<1> QED BY <1>1, <1>2, <1>3, <1>4

(* A value was got, or its accessor threw.                                 *)
LEMMA GotKeeps ==
  ASSUME WalkInv, mode \in {"loop", "get"}, frames # <<>>,
         NEW slot, IsValue(slot.value, DOMAIN heap), Get(slot, advanced)
  PROVE  WalkInv'
<1>1. /\ DOMAIN heap' = DOMAIN heap /\ HeapSound'
      /\ UNCHANGED <<path, ancestors, treeVars, rvars>>
      /\ \/ mode' = "thrown" /\ frames' = frames
         \/ mode' = "value" /\ frames' = advanced
  BY GetReturns DEF WalkInv
<1>2. ModeSound'
  BY <1>1 DEF ModeSound
<1>3. CASE mode' = "thrown" /\ frames' = frames
  <2>1. WalkSound'
    BY <1>1, <1>3, WalkStays DEF WalkInv
  <2> QED BY <1>1, <1>2, <1>3, <2>1, KeysUnused DEF WalkInv
<1>4. CASE mode' = "value" /\ frames' = advanced
  <2>1. WalkSound'
    BY <1>1, <1>4, WalkAdvances DEF WalkInv
  <2>2. KeysSound'
    BY <1>1, <1>4, KeysAdvance DEF WalkInv, treeVars, rvars
  <2> QED BY <1>1, <1>2, <2>1, <2>2 DEF WalkInv
<1> QED BY <1>1, <1>3, <1>4

LEMMA ArrayElementKeeps == ASSUME WalkInv, arrayElement PROVE WalkInv'
<1>1. /\ mode = "loop" /\ scanned.kind = "array"
      /\ IF top.index \in DOMAIN scanned.slots
         THEN Get(scanned.slots[top.index], advanced)
         ELSE Throw("sparse")
  BY DEF arrayElement, looping
<1>2. frames # <<>>
  BY <1>1 DEF WalkInv, ModeSound
<1>3. CASE top.index \notin DOMAIN scanned.slots
  BY <1>1, <1>3, ThrowKeeps
<1>4. CASE top.index \in DOMAIN scanned.slots
  <2>1. SlotsSound(scanned.slots, DOMAIN heap)
    BY <1>1, <1>2, AtTop, EntryParts
  <2>2. IsValue(scanned.slots[top.index].value, DOMAIN heap)
    BY <1>4, <2>1 DEF SlotsSound
  <2> QED BY <1>1, <1>2, <1>4, <2>2, GotKeeps
<1> QED BY <1>3, <1>4

LEMMA ObjectGetKeeps == ASSUME WalkInv, objectGet PROVE WalkInv'
<1> DEFINE name == top.names[top.index + 1]
<1>1. mode = "get" /\ Get(scanned.slots[name], advanced)
  BY DEF objectGet, ownNames
<1>2. frames # <<>> /\ scanned.kind = "object" /\ name \in DOMAIN scanned.slots
  BY <1>1 DEF WalkInv, ModeSound
<1> HIDE DEF name
<1>3. SlotsSound(scanned.slots, DOMAIN heap)
  BY <1>2, AtTop, EntryParts
<1>4. IsValue(scanned.slots[name].value, DOMAIN heap)
  BY <1>2, <1>3 DEF SlotsSound
<1> QED BY <1>1, <1>2, <1>4, GotKeeps

(* A loop ends.                                                            *)
LEMMA LeaveKeeps ==
  ASSUME WalkInv, mode = "loop", NEW type, putEnd(type), leave
  PROVE  WalkInv'
<1>0. PICK n : n = Len(frames)
  OBVIOUS
<1>1. /\ frames' = SubSeq(frames, 1, n - 1)
      /\ ancestors' = SubSeq(ancestors, 1, n - 1)
      /\ UNCHANGED <<path, heap, input>>
      /\ Proceed(afterValue(frames'))
      /\ Len(ancestors) = n
  BY <1>0 DEF leave, world, WalkInv, WalkSound
<1>2. frames # <<>> /\ n \in Nat \ {0} /\ IsSeq(frames) /\ IsSeq(ancestors)
  BY <1>0, AtTop DEF WalkInv, ModeSound, WalkSound
<1>3. IsSeq(frames') /\ Len(frames') = n - 1
      /\ \A i \in 1 .. n - 1 : frames'[i] = frames[i]
  BY <1>0, <1>1, <1>2, SequenceShortened
<1>4. ancestors # <<>>
  BY <1>1, <1>2, SequencesAre
<1>5. IsSeq(ancestors') /\ Len(ancestors') = n - 1
      /\ \A i \in 1 .. n - 1 : ancestors'[i] = ancestors[i]
  BY <1>1, <1>2, <1>4, SequenceShortened
<1>6. \A i \in 1 .. n - 1 : i \in 1 .. n
  BY <1>2
<1>7. WalkSound'
  <2>1. n <= MaxDepth + 1 /\ n - 1 <= MaxDepth + 1
    BY <1>0, <1>2, TraversalAssumption DEF WalkInv, WalkSound
  <2>2. \A i \in 1 .. n - 1 :
          Activation(frames[i]) /\ ancestors[i] = frames[i].obj
    BY <1>0, <1>6 DEF WalkInv, WalkSound
  <2>3. \A i \in 1 .. n - 1 :
          Activation(frames[i])' /\ ancestors'[i] = frames'[i].obj
    BY <1>1, <1>3, <1>5, <2>2 DEF Activation
  <2>4. \A i, j \in 1 .. n : frames[i].obj = frames[j].obj => i = j
    BY <1>0 DEF WalkInv, WalkSound
  <2>5. \A i, j \in 1 .. n - 1 : frames'[i].obj = frames'[j].obj => i = j
    BY <1>3, <1>6, <2>4
  <2> QED BY <1>3, <1>5, <2>1, <2>3, <2>5 DEF WalkSound
<1>8. /\ mode' \in {"loop", "end", "thrown"}
      /\ mode' = "loop" => frames' # <<>>
      /\ mode' = "loop" => call'.thrown = "none"
  BY <1>1 DEF Proceed, afterValue
<1>9. ModeSound'
  BY <1>8 DEF ModeSound
<1>10. KeysSound'
  <2>1. CASE mode' # "loop"
    BY <1>8, <2>1, KeysUnused
  <2>2. CASE mode' = "loop"
    <3>1. /\ Containers(Building) /\ Len(Building) = n
          /\ \A i \in 1 .. n :
               FollowUpTo(read(i), Building[i].keys, frames[i].names)
      BY <1>0 DEF WalkInv, KeysSound, walking
    <3>2. Building # <<>>
      BY <1>2, <3>1, EmptyContainers
    <3>3. Ended(Building, Building')
      BY <1>1, <1>8, <2>2, <3>1, <3>2, EndPut
    <3>4. \A i \in 1 .. n - 1 : read(i)' = read(i)
      BY <1>3, <2>2 DEF read
    <3> HIDE DEF read, Building
    <3>5. \A i \in 1 .. n - 1 :
            FollowUpTo(read(i)', Building'[i].keys, frames'[i].names)
      BY <1>3, <1>6, <3>1, <3>3, <3>4 DEF Ended
    <3> QED BY <1>3, <3>1, <3>3, <3>5 DEF KeysSound, Ended
  <2> QED BY <2>1, <2>2
<1> QED BY <1>1, <1>7, <1>9, <1>10, HeapStays DEF WalkInv

LEMMA CloseKeeps == ASSUME WalkInv, closeArray \/ closeObject PROVE WalkInv'
<1>1. CASE closeArray
  BY <1>1, LeaveKeeps, ThrowKeeps DEF closeArray, looping
<1>2. CASE closeObject
  BY <1>2, LeaveKeeps DEF closeObject, looping
<1> QED BY <1>1, <1>2
(* A name of the snapshot: without its property it is passed over, else    *)
(* its key is put down before the property is read.                        *)
LEMMA ObjectKeyKeeps == ASSUME WalkInv, objectKey PROVE WalkInv'
<1> DEFINE name == top.names[top.index + 1]
<1>1. /\ mode = "loop" /\ scanned.kind = "object"
      /\ top.index < Len(top.names)
      /\ \/ Throw("symbol")
         \/ /\ frames' = advanced
            /\ UNCHANGED <<world, input, ancestors, mode,
                           error, treeVars, rvars>>
         \/ /\ name \in DOMAIN scanned.slots
            /\ putKey(name) /\ Proceed("get")
            /\ UNCHANGED <<world, input, frames, ancestors>>
  BY DEF objectKey, looping, ownNames
<1>0. PICK n : n = Len(frames)
  OBVIOUS
<1>2. /\ frames # <<>> /\ n \in Nat \ {0} /\ n \in 1 .. n
      /\ top.index \in Nat /\ IsSeq(top.names) /\ top = frames[n]
  BY <1>0, <1>1, AtTop, SequencesAre DEF WalkInv, ModeSound, Activation, top
<1>3. CASE Throw("symbol")
  BY <1>3, ThrowKeeps
<1>4. CASE /\ frames' = advanced
           /\ UNCHANGED <<world, input, ancestors, mode,
                          error, treeVars, rvars>>
  <2>1. HeapSound' /\ WalkSound'
    BY <1>2, <1>4, HeapStays, WalkAdvances DEF WalkInv, world
  <2>2. KeysSound'
    BY <1>1, <1>2, <1>4, KeysAdvance DEF WalkInv, world, treeVars, rvars
  <2>3. ModeSound'
    <3>1. Len(advanced) = n
      BY <1>0, <1>2, AdvancedFrames DEF WalkInv
    <3>2. IsSeq(advanced)
      BY <1>2, AdvancedFrames DEF WalkInv
    <3>3. frames' # <<>> /\ mode' = "loop"
      BY <1>1, <1>2, <1>4, <3>1, <3>2, SequencesAre
    <3> QED BY <3>3 DEF ModeSound
  <2> QED BY <2>1, <2>2, <2>3 DEF WalkInv
<1>5. CASE /\ name \in DOMAIN scanned.slots
           /\ putKey(name) /\ Proceed("get")
           /\ UNCHANGED <<world, input, frames, ancestors>>
  <2>1. HeapSound' /\ WalkSound'
    BY <1>5, HeapStays, WalkStays DEF WalkInv, world
  <2>2. CASE mode' = "thrown"
    BY <2>1, <2>2, KeysUnused DEF WalkInv, ModeSound
  <2>3. CASE mode' # "thrown"
    <3>1. mode' = "get" /\ call'.thrown = "none"
      BY <1>5, <2>3 DEF Proceed
    <3>2. UNCHANGED <<path, heap, frames>>
      BY <1>5 DEF world
    <3>3. ModeSound'
      BY <1>1, <1>2, <1>5, <3>1, <3>2 DEF ModeSound, top, scanned
    <3>4. /\ Containers(Building) /\ Len(Building) = n
          /\ \A i \in 1 .. n :
               FollowUpTo(read(i), Building[i].keys, frames[i].names)
      BY <1>0, <1>1 DEF WalkInv, KeysSound, walking
    <3>5. Building # <<>>
      BY <1>2, <3>4, EmptyContainers
    <3>6. Keyed(Building, Building', name)
      BY <1>5, <3>1, <3>2, <3>4, <3>5, KeyPut
    <3>7. /\ \A i \in 1 .. n - 1 : read(i)' = read(i)
          /\ read(n) = top.index /\ read(n)' = top.index + 1
      <4>1. \A i \in 1 .. n : frames[i].index \in Nat
        BY <1>0 DEF WalkInv, WalkSound, Activation
      <4> QED BY <1>0, <1>1, <1>2, <3>1, <3>2, <4>1 DEF read
    <3> HIDE DEF read, Building
    <3>8. IsSeq(Building[n].keys)
      BY <1>2, <3>4 DEF Containers, Whole
    <3>9. FollowUpTo(top.index, Building[n].keys, top.names)
      BY <1>2, <3>4, <3>7
    <3>10. FollowUpTo(top.index + 1, Append(Building[n].keys, name), top.names)
      BY <1>1, <1>2, <3>8, <3>9, NextKeyFollows
    <3> HIDE DEF name
    <3>11. \A i \in 1 .. n :
             FollowUpTo(read(i)', Building'[i].keys, frames'[i].names)
      <4>1. TAKE i \in 1 .. n
      <4>2. CASE i = n
        BY <1>2, <3>2, <3>4, <3>6, <3>7, <3>10, <4>2 DEF Keyed
      <4>3. CASE i \in 1 .. n - 1
        BY <3>2, <3>4, <3>6, <3>7, <4>3 DEF Keyed
      <4> QED BY <1>2, <4>2, <4>3
    <3>12. KeysSound'
      BY <1>0, <3>2, <3>4, <3>6, <3>11 DEF KeysSound, Keyed
    <3> QED BY <2>1, <3>3, <3>12 DEF WalkInv
  <2> QED BY <2>2, <2>3
<1> QED BY <1>1, <1>3, <1>4, <1>5

(* The worker writes the copy and the message is taken: the walk is over.  *)
LEMMA WriteKeeps ==
  ASSUME WalkInv, startEncode \/ writeValue \/ takeMessage
  PROVE  WalkInv'
<1>1. CASE mode \in {"end", "encode"}
           /\ mode' \in {"encode", "done", "thrown"}
           /\ UNCHANGED <<world, input, frames, ancestors>>
  <2>1. HeapSound' /\ WalkSound'
    BY <1>1, HeapStays, WalkStays DEF WalkInv, world
  <2> QED BY <1>1, <2>1, KeysUnused DEF WalkInv, ModeSound
<1>2. ASSUME writeValue
      PROVE  /\ mode = "encode" /\ mode' \in {"encode", "thrown"}
             /\ UNCHANGED <<world, input, frames, ancestors>>
  <2>1. mode = "encode"
    BY <1>2 DEF writeValue
  <2>2. CASE Throw("native")
    BY <2>1, <2>2 DEF Throw
  <2>3. CASE /\ Proceed("encode")
             /\ UNCHANGED <<world, input, frames, ancestors, copying, copy>>
    BY <2>1, <2>3 DEF Proceed
  <2> QED BY <1>2, <2>2, <2>3 DEF writeValue
<1>3. ASSUME startEncode \/ takeMessage
      PROVE  /\ mode \in {"end", "encode"}
             /\ mode' \in {"encode", "done", "thrown"}
             /\ UNCHANGED <<world, input, frames, ancestors>>
  BY <1>3 DEF startEncode, takeMessage, Proceed
<1> QED BY <1>1, <1>2, <1>3

LEMMA WalkInvInit == TraversalInit => WalkInv
<1> SUFFICES ASSUME TraversalInit PROVE WalkInv
  OBVIOUS
<1>1. HeapSound
  BY TraversalAssumption DEF TraversalInit, HeapSound
<1>2. IsSeq(<<>>) /\ Containers(<<>>) /\ Len(<<>>) = 0
  BY EmptyContainers DEF SameKeys, Containers
<1>3. frames = <<>> /\ ancestors = <<>> /\ mode = "value"
  BY DEF TraversalInit
<1>4. WalkSound
  BY <1>2, <1>3, TraversalAssumption DEF WalkSound
<1>5. ModeSound
  BY <1>3 DEF ModeSound
<1>6. Building = <<>>
  BY DEF TraversalInit, RInit, Building
<1>7. KeysSound
  BY <1>2, <1>3, <1>6 DEF KeysSound
<1> QED BY <1>1, <1>4, <1>5, <1>7 DEF WalkInv

LEMMA WalkInvStep == WalkInv /\ [TraversalNext]_tvars => WalkInv'
<1>1. ASSUME WalkInv, TraversalNext PROVE WalkInv'
  BY <1>1, RefuseKeeps, EncodeKeeps, OpenKeeps, ArrayElementKeeps, CloseKeeps,
     ObjectKeyKeeps, ObjectGetKeeps, WriteKeeps DEF TraversalNext
<1>2. ASSUME WalkInv, UNCHANGED tvars PROVE WalkInv'
  <2>1. UNCHANGED <<path, heap, input, frames, ancestors, mode, copying, open>>
    BY <1>2 DEF tvars, walkVars, world, treeVars, rvars
  <2> QED BY <1>2, <2>1
       DEF WalkInv, HeapSound, WalkSound, Activation, ModeSound, top, scanned,
           KeysSound, walking, read, Building
<1> QED BY <1>1, <1>2

(* The walk keeps its invariant whatever is passed in and whatever         *)
(* accessors change: the loops that are active in WriteJavaScriptValue()   *)
(* or CopyValue() are those of the ancestors, and the containers under     *)
(* construction hold the names they have been through.                     *)
THEOREM WalkInvariant == TraversalSpec => []WalkInv
BY WalkInvInit, WalkInvStep, PTL DEF TraversalSpec

(* kMaxNestingDepth bounds the recursion, and no object is entered again   *)
(* while it is being walked, even when an accessor has just stored it in   *)
(* itself: for every heap, every limit and any number of changes.          *)
THEOREM WalkAlwaysBounded == TraversalSpec => []WalkIsBounded
<1>1. WalkInv => WalkIsBounded
  BY DEF WalkInv, WalkSound, WalkIsBounded
<1> QED BY <1>1, WalkInvariant, PTL

(* The keys put down for an object are entries of the snapshot taken when  *)
(* its loop began, each used at most once and in the order of the          *)
(* snapshot, for encodeSync() as for encodeAsync(), whatever accessors     *)
(* add, delete or overwrite meanwhile.                                     *)
THEOREM KeysAlwaysFollow == TraversalSpec => []KeysFollowSnapshot
<1>1. ASSUME WalkInv PROVE KeysFollowSnapshot
  <2>1. SUFFICES ASSUME mode \in {"value", "loop", "get"},
                        NEW i \in 1 .. Len(frames)
                 PROVE  FollowUpTo(frames[i].index + 1, Building[i].keys,
                                   frames[i].names)
    BY DEF KeysFollowSnapshot
  <2>2. FollowUpTo(read(i), Building[i].keys, frames[i].names)
    BY <1>1, <2>1 DEF WalkInv, KeysSound, walking
  <2>3. frames[i].index \in Nat /\ IsSeq(frames[i].names)
    BY <1>1, SequencesAre DEF WalkInv, WalkSound, Activation
  <2>4. /\ read(i) \in Nat /\ frames[i].index + 1 \in Nat
        /\ read(i) <= frames[i].index + 1
    BY <2>3 DEF read
  <2> HIDE DEF read, Building
  <2> QED BY <2>2, <2>3, <2>4, KeysFollowFurther
<1> QED BY <1>1, WalkInvariant, PTL

-----------------------------------------------------------------------------
(* Sequences that are the beginning of another one.                        *)

Begins(t, s, n) ==
  IsSeq(t) /\ Len(t) = n /\ \A i \in 1 .. n : t[i] = s[i]

LEMMA NothingBegins == ASSUME NEW s PROVE Begins(<<>>, s, 0)
<1>1. <<>> \in Seq({}) /\ Len(<<>>) = 0 /\ 1 .. 0 = {}
  OBVIOUS
<1> QED BY <1>1, SequencesAre DEF Begins

LEMMA BeginsFurther ==
  ASSUME NEW s, NEW n \in Nat, NEW t, Begins(t, s, n)
  PROVE  Begins(Append(t, s[n + 1]), s, n + 1)
<1> DEFINE u == Append(t, s[n + 1])
<1>1. /\ IsSeq(u) /\ Len(u) = n + 1 /\ u[n + 1] = s[n + 1]
      /\ \A i \in 1 .. n : u[i] = s[i]
  BY SequenceAppended DEF Begins
<1> HIDE DEF u
<1>2. \A i \in 1 .. n + 1 : i \in 1 .. n \/ i = n + 1
  OBVIOUS
<1>3. Begins(u, s, n + 1)
  BY <1>1, <1>2 DEF Begins
<1> QED BY <1>3 DEF u

LEMMA BegunIsWhole ==
  ASSUME NEW s, NEW t, IsSeq(s), Begins(t, s, Len(s))
  PROVE  t = s
<1> DEFINE S == {s[i] : i \in 1 .. Len(s)}
           T == {t[i] : i \in 1 .. Len(t)}
           U == S \cup T
<1>1. s \in Seq(U)
  <2>1. s \in Seq(S)
    BY DEF IsSeq
  <2> HIDE DEF S, T
  <2> QED BY <2>1
<1>2. t \in Seq(U)
  <2>1. t \in Seq(T)
    BY DEF IsSeq, Begins
  <2> HIDE DEF S, T
  <2> QED BY <2>1
<1> HIDE DEF U
<1> QED BY <1>1, <1>2, SeqEqual DEF Begins

LEMMA SequencesJoined ==
  ASSUME NEW s, NEW t, IsSeq(s), IsSeq(t)
  PROVE  IsSeq(s \o t) /\ Len(s \o t) = Len(s) + Len(t)
<1> DEFINE S == {s[i] : i \in 1 .. Len(s)}
           T == {t[i] : i \in 1 .. Len(t)}
           U == S \cup T
<1>1. s \in Seq(U)
  <2>1. s \in Seq(S)
    BY DEF IsSeq
  <2> HIDE DEF S, T
  <2> QED BY <2>1
<1>2. t \in Seq(U)
  <2>1. t \in Seq(T)
    BY DEF IsSeq
  <2> HIDE DEF S, T
  <2> QED BY <2>1
<1> HIDE DEF U
<1>3. s \o t \in Seq(U) /\ Len(s \o t) = Len(s) + Len(t)
  BY <1>1, <1>2, ConcatProperties
<1> QED BY <1>3, SequencesAre

-----------------------------------------------------------------------------
(* What the Writer does when it accepts a call.                            *)

Filled == IsSeq(bytes) /\ bytes # <<>>

LEMMA StaysFilled ==
  ASSUME Filled, NEW put, IsSeq(put), bytes' = bytes \o put
  PROVE  Filled'
<1>1. /\ IsSeq(bytes') /\ Len(bytes') = Len(bytes) + Len(put)
      /\ Len(bytes) \in Nat \ {0} /\ Len(put) \in Nat
  BY SequencesJoined, SequencesAre DEF Filled
<1> QED BY <1>1, SequencesAre DEF Filled

LEMMA SingleByte == ASSUME NEW b PROVE IsSeq(<<b>>)
<1>1. <<b>> \in Seq({b})
  OBVIOUS
<1> QED BY <1>1, SequencesAre

LEMMA VarintIsSequence == ASSUME NEW n PROVE IsSeq(varint(n))
<1> DEFINE v == varint(n)
<1>1. PICK m \in 1 .. MaxGroups : varintGroups(n) = 1 .. m
  BY GroupsAreFirst
<1>2. m \in Nat
  BY <1>1, WidthAssumption
<1>3. DOMAIN v = 1 .. m /\ v = [i \in 1 .. m |-> v[i]]
  BY <1>1 DEF varint
<1> HIDE DEF v
<1> DEFINE T == {v[i] : i \in 1 .. m}
<1>4. v \in [1 .. m -> T]
  BY <1>3
<1> HIDE DEF T
<1>5. v \in Seq(T)
  BY <1>2, <1>4, SeqDef
<1> QED BY <1>5, SequencesAre DEF v

(* An emitter that returns, or stops because a payload is too long.        *)
Emitted(raw) == IsSeq(raw.put) /\ raw.thrown = "none"

LEMMA TaggedEmits ==
  ASSUME NEW tag, NEW payload, IsSeq(payload)
  PROVE  /\ IsSeq(tagged(tag, payload).put)
         /\ tagged(tag, payload).thrown \in {"none", "length_error"}
         /\ Len(payload) <= U32Max => tagged(tag, payload).thrown = "none"
<1>1. IsSeq(<<tag>>) /\ IsSeq(<<tag>> \o varint(Len(payload)) \o payload)
  BY SingleByte, VarintIsSequence, SequencesJoined
<1>2. CASE Len(payload) > U32Max
  <2>1. tagged(tag, payload) = Aborts(<<tag>>, "length_error")
    BY <1>2 DEF tagged
  <2>2. ~(Len(payload) <= U32Max)
    <3>1. Len(payload) \in Nat /\ U32Max \in Int
      BY SequencesAre, Widths, SMT DEF U32Max
    <3> QED BY <1>2, <3>1
  <2> QED BY <1>1, <2>1, <2>2 DEF Aborts
<1>3. CASE ~(Len(payload) > U32Max)
  BY <1>1, <1>3 DEF tagged, Emits
<1> QED BY <1>2, <1>3

LEMMA TextEmits ==
  ASSUME NEW s \in Text
  PROVE  Emitted(rawUtf16(s))
<1>1. IsSeq(s) /\ Len(s) \in Nat /\ Len(s) <= U32Max \div 2 /\ U32Max \in Nat
  <2>1. s \in Seq(Int) /\ Len(s) <= U32Max \div 2
    BY DEF Text
  <2>2. U32Max \in Nat
    BY Widths, SMT DEF U32Max
  <2> QED BY <2>1, <2>2, SequencesAre
<1>2. CASE allLatin1(s)
  <2>1. Len(s) <= U32Max
    BY <1>1
  <2> QED BY <1>1, <1>2, <2>1, TaggedEmits DEF rawUtf16, Emitted
<1>3. CASE ~allLatin1(s)
  <2> DEFINE n == 2 * Len(s)
             u == unitBytes(s)
             T == {u[i] : i \in 1 .. n}
  <2>1. n \in Nat /\ DOMAIN u = 1 .. n /\ u = [i \in 1 .. n |-> u[i]]
    BY <1>1 DEF unitBytes
  <2> HIDE DEF u
  <2>2. u \in [1 .. n -> T]
    BY <2>1
  <2> HIDE DEF T
  <2>3. u \in Seq(T)
    BY <2>1, <2>2, SeqDef
  <2>4. IsSeq(u)
    BY <2>3, SequencesAre
  <2>5. IsSeq(twoBytePadding(n))
    <3>1. <<>> \in Seq({})
      OBVIOUS
    <3> QED BY <3>1, SequencesAre, SingleByte DEF twoBytePadding
  <2>6. IsSeq(twoBytePadding(n) \o <<TwoByteTag>> \o varint(n) \o u)
    BY <2>4, <2>5, SingleByte, VarintIsSequence, SequencesJoined
  <2>7. ~(Len(s) > U32Max \div 2)
    BY <1>1
  <2>8. rawUtf16(s) = Emits(twoBytePadding(n) \o <<TwoByteTag>> \o varint(n)
                              \o u)
    BY <1>3, <2>7 DEF rawUtf16, u
  <2> QED BY <2>6, <2>8 DEF Emits, Emitted
<1> QED BY <1>2, <1>3

-----------------------------------------------------------------------------
(* Values that the Writer accepts wherever it takes one, but for the       *)
(* length of a buffer.                                                     *)

Writable(v) ==
  /\ v = Leaf(v.type, v.data) /\ IsSeq(v.data)
  /\ \/ v.type \in {"undefined", "null"} /\ v.data = <<>>
     \/ v.type = "boolean" /\ v.data \in {<<0>>, <<1>>}
     \/ v.type = "int32" /\ v.data = <<v.data[1]>>
     \/ v.type = "string" /\ v.data \in Text
     \/ v.type \in {"double", "date", "arrayBuffer"}
     \/ v.type \in ViewType /\ Len(v.data) % elementSize[v.type] = 0

LEMMA ViewTypes ==
  ViewType = {"Int8Array", "Uint8Array", "Uint8ClampedArray", "Int16Array",
              "Uint16Array", "Int32Array", "Uint32Array", "Float32Array",
              "Float64Array", "BigInt64Array", "BigUint64Array", "DataView"}
BY DEF ViewType, viewTag

LEMMA LeafParts ==
  ASSUME NEW type, NEW data
  PROVE  /\ Leaf(type, data).type = type /\ Leaf(type, data).data = data
         /\ Leaf(type, data).keys = <<>> /\ Leaf(type, data).kids = <<>>
BY DEF Leaf

LEMMA ScalarWritable ==
  ASSUME NEW v, NEW O, IsValue(v, O), v.type \in Scalars
  PROVE  Writable(wireScalar(v))
<1>1. /\ v = Leaf(v.type, v.data) /\ v.data \in Seq(Int)
      /\ v.type \in {"undefined", "null"} => v.data = <<>>
      /\ v.type = "boolean" => v.data \in {<<0>>, <<1>>}
      /\ v.type = "string" => v.data \in Text
  BY DEF IsValue
<1>2. IsSeq(v.data)
  BY <1>1, SequencesAre
<1>3. CASE v.type # "number"
  <2>1. wireScalar(v) = v
    BY <1>3 DEF wireScalar
  <2> QED BY <1>1, <1>2, <1>3, <2>1 DEF Writable, Scalars
<1>4. CASE v.type = "number"
  <2> DEFINE i == IntegerOf[v.data]
  <2>1. wireScalar(v) \in {Leaf("int32", <<i>>), Leaf("double", v.data)}
    BY <1>4 DEF wireScalar
  <2> HIDE DEF i
  <2>2. Writable(Leaf("int32", <<i>>))
    BY SingleByte, LeafParts DEF Writable
  <2>3. Writable(Leaf("double", v.data))
    BY <1>2, LeafParts DEF Writable
  <2> QED BY <2>1, <2>2, <2>3
<1> QED BY <1>3, <1>4

LEMMA BufferWritable ==
  ASSUME NEW kind, NEW data, BinarySound(kind, data)
  PROVE  Writable(Leaf(kind, data))
<1>1. IsSeq(data)
  BY SequencesAre DEF BinarySound
<1> QED BY <1>1, LeafParts DEF Writable, BinarySound

(* How the call of a leaf ends.                                            *)
EndsWell ==
  \/ call'.thrown = "none"
  \/ /\ call'.thrown = "length_error"
     /\ call'.op \in {"arrayBuffer", "arrayBufferView"}

LEMMA WriteAccepted ==
  ASSUME NEW op, NEW arg, NEW raw, NEW pushed, Write(op, arg, raw, pushed),
         AcceptsValue, Filled, IsSeq(raw.put)
  PROVE  /\ beginValue(pushed) /\ Filled'
         /\ call'.op = op /\ call'.arg = arg /\ call'.thrown = raw.thrown
<1>1. /\ beginValue(pushed) /\ bytes' = bytes \o raw.put
      /\ call' = Call(op, arg, raw.thrown, <<>>)
  BY DEF Write
<1> QED BY <1>1, StaysFilled DEF Call

LEMMA BufferEmits ==
  ASSUME NEW v, IsSeq(v.data)
  PROVE  LET raw == rawArrayBuffer(binary(v))
         IN  IsSeq(raw.put) /\ raw.thrown \in {"none", "length_error"}
<1>1. rawArrayBuffer(binary(v)) = tagged(BufferTag, v.data)
  BY DEF rawArrayBuffer, binary
<1> QED BY <1>1, TaggedEmits

LEMMA ViewEmits ==
  ASSUME NEW v, IsSeq(v.data)
  PROVE  LET raw == rawView(v.type, binary(v))
         IN  IsSeq(raw.put) /\ raw.thrown \in {"none", "length_error"}
<1> DEFINE backing == rawArrayBuffer(binary(v))
           t == viewTag[v.type]
           n == Len(binary(v).data)
<1>1. IsSeq(backing.put) /\ backing.thrown \in {"none", "length_error"}
  BY BufferEmits
<1>2. IsSeq(<<ViewTag, t>>)
  <2>1. <<ViewTag, t>> \in Seq({ViewTag, t})
    OBVIOUS
  <2> QED BY <2>1, SequencesAre
<1>3. rawView(v.type, binary(v)) \in
        {backing, Emits(backing.put \o <<ViewTag, t>> \o varint(0) \o varint(n)
                          \o varint(0))}
  BY DEF rawView
<1> HIDE DEF backing, t, n
<1> DEFINE s == backing.put \o <<ViewTag, t>> \o varint(0) \o varint(n)
                  \o varint(0)
<1>4. IsSeq(s)
  BY <1>1, <1>2, VarintIsSequence, SequencesJoined
<1> HIDE DEF s
<1>5. Emits(s).put = s /\ Emits(s).thrown = "none"
  BY DEF Emits
<1>6. rawView(v.type, binary(v)) \in {backing, Emits(s)}
  BY <1>3 DEF s
<1> QED BY <1>1, <1>4, <1>5, <1>6

LEMMA LeafAccepted ==
  ASSUME NEW v, Writable(v), WriteLeaf(v), AcceptsValue, Filled
  PROVE  /\ beginValue(<<>>) /\ Filled' /\ EndsWell
         /\ call'.op \in LeafMethods /\ call'.arg = v
<1> DEFINE Good == /\ beginValue(<<>>) /\ Filled' /\ EndsWell
                   /\ call'.arg = v
<1>0. SUFFICES Good
  BY LeafCalled DEF Good
<1>1. ASSUME NEW op, NEW raw, Write(op, v, raw, <<>>), Emitted(raw)
      PROVE  Good
  BY <1>1, WriteAccepted DEF Emitted, EndsWell
<1>2. \A s : IsSeq(s) => Emitted(Emits(s))
  BY DEF Emitted, Emits
<1> HIDE DEF Good
<1>3. v = Leaf(v.type, v.data) /\ IsSeq(v.data)
  BY DEF Writable
<1>4. ASSUME NEW type \in {"undefined", "null"}, NEW tag, v.type = type,
             scalar(type, tag)
      PROVE  Good
  <2>1. v = Leaf(type, <<>>)
    BY <1>3, <1>4, ViewTypes DEF Writable
  <2> QED BY <1>1, <1>2, <1>4, <2>1, SingleByte DEF scalar
<1>5. CASE v.type = "boolean"
  <2>0. boolean(v.data = <<1>>)
    BY <1>5, ViewTypes DEF WriteLeaf
  <2> DEFINE b == v.data = <<1>>
             w == Leaf("boolean", <<IF b THEN 1 ELSE 0>>)
             raw == Emits(<<IF b THEN TrueTag ELSE FalseTag>>)
  <2>1. v.data \in {<<0>>, <<1>>}
    BY <1>5, ViewTypes DEF Writable
  <2>2. v = w
    BY <1>3, <1>5, <2>1
  <2>3. Write("boolean", w, raw, <<>>)
    BY <2>0 DEF boolean
  <2>4. Emitted(raw)
    BY <1>2, SingleByte
  <2> HIDE DEF w, raw
  <2> QED BY <1>1, <2>2, <2>3, <2>4
<1>6. CASE v.type = "int32"
  <2>0. int32(v.data[1])
    BY <1>6, ViewTypes DEF WriteLeaf
  <2>1. v.data = <<v.data[1]>>
    BY <1>6, ViewTypes DEF Writable
  <2>2. Emitted(Emits(<<Int32Tag>> \o varint(zigZag(v.data[1]))))
    BY <1>2, SingleByte, VarintIsSequence, SequencesJoined
  <2> QED BY <1>1, <1>3, <2>0, <1>6, <2>1, <2>2 DEF int32
<1>7. ASSUME NEW op, NEW type, NEW tag, v.type = type,
             Write(op, Leaf(type, v.data), Emits(<<tag>> \o v.data), <<>>)
      PROVE  Good
  <2>1. Emitted(Emits(<<tag>> \o v.data))
    BY <1>2, <1>3, SingleByte, SequencesJoined
  <2> QED BY <1>1, <1>3, <1>7, <2>1
<1>8. CASE v.type = "string"
  <2>0. string16(v.data)
    BY <1>8, ViewTypes DEF WriteLeaf
  <2>1. v.data \in Text
    BY <1>8, ViewTypes DEF Writable
  <2> QED BY <1>1, <1>3, <2>0, <1>8, <2>1, TextEmits DEF string16
<1>9. CASE v.type = "arrayBuffer"
  <2>0. arrayBuffer(binary(v))
    BY <1>9, ViewTypes DEF WriteLeaf
  <2>1. Write("arrayBuffer", v, rawArrayBuffer(binary(v)), <<>>)
    BY <1>3, <1>9, <2>0 DEF arrayBuffer, binary
  <2> QED BY <1>3, <2>1, WriteAccepted, BufferEmits DEF Good, EndsWell
<1>10. CASE v.type \in ViewType
  <2>0. arrayBufferView(v.type, binary(v))
    BY <1>10, ViewTypes DEF WriteLeaf
  <2>1. Len(v.data) % elementSize[v.type] = 0
    BY <1>10, ViewTypes DEF Writable
  <2>1a. elementSize[v.type] # 0
    BY <1>10 DEF elementSize
  <2>2. Write("arrayBufferView", v, rawView(v.type, binary(v)), <<>>)
    BY <1>3, <2>0, <2>1, <2>1a DEF arrayBufferView, binary
  <2> QED BY <1>3, <2>2, WriteAccepted, ViewEmits DEF Good, EndsWell
<1>11. CASE v.type = "undefined"
  <2>1. undefined
    BY <1>11, ViewTypes DEF WriteLeaf
  <2> QED BY <1>4, <1>11, <2>1 DEF undefined
<1>12. CASE v.type = "null"
  <2>1. null
    BY <1>12, ViewTypes DEF WriteLeaf
  <2> QED BY <1>4, <1>12, <2>1 DEF null
<1>13. CASE v.type = "double"
  <2>1. number(v.data)
    BY <1>13, ViewTypes DEF WriteLeaf
  <2> QED BY <1>7, <1>13, <2>1 DEF number
<1>14. CASE v.type = "date"
  <2>1. date(v.data)
    BY <1>14, ViewTypes DEF WriteLeaf
  <2> QED BY <1>7, <1>14, <2>1 DEF date
<1> QED BY <1>5, <1>6, <1>8, <1>9, <1>10, <1>11, <1>12, <1>13, <1>14
         DEF Writable

-----------------------------------------------------------------------------
(* Frames of the Writer: one in which every value is counted, and one that *)
(* has to take another.  index is the number of values it is about.        *)

Fields(frame) ==
  DOMAIN frame = {"kind", "count", "expected", "expecting_key"}

Settled(frame, type, length, index) ==
  /\ type \in {"array", "object"} /\ Fields(frame)
  /\ type = "array" =>
       /\ length \in U32 /\ index \in 0 .. length
       /\ frame.kind = "Array" /\ frame.expected = length
       /\ frame.count = index
  /\ type = "object" => frame.kind = "Object" /\ frame.expecting_key = TRUE

Awaiting(frame, type, length, index) ==
  /\ type \in {"array", "object"} /\ Fields(frame)
  /\ type = "array" =>
       /\ length \in U32 /\ index \in 1 .. length
       /\ frame.kind = "Array" /\ frame.expected = length
       /\ frame.count = index - 1
  /\ type = "object" => frame.kind = "Object" /\ frame.expecting_key = FALSE

LEMMA FrameCounted ==
  ASSUME stack # <<>>, NEW type, NEW length, NEW index,
         Awaiting(back, type, length, index)
  PROVE  /\ AcceptsValue
         /\ Settled([back EXCEPT !.count = (back.count + 1) % U32Size,
                                 !.expecting_key = (back.kind = "Object")],
                    type, length, index)
<1> DEFINE more == (back.count + 1) % U32Size
           new == [back EXCEPT !.count = more,
                               !.expecting_key = (back.kind = "Object")]
<1>1. /\ Fields(new) /\ new.kind = back.kind /\ new.expected = back.expected
      /\ new.count = more /\ new.expecting_key = (back.kind = "Object")
  BY DEF Awaiting, Fields
<1> HIDE DEF new
<1>2. CASE type = "array"
  <2>1. /\ length \in U32 /\ index \in 1 .. length
        /\ back.kind = "Array" /\ back.expected = length
        /\ back.count = index - 1
    BY <1>2 DEF Awaiting
  <2>2. length \in Nat /\ length < U32Size /\ U32Size \in Nat \ {0}
    BY <2>1, Widths
  <2>3. AcceptsValue
    BY <2>1, <2>2 DEF AcceptsValue
  <2>4. more = index /\ index \in 0 .. length
    <3>1. back.count + 1 = index /\ index \in Nat /\ index < U32Size
      BY <2>1, <2>2
    <3> QED BY <2>1, <2>2, <3>1
  <2> HIDE DEF more
  <2>5. Settled(new, type, length, index)
    BY <1>1, <1>2, <2>1, <2>4 DEF Settled
  <2> QED BY <2>3, <2>5 DEF new, more
<1>3. CASE type = "object"
  <2>1. back.kind = "Object" /\ back.expecting_key = FALSE
    BY <1>3 DEF Awaiting
  <2>2. AcceptsValue
    BY <2>1 DEF AcceptsValue
  <2>3. Settled(new, type, length, index)
    BY <1>1, <1>3, <2>1 DEF Settled
  <2> QED BY <2>2, <2>3 DEF new
<1> QED BY <1>2, <1>3 DEF Awaiting

-----------------------------------------------------------------------------
(* The stack of the Writer.  It expects a value: there is no root yet, or  *)
(* the innermost container has to take one.                                *)

Expecting(type, length, index) ==
  /\ IsSeq(stack)
  /\ stack = <<>> => ~has_root
  /\ stack # <<>> => Awaiting(back, type, length, index)

(* The stack t is s with another last frame.                               *)
LastChanged(s, t) ==
  /\ IsSeq(t) /\ Len(t) = Len(s)
  /\ \A i \in 1 .. Len(s) - 1 : t[i] = s[i]

Took(s, t, type, length, index) ==
  /\ LastChanged(s, t)
  /\ s # <<>> => Settled(t[Len(s)], type, length, index)

LEMMA ValueCounted ==
  ASSUME NEW type, NEW length, NEW index, Expecting(type, length, index)
  PROVE  AcceptsValue /\ Took(stack, counted, type, length, index)
<1>1. CASE stack = <<>>
  <2>1. AcceptsValue /\ counted = <<>>
    BY <1>1 DEF Expecting, AcceptsValue, counted
  <2>2. IsSeq(<<>>) /\ Len(<<>>) = 0 /\ \A i \in 1 .. 0 - 1 : FALSE
    BY EmptyContainers DEF SameKeys, Containers
  <2> QED BY <1>1, <2>1, <2>2 DEF Took, LastChanged
<1>2. CASE stack # <<>>
  <2> DEFINE f == [back EXCEPT !.count = (back.count + 1) % U32Size,
                               !.expecting_key = (back.kind = "Object")]
             t == [stack EXCEPT ![Len(stack)] = f]
  <2>1. AcceptsValue /\ Settled(f, type, length, index)
    BY <1>2, FrameCounted DEF Expecting
  <2>2. counted = t
    BY <1>2 DEF counted
  <2> HIDE DEF f
  <2>3. /\ IsSeq(t) /\ Len(t) = Len(stack) /\ t[Len(stack)] = f
        /\ \A i \in 1 .. Len(stack) - 1 : t[i] = stack[i]
    BY <1>2, LastReplaced DEF Expecting
  <2> HIDE DEF t
  <2> QED BY <2>1, <2>2, <2>3 DEF Took, LastChanged
<1> QED BY <1>1, <1>2

LEMMA NothingJoined == ASSUME NEW s, IsSeq(s) PROVE s \o <<>> = s
<1> DEFINE S == {s[i] : i \in 1 .. Len(s)}
<1>1. s \in Seq(S)
  BY DEF IsSeq
<1> HIDE DEF S
<1> QED BY <1>1, ConcatEmptySeq

LEMMA LastJoined ==
  ASSUME NEW s, IsSeq(s), NEW e
  PROVE  s \o <<e>> = Append(s, e)
<1> DEFINE S == {s[i] : i \in 1 .. Len(s)}
           T == S \cup {e}
<1>1. s \in Seq(S)
  BY DEF IsSeq
<1> HIDE DEF S
<1>2. s \in Seq(T) /\ e \in T
  BY <1>1
<1> HIDE DEF T
<1> QED BY <1>2, AppendIsConcat

LEMMA LeafTaken ==
  ASSUME NEW v, Writable(v), WriteLeaf(v), Filled,
         NEW type, NEW length, NEW index, Expecting(type, length, index)
  PROVE  /\ has_root' = TRUE /\ Took(stack, stack', type, length, index)
         /\ Filled' /\ EndsWell
         /\ call'.op \in LeafMethods /\ call'.arg = v
<1>1. AcceptsValue /\ Took(stack, counted, type, length, index)
  BY ValueCounted
<1>2. /\ beginValue(<<>>) /\ Filled' /\ EndsWell
      /\ call'.op \in LeafMethods /\ call'.arg = v
  BY <1>1, LeafAccepted
<1>3. has_root' = TRUE /\ stack' = counted \o <<>>
  BY <1>2 DEF beginValue
<1>4. counted \o <<>> = counted
  BY <1>1, NothingJoined DEF Took, LastChanged
<1> QED BY <1>1, <1>2, <1>3, <1>4

BeginOf(kind, total) ==
  IF kind = "array" THEN beginArray(total) ELSE beginObject

LEMMA ContainerTaken ==
  ASSUME NEW kind \in {"array", "object"}, NEW total,
         kind = "array" => total \in U32,
         BeginOf(kind, total), Filled,
         NEW type, NEW length, NEW index, Expecting(type, length, index)
  PROVE  /\ has_root' = TRUE /\ Filled' /\ call'.thrown = "none"
         /\ call'.op \in {"beginObject", "beginArray"}
         /\ call'.arg = Leaf(kind, IF kind = "array" THEN <<total>> ELSE <<>>)
         /\ IsSeq(stack') /\ Len(stack') = Len(stack) + 1
         /\ Settled(stack'[Len(stack) + 1], kind, total, 0)
         /\ \A i \in 1 .. Len(stack) - 1 : stack'[i] = stack[i]
         /\ stack # <<>> =>
              Settled(stack'[Len(stack)], type, length, index)
<1>1. AcceptsValue /\ Took(stack, counted, type, length, index)
  BY ValueCounted
<1> DEFINE arg == Leaf(kind, IF kind = "array" THEN <<total>> ELSE <<>>)
           new == IF kind = "array"
                  THEN [kind |-> "Array", count |-> 0, expected |-> total,
                        expecting_key |-> FALSE]
                  ELSE [kind |-> "Object", count |-> 0, expected |-> 0,
                        expecting_key |-> TRUE]
           raw == IF kind = "array" THEN Emits(<<DenseTag>> \o varint(total))
                  ELSE Emits(<<ObjectTag>>)
           op == IF kind = "array" THEN "beginArray" ELSE "beginObject"
<1>2. Write(op, arg, raw, <<new>>)
  BY DEF BeginOf, beginArray, beginObject
<1>3. IsSeq(raw.put) /\ raw.thrown = "none"
  <2>1. \A s : Emits(s).put = s /\ Emits(s).thrown = "none"
    BY DEF Emits
  <2>2. IsSeq(<<DenseTag>> \o varint(total)) /\ IsSeq(<<ObjectTag>>)
    BY SingleByte, VarintIsSequence, SequencesJoined
  <2> QED BY <2>1, <2>2
<1>4. Settled(new, kind, total, 0)
  <2>1. kind = "array" => 0 \in 0 .. total
    BY Widths
  <2> QED BY <2>1 DEF Settled, Fields
<1> HIDE DEF arg, new, raw
<1>5. /\ beginValue(<<new>>) /\ Filled'
      /\ call'.op = op /\ call'.arg = arg /\ call'.thrown = "none"
  BY <1>1, <1>2, <1>3, WriteAccepted
<1>6. has_root' = TRUE /\ stack' = counted \o <<new>>
  BY <1>5 DEF beginValue
<1>7. IsSeq(counted) /\ Len(counted) = Len(stack) /\ Len(stack) \in Nat
  BY <1>1, SequencesAre DEF Took, LastChanged, Expecting
<1>8. stack' = Append(counted, new)
  BY <1>6, <1>7, LastJoined
<1>9. /\ IsSeq(stack') /\ Len(stack') = Len(stack) + 1
      /\ stack'[Len(stack) + 1] = new
      /\ \A i \in 1 .. Len(stack) : stack'[i] = counted[i]
  BY <1>7, <1>8, SequenceAppended
<1>10. \A i \in 1 .. Len(stack) - 1 : stack'[i] = stack[i]
  <2>1. \A i \in 1 .. Len(stack) - 1 : i \in 1 .. Len(stack)
    BY <1>7
  <2> QED BY <1>1, <1>9, <2>1 DEF Took, LastChanged
<1>11. ASSUME stack # <<>>
       PROVE  Settled(stack'[Len(stack)], type, length, index)
  <2>1. Len(stack) # 0
    BY <1>11, SequencesAre DEF Expecting
  <2>2. Len(stack) \in 1 .. Len(stack)
    BY <1>7, <2>1
  <2>3. stack'[Len(stack)] = counted[Len(stack)]
    BY <1>9, <2>2
  <2> QED BY <1>1, <1>11, <2>3 DEF Took
<1> QED BY <1>4, <1>5, <1>6, <1>9, <1>10, <1>11 DEF arg

LEMMA KeyTaken ==
  ASSUME NEW s \in Text, key(s), Filled, IsSeq(stack), stack # <<>>,
         NEW length, NEW index, Settled(back, "object", length, index)
  PROVE  /\ UNCHANGED has_root /\ Filled' /\ call'.thrown = "none"
         /\ call'.op = "key" /\ call'.arg.data = s
         /\ LastChanged(stack, stack')
         /\ \A l, i : Awaiting(stack'[Len(stack)], "object", l, i)
<1> DEFINE raw == rawUtf16(s)
           f == [back EXCEPT !.expecting_key = FALSE]
           t == [stack EXCEPT ![Len(stack)] = f]
<1>1. IsSeq(raw.put) /\ raw.thrown = "none"
  BY TextEmits DEF Emitted
<1>2. Fields(back) /\ back.kind = "Object" /\ back.expecting_key = TRUE
  BY DEF Settled
<1>4. AcceptsKey
  BY <1>2 DEF AcceptsKey
<1>5. /\ bytes' = bytes \o raw.put
      /\ stack' = [stack EXCEPT ![Len(stack)].expecting_key =
                     raw.thrown # "none"]
      /\ call' = Call("key", Leaf("string", s), raw.thrown, <<>>)
      /\ UNCHANGED has_root
  BY <1>4 DEF key
<1> HIDE DEF raw
<1>6. stack' = t
  <2>1. (raw.thrown # "none") = FALSE
    BY <1>1
  <2> QED BY <1>5, <2>1 DEF back
<1>7. Fields(f) /\ f.kind = "Object" /\ f.expecting_key = FALSE
  BY <1>2 DEF Fields
<1> HIDE DEF f
<1>8. /\ IsSeq(t) /\ Len(t) = Len(stack) /\ t[Len(stack)] = f
      /\ \A i \in 1 .. Len(stack) - 1 : t[i] = stack[i]
  BY LastReplaced
<1> HIDE DEF t
<1>10. \A l, i : Awaiting(f, "object", l, i)
  BY <1>7 DEF Awaiting
<1>11. Filled'
  BY <1>1, <1>5, StaysFilled
<1> QED BY <1>1, <1>5, <1>6, <1>8, <1>10, <1>11 DEF LastChanged, Call, Leaf

EndOf(kind) == IF kind = "array" THEN endArray ELSE endObject

LEMMA EndTaken ==
  ASSUME NEW kind, EndOf(kind), Filled, IsSeq(stack), stack # <<>>,
         NEW length, NEW index, Settled(back, kind, length, index),
         kind = "array" => index >= length
  PROVE  /\ UNCHANGED has_root /\ Filled' /\ call'.thrown = "none"
         /\ call'.op \in {"endObject", "endArray"}
         /\ stack' = SubSeq(stack, 1, Len(stack) - 1)
<1> DEFINE op == IF kind = "array" THEN "endArray" ELSE "endObject"
           Kd == IF kind = "array" THEN "Array" ELSE "Object"
           put == IF kind = "array"
                  THEN <<EndDenseTag>> \o varint(0) \o varint(back.expected)
                  ELSE <<EndObjectTag>> \o varint(back.count)
<1>1. End(op, Kd, put)
  BY DEF EndOf, endArray, endObject
<1>2. IsSeq(put)
  BY SingleByte, VarintIsSequence, SequencesJoined
<1>3. AcceptsEnd(Kd)
  <2>1. CASE kind = "array"
    <3>1. /\ length \in U32 /\ index \in 0 .. length
          /\ back.kind = "Array" /\ back.expected = length
          /\ back.count = index
      BY <2>1 DEF Settled
    <3>2. index = length
      BY <2>1, <3>1, Widths
    <3> QED BY <2>1, <3>1, <3>2 DEF AcceptsEnd
  <2>2. CASE kind # "array"
    <3>1. back.kind = "Object" /\ back.expecting_key = TRUE
      BY <2>2 DEF Settled
    <3> QED BY <2>2, <3>1 DEF AcceptsEnd
  <2> QED BY <2>1, <2>2
<1> HIDE DEF put, Kd
<1>4. /\ stack' = SubSeq(stack, 1, Len(stack) - 1)
      /\ bytes' = bytes \o put
      /\ call' = Call(op, NoValue, "none", <<>>)
      /\ UNCHANGED has_root
  BY <1>1, <1>3 DEF End
<1>5. Filled'
  BY <1>2, <1>4, StaysFilled
<1> QED BY <1>4, <1>5 DEF Call

LEMMA MessageTaken ==
  ASSUME take, stack = <<>>, has_root, Filled
  PROVE  call'.thrown = "none" /\ call'.op = "take" /\ call'.out # <<>>
BY DEF take, AcceptsTake, Call, Filled

-----------------------------------------------------------------------------
(* Trees.  A tree over a set has its parts in that set; a layer holds      *)
(* trees over the layer below it.                                          *)

Shaped(v) ==
  v = [type |-> v.type, data |-> v.data, keys |-> v.keys, kids |-> v.kids]

ContainerOver(v, set) ==
  /\ Shaped(v) /\ v.data = <<>> /\ v.kids \in Seq(set)
  /\ v.type \in {"array", "object"}
  /\ v.type = "array" => v.keys = <<>> /\ Len(v.kids) \in U32
  /\ v.type = "object" => v.keys \in Seq(Text) /\ Len(v.keys) = Len(v.kids)

TreeOver(v, set) == Writable(v) \/ ContainerOver(v, set)

Layers(L) ==
  /\ DOMAIN L = 0 .. MaxDepth + 1 /\ L[0] = {}
  /\ \A h \in 1 .. MaxDepth + 1 : \A v \in L[h] : TreeOver(v, L[h - 1])

LEMMA DepthIsNat == MaxDepth \in Nat
BY ONLY TraversalAssumption, Zenon DEF TraversalAssumption

LEMMA TreeOverMore ==
  ASSUME NEW v, NEW S, NEW T, S \subseteq T, TreeOver(v, S)
  PROVE  TreeOver(v, T)
<1>1. CASE Writable(v)
  BY <1>1 DEF TreeOver
<1>2. CASE ContainerOver(v, S)
  <2>1. v.kids \in Seq(T)
    BY <1>2 DEF ContainerOver
  <2> QED BY <1>2, <2>1 DEF TreeOver, ContainerOver
<1> QED BY <1>1, <1>2 DEF TreeOver

(* A tree over one layer may join the next.                                *)
LEMMA LayerGrows ==
  ASSUME NEW L, Layers(L), NEW h \in 1 .. MaxDepth + 1, NEW v,
         TreeOver(v, L[h - 1])
  PROVE  \E M : /\ Layers(M) /\ v \in M[h]
                /\ \A j \in 0 .. MaxDepth + 1 : L[j] \subseteq M[j]
<1> DEFINE M == [j \in 0 .. MaxDepth + 1 |->
                   IF j = h THEN L[j] \cup {v} ELSE L[j]]
<1>1. MaxDepth \in Nat
  BY DepthIsNat
<1>2. \A j \in 0 .. MaxDepth + 1 :
        M[j] = IF j = h THEN L[j] \cup {v} ELSE L[j]
  OBVIOUS
<1>3. DOMAIN M = 0 .. MaxDepth + 1
  OBVIOUS
<1> HIDE DEF M
<1>4. \A j \in 0 .. MaxDepth + 1 : L[j] \subseteq M[j]
  BY <1>2
<1>5. M[0] = {}
  <2>1. 0 \in 0 .. MaxDepth + 1 /\ 0 # h
    BY <1>1
  <2> QED BY <1>2, <2>1 DEF Layers
<1>6. ASSUME NEW j \in 1 .. MaxDepth + 1, NEW w \in M[j]
      PROVE  TreeOver(w, M[j - 1])
  <2>1. j \in 0 .. MaxDepth + 1 /\ j - 1 \in 0 .. MaxDepth + 1
    BY <1>1
  <2>2. w \in L[j] \/ (j = h /\ w = v)
    BY <1>2, <1>6, <2>1
  <2>3. TreeOver(w, L[j - 1])
    BY <2>2 DEF Layers
  <2> QED BY <1>4, <2>1, <2>3, TreeOverMore
<1>7. v \in M[h]
  <2>1. h \in 0 .. MaxDepth + 1
    BY <1>1
  <2> QED BY <1>2, <2>1
<1> QED BY <1>3, <1>4, <1>5, <1>6, <1>7 DEF Layers

(* What accessors leave alone.                                             *)
LEMMA KindsKept ==
  ASSUME HeapSound, NEW slot, NEW active, IsValue(slot.value, DOMAIN heap),
         Get(slot, active), changes \in Nat
  PROVE  /\ \A o \in DOMAIN heap : heap'[o].kind = heap[o].kind
         /\ changes' \in Nat /\ (changes' = 0 => changes = 0 /\ heap' = heap)
<1>1. CASE UNCHANGED world
  BY <1>1 DEF world
<1>2. ASSUME NEW o \in DOMAIN heap, NEW e \in Edits(heap[o]),
             heap' = [heap EXCEPT ![o] = e], changes' = changes + 1
      PROVE  /\ \A p \in DOMAIN heap : heap'[p].kind = heap[p].kind
             /\ changes' \in Nat /\ changes' # 0
  <2>1. e.kind = heap[o].kind
    BY EditKeeps DEF HeapSound
  <2> QED BY <1>2, <2>1
<1> QED BY <1>1, <1>2 DEF Get, Throw

-----------------------------------------------------------------------------
(* encodeSync() while no accessor has changed anything: the stack of the   *)
(* Writer follows the loops.                                               *)

kindOf(i) == heap[frames[i].obj].kind
lengthOf(i) == heap[frames[i].obj].length

FrameFollows(i) ==
  IF i = Len(frames) /\ mode # "loop"
  THEN Awaiting(stack[i], kindOf(i), lengthOf(i), frames[i].index)
  ELSE Settled(stack[i], kindOf(i), lengthOf(i), frames[i].index)

StackFollows ==
  /\ IsSeq(stack) /\ Len(stack) = Len(frames)
  /\ has_root = (frames # <<>>)
  /\ Filled
  /\ \A i \in 1 .. Len(frames) : FrameFollows(i)

Followed ==
  /\ walking => StackFollows
  /\ mode = "end" => stack = <<>> /\ has_root /\ Filled

LEMMA FramesLast ==
  ASSUME WalkInv
  PROVE  /\ IsSeq(frames) /\ Len(frames) \in Nat
         /\ frames = <<>> <=> Len(frames) = 0
         /\ frames # <<>> => Len(frames) \in 1 .. Len(frames)
BY SequencesAre DEF WalkInv, WalkSound

LEMMA NextIsExpected ==
  ASSUME WalkInv, StackFollows, mode = "value"
  PROVE  LET n == Len(frames)
         IN  Expecting(kindOf(n), lengthOf(n), frames[n].index)
<1> DEFINE n == Len(frames)
<1>1. IsSeq(stack) /\ Len(stack) = n /\ has_root = (frames # <<>>)
  BY DEF StackFollows
<1>2. stack = <<>> <=> frames = <<>>
  BY <1>1, FramesLast, SequencesAre
<1>3. ASSUME stack # <<>>
      PROVE  Awaiting(back, kindOf(n), lengthOf(n), frames[n].index)
  <2>1. n \in 1 .. n
    BY <1>2, <1>3, FramesLast
  <2>2. FrameFollows(n)
    BY <2>1 DEF StackFollows
  <2> QED BY <1>1, <2>2 DEF FrameFollows, back
<1> QED BY <1>1, <1>2, <1>3 DEF Expecting

LEMMA SyncLeaf ==
  ASSUME WalkInv, StackFollows, mode = "value",
         NEW v, Writable(v), WriteLeaf(v), Proceed(afterValue(frames)),
         UNCHANGED <<world, input, frames, ancestors>>
  PROVE  Followed' /\ EndsWell
<1> DEFINE n == Len(frames)
<1>1. Filled /\ IsSeq(stack) /\ Len(stack) = n
  BY DEF StackFollows
<1>2. /\ has_root' = TRUE /\ Filled' /\ EndsWell
      /\ Took(stack, stack', kindOf(n), lengthOf(n), frames[n].index)
  BY <1>1, NextIsExpected, LeafTaken
<1>3. /\ IsSeq(stack') /\ Len(stack') = n
      /\ \A i \in 1 .. n - 1 : stack'[i] = stack[i]
      /\ frames # <<>> =>
           Settled(stack'[n], kindOf(n), lengthOf(n), frames[n].index)
  BY <1>1, <1>2, FramesLast, SequencesAre DEF Took, LastChanged
<1>4. UNCHANGED <<frames, heap>>
  BY DEF world
<1>5. ASSUME frames # <<>>, walking' PROVE StackFollows'
  <2>1. mode' = "loop"
    BY <1>5 DEF Proceed, afterValue, walking
  <2>2. n \in Nat \ {0}
    BY <1>5, FramesLast
  <2>3. ASSUME NEW i \in 1 .. n PROVE FrameFollows(i)'
    <3>1. CASE i = n
      <4>1. Settled(stack'[n], kindOf(n), lengthOf(n), frames[n].index)
        BY <1>3, <1>5
      <4> QED BY <1>4, <2>1, <3>1, <4>1 DEF FrameFollows, kindOf, lengthOf
    <3>2. CASE i # n
      <4>1. i \in 1 .. n - 1 /\ FrameFollows(i)
        BY <2>2, <3>2 DEF StackFollows
      <4> QED BY <1>3, <1>4, <2>1, <3>2, <4>1
           DEF FrameFollows, kindOf, lengthOf
    <3> QED BY <3>1, <3>2
  <2> QED BY <1>2, <1>3, <1>4, <1>5, <2>3 DEF StackFollows
<1>6. ASSUME frames = <<>>
      PROVE  ~walking' /\ stack' = <<>>
  <2>1. ~walking'
    BY <1>6 DEF Proceed, afterValue, walking
  <2>2. n = 0
    BY <1>6, FramesLast
  <2> QED BY <1>3, <2>1, <2>2, SequencesAre
<1>7. frames # <<>> => mode' # "end"
  BY DEF Proceed, afterValue
<1> QED BY <1>2, <1>5, <1>6, <1>7 DEF Followed

LEMMA SyncOpen ==
  ASSUME WalkInv, StackFollows, mode = "value", input.type = "ref",
         target \in DOMAIN heap, NEW kind \in {"array", "object"}, NEW names,
         heap[target].kind = kind,
         BeginOf(kind, heap[target].length), enter(names)
  PROVE  Followed' /\ call'.thrown = "none"
<1> DEFINE n == Len(frames)
           total == heap[target].length
<1>0. kind = "array" => total \in U32
  BY EntryParts DEF WalkInv, HeapSound
<1>1. Filled /\ IsSeq(stack) /\ Len(stack) = n /\ IsSeq(frames) /\ n \in Nat
  BY FramesLast DEF StackFollows
<1>2. /\ has_root' = TRUE /\ Filled' /\ call'.thrown = "none"
      /\ IsSeq(stack') /\ Len(stack') = n + 1
      /\ Settled(stack'[n + 1], kind, total, 0)
      /\ \A i \in 1 .. n - 1 : stack'[i] = stack[i]
      /\ stack # <<>> =>
           Settled(stack'[n], kindOf(n), lengthOf(n), frames[n].index)
  BY <1>0, <1>1, NextIsExpected, ContainerTaken
<1> DEFINE f == [obj |-> target, index |-> 0, names |-> names]
<1>3. frames' = Append(frames, f) /\ mode' = "loop" /\ UNCHANGED heap
  BY <1>2 DEF enter, Proceed, world
<1>4. f.obj = target /\ f.index = 0
  OBVIOUS
<1> HIDE DEF f
<1>5. /\ IsSeq(frames') /\ Len(frames') = n + 1 /\ frames'[n + 1] = f
      /\ \A i \in 1 .. n : frames'[i] = frames[i]
  BY <1>1, <1>3, SequenceAppended
<1>6. frames' # <<>>
  BY <1>1, <1>5, SequencesAre
<1>7. ASSUME NEW i \in 1 .. n + 1 PROVE FrameFollows(i)'
  <2>1. CASE i = n + 1
    BY <1>2, <1>3, <1>4, <1>5, <2>1 DEF FrameFollows, kindOf, lengthOf
  <2>2. CASE i = n
    <3>1. stack # <<>>
      BY <1>1, <2>2, SequencesAre
    <3>2. Settled(stack'[n], kindOf(n), lengthOf(n), frames[n].index)
      BY <1>2, <3>1
    <3>3. kindOf(i)' = kindOf(n) /\ lengthOf(i)' = lengthOf(n)
          /\ frames'[i].index = frames[n].index
      <4>1. n \in 1 .. n
        BY <1>1, <2>2
      <4> QED BY <1>3, <1>5, <2>2, <4>1 DEF kindOf, lengthOf
    <3>4. FrameFollows(i)' =
            Settled(stack'[i], kindOf(i)', lengthOf(i)', frames'[i].index)
      BY <1>3 DEF FrameFollows
    <3> QED BY <2>2, <3>2, <3>3, <3>4
  <2>3. CASE i \in 1 .. n - 1
    <3>1. FrameFollows(i) /\ i # n /\ i \in 1 .. n
      BY <1>1, <2>3 DEF StackFollows
    <3>2. kindOf(i)' = kindOf(i) /\ lengthOf(i)' = lengthOf(i)
          /\ frames'[i].index = frames[i].index
      BY <1>3, <1>5, <3>1 DEF kindOf, lengthOf
    <3> QED BY <1>2, <1>3, <2>3, <3>1, <3>2 DEF FrameFollows
  <2> QED BY <1>1, <2>1, <2>2, <2>3
<1>8. StackFollows'
  BY <1>2, <1>5, <1>6, <1>7 DEF StackFollows
<1> QED BY <1>2, <1>3, <1>8 DEF Followed

(* The loops of WriteJavaScriptValue().                                    *)
LEMMA SyncAdvanced ==
  ASSUME WalkInv, StackFollows, frames # <<>>, frames' = advanced,
         UNCHANGED <<heap, stack, has_root, bytes>>,
         LET n == Len(frames)
         IN  IF mode' # "loop"
             THEN Awaiting(stack[n], kindOf(n), lengthOf(n), top.index + 1)
             ELSE Settled(stack[n], kindOf(n), lengthOf(n), top.index + 1)
  PROVE  StackFollows'
<1> DEFINE n == Len(frames)
<1>1. n \in Nat \ {0} /\ n \in 1 .. n
  BY FramesLast
<1>2. /\ IsSeq(frames') /\ Len(frames') = n
      /\ \A i \in 1 .. n :
           /\ frames'[i].obj = frames[i].obj
           /\ frames'[i].index =
                frames[i].index + (IF i = n THEN 1 ELSE 0)
           /\ frames[i].index \in Nat
  BY AdvancedFrames DEF WalkInv, WalkSound, Activation
<1>3. frames' # <<>>
  BY <1>1, <1>2, SequencesAre
<1>4. \A i \in 1 .. n : kindOf(i)' = kindOf(i) /\ lengthOf(i)' = lengthOf(i)
  BY <1>2 DEF kindOf, lengthOf
<1>5. ASSUME NEW i \in 1 .. n PROVE FrameFollows(i)'
  <2>1. CASE i = n
    <3>1. frames'[n].index = top.index + 1
      BY <1>1, <1>2 DEF top
    <3>2. kindOf(i)' = kindOf(n) /\ lengthOf(i)' = lengthOf(n)
      BY <1>4, <2>1
    <3> HIDE DEF kindOf, lengthOf
    <3> QED BY <1>2, <2>1, <3>1, <3>2 DEF FrameFollows
  <2>2. CASE i # n
    <3>1. FrameFollows(i)
      BY DEF StackFollows
    <3>2. frames'[i].index = frames[i].index
      BY <1>2, <2>2
    <3>3. kindOf(i)' = kindOf(i) /\ lengthOf(i)' = lengthOf(i)
      BY <1>4
    <3> QED BY <1>2, <2>2, <3>1, <3>2, <3>3 DEF FrameFollows
  <2> QED BY <2>1, <2>2
<1>6. /\ IsSeq(stack') /\ Len(stack') = Len(frames') /\ has_root' = TRUE
      /\ Filled'
  BY <1>2 DEF StackFollows, Filled
<1> QED BY <1>2, <1>3, <1>5, <1>6 DEF StackFollows

LEMMA AtInnermost ==
  ASSUME WalkInv, StackFollows, frames # <<>>
  PROVE  LET n == Len(frames)
         IN  /\ n \in Nat \ {0} /\ n \in 1 .. n /\ stack # <<>>
             /\ Len(stack) = n /\ back = stack[n]
             /\ kindOf(n) = scanned.kind /\ lengthOf(n) = scanned.length
             /\ frames[n].index = top.index /\ top.index \in Nat
             /\ FrameFollows(n)
<1>1. Len(frames) \in Nat \ {0} /\ Len(frames) \in 1 .. Len(frames)
  BY FramesLast
<1>2. Len(stack) = Len(frames) /\ stack # <<>>
  BY <1>1, SequencesAre DEF StackFollows
<1>3. top.index \in Nat
  BY <1>1 DEF WalkInv, WalkSound, Activation, top
<1> QED BY <1>1, <1>2, <1>3
        DEF StackFollows, back, kindOf, lengthOf, scanned, top

LEMMA SyncGot ==
  ASSUME WalkInv, StackFollows, frames' = advanced, mode' = "value",
         UNCHANGED <<heap, stack, has_root, bytes>>,
         \/ looping("array") /\ top.index < scanned.length
         \/ mode = "get"
  PROVE  StackFollows'
<1> DEFINE n == Len(frames)
<1>1. frames # <<>>
  BY DEF WalkInv, ModeSound, looping
<1>2. /\ back = stack[n] /\ FrameFollows(n)
      /\ kindOf(n) = scanned.kind /\ lengthOf(n) = scanned.length
      /\ frames[n].index = top.index /\ top.index \in Nat
  BY <1>1, AtInnermost
<1>3. CASE looping("array") /\ top.index < scanned.length
  <2>1. Settled(stack[n], "array", lengthOf(n), top.index)
    BY <1>2, <1>3 DEF FrameFollows, looping
  <2>2. /\ Fields(stack[n]) /\ lengthOf(n) \in U32
        /\ stack[n].kind = "Array" /\ stack[n].expected = lengthOf(n)
        /\ stack[n].count = top.index /\ top.index + 1 - 1 = top.index
    BY <1>2, <2>1 DEF Settled
  <2>3. top.index + 1 \in 1 .. lengthOf(n)
    <3>1. lengthOf(n) \in Nat
      BY <2>2, NumberRange
    <3> QED BY <1>2, <1>3, <3>1
  <2>4. Awaiting(stack[n], "array", lengthOf(n), top.index + 1)
    <3>1. PICK f, l, j : f = stack[n] /\ l = lengthOf(n) /\ j = top.index + 1
      OBVIOUS
    <3>2. /\ Fields(f) /\ l \in U32 /\ j \in 1 .. l
          /\ f.kind = "Array" /\ f.expected = l /\ f.count = j - 1
      BY <1>2, <2>2, <2>3, <3>1
    <3>3. Awaiting(f, "array", l, j)
      BY <3>2 DEF Awaiting
    <3> QED BY <3>1, <3>3
  <2>5. kindOf(n) = "array" /\ mode' # "loop"
    BY <1>2, <1>3 DEF looping
  <2> QED BY <1>1, <2>4, <2>5, SyncAdvanced
<1>4. CASE mode = "get"
  <2>1. kindOf(n) = "object" /\ mode' # "loop"
    BY <1>2, <1>4 DEF WalkInv, ModeSound
  <2>2. Awaiting(stack[n], "object", lengthOf(n), top.index)
    BY <1>2, <1>4, <2>1 DEF FrameFollows
  <2>3. Awaiting(stack[n], "object", lengthOf(n), top.index + 1)
    BY <2>2 DEF Awaiting
  <2> QED BY <1>1, <2>1, <2>3, SyncAdvanced
<1> QED BY <1>3, <1>4

LEMMA SyncSkipped ==
  ASSUME WalkInv, StackFollows, looping("object"), frames' = advanced,
         UNCHANGED <<heap, mode, stack, has_root, bytes>>
  PROVE  StackFollows'
<1> DEFINE n == Len(frames)
<1>1. frames # <<>> /\ mode' = "loop"
  BY DEF WalkInv, ModeSound, looping
<1>2. FrameFollows(n) /\ kindOf(n) = "object"
  BY <1>1, AtInnermost DEF looping
<1>3. Settled(stack[n], "object", lengthOf(n), frames[n].index)
  BY <1>2 DEF FrameFollows, looping
<1>4. Settled(stack[n], "object", lengthOf(n), top.index + 1)
  BY <1>3 DEF Settled
<1> QED BY <1>1, <1>2, <1>4, SyncAdvanced

LEMMA SyncKey ==
  ASSUME WalkInv, StackFollows, looping("object"), NEW name \in Text,
         key(name), Proceed("get"),
         UNCHANGED <<world, input, frames, ancestors>>
  PROVE  StackFollows' /\ call'.thrown = "none"
<1> DEFINE n == Len(frames)
<1>1. frames # <<>>
  BY DEF WalkInv, ModeSound, looping
<1>2. /\ FrameFollows(n) /\ kindOf(n) = "object" /\ stack # <<>>
      /\ back = stack[n] /\ Len(stack) = n /\ IsSeq(stack) /\ Filled
      /\ n \in Nat \ {0}
  BY <1>1, AtInnermost DEF looping, StackFollows
<1>3. Settled(back, "object", lengthOf(n), frames[n].index)
  BY <1>2 DEF FrameFollows, looping
<1>4. /\ UNCHANGED has_root /\ Filled' /\ call'.thrown = "none"
      /\ LastChanged(stack, stack')
      /\ \A l, i : Awaiting(stack'[Len(stack)], "object", l, i)
  BY <1>2, <1>3, KeyTaken
<1>5. mode' = "get" /\ UNCHANGED <<frames, heap>>
  BY <1>4 DEF Proceed, world
<1>6. ASSUME NEW i \in 1 .. n PROVE FrameFollows(i)'
  <2>1. CASE i = n
    <3>1. Awaiting(stack'[n], "object", lengthOf(n), frames[n].index)
      BY <1>2, <1>4
    <3> QED BY <1>2, <1>5, <2>1, <3>1 DEF FrameFollows, kindOf, lengthOf
  <2>2. CASE i # n
    <3>1. FrameFollows(i)
      BY DEF StackFollows
    <3>2. stack'[i] = stack[i]
      <4>1. i \in 1 .. Len(stack) - 1
        BY <1>2, <2>2
      <4> QED BY <1>4, <4>1 DEF LastChanged
    <3> QED BY <1>5, <2>2, <3>1, <3>2 DEF FrameFollows, kindOf, lengthOf
  <2> QED BY <2>1, <2>2
<1>7. IsSeq(stack') /\ Len(stack') = n
  BY <1>2, <1>4 DEF LastChanged
<1>8. has_root' = (frames' # <<>>)
  BY <1>4, <1>5 DEF StackFollows
<1> QED BY <1>4, <1>5, <1>6, <1>7, <1>8 DEF StackFollows

LEMMA SyncEnd ==
  ASSUME WalkInv, StackFollows, mode = "loop", NEW kind, scanned.kind = kind,
         EndOf(kind), kind = "array" => top.index >= scanned.length,
         leave
  PROVE  Followed' /\ call'.thrown = "none"
<1> DEFINE n == Len(frames)
<1>1. frames # <<>>
  BY DEF WalkInv, ModeSound
<1>2. /\ FrameFollows(n) /\ kindOf(n) = kind /\ stack # <<>>
      /\ back = stack[n] /\ Len(stack) = n /\ IsSeq(stack) /\ Filled
      /\ n \in Nat \ {0} /\ lengthOf(n) = scanned.length
      /\ frames[n].index = top.index
  BY <1>1, AtInnermost DEF StackFollows
<1>3. Settled(back, kind, lengthOf(n), top.index)
  BY <1>2 DEF FrameFollows
<1>4. /\ UNCHANGED has_root /\ Filled' /\ call'.thrown = "none"
      /\ stack' = SubSeq(stack, 1, n - 1)
  <2>1. kind = "array" => top.index >= lengthOf(n)
    BY <1>2
  <2> QED BY <1>2, <1>3, <2>1, EndTaken
<1>5. /\ IsSeq(stack') /\ Len(stack') = n - 1
      /\ \A i \in 1 .. n - 1 : stack'[i] = stack[i]
  BY <1>2, <1>4, SequenceShortened
<1>6. /\ frames' = SubSeq(frames, 1, n - 1) /\ UNCHANGED heap
      /\ mode' = afterValue(frames')
  BY <1>4 DEF leave, Proceed, world
<1>7. /\ IsSeq(frames') /\ Len(frames') = n - 1
      /\ \A i \in 1 .. n - 1 : frames'[i] = frames[i]
  BY <1>1, <1>6, FramesLast, SequenceShortened
<1>8. ASSUME NEW i \in 1 .. n - 1, mode' = "loop" PROVE FrameFollows(i)'
  <2>1. i \in 1 .. n /\ i # n
    BY <1>2
  <2>2. FrameFollows(i)
    BY <2>1 DEF StackFollows
  <2>3. kindOf(i)' = kindOf(i) /\ lengthOf(i)' = lengthOf(i)
        /\ frames'[i].index = frames[i].index /\ stack'[i] = stack[i]
    BY <1>5, <1>6, <1>7 DEF kindOf, lengthOf
  <2> QED BY <1>8, <2>1, <2>2, <2>3 DEF FrameFollows
<1>9. has_root' = TRUE
  BY <1>1, <1>4 DEF StackFollows
<1>10. mode' = "loop" => frames' # <<>> /\ StackFollows'
  BY <1>4, <1>5, <1>6, <1>7, <1>8, <1>9 DEF StackFollows, afterValue
<1>11. mode' = "end" => stack' = <<>>
  <2>1. ASSUME mode' = "end" PROVE n - 1 = 0
    BY <1>6, <1>7, <2>1, SequencesAre DEF afterValue
  <2> QED BY <1>5, <2>1, SequencesAre
<1>12. mode' \in {"loop", "end"}
  BY <1>6 DEF afterValue
<1> QED BY <1>4, <1>9, <1>10, <1>11, <1>12 DEF Followed, walking

(* What holds of the path taken, and on that of encodeSync().              *)
SyncSound ==
  /\ path \in {"sync", "async"} /\ changes \in Nat
  /\ mode = "encode" => path = "async"
  /\ path = "sync" /\ changes = 0 => Followed

LEMMA Refused ==
  ASSUME NEW reason, Throw(reason), reason # "native"
  PROVE  /\ mode' = "thrown" /\ Followed' /\ NativeForCause'
         /\ UNCHANGED <<path, changes, heap, frames>>
BY DEF Throw, Followed, walking, NativeForCause, world

LEMMA Proceeds ==
  ASSUME error = "none", NEW next, Proceed(next), EndsWell
  PROVE  NativeForCause'
BY DEF Proceed, EndsWell, NativeForCause

LEMMA ReturnsWell == call'.thrown = "none" => EndsWell
BY DEF EndsWell

(* The value that is visited can be written if it is a scalar or a buffer. *)
LEMMA InputIsWritable ==
  ASSUME WalkInv
  PROVE  /\ input.type \in Scalars => Writable(wireScalar(input))
         /\ input.type = "ref" => target \in DOMAIN heap
         /\ input.type = "ref" /\ heap[target].kind \notin {"array", "object"}
              => Writable(Leaf(heap[target].kind, heap[target].data))
<1>1. IsValue(input, DOMAIN heap)
  BY DEF WalkInv, HeapSound
<1>2. input.type \in Scalars => Writable(wireScalar(input))
  BY <1>1, ScalarWritable
<1>3. input.type = "ref" => target \in DOMAIN heap
  BY <1>1 DEF IsValue, target
<1>4. ASSUME input.type = "ref", heap[target].kind \notin {"array", "object"}
      PROVE  Writable(Leaf(heap[target].kind, heap[target].data))
  <2>1. IsEntry(heap[target], DOMAIN heap)
    BY <1>3, <1>4 DEF WalkInv, HeapSound
  <2>2. BinarySound(heap[target].kind, heap[target].data)
    BY <1>4, <2>1, EntryParts
  <2> QED BY <2>2, BufferWritable
<1> QED BY <1>2, <1>3, <1>4

LEMMA SyncValue ==
  ASSUME WalkInv, Followed, path = "sync", error = "none",
         encodeScalar \/ encodeBinary
  PROVE  Followed' /\ NativeForCause'
<1>1. ASSUME mode = "value", NEW v, Writable(v), putLeaf(v),
             Proceed(afterValue(frames)),
             UNCHANGED <<world, input, frames, ancestors>>
      PROVE  Followed' /\ NativeForCause'
  <2>1. WriteLeaf(v) /\ StackFollows
    BY <1>1 DEF putLeaf, Recorded, Followed, walking
  <2>2. Followed' /\ EndsWell
    BY <1>1, <2>1, SyncLeaf
  <2> QED BY <1>1, <2>2, Proceeds
<1>2. CASE encodeScalar
  <2>1. /\ mode = "value" /\ input.type \in Scalars
        /\ putLeaf(wireScalar(input))
        /\ Proceed(afterValue(frames))
        /\ UNCHANGED <<world, input, frames, ancestors>>
    BY <1>2 DEF encodeScalar, visitable
  <2>2. Writable(wireScalar(input))
    BY <2>1, InputIsWritable
  <2> QED BY <1>1, <2>1, <2>2
<1>3. CASE encodeBinary
  <2>1. /\ mode = "value" /\ input.type = "ref"
        /\ heap[target].kind \notin {"array", "object"}
        /\ putLeaf(Leaf(heap[target].kind, heap[target].data))
        /\ Proceed(afterValue(frames))
        /\ UNCHANGED <<world, input, frames, ancestors>>
    BY <1>3 DEF encodeBinary, fresh, visitable
  <2>2. Writable(Leaf(heap[target].kind, heap[target].data))
    BY <2>1, InputIsWritable
  <2> QED BY <1>1, <2>1, <2>2
<1> QED BY <1>2, <1>3

LEMMA SyncContainer ==
  ASSUME WalkInv, Followed, path = "sync", error = "none",
         openArray \/ openObject
  PROVE  Followed' /\ NativeForCause'
<1>1. ASSUME fresh, NEW kind \in {"array", "object"}, NEW names,
             heap[target].kind = kind,
             BeginOf(kind, heap[target].length), enter(names)
      PROVE  Followed' /\ NativeForCause'
  <2>1. /\ mode = "value" /\ input.type = "ref" /\ target \in DOMAIN heap
        /\ StackFollows
    BY <1>1, InputIsWritable DEF fresh, visitable, Followed, walking
  <2>2. Followed' /\ call'.thrown = "none"
    BY <1>1, <2>1, SyncOpen
  <2>3. Proceed("loop")
    BY <1>1 DEF enter
  <2> QED BY <2>2, <2>3, Proceeds, ReturnsWell
<1>2. CASE openArray
  <2>1. BeginOf("array", heap[target].length)
    BY <1>2 DEF openArray, putArray, Recorded, BeginOf
  <2> QED BY <1>1, <1>2, <2>1 DEF openArray
<1>3. CASE openObject
  <2>1. BeginOf("object", heap[target].length)
    BY <1>3 DEF openObject, putObject, Recorded, BeginOf
  <2> QED BY <1>1, <1>3, <2>1 DEF openObject
<1> QED BY <1>2, <1>3

LEMMA SyncRead ==
  ASSUME WalkInv, SyncSound, path = "sync", error = "none",
         arrayElement \/ objectGet
  PROVE  SyncSound' /\ NativeForCause'
<1>1. ASSUME NEW slot, IsValue(slot.value, DOMAIN heap), Get(slot, advanced),
             \/ looping("array") /\ top.index < scanned.length
             \/ mode = "get"
      PROVE  SyncSound' /\ NativeForCause'
  <2>1. /\ path' = path /\ changes' \in Nat
        /\ changes' = 0 => changes = 0 /\ heap' = heap
    BY <1>1, KindsKept DEF WalkInv, SyncSound, Get, Throw, world
  <2>2. CASE Throw("getter")
    BY <2>1, <2>2, Refused DEF SyncSound
  <2>3. CASE /\ mode' = "value" /\ frames' = advanced /\ error' = error
             /\ UNCHANGED rvars
    <3>1. ASSUME changes' = 0 PROVE Followed'
      <4>1. StackFollows
        BY <1>1, <2>1, <3>1 DEF SyncSound, Followed, walking, looping
      <4>2. UNCHANGED <<heap, stack, has_root, bytes>>
        BY <2>1, <2>3, <3>1 DEF rvars
      <4>3. StackFollows'
        BY <1>1, <2>3, <4>1, <4>2, SyncGot
      <4> QED BY <2>3, <4>3 DEF Followed
    <3>2. NativeForCause'
      BY <2>3 DEF NativeForCause
    <3> QED BY <2>1, <2>3, <3>1, <3>2 DEF SyncSound
  <2> QED BY <1>1, <2>2, <2>3 DEF Get
<1>2. CASE arrayElement
  <2>1. /\ looping("array") /\ top.index < scanned.length
        /\ IF top.index \in DOMAIN scanned.slots
           THEN Get(scanned.slots[top.index], advanced)
           ELSE Throw("sparse")
    BY <1>2 DEF arrayElement
  <2>2. CASE top.index \in DOMAIN scanned.slots
    <3>1. frames # <<>> /\ scanned.kind = "array"
      BY <2>1 DEF WalkInv, ModeSound, looping
    <3>2. SlotsSound(scanned.slots, DOMAIN heap)
      BY <3>1, AtTop, EntryParts
    <3>3. IsValue(scanned.slots[top.index].value, DOMAIN heap)
      BY <2>2, <3>2 DEF SlotsSound
    <3> QED BY <1>1, <2>1, <2>2, <3>3
  <2>3. CASE top.index \notin DOMAIN scanned.slots
    <3>1. Throw("sparse")
      BY <2>1, <2>3
    <3> QED BY <3>1, Refused DEF SyncSound
  <2> QED BY <2>2, <2>3
<1>3. CASE objectGet
  <2> DEFINE name == top.names[top.index + 1]
  <2>1. mode = "get" /\ Get(scanned.slots[name], advanced)
    BY <1>3 DEF objectGet, ownNames
  <2>2. /\ frames # <<>> /\ scanned.kind = "object"
        /\ name \in DOMAIN scanned.slots
    BY <2>1 DEF WalkInv, ModeSound
  <2> HIDE DEF name
  <2>3. SlotsSound(scanned.slots, DOMAIN heap)
    BY <2>2, AtTop, EntryParts
  <2>4. IsValue(scanned.slots[name].value, DOMAIN heap)
    BY <2>2, <2>3 DEF SlotsSound
  <2> QED BY <1>1, <2>1, <2>4
<1> QED BY <1>2, <1>3

LEMMA NamesAreText ==
  ASSUME WalkInv, frames # <<>>
  PROVE  /\ top.names \in Seq(Text) /\ top.index \in Nat
         /\ top.index < Len(top.names) => top.names[top.index + 1] \in Text
<1>1. top.names \in Seq(Text) /\ top.index \in Nat
  BY AtTop DEF Activation
<1>2. ASSUME NEW T, NEW s \in Seq(T), NEW i \in Nat, i < Len(s)
      PROVE  s[i + 1] \in T
  BY <1>2
<1> QED BY <1>1, <1>2

LEMMA SyncName ==
  ASSUME WalkInv, Followed, path = "sync", error = "none", objectKey
  PROVE  Followed' /\ NativeForCause'
<1> DEFINE name == top.names[top.index + 1]
<1>1. /\ looping("object") /\ top.index < Len(top.names)
      /\ \/ Throw("symbol")
         \/ /\ frames' = advanced
            /\ UNCHANGED <<world, input, ancestors, mode,
                           error, treeVars, rvars>>
         \/ /\ putKey(name) /\ Proceed("get")
            /\ UNCHANGED <<world, input, frames, ancestors>>
  BY DEF objectKey, ownNames
<1>2. frames # <<>> /\ StackFollows /\ mode = "loop"
  BY <1>1 DEF WalkInv, ModeSound, Followed, walking, looping
<1>3. name \in Text
  BY <1>1, <1>2, NamesAreText
<1> HIDE DEF name
<1>4. CASE Throw("symbol")
  BY <1>4, Refused
<1>5. CASE /\ frames' = advanced
           /\ UNCHANGED <<world, input, ancestors, mode,
                          error, treeVars, rvars>>
  <2>1. UNCHANGED <<heap, mode, stack, has_root, bytes, error>>
    BY <1>5 DEF world, rvars
  <2>2. StackFollows'
    BY <1>1, <1>2, <1>5, <2>1, SyncSkipped
  <2> QED BY <1>2, <2>1, <2>2 DEF Followed, NativeForCause
<1>6. CASE /\ putKey(name) /\ Proceed("get")
           /\ UNCHANGED <<world, input, frames, ancestors>>
  <2>1. key(name)
    BY <1>6 DEF putKey, Recorded
  <2>2. StackFollows' /\ call'.thrown = "none"
    BY <1>1, <1>2, <1>3, <1>6, <2>1, SyncKey
  <2>3. mode' = "get"
    BY <1>6, <2>2 DEF Proceed
  <2> QED BY <1>6, <2>2, <2>3, Proceeds, ReturnsWell DEF Followed
<1> QED BY <1>1, <1>4, <1>5, <1>6

LEMMA SyncClose ==
  ASSUME WalkInv, Followed, path = "sync", error = "none",
         closeArray \/ closeObject
  PROVE  Followed' /\ NativeForCause'
<1>1. ASSUME NEW kind, looping(kind), EndOf(kind), leave,
             kind = "array" => top.index >= scanned.length
      PROVE  Followed' /\ NativeForCause'
  <2>1. StackFollows /\ mode = "loop" /\ scanned.kind = kind
    BY <1>1 DEF Followed, walking, looping
  <2>2. Followed' /\ call'.thrown = "none"
    BY <1>1, <2>1, SyncEnd
  <2>3. Proceed(afterValue(frames'))
    BY <1>1 DEF leave
  <2> QED BY <2>2, <2>3, Proceeds, ReturnsWell
<1>2. CASE closeArray
  <2>1. CASE Throw("named")
    BY <2>1, Refused
  <2>2. CASE putEnd("array") /\ leave
    <3>1. EndOf("array")
      BY <2>2 DEF putEnd, Recorded, EndOf
    <3> QED BY <1>1, <1>2, <2>2, <3>1 DEF closeArray
  <2> QED BY <1>2, <2>1, <2>2 DEF closeArray
<1>3. CASE closeObject
  <2>1. EndOf("object")
    BY <1>3 DEF closeObject, putEnd, Recorded, EndOf
  <2> QED BY <1>1, <1>3, <2>1 DEF closeObject
<1> QED BY <1>2, <1>3

LEMMA SyncTake ==
  ASSUME Followed, error = "none", mode = "end", takeMessage
  PROVE  Followed' /\ NativeForCause'
<1>1. take /\ Proceed("done")
  BY DEF takeMessage, Recorded
<1>2. call'.thrown = "none"
  BY <1>1, MessageTaken DEF Followed
<1>3. mode' = "done"
  BY <1>1, <1>2 DEF Proceed
<1>4. Followed'
  BY <1>3 DEF Followed, walking
<1>5. NativeForCause'
  BY <1>1, <1>2, Proceeds, ReturnsWell
<1> QED BY <1>4, <1>5

LEMMA RefuseThrows ==
  ASSUME refuse
  PROVE  \E reason : Throw(reason) /\ reason # "native"
<1>1. \/ Throw("depth") \/ Throw("unsupported") \/ Throw("cyclic")
      \/ Throw("not plain") \/ Throw("buffer")
  BY DEF refuse
<1>2. /\ "depth" # "native" /\ "unsupported" # "native"
      /\ "cyclic" # "native" /\ "not plain" # "native"
      /\ "buffer" # "native"
  OBVIOUS
<1> QED BY <1>1, <1>2, Zenon

(* What the paths have in common.                                          *)
LEMMA WorldKept ==
  ASSUME TraversalNext
  PROVE  /\ path' = path
         /\ arrayElement \/ objectGet \/ UNCHANGED <<changes, heap>>
         /\ mode' = "encode" => mode = "encode" \/ path = "async"
<1>1. ASSUME NEW reason, Throw(reason)
      PROVE  UNCHANGED <<path, changes, heap>> /\ mode' # "encode"
  BY <1>1 DEF Throw, world
<1>2. CASE arrayElement \/ objectGet
  BY <1>1, <1>2 DEF arrayElement, objectGet, Get, world
<1>3. CASE refuse
  BY <1>1, <1>3, RefuseThrows
<1>4. ASSUME NEW names, enter(names)
      PROVE  UNCHANGED <<path, changes, heap>> /\ mode' # "encode"
  BY <1>4 DEF enter, Proceed, world
<1>5. CASE openArray \/ openObject
  BY <1>4, <1>5 DEF openArray, openObject
<1>6. CASE encodeScalar \/ encodeBinary
  BY <1>6 DEF encodeScalar, encodeBinary, Proceed, afterValue, world
<1>7. CASE closeArray \/ closeObject
  BY <1>1, <1>7 DEF closeArray, closeObject, leave, Proceed, afterValue, world
<1>8. CASE objectKey
  <2>1. ASSUME NEW name, putKey(name), Proceed("get"),
               UNCHANGED <<world, input, frames, ancestors>>
        PROVE  UNCHANGED <<path, changes, heap>> /\ mode' # "encode"
    BY <2>1 DEF Proceed, world
  <2>2. mode = "loop"
    BY <1>8 DEF objectKey, looping
  <2> QED BY <1>1, <1>8, <2>1, <2>2 DEF objectKey, world
<1>9. CASE startEncode
  BY <1>9 DEF startEncode, world
<1>10. CASE writeValue
  <2>1. mode = "encode"
    BY <1>10 DEF writeValue
  <2> QED BY <1>1, <1>10, <2>1 DEF writeValue, world
<1>11. CASE takeMessage
  BY <1>11 DEF takeMessage, Proceed, world
<1> QED BY <1>2, <1>3, <1>5, <1>6, <1>7, <1>8, <1>9, <1>10, <1>11
        DEF TraversalNext

LEMMA ActiveSync ==
  ASSUME TraversalNext, path = "sync", SyncSound
  PROVE  ~startEncode /\ ~writeValue /\ (takeMessage => mode = "end")
BY DEF startEncode, writeValue, takeMessage, SyncSound

LEMMA SyncStep ==
  ASSUME WalkInv, SyncSound, path = "sync", error = "none", TraversalNext
  PROVE  SyncSound' /\ NativeForCause'
<1>1. path' = path /\ (mode' = "encode" => path = "async")
  BY WorldKept DEF SyncSound
<1>2. CASE arrayElement \/ objectGet
  BY <1>2, SyncRead
<1>3. CASE ~(arrayElement \/ objectGet)
  <2>1. changes' = changes
    BY <1>3, WorldKept
  <2>2. CASE changes = 0
    <3>1. Followed
      BY <2>2 DEF SyncSound
    <3>2. Followed' /\ NativeForCause'
      BY <1>3, <3>1, ActiveSync, SyncValue, SyncContainer, SyncName, SyncClose,
         SyncTake, RefuseThrows, Refused DEF TraversalNext
    <3> QED BY <1>1, <2>1, <3>2 DEF SyncSound
  <2>3. CASE changes # 0
    <3>1. changes' > 0
      BY <2>1, <2>3 DEF SyncSound
    <3> QED BY <1>1, <2>1, <2>3, <3>1 DEF SyncSound, NativeForCause
  <2> QED BY <2>2, <2>3
<1> QED BY <1>2, <1>3

-----------------------------------------------------------------------------
(* CopyValue(): the containers under construction.  w is 1 while a value   *)
(* is counted by the loop, or has its key, but is not placed yet.          *)

Copied(c, kind, index, w, set) ==
  /\ Shaped(c) /\ c.data = <<>> /\ c.kids \in Seq(set)
  /\ c.type = kind /\ kind \in {"array", "object"}
  /\ kind = "array" =>
       c.keys = <<>> /\ index \in U32 /\ index = Len(c.kids) + w
  /\ kind = "object" =>
       c.keys \in Seq(Text) /\ Len(c.keys) = Len(c.kids) + w

LEMMA CopiedMore ==
  ASSUME NEW c, NEW kind, NEW index, NEW w, NEW S, NEW T, S \subseteq T,
         Copied(c, kind, index, w, S)
  PROVE  Copied(c, kind, index, w, T)
<1>1. c.kids \in Seq(T)
  BY DEF Copied
<1> QED BY <1>1 DEF Copied

LEMMA CopiedTakes ==
  ASSUME NEW c, NEW kind, NEW index, NEW S, NEW v \in S,
         Copied(c, kind, index, 1, S)
  PROVE  Copied([c EXCEPT !.kids = Append(@, v)], kind, index, 0, S)
<1> DEFINE d == [c EXCEPT !.kids = Append(@, v)]
<1>1. Shaped(c) /\ c.kids \in Seq(S)
  BY DEF Copied
<1>2. DOMAIN c = {"type", "data", "keys", "kids"}
  BY <1>1 DEF Shaped
<1>3. /\ d.type = c.type /\ d.data = c.data /\ d.keys = c.keys
      /\ d.kids = Append(c.kids, v)
      /\ d = [type |-> d.type, data |-> d.data, keys |-> d.keys,
              kids |-> d.kids]
  BY <1>2
<1> HIDE DEF d
<1>4. d.kids \in Seq(S) /\ Len(d.kids) = Len(c.kids) + 1 /\ Len(c.kids) \in Nat
  BY <1>1, <1>3
<1>5. Shaped(d)
  BY <1>3, Zenon DEF Shaped
<1>6. /\ kind = "array" =>
           d.keys = <<>> /\ index \in U32 /\ index = Len(d.kids) + 0
      /\ kind = "object" =>
           d.keys \in Seq(Text) /\ Len(d.keys) = Len(d.kids) + 0
  BY <1>3, <1>4 DEF Copied
<1>7. Copied(d, kind, index, 0, S)
  BY <1>3, <1>4, <1>5, <1>6 DEF Copied
<1> QED BY <1>7 DEF d

LEMMA CopiedNamed ==
  ASSUME NEW c, NEW index, NEW S, NEW name \in Text,
         Copied(c, "object", index, 0, S), NEW later
  PROVE  Copied([c EXCEPT !.keys = Append(@, name)], "object", later, 1, S)
<1> DEFINE d == [c EXCEPT !.keys = Append(@, name)]
<1>1. Shaped(c) /\ c.keys \in Seq(Text) /\ c.kids \in Seq(S)
      /\ Len(c.keys) = Len(c.kids) + 0
  BY DEF Copied
<1>2. DOMAIN c = {"type", "data", "keys", "kids"}
  BY <1>1 DEF Shaped
<1>3. /\ d.type = c.type /\ d.data = c.data /\ d.kids = c.kids
      /\ d.keys = Append(c.keys, name)
      /\ d = [type |-> d.type, data |-> d.data, keys |-> d.keys,
              kids |-> d.kids]
  BY <1>2
<1> HIDE DEF d
<1>4. d.keys \in Seq(Text) /\ Len(d.keys) = Len(c.keys) + 1
  <2>1. ASSUME NEW T, name \in T, c.keys \in Seq(T)
        PROVE  /\ Append(c.keys, name) \in Seq(T)
               /\ Len(Append(c.keys, name)) = Len(c.keys) + 1
    BY <2>1
  <2> QED BY <1>1, <1>3, <2>1
<1>5. Len(d.keys) = Len(d.kids) + 1
  BY <1>1, <1>3, <1>4
<1>6. Shaped(d)
  BY <1>3, Zenon DEF Shaped
<1>7. Copied(d, "object", later, 1, S)
  BY <1>3, <1>4, <1>5, <1>6 DEF Copied
<1> QED BY <1>7 DEF d

LEMMA CopiedWhole ==
  ASSUME NEW c, NEW kind, NEW index, NEW S, Copied(c, kind, index, 0, S)
  PROVE  TreeOver(c, S)
<1>1. c.kids \in Seq(S) /\ Len(c.kids) \in Nat
  BY DEF Copied
<1>2. kind = "array" => Len(c.kids) \in U32
  BY <1>1 DEF Copied
<1>3. kind = "object" => Len(c.keys) = Len(c.kids)
  BY <1>1 DEF Copied
<1> QED BY <1>2, <1>3 DEF Copied, TreeOver, ContainerOver

LEMMA CopiedNew ==
  ASSUME NEW kind \in {"array", "object"}, NEW S
  PROVE  Copied(Leaf(kind, <<>>), kind, 0, 0, S)
<1> DEFINE c == Leaf(kind, <<>>)
<1>1. /\ c = [type |-> c.type, data |-> c.data, keys |-> c.keys,
              kids |-> c.kids]
      /\ c.type = kind /\ c.data = <<>> /\ c.keys = <<>> /\ c.kids = <<>>
  BY DEF Leaf
<1> HIDE DEF c
<1>2. <<>> \in Seq(S) /\ <<>> \in Seq(Text) /\ Len(<<>>) = 0 + 0
  OBVIOUS
<1>3. 0 \in U32
  BY Widths
<1>4. Shaped(c)
  BY <1>1, Zenon DEF Shaped
<1>5. Copied(c, kind, 0, 0, S)
  BY <1>1, <1>2, <1>3, <1>4 DEF Copied
<1> QED BY <1>5 DEF c

LEMMA CopiedCounts ==
  ASSUME NEW c, NEW kind, NEW index, NEW S
  PROVE  /\ Copied(c, "array", index, 0, S) /\ index + 1 \in U32
              => Copied(c, "array", index + 1, 1, S)
         /\ \A w, i : Copied(c, "object", index, w, S)
              => Copied(c, "object", i, w, S)
<1>1. ASSUME Copied(c, "array", index, 0, S), index + 1 \in U32
      PROVE  Copied(c, "array", index + 1, 1, S)
  <2>1. c.kids \in Seq(S) /\ Len(c.kids) \in Nat /\ index = Len(c.kids) + 0
    BY <1>1 DEF Copied
  <2>2. index + 1 = Len(c.kids) + 1
    BY <2>1
  <2> QED BY <1>1, <2>2 DEF Copied
<1>2. ASSUME NEW w, NEW i, Copied(c, "object", index, w, S)
      PROVE  Copied(c, "object", i, w, S)
  BY <1>2 DEF Copied
<1> QED BY <1>1, <1>2

(* A value is placed in the innermost container.                           *)
LEMMA CopyPlaced ==
  ASSUME NEW L, Layers(L), NEW s, IsSeq(s), Len(s) <= MaxDepth, NEW v,
         TreeOver(v, L[MaxDepth - Len(s)]), Placed(v, s), NEW K, NEW I,
         \A i \in 1 .. Len(s) :
           Copied(s[i], K[i], I[i], 1, L[MaxDepth + 1 - i])
  PROVE  \E M :
           /\ Layers(M)
           /\ s = <<>> => copy' \in M[MaxDepth + 1]
           /\ s # <<>> =>
                /\ IsSeq(copying') /\ Len(copying') = Len(s)
                /\ \A i \in 1 .. Len(s) :
                     Copied(copying'[i], K[i], I[i],
                            IF i = Len(s) THEN 0 ELSE 1, M[MaxDepth + 1 - i])
<1> DEFINE m == Len(s)
           h == MaxDepth + 1 - m
<1>1. MaxDepth \in Nat /\ m \in Nat /\ (s = <<>> <=> m = 0)
  BY DepthIsNat, SequencesAre
<1>2. h \in 1 .. MaxDepth + 1 /\ h - 1 = MaxDepth - m
  BY <1>1
<1>3. PICK M : /\ Layers(M) /\ v \in M[h]
               /\ \A j \in 0 .. MaxDepth + 1 : L[j] \subseteq M[j]
  <2>1. TreeOver(v, L[h - 1])
    BY <1>2
  <2> HIDE DEF h
  <2> QED BY <1>2, <2>1, LayerGrows
<1>4. CASE s = <<>>
  <2>1. h = MaxDepth + 1
    BY <1>1, <1>4
  <2>2. copy' = v
    BY <1>4 DEF Placed
  <2> QED BY <1>3, <1>4, <2>1, <2>2
<1>5. CASE s # <<>>
  <2> DEFINE c == s[m]
             d == [c EXCEPT !.kids = Append(@, v)]
             t == [s EXCEPT ![m] = d]
  <2>1. copying' = t
    BY <1>5 DEF Placed
  <2>2. m \in 1 .. m /\ m \in Nat \ {0}
    BY <1>1, <1>5
  <2>3. \A i \in 1 .. m :
          /\ L[MaxDepth + 1 - i] \subseteq M[MaxDepth + 1 - i]
          /\ Copied(s[i], K[i], I[i], 1, M[MaxDepth + 1 - i])
    <3>1. TAKE i \in 1 .. m
    <3>2. MaxDepth + 1 - i \in 0 .. MaxDepth + 1
      BY <1>1
    <3>3. L[MaxDepth + 1 - i] \subseteq M[MaxDepth + 1 - i]
      BY <1>3, <3>2
    <3> QED BY <3>3, CopiedMore
  <2>4. Copied(d, K[m], I[m], 0, M[h])
    <3>1. Copied(c, K[m], I[m], 1, M[h])
      BY <2>2, <2>3
    <3> QED BY <1>3, <3>1, CopiedTakes
  <2> HIDE DEF d
  <2>5. /\ IsSeq(t) /\ Len(t) = m /\ t[m] = d
        /\ \A i \in 1 .. m - 1 : t[i] = s[i]
    BY <1>5, LastReplaced
  <2> HIDE DEF t
  <2>6. ASSUME NEW i \in 1 .. m
        PROVE  Copied(t[i], K[i], I[i], IF i = m THEN 0 ELSE 1,
                      M[MaxDepth + 1 - i])
    <3>1. CASE i = m
      BY <2>4, <2>5, <3>1
    <3>2. CASE i # m
      <4>1. t[i] = s[i]
        BY <2>2, <2>5, <3>2
      <4> QED BY <2>3, <3>2, <4>1
    <3> QED BY <3>1, <3>2
  <2> QED BY <1>3, <1>5, <2>1, <2>5, <2>6
<1> QED BY <1>4, <1>5

(* Of the containers around the innermost one, and of that one while a     *)
(* value is visited, the last part is not placed yet.                      *)
half(i) == IF i = Len(frames) /\ mode = "loop" THEN 0 ELSE 1

CopyFollows(L) ==
  /\ IsSeq(copying) /\ Len(copying) = Len(frames)
  /\ \A i \in 1 .. Len(frames) :
       Copied(copying[i], kindOf(i), frames[i].index, half(i),
              L[MaxDepth + 1 - i])

(* The Writer of encodeAsync() is not used before the copy is complete.    *)
Idle ==
  stack = <<>> /\ ~has_root /\ open = <<>> /\ Filled /\ call.thrown = "none"

Copying(L) ==
  /\ walking => Idle /\ CopyFollows(L)
  /\ mode = "end" => Idle /\ copy \in L[MaxDepth + 1]

LEMMA IdleStays == ASSUME Idle, UNCHANGED rvars PROVE Idle'
BY DEF Idle, rvars, Filled

LEMMA CopyLeaf ==
  ASSUME WalkInv, NEW L, Layers(L), Idle, CopyFollows(L), visitable,
         NEW v, Writable(v), Placed(v, copying), UNCHANGED <<pending, rvars>>,
         Proceed(afterValue(frames)),
         UNCHANGED <<world, input, frames, ancestors>>
  PROVE  (\E M : Layers(M) /\ Copying(M)') /\ error' = error
<1> DEFINE n == Len(frames)
<1>1. /\ IsSeq(copying) /\ Len(copying) = n /\ n \in Nat
      /\ mode = "value" /\ n <= MaxDepth
      /\ frames = <<>> <=> n = 0
  BY FramesLast, DepthIsNat DEF CopyFollows, visitable, tooDeep
<1>2. PICK K, I : /\ K = [i \in 1 .. n |-> kindOf(i)]
                  /\ I = [i \in 1 .. n |-> frames[i].index]
  OBVIOUS
<1>3. \A i \in 1 .. n : K[i] = kindOf(i) /\ I[i] = frames[i].index
  BY <1>2
<1>4. \A i \in 1 .. n :
        Copied(copying[i], K[i], I[i], 1, L[MaxDepth + 1 - i])
  BY <1>1, <1>3 DEF CopyFollows, half
<1>5. TreeOver(v, L[MaxDepth - n])
  BY DEF TreeOver
<1>6. PICK M :
        /\ Layers(M)
        /\ copying = <<>> => copy' \in M[MaxDepth + 1]
        /\ copying # <<>> =>
             /\ IsSeq(copying') /\ Len(copying') = n
             /\ \A i \in 1 .. n :
                  Copied(copying'[i], K[i], I[i],
                         IF i = n THEN 0 ELSE 1, M[MaxDepth + 1 - i])
  BY <1>1, <1>4, <1>5, CopyPlaced
<1>7. UNCHANGED <<frames, heap>> /\ call' = call /\ Idle'
  BY IdleStays DEF world, rvars
<1>8. error' = error /\ mode' = afterValue(frames)
  BY <1>7 DEF Proceed, Idle
<1>9. CASE frames = <<>>
  <2>1. mode' = "end" /\ copying = <<>>
    BY <1>1, <1>8, <1>9, SequencesAre DEF afterValue
  <2>2. Copying(M)'
    BY <1>6, <1>7, <2>1 DEF Copying, walking
  <2> QED BY <1>6, <1>8, <2>2
<1>10. CASE frames # <<>>
  <2>1. mode' = "loop" /\ copying # <<>>
    BY <1>1, <1>8, <1>10, SequencesAre DEF afterValue
  <2>2. ASSUME NEW i \in 1 .. n
        PROVE  Copied(copying'[i], kindOf(i)', frames'[i].index, half(i)',
                      M[MaxDepth + 1 - i])
    <3>1. kindOf(i)' = K[i] /\ frames'[i].index = I[i]
      BY <1>3, <1>7 DEF kindOf
    <3>2. half(i)' = IF i = n THEN 0 ELSE 1
      BY <1>7, <2>1 DEF half
    <3> QED BY <1>6, <2>1, <3>1, <3>2
  <2>3. CopyFollows(M)'
    BY <1>6, <1>7, <2>1, <2>2 DEF CopyFollows
  <2>4. Copying(M)'
    BY <1>7, <2>1, <2>3 DEF Copying
  <2> QED BY <1>6, <1>8, <2>4
<1> QED BY <1>9, <1>10

LEMMA CopyOpen ==
  ASSUME WalkInv, NEW L, Layers(L), Idle, CopyFollows(L), mode = "value",
         NEW kind \in {"array", "object"}, heap[target].kind = kind,
         copying' = Append(copying, Leaf(kind, <<>>)), UNCHANGED rvars,
         NEW names, enter(names)
  PROVE  Copying(L)' /\ error' = error
<1> DEFINE n == Len(frames)
           c == Leaf(kind, <<>>)
           f == [obj |-> target, index |-> 0, names |-> names]
<1>1. /\ IsSeq(copying) /\ Len(copying) = n /\ n \in Nat /\ IsSeq(frames)
  BY FramesLast DEF CopyFollows
<1>2. /\ frames' = Append(frames, f) /\ UNCHANGED heap /\ Idle'
      /\ mode' = "loop" /\ error' = error
  BY IdleStays DEF enter, Proceed, world, Idle, rvars
<1>3. f.obj = target /\ f.index = 0
  OBVIOUS
<1> HIDE DEF f
<1>4. /\ IsSeq(frames') /\ Len(frames') = n + 1 /\ frames'[n + 1] = f
      /\ \A i \in 1 .. n : frames'[i] = frames[i]
  BY <1>1, <1>2, SequenceAppended
<1>5. \A S : Copied(c, kind, 0, 0, S)
  BY CopiedNew
<1> HIDE DEF c
<1>6. /\ IsSeq(copying') /\ Len(copying') = n + 1 /\ copying'[n + 1] = c
      /\ \A i \in 1 .. n : copying'[i] = copying[i]
  BY <1>1, SequenceAppended DEF c
<1>7. ASSUME NEW i \in 1 .. n + 1
      PROVE  Copied(copying'[i], kindOf(i)', frames'[i].index, half(i)',
                    L[MaxDepth + 1 - i])
  <2>1. CASE i = n + 1
    <3>1. kindOf(i)' = kind /\ frames'[i].index = 0 /\ half(i)' = 0
      BY <1>2, <1>3, <1>4, <2>1 DEF kindOf, half
    <3> QED BY <1>5, <1>6, <2>1, <3>1
  <2>2. CASE i \in 1 .. n
    <3>1. Copied(copying[i], kindOf(i), frames[i].index, half(i),
                 L[MaxDepth + 1 - i])
      BY <2>2 DEF CopyFollows
    <3>2. /\ kindOf(i)' = kindOf(i) /\ frames'[i].index = frames[i].index
          /\ half(i)' = half(i) /\ copying'[i] = copying[i]
      BY <1>1, <1>2, <1>4, <1>6, <2>2 DEF kindOf, half
    <3> QED BY <3>1, <3>2
  <2> QED BY <1>1, <2>1, <2>2
<1>8. CopyFollows(L)'
  BY <1>4, <1>6, <1>7 DEF CopyFollows
<1> QED BY <1>2, <1>8 DEF Copying

(* The loops of CopyValue().                                               *)
LEMMA CopyInnermost ==
  ASSUME WalkInv, frames # <<>>, NEW L, CopyFollows(L)
  PROVE  LET n == Len(frames)
         IN  /\ n \in Nat \ {0} /\ n \in 1 .. n /\ n <= MaxDepth + 1
             /\ frames[n] \in {top} /\ top.obj \in DOMAIN heap
             /\ kindOf(n) = scanned.kind
             /\ Copied(innerCopy, scanned.kind, top.index, half(n),
                       L[MaxDepth + 1 - n])
<1> DEFINE n == Len(frames)
<1>1. n \in Nat \ {0} /\ n \in 1 .. n /\ n <= MaxDepth + 1
  BY FramesLast DEF WalkInv, WalkSound
<1>2. kindOf(n) = scanned.kind /\ frames[n] = top
  BY DEF kindOf, scanned, top
<1>3. top.obj \in DOMAIN heap
  BY <1>1 DEF WalkInv, WalkSound, Activation, top
<1>4. Copied(copying[n], kindOf(n), frames[n].index, half(n),
             L[MaxDepth + 1 - n])
  BY <1>1 DEF CopyFollows
<1>5. copying[n] = innerCopy
  BY DEF innerCopy, CopyFollows
<1> QED BY <1>1, <1>2, <1>3, <1>4, <1>5

LEMMA CopyAdvanced ==
  ASSUME WalkInv, frames # <<>>, NEW L, CopyFollows(L), frames' = advanced,
         UNCHANGED copying, \A o \in DOMAIN heap : heap'[o].kind = heap[o].kind,
         NEW w, Copied(innerCopy, scanned.kind, top.index + 1, w,
                       L[MaxDepth + 1 - Len(frames)]),
         w = IF mode' = "loop" THEN 0 ELSE 1
  PROVE  CopyFollows(L)'
<1> DEFINE n == Len(frames)
<1>1. /\ n \in Nat \ {0} /\ n \in 1 .. n /\ kindOf(n) = scanned.kind
      /\ frames[n] = top /\ copying[n] = innerCopy
  BY CopyInnermost DEF innerCopy, CopyFollows
<1>2. /\ IsSeq(frames') /\ Len(frames') = n
      /\ \A i \in 1 .. n :
           /\ frames'[i].obj = frames[i].obj
           /\ frames'[i].index =
                frames[i].index + (IF i = n THEN 1 ELSE 0)
           /\ frames[i].index \in Nat /\ frames[i].obj \in DOMAIN heap
  BY AdvancedFrames DEF WalkInv, WalkSound, Activation
<1>3. \A i \in 1 .. n : kindOf(i)' = kindOf(i)
  BY <1>2 DEF kindOf
<1>4. ASSUME NEW i \in 1 .. n
      PROVE  Copied(copying'[i], kindOf(i)', frames'[i].index, half(i)',
                    L[MaxDepth + 1 - i])
  <2>1. CASE i = n
    <3>1. frames'[i].index = top.index + 1 /\ half(i)' = w
      BY <1>1, <1>2, <2>1 DEF half
    <3>2. kindOf(i)' = scanned.kind /\ copying'[i] = innerCopy
      BY <1>1, <1>3, <2>1
    <3> QED BY <2>1, <3>1, <3>2
  <2>2. CASE i # n
    <3>1. Copied(copying[i], kindOf(i), frames[i].index, half(i),
                 L[MaxDepth + 1 - i])
      BY DEF CopyFollows
    <3>2. frames'[i].index = frames[i].index /\ half(i)' = half(i)
      BY <1>2, <2>2 DEF half
    <3> QED BY <1>3, <3>1, <3>2
  <2> QED BY <2>1, <2>2
<1> QED BY <1>2, <1>4 DEF CopyFollows

LEMMA CopyGot ==
  ASSUME WalkInv, NEW L, CopyFollows(L), frames' = advanced, mode' = "value",
         UNCHANGED copying, \A o \in DOMAIN heap : heap'[o].kind = heap[o].kind,
         \/ looping("array") /\ top.index < scanned.length
         \/ mode = "get"
  PROVE  CopyFollows(L)'
<1> DEFINE n == Len(frames)
<1>1. frames # <<>>
  BY DEF WalkInv, ModeSound, looping
<1>2. Copied(innerCopy, scanned.kind, top.index, half(n),
             L[MaxDepth + 1 - n])
  BY <1>1, CopyInnermost
<1>3. CASE looping("array") /\ top.index < scanned.length
  <2>1. half(n) = 0 /\ scanned.kind = "array"
    BY <1>3 DEF half, looping
  <2>2. top.index + 1 \in U32
    <3>1. scanned.length \in U32 /\ top.index \in Nat
      BY <1>1, <2>1, AtTop, EntryParts DEF Activation
    <3>2. \A l \in U32 : \A i \in Nat : i < l => i + 1 \in U32
      BY Widths, SMT DEF U32Max
    <3> QED BY <1>3, <3>1, <3>2
  <2>3. Copied(innerCopy, scanned.kind, top.index + 1, 1, L[MaxDepth + 1 - n])
    BY <1>2, <2>1, <2>2, CopiedCounts
  <2> QED BY <1>1, <2>3, CopyAdvanced
<1>4. CASE mode = "get"
  <2>1. half(n) = 1 /\ scanned.kind = "object"
    BY <1>4 DEF half, WalkInv, ModeSound
  <2>2. Copied(innerCopy, scanned.kind, top.index + 1, 1, L[MaxDepth + 1 - n])
    BY <1>2, <2>1, CopiedCounts
  <2> QED BY <1>1, <2>2, CopyAdvanced
<1> QED BY <1>3, <1>4

LEMMA CopySkipped ==
  ASSUME WalkInv, NEW L, CopyFollows(L), looping("object"), frames' = advanced,
         UNCHANGED <<mode, heap, copying>>
  PROVE  CopyFollows(L)'
<1> DEFINE n == Len(frames)
<1>1. /\ frames # <<>> /\ half(n) = 0 /\ scanned.kind = "object"
      /\ mode' = "loop"
  BY DEF WalkInv, ModeSound, looping, half
<1>2. Copied(innerCopy, scanned.kind, top.index, 0, L[MaxDepth + 1 - n])
  BY <1>1, CopyInnermost
<1>3. Copied(innerCopy, scanned.kind, top.index + 1, 0, L[MaxDepth + 1 - n])
  <2>1. Copied(innerCopy, "object", top.index, 0, L[MaxDepth + 1 - n])
    BY <1>1, <1>2
  <2>2. Copied(innerCopy, "object", top.index + 1, 0, L[MaxDepth + 1 - n])
    BY ONLY <2>1, CopiedCounts, Zenon
  <2> QED BY <1>1, <2>2
<1> QED BY <1>1, <1>3, CopyAdvanced

LEMMA CopyKey ==
  ASSUME WalkInv, NEW L, CopyFollows(L), looping("object"), mode' = "get",
         NEW name \in Text, UNCHANGED <<frames, heap>>,
         copying' = [copying EXCEPT ![Len(copying)].keys = Append(@, name)]
  PROVE  CopyFollows(L)'
<1> DEFINE n == Len(frames)
           c == copying[n]
           d == [c EXCEPT !.keys = Append(@, name)]
           t == [copying EXCEPT ![Len(copying)] = d]
<1>1. /\ frames # <<>> /\ half(n) = 0 /\ scanned.kind = "object"
  BY DEF WalkInv, ModeSound, looping, half
<1>2. /\ n \in Nat \ {0} /\ n \in 1 .. n /\ kindOf(n) = "object"
      /\ IsSeq(copying) /\ Len(copying) = n /\ copying # <<>>
      /\ Copied(copying[n], "object", top.index, 0, L[MaxDepth + 1 - n])
  BY <1>1, CopyInnermost, SequencesAre DEF innerCopy, CopyFollows
<1>3. \A i : Copied(d, "object", i, 1, L[MaxDepth + 1 - n])
  BY <1>2, CopiedNamed
<1>4. copying' = t
  BY <1>2
<1> HIDE DEF d
<1>5. /\ IsSeq(t) /\ Len(t) = n /\ t[n] = d
      /\ \A i \in 1 .. n - 1 : t[i] = copying[i]
  <2>1. /\ IsSeq(t) /\ Len(t) = Len(copying) /\ t[Len(copying)] = d
        /\ \A i \in 1 .. Len(copying) - 1 : t[i] = copying[i]
    BY ONLY <1>2, LastReplaced
  <2> HIDE DEF t
  <2> QED BY <1>2, <2>1
<1> HIDE DEF t
<1>6. ASSUME NEW i \in 1 .. n
      PROVE  Copied(copying'[i], kindOf(i)', frames'[i].index, half(i)',
                    L[MaxDepth + 1 - i])
  <2>1. kindOf(i)' = kindOf(i) /\ half(i)' = 1
    BY DEF kindOf, half
  <2>2. CASE i = n
    BY <1>2, <1>3, <1>4, <1>5, <2>1, <2>2
  <2>3. CASE i # n
    <3>1. Copied(copying[i], kindOf(i), frames[i].index, half(i),
                 L[MaxDepth + 1 - i])
      BY DEF CopyFollows
    <3>2. half(i) = 1 /\ copying'[i] = copying[i]
      BY <1>2, <1>4, <1>5, <2>3 DEF half
    <3> QED BY <2>1, <3>1, <3>2
  <2> QED BY <2>2, <2>3
<1> QED BY <1>4, <1>5, <1>6 DEF CopyFollows

LEMMA CopyEnd ==
  ASSUME WalkInv, NEW L, Layers(L), Idle, CopyFollows(L), mode = "loop",
         Placed(innerCopy, SubSeq(copying, 1, Len(copying) - 1)),
         UNCHANGED rvars, leave
  PROVE  (\E M : Layers(M) /\ Copying(M)') /\ error' = error
<1> DEFINE n == Len(frames)
           rest == SubSeq(copying, 1, Len(copying) - 1)
<1>0. frames # <<>>
  BY DEF WalkInv, ModeSound
<1>1. /\ n \in Nat \ {0} /\ n - 1 \in Nat /\ n - 1 <= MaxDepth
      /\ MaxDepth - (n - 1) = MaxDepth + 1 - n /\ half(n) = 0
      /\ Copied(innerCopy, scanned.kind, top.index, 0, L[MaxDepth + 1 - n])
      /\ IsSeq(copying) /\ Len(copying) = n /\ copying # <<>>
  BY <1>0, CopyInnermost, DepthIsNat, SequencesAre DEF half, CopyFollows
<1>2. TreeOver(innerCopy, L[MaxDepth - (n - 1)])
  BY <1>1, CopiedWhole
<1>3. /\ IsSeq(rest) /\ Len(rest) = n - 1
      /\ \A i \in 1 .. n - 1 : rest[i] = copying[i]
  BY <1>1, SequenceShortened
<1> HIDE DEF rest
<1>4. PICK K, I : /\ K = [i \in 1 .. n |-> kindOf(i)]
                  /\ I = [i \in 1 .. n |-> frames[i].index]
  OBVIOUS
<1>5. \A i \in 1 .. n - 1 :
        /\ i \in 1 .. n /\ K[i] = kindOf(i) /\ I[i] = frames[i].index
        /\ half(i) = 1
  BY <1>1, <1>4 DEF half
<1>6. \A i \in 1 .. n - 1 :
        Copied(rest[i], K[i], I[i], 1, L[MaxDepth + 1 - i])
  BY <1>3, <1>5 DEF CopyFollows
<1>7. PICK M :
        /\ Layers(M)
        /\ rest = <<>> => copy' \in M[MaxDepth + 1]
        /\ rest # <<>> =>
             /\ IsSeq(copying') /\ Len(copying') = n - 1
             /\ \A i \in 1 .. n - 1 :
                  Copied(copying'[i], K[i], I[i],
                         IF i = n - 1 THEN 0 ELSE 1, M[MaxDepth + 1 - i])
  <2>1. Placed(innerCopy, rest)
    BY DEF rest
  <2> HIDE DEF innerCopy
  <2>2. /\ Len(rest) <= MaxDepth /\ TreeOver(innerCopy, L[MaxDepth - Len(rest)])
        /\ \A i \in 1 .. Len(rest) :
             Copied(rest[i], K[i], I[i], 1, L[MaxDepth + 1 - i])
    BY <1>1, <1>2, <1>3, <1>6
  <2>3. \E M :
          /\ Layers(M)
          /\ rest = <<>> => copy' \in M[MaxDepth + 1]
          /\ rest # <<>> =>
               /\ IsSeq(copying') /\ Len(copying') = Len(rest)
               /\ \A i \in 1 .. Len(rest) :
                    Copied(copying'[i], K[i], I[i],
                           IF i = Len(rest) THEN 0 ELSE 1, M[MaxDepth + 1 - i])
    BY ONLY <1>3, <2>1, <2>2, Layers(L), CopyPlaced
  <2> QED BY <1>3, <2>3
<1>8. /\ frames' = SubSeq(frames, 1, n - 1) /\ UNCHANGED heap /\ Idle'
      /\ mode' = afterValue(frames') /\ error' = error
  BY IdleStays DEF leave, Proceed, world, Idle, rvars
<1>9. /\ IsSeq(frames') /\ Len(frames') = n - 1
      /\ \A i \in 1 .. n - 1 : frames'[i] = frames[i]
  BY <1>0, <1>8, FramesLast, SequenceShortened
<1>10. frames' = <<>> <=> rest = <<>>
  BY <1>3, <1>9, SequencesAre
<1>11. CASE frames' = <<>>
  <2>1. mode' = "end" /\ copy' \in M[MaxDepth + 1]
    BY <1>7, <1>8, <1>10, <1>11 DEF afterValue
  <2>2. Copying(M)'
    BY <1>8, <2>1 DEF Copying, walking
  <2> QED BY <1>7, <1>8, <2>2
<1>12. CASE frames' # <<>>
  <2>1. mode' = "loop" /\ rest # <<>>
    BY <1>8, <1>10, <1>12 DEF afterValue
  <2>2. ASSUME NEW i \in 1 .. n - 1
        PROVE  Copied(copying'[i], kindOf(i)', frames'[i].index, half(i)',
                      M[MaxDepth + 1 - i])
    <3>1. kindOf(i)' = K[i] /\ frames'[i].index = I[i]
      BY <1>5, <1>8, <1>9 DEF kindOf
    <3>2. half(i)' = IF i = n - 1 THEN 0 ELSE 1
      BY <1>9, <2>1 DEF half
    <3> QED BY <1>7, <2>1, <3>1, <3>2
  <2>3. CopyFollows(M)'
    BY <1>7, <1>9, <2>1, <2>2 DEF CopyFollows
  <2>4. Copying(M)'
    BY <1>8, <2>1, <2>3 DEF Copying
  <2> QED BY <1>7, <1>8, <2>4
<1> QED BY <1>11, <1>12

-----------------------------------------------------------------------------
(* WriteValue(): the container of p is written up to a point.  o is the    *)
(* record of what was written, f the frame of the Writer.  inside says     *)
(* that a part of it is being written, waits that the Writer has not seen  *)
(* that part yet.                                                          *)

Written(p, f, o, inside, waits) ==
  LET v == p.value
      k == p.next - 1
  IN /\ v.type \in {"array", "object"} /\ k \in 0 .. Len(v.kids)
     /\ Shaped(o) /\ o.type = v.type
     /\ o.data = (IF v.type = "array" THEN <<Len(v.kids)>> ELSE <<>>)
     /\ v.type = "array" => o.keys = <<>>
     /\ v.type = "object" => Begins(o.keys, v.keys, k)
     /\ Begins(o.kids, v.kids, IF inside THEN k - 1 ELSE k)
     /\ IF waits THEN Awaiting(f, v.type, Len(v.kids), k)
        ELSE Settled(f, v.type, Len(v.kids), k)

LEMMA ShapedEqual ==
  ASSUME NEW o, NEW v, Shaped(o), Shaped(v), o.type = v.type, o.data = v.data,
         o.keys = v.keys, o.kids = v.kids
  PROVE  o = v
BY DEF Shaped

LEMMA WrittenTakes ==
  ASSUME NEW p, NEW f, NEW o, NEW waits, Written(p, f, o, TRUE, waits),
         p.next \in Nat, p.next - 1 \in 1 .. Len(p.value.kids),
         Len(p.value.kids) \in Nat,
         NEW g, Settled(g, p.value.type, Len(p.value.kids), p.next - 1),
         NEW v, v = p.value.kids[p.next - 1]
  PROVE  Written(p, g, [o EXCEPT !.kids = Append(@, v)], FALSE, FALSE)
<1>1. PICK k : k = p.next - 1
  OBVIOUS
<1>2. Shaped(o) /\ Begins(o.kids, p.value.kids, k - 1)
  BY <1>1 DEF Written
<1>3. k - 1 \in Nat /\ k - 1 + 1 = k /\ v = p.value.kids[k - 1 + 1]
  BY <1>1
<1>4. Begins(Append(o.kids, v), p.value.kids, k)
  BY <1>2, <1>3, BeginsFurther
<1> DEFINE d == [o EXCEPT !.kids = Append(o.kids, v)]
<1>5. /\ Shaped(d) /\ d.type = o.type /\ d.data = o.data
      /\ d.keys = o.keys /\ d.kids = Append(o.kids, v)
  <2>1. PICK x : x = Append(o.kids, v)
    OBVIOUS
  <2>2. LET y == [o EXCEPT !.kids = x]
        IN  /\ Shaped(y) /\ y.type = o.type /\ y.data = o.data
            /\ y.keys = o.keys /\ y.kids = x
    BY <1>2 DEF Shaped
  <2> QED BY <2>1, <2>2, Zenon
<1> HIDE DEF d
<1>6. Written(p, g, d, FALSE, FALSE)
  BY <1>1, <1>4, <1>5 DEF Written
<1> QED BY <1>6 DEF d

LEMMA WrittenBegun ==
  ASSUME NEW p, p.next = 1, NEW total, total = Len(p.value.kids), total \in Nat,
         NEW kind \in {"array", "object"}, p.value.type = kind,
         NEW g, Settled(g, kind, total, 0)
  PROVE  Written(p, g, Leaf(kind, IF kind = "array" THEN <<total>> ELSE <<>>),
                 FALSE, FALSE)
<1> DEFINE data == IF kind = "array" THEN <<total>> ELSE <<>>
           o == Leaf(kind, data)
<1>1. /\ o = [type |-> o.type, data |-> o.data, keys |-> o.keys,
              kids |-> o.kids]
      /\ o.type = kind /\ o.data = data /\ o.keys = <<>> /\ o.kids = <<>>
  BY DEF Leaf
<1> HIDE DEF o
<1>2. Shaped(o)
  BY <1>1, Zenon DEF Shaped
<1>3. \A s : Begins(<<>>, s, 0)
  BY NothingBegins
<1>4. p.next - 1 = 0 /\ 0 \in 0 .. total
  OBVIOUS
<1>5. Written(p, g, o, FALSE, FALSE)
  BY <1>1, <1>2, <1>3, <1>4 DEF Written
<1> QED BY <1>5 DEF o

LEMMA WrittenNext ==
  ASSUME NEW p, NEW f, NEW o, Written(p, f, o, FALSE, FALSE),
         p.next \in 1 .. Len(p.value.kids), Len(p.value.kids) \in Nat,
         NEW q, q.value = p.value, q.next = p.next + 1
  PROVE  /\ p.value.type = "array" => Written(q, f, o, TRUE, TRUE)
         /\ p.value.type = "object" =>
              \A g : Awaiting(g, "object", Len(p.value.kids), p.next)
                => Written(q, g, [o EXCEPT !.keys =
                                    Append(@, p.value.keys[p.next])],
                           TRUE, TRUE)
<1>1. PICK k, v : /\ k = p.next - 1 /\ v = p.value
  OBVIOUS
<1>2. /\ v.type \in {"array", "object"} /\ k \in Nat /\ k + 1 = p.next
      /\ k + 1 \in 1 .. Len(v.kids) /\ k + 1 \in 0 .. Len(v.kids)
      /\ q.value = v /\ q.next - 1 = k + 1 /\ k + 1 - 1 = k
      /\ Shaped(o) /\ o.type = v.type
      /\ o.data = (IF v.type = "array" THEN <<Len(v.kids)>> ELSE <<>>)
      /\ v.type = "array" => o.keys = <<>>
      /\ v.type = "object" => Begins(o.keys, v.keys, k)
      /\ Begins(o.kids, v.kids, k)
      /\ Settled(f, v.type, Len(v.kids), k)
  BY <1>1 DEF Written
<1>3. ASSUME v.type = "array" PROVE Written(q, f, o, TRUE, TRUE)
  <2>1. Awaiting(f, v.type, Len(v.kids), k + 1)
    BY <1>2, <1>3 DEF Settled, Awaiting
  <2> QED BY <1>2, <1>3, <2>1 DEF Written
<1>4. ASSUME v.type = "object", NEW g, Awaiting(g, "object", Len(v.kids), k + 1)
      PROVE  Written(q, g, [o EXCEPT !.keys = Append(@, v.keys[k + 1])],
                     TRUE, TRUE)
  <2> DEFINE d == [o EXCEPT !.keys = Append(o.keys, v.keys[k + 1])]
  <2>1. /\ Shaped(d) /\ d.type = o.type /\ d.data = o.data
        /\ d.keys = Append(o.keys, v.keys[k + 1]) /\ d.kids = o.kids
    <3>1. Shaped(o)
      BY <1>2
    <3>2. PICK x : x = Append(o.keys, v.keys[k + 1])
      OBVIOUS
    <3>3. LET y == [o EXCEPT !.keys = x]
          IN  /\ Shaped(y) /\ y.type = o.type /\ y.data = o.data
              /\ y.keys = x /\ y.kids = o.kids
      BY <3>1 DEF Shaped
    <3> QED BY <3>2, <3>3, Zenon
  <2> HIDE DEF d
  <2>2. Begins(d.keys, v.keys, k + 1)
    BY <1>2, <1>4, <2>1, BeginsFurther
  <2>3. Written(q, g, d, TRUE, TRUE)
    BY <1>2, <1>4, <2>1, <2>2 DEF Written
  <2> QED BY <2>3 DEF d
<1> QED BY <1>1, <1>2, <1>3, <1>4

LEMMA WrittenWhole ==
  ASSUME NEW p, NEW f, NEW o, Written(p, f, o, FALSE, FALSE),
         NEW S, ContainerOver(p.value, S), p.next \in Nat,
         p.next > Len(p.value.kids)
  PROVE  /\ [o EXCEPT !.data = <<>>] = p.value
         /\ Settled(f, p.value.type, Len(p.value.kids), Len(p.value.kids))
<1>1. PICK k, v : /\ k = p.next - 1 /\ v = p.value
  OBVIOUS
<1>2. /\ IsSeq(v.kids) /\ Len(v.kids) \in Nat /\ v.data = <<>> /\ Shaped(v)
      /\ v.type = "object" => IsSeq(v.keys) /\ Len(v.keys) = Len(v.kids)
      /\ v.type = "array" => v.keys = <<>>
  BY <1>1, SequencesAre DEF ContainerOver
<1>3. /\ k = Len(v.kids) /\ v.type \in {"array", "object"}
      /\ Shaped(o) /\ o.type = v.type
      /\ v.type = "array" => o.keys = <<>>
      /\ v.type = "object" => Begins(o.keys, v.keys, k)
      /\ Begins(o.kids, v.kids, k)
      /\ Settled(f, v.type, Len(v.kids), k)
  <2>1. k \in 0 .. Len(v.kids) /\ k + 1 > Len(v.kids)
    BY <1>1 DEF Written
  <2>2. k = Len(v.kids)
    BY <1>2, <2>1
  <2> QED BY <1>1, <2>2 DEF Written
<1>4. o.kids = v.kids
  <2>1. IsSeq(v.kids) /\ Begins(o.kids, v.kids, Len(v.kids))
    BY <1>2, <1>3
  <2> QED BY ONLY <2>1, BegunIsWhole, Zenon
<1>5. o.keys = v.keys
  <2>1. CASE v.type = "object"
    <3>1. IsSeq(v.keys) /\ Begins(o.keys, v.keys, Len(v.keys))
      BY <1>2, <1>3, <2>1
    <3> QED BY ONLY <3>1, BegunIsWhole, Zenon
  <2>2. CASE v.type = "array"
    BY <1>2, <1>3, <2>2
  <2> QED BY <1>3, <2>1, <2>2
<1> DEFINE d == [o EXCEPT !.data = <<>>]
<1>6. /\ Shaped(d) /\ d.type = o.type /\ d.data = <<>>
      /\ d.keys = o.keys /\ d.kids = o.kids
  <2>1. Shaped(o)
    BY <1>3
  <2> QED BY ONLY <2>1 DEF Shaped
<1> HIDE DEF d
<1>7. d = v
  <2>1. /\ Shaped(d) /\ Shaped(v) /\ d.type = v.type /\ d.data = v.data
        /\ d.keys = v.keys /\ d.kids = v.kids
    BY <1>2, <1>3, <1>4, <1>5, <1>6
  <2> QED BY ONLY <2>1, ShapedEqual, Zenon
<1> QED BY <1>1, <1>3, <1>7 DEF d

-----------------------------------------------------------------------------
(* The values being written: each is a part of the one before it, and the  *)
(* Writer and its record hold those that are begun.                        *)

Chained(p, q) ==
  /\ p.next - 1 \in 1 .. Len(p.value.kids)
  /\ q.value = p.value.kids[p.next - 1]

Pending(L) ==
  /\ IsSeq(pending) /\ Len(pending) <= MaxDepth + 1
  /\ \A i \in 1 .. Len(pending) :
       /\ DOMAIN pending[i] = {"value", "next"} /\ pending[i].next \in Nat
       /\ pending[i].value \in L[MaxDepth + 2 - i]
  /\ \A i \in 1 .. Len(pending) - 1 : Chained(pending[i], pending[i + 1])
  /\ pending # <<>> => pending[1].value = copy

Outlined ==
  /\ IsSeq(open) /\ IsSeq(stack) /\ Len(open) = Len(stack)
  /\ Len(stack) = IF pending # <<>> /\ node.next = 0
                  THEN Len(pending) - 1 ELSE Len(pending)
  /\ \A i \in 1 .. Len(stack) :
       Written(pending[i], stack[i], open[i], i < Len(pending),
               i < Len(pending) /\ i = Len(stack))
  /\ IF pending = <<>> THEN has_root /\ root = copy
     ELSE has_root = (stack # <<>>)

Encoding(L) ==
  Filled /\ call.thrown = "none" /\ Pending(L) /\ Outlined

LEMMA TreeParts ==
  ASSUME NEW v, NEW S, TreeOver(v, S)
  PROVE  /\ IsSeq(v.kids) /\ Len(v.kids) \in Nat
         /\ \A i \in 1 .. Len(v.kids) : v.kids[i] \in S
         /\ IF v.type \in {"array", "object"} THEN ContainerOver(v, S)
            ELSE Writable(v)
<1>1. CASE Writable(v)
  <2>1. v = Leaf(v.type, v.data)
    BY <1>1 DEF Writable
  <2>2. v.kids = <<>>
    BY <2>1, LeafParts
  <2>3. IsSeq(v.kids) /\ Len(v.kids) = 0
    BY <2>2, EmptyContainers DEF SameKeys, Containers
  <2>4. v.type \notin {"array", "object"}
    BY <1>1, ViewTypes DEF Writable
  <2> QED BY <1>1, <2>3, <2>4
<1>2. CASE ContainerOver(v, S)
  <2>1. v.kids \in Seq(S) /\ v.type \in {"array", "object"}
    BY <1>2 DEF ContainerOver
  <2> QED BY <1>2, <2>1, SequencesAre
<1> QED BY <1>1, <1>2 DEF TreeOver

(* What is known of a value being written.                                 *)
LEMMA TaskParts ==
  ASSUME NEW L, Layers(L), Pending(L), NEW i \in 1 .. Len(pending)
  PROVE  /\ Len(pending) \in Nat
         /\ TreeOver(pending[i].value, L[MaxDepth + 1 - i])
         /\ Len(pending[i].value.kids) \in Nat /\ pending[i].next \in Nat
<1>1. Len(pending) \in Nat /\ Len(pending) <= MaxDepth + 1 /\ MaxDepth \in Nat
  BY DepthIsNat, SequencesAre DEF Pending
<1>2. PICK h : h = MaxDepth + 2 - i
  OBVIOUS
<1>3. pending[i].value \in L[h] /\ pending[i].next \in Nat
  BY <1>2 DEF Pending
<1>4. h \in 1 .. MaxDepth + 1 /\ h - 1 = MaxDepth + 1 - i
  BY <1>1, <1>2
<1>5. TreeOver(pending[i].value, L[MaxDepth + 1 - i])
  BY <1>3, <1>4 DEF Layers
<1> QED BY <1>1, <1>3, <1>5, TreeParts

(* The innermost value is finished: it is the root or the next part of the *)
(* container around it.                                                    *)
LEMMA PendingShortened ==
  ASSUME NEW L, Pending(L), pending # <<>>, pending' = outerPending,
         UNCHANGED copy
  PROVE  LET n == Len(pending)
         IN  /\ Pending(L)' /\ n \in Nat \ {0} /\ Len(pending') = n - 1
             /\ \A i \in 1 .. n - 1 : pending'[i] = pending[i]
             /\ n # 1 => /\ pending' # <<>> /\ node'.next # 0
                         /\ Chained(pending[n - 1], node)
             /\ n = 1 => pending' = <<>> /\ node.value = copy
<1> DEFINE n == Len(pending)
<1>1. IsSeq(pending) /\ n \in Nat \ {0} /\ n <= MaxDepth + 1
  BY SequencesAre DEF Pending
<1>2. /\ IsSeq(pending') /\ Len(pending') = n - 1
      /\ \A i \in 1 .. n - 1 : pending'[i] = pending[i]
  BY <1>1, SequenceShortened DEF outerPending
<1>3. \A i \in 1 .. n - 1 : i \in 1 .. n
  BY <1>1
<1>4. \A i \in 1 .. n - 1 :
        /\ DOMAIN pending'[i] = {"value", "next"} /\ pending'[i].next \in Nat
        /\ pending'[i].value \in L[MaxDepth + 2 - i]
  BY <1>2, <1>3 DEF Pending
<1>5. \A i \in 1 .. n - 2 : Chained(pending'[i], pending'[i + 1])
  <2>1. TAKE i \in 1 .. n - 2
  <2>2. i \in 1 .. n - 1 /\ i + 1 \in 1 .. n - 1
    BY <1>1
  <2> QED BY <1>2, <2>2 DEF Pending
<1>6. pending' = <<>> <=> n = 1
  BY <1>1, <1>2, SequencesAre
<1>7. pending' # <<>> => pending'[1].value = copy'
  <2>1. ASSUME NEW m \in Nat \ {0}, m # 1 PROVE 1 \in 1 .. m - 1
    BY <2>1
  <2>2. n # 1 => 1 \in 1 .. n - 1
    BY <1>1, <2>1
  <2> QED BY <1>2, <1>6, <2>2 DEF Pending
<1>8. n - 1 <= MaxDepth + 1 /\ n - 1 - 1 = n - 2
  BY <1>1, DepthIsNat
<1>9. Pending(L)'
  BY <1>2, <1>4, <1>5, <1>7, <1>8 DEF Pending
<1>10. ASSUME n # 1
       PROVE  node'.next # 0 /\ Chained(pending[n - 1], node)
  <2>0. ASSUME NEW m \in Nat \ {0}, m # 1
        PROVE  m - 1 \in 1 .. m - 1 /\ m - 1 + 1 = m
    BY <2>0
  <2>1. n - 1 \in 1 .. n - 1 /\ n - 1 + 1 = n
    BY <1>1, <1>10, <2>0
  <2>2. Chained(pending[n - 1], pending[n - 1 + 1])
    BY <2>1 DEF Pending
  <2>3. Chained(pending[n - 1], node)
    BY <2>1, <2>2 DEF node
  <2>4. node' = pending[n - 1]
    BY <1>2, <2>1 DEF node
  <2>5. pending[n - 1].next \in Nat /\ pending[n - 1].next - 1 # -1
    BY <1>3, <2>1, <2>3 DEF Pending, Chained
  <2>6. pending[n - 1].next # 0
    BY <2>5
  <2> QED BY <2>3, <2>4, <2>6
<1>11. n = 1 => node.value = copy
  BY <1>1 DEF Pending, node
<1> QED BY <1>1, <1>2, <1>6, <1>9, <1>10, <1>11

LEMMA Outline ==
  ASSUME NEW L, Layers(L), Encoding(L), pending # <<>>
  PROVE  LET n == Len(pending)
         IN  /\ n \in Nat \ {0} /\ Len(open) = Len(stack)
             /\ IsSeq(open) /\ IsSeq(stack)
             /\ Len(stack) = IF node.next = 0 THEN n - 1 ELSE n
             /\ \A i \in 1 .. n - 1 :
                  Written(pending[i], stack[i], open[i], TRUE,
                          i = Len(stack))
             /\ node.next # 0 =>
                  Written(node, stack[n], open[n], FALSE, FALSE)
<1> DEFINE n == Len(pending)
<1>1. n \in Nat \ {0}
  BY SequencesAre DEF Encoding, Pending
<1>2. Len(stack) = IF node.next = 0 THEN n - 1 ELSE n
  BY DEF Encoding, Outlined
<1>3. \A i \in 1 .. Len(stack) :
        Written(pending[i], stack[i], open[i], i < n,
                i < n /\ i = Len(stack))
  BY DEF Encoding, Outlined
<1>4. ASSUME NEW i \in 1 .. n - 1
      PROVE  Written(pending[i], stack[i], open[i], TRUE, i = Len(stack))
  <2>1. i \in 1 .. Len(stack) /\ (i < n) = TRUE
        /\ (i < n /\ i = Len(stack)) = (i = Len(stack))
    BY <1>1, <1>2
  <2>2. Written(pending[i], stack[i], open[i], i < n,
                i < n /\ i = Len(stack))
    BY <1>3, <2>1
  <2> QED BY <2>1, <2>2
<1>5. ASSUME node.next # 0
      PROVE  Written(node, stack[n], open[n], FALSE, FALSE)
  <2>1. n \in 1 .. Len(stack) /\ (n < n) = FALSE
        /\ (n < n /\ n = Len(stack)) = FALSE
    BY <1>1, <1>2, <1>5
  <2>2. Written(pending[n], stack[n], open[n], n < n,
                n < n /\ n = Len(stack))
    BY <1>3, <2>1
  <2> QED BY <2>1, <2>2 DEF node
<1> QED BY <1>1, <1>2, <1>4, <1>5 DEF Encoding, Outlined

LEMMA ValueFinished ==
  ASSUME NEW L, Layers(L), Encoding(L), pending # <<>>,
         pending' = outerPending, UNCHANGED copy,
         NEW s, IsSeq(s), Len(s) = Len(pending) - 1,
         \A i \in 1 .. Len(pending) - 1 : s[i] = open[i],
         D!Place(node.value, s),
         IsSeq(stack'), Len(stack') = Len(pending) - 1,
         \A i \in 1 .. Len(pending) - 2 : stack'[i] = stack[i],
         Len(pending) # 1 =>
           LET p == pending[Len(pending) - 1]
           IN  Settled(stack'[Len(pending) - 1], p.value.type,
                       Len(p.value.kids), p.next - 1),
         has_root' = TRUE, Filled', call'.thrown = "none"
  PROVE  Encoding(L)'
<1>1. PICK n : n = Len(pending)
  OBVIOUS
<1>2. /\ n \in Nat \ {0} /\ Len(open) = Len(stack)
      /\ Len(stack) \in {n - 1, n}
      /\ \A i \in 1 .. n - 1 :
           Written(pending[i], stack[i], open[i], TRUE, i = Len(stack))
  BY <1>1, Outline
<1>3. /\ Pending(L)' /\ Len(pending') = n - 1
      /\ \A i \in 1 .. n - 1 : pending'[i] = pending[i]
      /\ n # 1 => /\ pending' # <<>> /\ node'.next # 0
                  /\ Chained(pending[n - 1], node)
      /\ n = 1 => pending' = <<>> /\ node.value = copy
  BY <1>1, PendingShortened DEF Encoding
<1>4. CASE n = 1
  <2>1. s = <<>>
    BY <1>1, <1>4, SequencesAre
  <2>2. open' = <<>> /\ root' = node.value
    BY <2>1 DEF D!Place
  <2>3. /\ IsSeq(open') /\ Len(open') = 0 /\ Len(stack') = 0
        /\ pending' = <<>> /\ root' = copy'
    BY <1>1, <1>3, <1>4, <2>2, EmptyContainers DEF SameKeys, Containers
  <2>4. Outlined'
    <3>1. has_root' /\ IsSeq(stack') /\ Len(pending') = 0 /\ 1 .. 0 = {}
      BY <1>3, <1>4
    <3> QED BY <2>3, <3>1 DEF Outlined
  <2> QED BY <1>3, <2>4 DEF Encoding
<1>5. CASE n # 1
  <2>0. n - 1 \in 1 .. n - 1 /\ n - 1 \in Nat /\ n - 1 # 0 /\ n - 1 - 1 = n - 2
    BY <1>2, <1>5
  <2> DEFINE p == pending[n - 1]
             o == open[n - 1]
             d == [o EXCEPT !.kids = Append(@, node.value)]
             t == [s EXCEPT ![Len(s)] = d]
  <2>1. /\ Len(s) = n - 1 /\ s # <<>> /\ s[Len(s)] = o
    BY <1>1, <2>0, SequencesAre
  <2>2. open' = t /\ root' = root
    BY <2>1 DEF D!Place
  <2>3. Written(p, stack'[n - 1], d, FALSE, FALSE)
    <3>1. Written(p, stack[n - 1], o, TRUE, n - 1 = Len(stack))
      BY <1>2, <2>0
    <3>2. /\ p.next - 1 \in 1 .. Len(p.value.kids)
          /\ node.value = p.value.kids[p.next - 1]
      BY <1>3, <1>5 DEF Chained
    <3>3. p.next \in Nat /\ Len(p.value.kids) \in Nat
      <4>1. n - 1 \in 1 .. Len(pending) /\ Pending(L)
        BY <1>1, <1>2, <2>0 DEF Encoding
      <4>2. /\ Len(pending[n - 1].value.kids) \in Nat
            /\ pending[n - 1].next \in Nat
        BY ONLY Layers(L), <4>1, TaskParts
      <4> QED BY <4>2
    <3>4. Settled(stack'[n - 1], p.value.type, Len(p.value.kids),
                  p.next - 1)
      BY <1>1, <1>5
    <3> HIDE DEF p, o
    <3> QED BY ONLY <3>1, <3>2, <3>3, <3>4, WrittenTakes, Zenon
  <2> HIDE DEF d
  <2>4. /\ IsSeq(t) /\ Len(t) = n - 1 /\ t[n - 1] = d
        /\ \A i \in 1 .. n - 2 : t[i] = s[i]
    <3>1. /\ IsSeq(t) /\ Len(t) = Len(s) /\ t[Len(s)] = d
          /\ \A i \in 1 .. Len(s) - 1 : t[i] = s[i]
      BY <2>1, LastReplaced
    <3> HIDE DEF t
    <3> QED BY <2>0, <2>1, <3>1
  <2> HIDE DEF t
  <2>5. /\ \A i \in 1 .. n - 2 : stack'[i] = stack[i]
        /\ \A i \in 1 .. n - 1 : s[i] = open[i]
    BY <1>1
  <2>6. ASSUME NEW i \in 1 .. n - 1
        PROVE  Written(pending'[i], stack'[i], open'[i], i < n - 1, FALSE)
    <3>1. CASE i = n - 1
      <4>1. (i < n - 1) = FALSE /\ pending'[i] = p /\ open'[i] = d
        BY <1>2, <1>3, <2>0, <2>2, <2>4, <3>1
      <4> QED BY <2>3, <3>1, <4>1
    <3>2. CASE i # n - 1
      <4>1. i \in 1 .. n - 2 /\ (i < n - 1) = TRUE
        BY <1>2, <3>2
      <4>2. /\ pending'[i] = pending[i] /\ stack'[i] = stack[i]
            /\ open'[i] = open[i]
        BY <1>3, <2>2, <2>4, <2>5, <4>1
      <4>3. (i = Len(stack)) = FALSE
        BY <1>2, <4>1
      <4>4. Written(pending[i], stack[i], open[i], TRUE, i = Len(stack))
        BY <1>2
      <4> QED BY <4>1, <4>2, <4>3, <4>4
    <3> QED BY <3>1, <3>2
  <2>7. /\ Len(stack') = n - 1 /\ Len(pending') = n - 1 /\ stack' # <<>>
        /\ IsSeq(open') /\ Len(open') = n - 1 /\ pending' # <<>>
        /\ node'.next # 0
    BY <1>1, <1>3, <1>5, <2>0, <2>2, <2>4, SequencesAre
  <2>8. \A i \in 1 .. n - 1 : (i < n - 1 /\ i = n - 1) = FALSE
    OBVIOUS
  <2>9. Outlined'
    BY <2>6, <2>7, <2>8 DEF Outlined
  <2> QED BY <1>3, <2>9 DEF Encoding
<1> QED BY <1>4, <1>5

(* The Writer waits for the value that is written next.                    *)
LEMMA WriterExpects ==
  ASSUME NEW L, Layers(L), Encoding(L), pending # <<>>, node.next = 0
  PROVE  LET p == pending[Len(pending) - 1]
         IN  Expecting(p.value.type, Len(p.value.kids), p.next - 1)
<1>1. PICK n : n = Len(pending)
  OBVIOUS
<1>2. /\ n \in Nat \ {0} /\ IsSeq(stack) /\ Len(stack) = n - 1
      /\ \A i \in 1 .. n - 1 :
           Written(pending[i], stack[i], open[i], TRUE, i = Len(stack))
  BY <1>1, Outline
<1>3. has_root = (stack # <<>>)
  BY DEF Encoding, Outlined
<1>4. ASSUME stack # <<>>
      PROVE  LET p == pending[n - 1]
             IN  Awaiting(back, p.value.type, Len(p.value.kids), p.next - 1)
  <2>1. n - 1 # 0
    BY <1>2, <1>4, SequencesAre
  <2>2. n - 1 \in 1 .. n - 1
    BY <1>2, <2>1
  <2>3. Written(pending[n - 1], back, open[n - 1], TRUE, TRUE)
    BY <1>2, <2>2 DEF back
  <2> QED BY <2>3 DEF Written
<1> QED BY <1>1, <1>2, <1>3, <1>4 DEF Expecting

LEMMA LeafFollowed ==
  ASSUME Follow, call'.thrown = "none", call'.op \in LeafMethods
  PROVE  D!Place(call'.arg, open)
BY DEF Follow, LeafMethods

LEMMA EncodeLeaf ==
  ASSUME NEW L, Layers(L), Encoding(L), pending # <<>>, node.next = 0,
         ~isContainer, Recorded(WriteLeaf(node.value)),
         pending' = outerPending, UNCHANGED copy
  PROVE  EndsWell /\ (call'.thrown = "none" => Encoding(L)')
<1>1. PICK n : n = Len(pending)
  OBVIOUS
<1>2. /\ n \in Nat \ {0} /\ IsSeq(stack) /\ Len(stack) = n - 1
      /\ IsSeq(open) /\ Len(open) = n - 1
  BY <1>1, Outline
<1>3. Writable(node.value)
  <2>1. n \in 1 .. Len(pending) /\ Pending(L)
    BY <1>1, <1>2 DEF Encoding
  <2>2. TreeOver(pending[n].value, L[MaxDepth + 1 - n])
    BY ONLY Layers(L), <2>1, TaskParts
  <2>3. IF node.value.type \in {"array", "object"}
        THEN ContainerOver(node.value, L[MaxDepth + 1 - n])
        ELSE Writable(node.value)
    BY <1>1, <2>2, TreeParts DEF node
  <2> QED BY <2>3 DEF isContainer
<1>4. PICK p : p = pending[n - 1]
  OBVIOUS
<1>5. Expecting(p.value.type, Len(p.value.kids), p.next - 1)
  BY <1>1, <1>4, WriterExpects
<1>6. WriteLeaf(node.value) /\ Follow /\ Filled
  BY DEF Recorded, Encoding
<1>7. /\ has_root' = TRUE
      /\ Took(stack, stack', p.value.type, Len(p.value.kids), p.next - 1)
      /\ Filled' /\ EndsWell
      /\ call'.op \in LeafMethods /\ call'.arg = node.value
  BY <1>3, <1>5, <1>6, LeafTaken
<1>8. ASSUME call'.thrown = "none" PROVE Encoding(L)'
  <2>1. D!Place(node.value, open)
    BY <1>6, <1>7, <1>8, LeafFollowed
  <2>2. n - 1 - 1 = n - 2 /\ (n # 1 => n - 1 # 0)
    BY <1>2
  <2>3. /\ IsSeq(stack') /\ Len(stack') = n - 1
        /\ \A i \in 1 .. n - 2 : stack'[i] = stack[i]
        /\ n # 1 => Settled(stack'[n - 1], p.value.type, Len(p.value.kids),
                            p.next - 1)
    BY <1>2, <1>7, <2>2, SequencesAre DEF Took, LastChanged
  <2>4. /\ Len(open) = Len(pending) - 1
        /\ \A i \in 1 .. Len(pending) - 1 : open[i] = open[i]
        /\ IsSeq(stack') /\ Len(stack') = Len(pending) - 1
        /\ \A i \in 1 .. Len(pending) - 2 : stack'[i] = stack[i]
        /\ Len(pending) # 1 =>
             LET q == pending[Len(pending) - 1]
             IN  Settled(stack'[Len(pending) - 1], q.value.type,
                         Len(q.value.kids), q.next - 1)
    BY <1>1, <1>2, <1>4, <2>3
  <2> QED BY <1>2, <1>7, <1>8, <2>1, <2>4, ValueFinished
<1> QED BY <1>7, <1>8

(* One value more of the innermost container is dealt with.                *)
LEMMA BegunParts ==
  ASSUME NEW L, Pending(L), pending # <<>>
  PROVE  LET n == Len(pending)
         IN  /\ n \in Nat \ {0}
             /\ IsSeq(begun) /\ Len(begun) = n
             /\ \A i \in 1 .. n - 1 : begun[i] = pending[i]
             /\ begun[n].value = node.value
             /\ begun[n].next = node.next + 1
             /\ DOMAIN begun[n] = {"value", "next"}
             /\ \A i \in 1 .. n : begun[i].value = pending[i].value
<1>1. PICK n : n = Len(pending)
  OBVIOUS
<1>2. IsSeq(pending) /\ n \in Nat \ {0}
  BY <1>1, SequencesAre DEF Pending
<1>3. DOMAIN node = {"value", "next"} /\ node = pending[n]
  BY <1>1, <1>2 DEF Pending, node
<1> DEFINE q == [node EXCEPT !.next = @ + 1]
           t == [pending EXCEPT ![Len(pending)] = q]
<1>4. /\ q.value = node.value /\ q.next = node.next + 1
      /\ DOMAIN q = {"value", "next"}
  BY <1>3
<1>5. begun = t
  BY DEF begun, node
<1> HIDE DEF q
<1>6. /\ IsSeq(t) /\ Len(t) = Len(pending) /\ t[Len(pending)] = q
      /\ \A i \in 1 .. Len(pending) - 1 : t[i] = pending[i]
  BY <1>2, LastReplaced
<1> HIDE DEF t
<1>7. \A i \in 1 .. n : i \in 1 .. n - 1 \/ i = n
  BY <1>2
<1>8. \A i \in 1 .. n : t[i].value = pending[i].value
  BY <1>1, <1>3, <1>4, <1>6, <1>7
<1> QED BY <1>1, <1>2, <1>4, <1>5, <1>6, <1>8

LEMMA EncodeContainer ==
  ASSUME NEW L, Layers(L), Encoding(L), pending # <<>>, node.next = 0,
         isContainer, Recorded(BeginOf(node.value.type, Len(kids))),
         pending' = begun, UNCHANGED copy
  PROVE  call'.thrown = "none" /\ Encoding(L)'
<1>1. PICK n, type, total :
        n = Len(pending) /\ type = node.value.type /\ total = Len(kids)
  OBVIOUS
<1>2. /\ n \in Nat \ {0} /\ IsSeq(stack) /\ Len(stack) = n - 1
      /\ IsSeq(open) /\ Len(open) = n - 1
      /\ \A i \in 1 .. n - 1 :
           Written(pending[i], stack[i], open[i], TRUE, i = Len(stack))
  BY <1>1, Outline
<1>3. /\ type \in {"array", "object"} /\ total \in Nat
      /\ type = "array" => total \in U32
  <2>1. n \in 1 .. Len(pending) /\ Pending(L)
    BY <1>1, <1>2 DEF Encoding
  <2>2. TreeOver(pending[n].value, L[MaxDepth + 1 - n])
    BY ONLY Layers(L), <2>1, TaskParts
  <2>3. /\ Len(node.value.kids) \in Nat
        /\ IF node.value.type \in {"array", "object"}
           THEN ContainerOver(node.value, L[MaxDepth + 1 - n])
           ELSE Writable(node.value)
    BY <1>1, <2>2, TreeParts DEF node
  <2> QED BY <1>1, <2>3 DEF isContainer, ContainerOver, kids
<1>4. PICK p : p = pending[n - 1]
  OBVIOUS
<1>5. Expecting(p.value.type, Len(p.value.kids), p.next - 1)
  BY <1>1, <1>4, WriterExpects
<1>6. BeginOf(type, total) /\ Follow /\ Filled
  BY <1>1 DEF Recorded, Encoding
<1> DEFINE arg == Leaf(type, IF type = "array" THEN <<total>> ELSE <<>>)
<1>7. /\ has_root' = TRUE /\ Filled' /\ call'.thrown = "none"
      /\ call'.op \in {"beginObject", "beginArray"}
      /\ call'.arg = arg
      /\ IsSeq(stack') /\ Len(stack') = Len(stack) + 1
      /\ Settled(stack'[Len(stack) + 1], type, total, 0)
      /\ \A i \in 1 .. Len(stack) - 1 : stack'[i] = stack[i]
      /\ stack # <<>> =>
           Settled(stack'[Len(stack)], p.value.type, Len(p.value.kids),
                   p.next - 1)
  BY <1>3, <1>5, <1>6, ContainerTaken
<1>8. open' = Append(open, arg)
  BY <1>6, <1>7 DEF Follow
<1>9. n - 1 + 1 = n /\ n - 1 - 1 = n - 2
  BY <1>2
<1>10. /\ IsSeq(open') /\ Len(open') = n /\ open'[n] = arg
       /\ \A i \in 1 .. n - 1 : open'[i] = open[i]
  <2> HIDE DEF arg
  <2> QED BY <1>2, <1>8, <1>9, SequenceAppended
<1>11. /\ IsSeq(pending') /\ Len(pending') = n
       /\ \A i \in 1 .. n - 1 : pending'[i] = pending[i]
       /\ pending'[n].value = node.value /\ pending'[n].next = 1
       /\ DOMAIN pending'[n] = {"value", "next"}
       /\ \A i \in 1 .. n : pending'[i].value = pending[i].value
  <2>1. Pending(L)
    BY DEF Encoding
  <2>2. node.next + 1 = 1
    OBVIOUS
  <2> QED BY <1>1, <2>1, <2>2, BegunParts
<1>12. Pending(L)'
  <2>1. \A i \in 1 .. n : i \in 1 .. n - 1 \/ i = n
    BY <1>2
  <2>2. \A i \in 1 .. n :
          /\ DOMAIN pending'[i] = {"value", "next"}
          /\ pending'[i].next \in Nat
          /\ pending'[i].value \in L[MaxDepth + 2 - i]
    BY <1>1, <1>11, <2>1 DEF Encoding, Pending
  <2>3. ASSUME NEW i \in 1 .. n - 1
        PROVE  Chained(pending'[i], pending'[i + 1])
    <3>1. i \in 1 .. n /\ i + 1 \in 1 .. n
      BY <1>2
    <3>2. Chained(pending[i], pending[i + 1])
      BY <1>1 DEF Encoding, Pending
    <3> QED BY <1>11, <3>1, <3>2 DEF Chained
  <2>4. pending'[1].value = copy' /\ Len(pending') <= MaxDepth + 1
    <3>1. 1 \in 1 .. n
      BY <1>2
    <3> QED BY <1>1, <1>11, <3>1 DEF Encoding, Pending
  <2> QED BY <1>11, <2>2, <2>3, <2>4 DEF Pending
<1>13. ASSUME NEW i \in 1 .. n
       PROVE  Written(pending'[i], stack'[i], open'[i], i < n, FALSE)
  <2>1. CASE i = n
    <3>1. Len(pending'[n].value.kids) = total /\ pending'[n].value.type = type
      BY <1>1, <1>11 DEF kids
    <3>2. Settled(stack'[n], type, total, 0)
      BY <1>2, <1>7, <1>9
    <3>3. Written(pending'[n], stack'[n], arg, FALSE, FALSE)
      BY <1>3, <1>11, <3>1, <3>2, WrittenBegun
    <3>4. (i < n) = FALSE
      BY <1>2, <2>1
    <3> QED BY <1>10, <2>1, <3>3, <3>4
  <2>2. CASE i = n - 1 /\ i # n
    <3>1. /\ i \in 1 .. n - 1 /\ (i < n) = TRUE /\ i = Len(stack)
          /\ (i = Len(stack)) = TRUE /\ Len(stack) # 0
      BY <1>2, <2>2
    <3>2. Written(p, stack[i], open[i], TRUE, TRUE)
      BY <1>2, <1>4, <2>2, <3>1
    <3>3. Settled(stack'[i], p.value.type, Len(p.value.kids), p.next - 1)
      BY <1>2, <1>7, <3>1, SequencesAre
    <3>4. Written(p, stack'[i], open[i], TRUE, FALSE)
      BY <3>2, <3>3 DEF Written
    <3>5. pending'[i] = p /\ open'[i] = open[i]
      BY <1>4, <1>10, <1>11, <2>2, <3>1
    <3> QED BY <3>1, <3>4, <3>5
  <2>3. CASE i # n - 1 /\ i # n
    <3>1. /\ i \in 1 .. n - 1 /\ (i < n) = TRUE /\ (i = Len(stack)) = FALSE
          /\ i \in 1 .. n - 2
      BY <1>2, <2>3
    <3>2. Written(pending[i], stack[i], open[i], TRUE, FALSE)
      BY <1>2, <3>1
    <3>3. stack'[i] = stack[i]
      BY <1>2, <1>7, <1>9, <3>1
    <3> QED BY <1>10, <1>11, <3>1, <3>2, <3>3
  <2> QED BY <2>1, <2>2, <2>3
<1>14. Outlined'
  <2>1. node'.next # 0 /\ pending' # <<>> /\ stack' # <<>>
    BY <1>2, <1>7, <1>9, <1>11, SequencesAre DEF node
  <2>2. Len(stack') = n
    BY <1>2, <1>7, <1>9
  <2>3. \A i \in 1 .. n : (i < n /\ i = n) = FALSE
    BY <1>2
  <2> QED BY <1>7, <1>10, <1>11, <1>13, <2>1, <2>2, <2>3 DEF Outlined
<1> QED BY <1>7, <1>12, <1>14 DEF Encoding

(* The container that is being written.                                    *)
LEMMA NodeParts ==
  ASSUME NEW L, Layers(L), Encoding(L), pending # <<>>
  PROVE  LET S == L[MaxDepth + 1 - Len(pending)]
         IN  /\ Len(kids) \in Nat /\ node.next \in Nat
             /\ \A i \in 1 .. Len(kids) : kids[i] \in S
             /\ isContainer => ContainerOver(node.value, S)
<1>1. PICK n : n = Len(pending)
  OBVIOUS
<1>2. n \in 1 .. Len(pending) /\ Pending(L)
  BY <1>1, SequencesAre DEF Encoding, Pending
<1>3. /\ TreeOver(pending[n].value, L[MaxDepth + 1 - n])
      /\ Len(pending[n].value.kids) \in Nat /\ pending[n].next \in Nat
  BY ONLY Layers(L), <1>2, TaskParts
<1>4. pending[n] = node
  BY <1>1 DEF node
<1>5. /\ \A i \in 1 .. Len(node.value.kids) :
           node.value.kids[i] \in L[MaxDepth + 1 - n]
      /\ IF node.value.type \in {"array", "object"}
         THEN ContainerOver(node.value, L[MaxDepth + 1 - n])
         ELSE Writable(node.value)
  BY <1>3, <1>4, TreeParts
<1> QED BY <1>1, <1>3, <1>4, <1>5 DEF kids, isContainer

LEMMA PendingGrows ==
  ASSUME NEW L, Layers(L), Encoding(L), pending # <<>>,
         node.next \in 1 .. Len(kids),
         pending' = Append(begun, Node(kids[node.next])), UNCHANGED copy
  PROVE  LET n == Len(pending)
         IN  /\ Pending(L)' /\ Len(pending') = n + 1
             /\ \A i \in 1 .. n - 1 : pending'[i] = pending[i]
             /\ pending'[n].value = node.value
             /\ pending'[n].next = node.next + 1
             /\ node'.next = 0
<1>1. PICK n, c : n = Len(pending) /\ c = Node(kids[node.next])
  OBVIOUS
<1>2. /\ n \in Nat \ {0}
      /\ IsSeq(begun) /\ Len(begun) = n
      /\ \A i \in 1 .. n - 1 : begun[i] = pending[i]
      /\ begun[n].value = node.value
      /\ begun[n].next = node.next + 1
      /\ DOMAIN begun[n] = {"value", "next"}
      /\ \A i \in 1 .. n : begun[i].value = pending[i].value
  BY <1>1, BegunParts DEF Encoding
<1>3. /\ IsSeq(pending') /\ Len(pending') = n + 1 /\ pending'[n + 1] = c
      /\ \A i \in 1 .. n : pending'[i] = begun[i]
  BY <1>1, <1>2, SequenceAppended
<1>4. /\ c.value = kids[node.next] /\ c.next = 0
      /\ DOMAIN c = {"value", "next"}
  BY <1>1 DEF Node
<1>5. /\ c.value \in L[MaxDepth + 1 - n] /\ Len(kids) \in Nat
      /\ node.next \in Nat
  BY <1>1, <1>4, NodeParts
<1>6. /\ \A i \in 1 .. n : i \in 1 .. n - 1 \/ i = n
      /\ \A i \in 1 .. n - 1 : i \in 1 .. n
      /\ n \in 1 .. n
  BY <1>2
<1>7. n <= MaxDepth
  <2>1. n <= MaxDepth + 1 /\ MaxDepth \in Nat
    BY <1>1, DepthIsNat DEF Encoding, Pending
  <2>2. CASE n = MaxDepth + 1
    <3>1. MaxDepth + 1 - n = 0
      BY <2>1, <2>2
    <3> QED BY <1>5, <3>1 DEF Layers
  <2>3. CASE n # MaxDepth + 1
    BY <1>2, <2>1, <2>3
  <2> QED BY <2>2, <2>3
<1>8. ASSUME NEW i \in 1 .. n + 1
      PROVE  /\ DOMAIN pending'[i] = {"value", "next"}
             /\ pending'[i].next \in Nat
             /\ pending'[i].value \in L[MaxDepth + 2 - i]
  <2>1. CASE i = n + 1
    <3>1. MaxDepth + 2 - i = MaxDepth + 1 - n
      BY <1>2, <2>1, DepthIsNat
    <3> QED BY <1>3, <1>4, <1>5, <2>1, <3>1
  <2>2. CASE i \in 1 .. n
    <3>1. /\ DOMAIN pending[i] = {"value", "next"} /\ pending[i].next \in Nat
          /\ pending[i].value \in L[MaxDepth + 2 - i]
      BY <1>1, <2>2 DEF Encoding, Pending
    <3>2. pending'[i] = begun[i] /\ begun[i].value = pending[i].value
      BY <1>2, <1>3, <2>2
    <3>3. CASE i = n
      BY <1>2, <1>5, <3>1, <3>2, <3>3
    <3>4. CASE i # n
      BY <1>2, <1>6, <2>2, <3>1, <3>2, <3>4
    <3> QED BY <3>3, <3>4
  <2> QED BY <1>2, <2>1, <2>2
<1>9. ASSUME NEW i \in 1 .. n
      PROVE  Chained(pending'[i], pending'[i + 1])
  <2>1. CASE i = n
    <3>1. /\ pending'[n].value = node.value
          /\ pending'[n].next - 1 = node.next
      BY <1>2, <1>3, <1>5, <1>6
    <3> QED BY <1>3, <1>4, <2>1, <3>1 DEF Chained, kids
  <2>2. CASE i # n
    <3>1. i \in 1 .. n - 1 /\ i + 1 \in 1 .. n
      BY <1>2, <2>2
    <3>2. Chained(pending[i], pending[i + 1])
      BY <1>1, <3>1 DEF Encoding, Pending
    <3>3. /\ pending'[i] = pending[i]
          /\ pending'[i + 1].value = pending[i + 1].value
      BY <1>2, <1>3, <3>1
    <3> QED BY <3>2, <3>3 DEF Chained
  <2> QED BY <2>1, <2>2
<1>10. pending'[1].value = copy'
  <2>1. 1 \in 1 .. n
    BY <1>2
  <2> QED BY <1>1, <1>2, <1>3, <2>1 DEF Encoding, Pending
<1>11. Pending(L)'
  <2>1. n + 1 <= MaxDepth + 1 /\ n + 1 - 1 = n
    BY <1>2, <1>7, DepthIsNat
  <2>2. Len(pending') <= MaxDepth + 1 /\ Len(pending') - 1 = n
    <3>1. Len(pending') = n + 1 /\ n \in Nat
      BY <1>2, <1>3
    <3>2. \A m : m = n + 1 => m <= MaxDepth + 1 /\ m - 1 = n
      BY <2>1, <3>1
    <3> QED BY <3>1, <3>2
  <2>3. \A i \in 1 .. Len(pending') :
          /\ DOMAIN pending'[i] = {"value", "next"}
          /\ pending'[i].next \in Nat
          /\ pending'[i].value \in L[MaxDepth + 2 - i]
    BY <1>3, <1>8
  <2>4. \A i \in 1 .. Len(pending') - 1 : Chained(pending'[i], pending'[i + 1])
    BY <1>9, <2>2
  <2> QED BY <1>3, <1>10, <2>2, <2>3, <2>4 DEF Pending
<1>12. node'.next = 0
  BY <1>3, <1>4 DEF node
<1>13. \A i \in 1 .. n - 1 : pending'[i] = pending[i]
  BY <1>2, <1>3, <1>6
<1> QED BY <1>1, <1>2, <1>3, <1>6, <1>11, <1>12, <1>13

LEMMA EncodeChild ==
  ASSUME NEW L, Layers(L), Encoding(L), pending # <<>>,
         node.next \in 1 .. Len(kids), writeChild, UNCHANGED copy
  PROVE  call'.thrown = "none" /\ Encoding(L)'
<1>1. PICK n, p, k : n = Len(pending) /\ p = node /\ k = Len(kids)
  OBVIOUS
<1>2. /\ Pending(L)' /\ Len(pending') = n + 1
      /\ \A i \in 1 .. n - 1 : pending'[i] = pending[i]
      /\ pending'[n].value = p.value /\ pending'[n].next = p.next + 1
      /\ node'.next = 0
  BY <1>1, PendingGrows DEF writeChild
<1>3. /\ k \in Nat /\ p.next \in 1 .. k /\ p.next # 0
      /\ isContainer => ContainerOver(p.value, L[MaxDepth + 1 - n])
  BY <1>1, NodeParts
<1>4. /\ n \in Nat \ {0} /\ IsSeq(stack) /\ Len(stack) = n
      /\ IsSeq(open) /\ Len(open) = n
      /\ \A i \in 1 .. n - 1 :
           Written(pending[i], stack[i], open[i], TRUE, i = Len(stack))
      /\ Written(p, stack[n], open[n], FALSE, FALSE)
  BY <1>1, <1>3, Outline
<1>5. PICK q : q = pending'[n]
  OBVIOUS
<1>6. /\ p.value.type = "array" => Written(q, stack[n], open[n], TRUE, TRUE)
      /\ p.value.type = "object" =>
           \A g : Awaiting(g, "object", k, p.next)
             => Written(q, g, [open[n] EXCEPT !.keys =
                                 Append(@, p.value.keys[p.next])],
                        TRUE, TRUE)
  <2>1. /\ p.next \in 1 .. Len(p.value.kids) /\ Len(p.value.kids) \in Nat
        /\ k = Len(p.value.kids) /\ q.value = p.value /\ q.next = p.next + 1
    BY <1>1, <1>2, <1>3, <1>5 DEF kids
  <2> QED BY <1>4, <2>1, WrittenNext
<1>7. p.value.type \in {"array", "object"} /\ isContainer
  BY <1>1, <1>4 DEF Written, isContainer
(* What remains is that the outer containers stay as they are.             *)
<1>8. ASSUME IsSeq(stack'), Len(stack') = n, IsSeq(open'), Len(open') = n,
             \A i \in 1 .. n - 1 : stack'[i] = stack[i] /\ open'[i] = open[i],
             Written(q, stack'[n], open'[n], TRUE, TRUE),
             has_root' = has_root, Filled', call'.thrown = "none"
      PROVE  Encoding(L)'
  <2>1. has_root' = TRUE
    <3>1. stack # <<>>
      BY <1>4, SequencesAre
    <3>2. has_root = (stack # <<>>)
      BY DEF Encoding, Outlined
    <3> QED BY <1>8, <3>1, <3>2
  <2>2. pending' # <<>> /\ stack' # <<>> /\ n + 1 - 1 = n
    <3>1. IsSeq(pending')
      BY <1>2 DEF Pending
    <3> QED BY <1>2, <1>4, <1>8, <3>1, SequencesAre
  <2>3. ASSUME NEW i \in 1 .. n
        PROVE  Written(pending'[i], stack'[i], open'[i], i < n + 1,
                       i < n + 1 /\ i = n)
    <3>1. (i < n + 1) = TRUE
      BY <1>4
    <3>2. CASE i = n
      BY <1>5, <1>8, <3>1, <3>2
    <3>3. CASE i # n
      <4>1. i \in 1 .. n - 1 /\ (i = Len(stack)) = FALSE /\ (i = n) = FALSE
        BY <1>4, <3>3
      <4>2. Written(pending[i], stack[i], open[i], TRUE, FALSE)
        BY <1>4, <4>1
      <4> QED BY <1>2, <1>8, <3>1, <4>1, <4>2
    <3> QED BY <3>2, <3>3
  <2>4. Outlined'
    <3>1. /\ Len(open') = Len(stack') /\ Len(stack') = Len(pending') - 1
          /\ Len(stack') = n /\ Len(pending') = n + 1
      BY <1>2, <1>8, <2>2
    <3>2. \A i \in 1 .. Len(stack') :
            Written(pending'[i], stack'[i], open'[i], i < Len(pending'),
                    i < Len(pending') /\ i = Len(stack'))
      BY <2>3, <3>1
    <3> QED BY <1>2, <1>8, <2>1, <2>2, <3>1, <3>2 DEF Outlined
  <2> QED BY <1>2, <1>8, <2>4 DEF Encoding
<1>9. CASE p.value.type = "array"
  <2>1. UNCHANGED rvars
    BY <1>1, <1>9 DEF writeChild
  <2>2. /\ UNCHANGED <<stack, open, has_root>> /\ Filled'
        /\ call'.thrown = "none"
    BY <2>1 DEF rvars, Encoding, Filled
  <2>3. Encoding(L)'
    BY <1>4, <1>6, <1>8, <1>9, <2>2
  <2> QED BY <2>2, <2>3
<1>10. CASE p.value.type = "object"
  <2>1. PICK name : name = p.value.keys[p.next]
    OBVIOUS
  <2>2. key(name) /\ Follow /\ Filled
    BY <1>1, <1>10, <2>1 DEF writeChild, Recorded, Encoding
  <2>3. name \in Text
    <3>1. p.value.keys \in Seq(Text) /\ Len(p.value.keys) = k
      BY <1>1, <1>3, <1>7, <1>10 DEF ContainerOver, kids
    <3>2. ASSUME NEW T, NEW s \in Seq(T), NEW i \in 1 .. Len(s)
          PROVE  s[i] \in T
      BY <3>2
    <3> QED BY <1>3, <2>1, <3>1, <3>2
  <2>4. Settled(back, "object", k, p.next - 1) /\ stack # <<>>
    <3>1. back = stack[n] /\ k = Len(p.value.kids)
      BY <1>1, <1>4 DEF back, kids
    <3> QED BY <1>4, <1>10, <3>1, SequencesAre DEF Written
  <2>5. /\ UNCHANGED has_root /\ Filled' /\ call'.thrown = "none"
        /\ call'.op = "key" /\ call'.arg.data = name
        /\ LastChanged(stack, stack')
        /\ \A l, i : Awaiting(stack'[Len(stack)], "object", l, i)
    BY <1>4, <2>2, <2>3, <2>4, KeyTaken
  <2> DEFINE d == [open[n] EXCEPT !.keys = Append(@, name)]
             t == [open EXCEPT ![Len(open)] = d]
  <2>6. open' = t
    <3>1. open' = [open EXCEPT ![Len(open)].keys = Append(@, call'.arg.data)]
      BY <2>2, <2>5 DEF Follow
    <3> QED BY <1>4, <2>5, <3>1
  <2>7. Written(q, stack'[n], d, TRUE, TRUE)
    <3>1. Awaiting(stack'[n], "object", k, p.next)
      BY <1>4, <2>5
    <3>2. \A g : Awaiting(g, "object", k, p.next)
             => Written(q, g, d, TRUE, TRUE)
      BY <1>6, <1>10, <2>1
    <3> QED BY <3>1, <3>2
  <2> HIDE DEF d
  <2>8. /\ IsSeq(t) /\ Len(t) = Len(open) /\ t[Len(open)] = d
        /\ \A i \in 1 .. Len(open) - 1 : t[i] = open[i]
    <3>1. open # <<>>
      BY <1>4, SequencesAre
    <3>2. IsSeq(open)
      BY <1>4
    <3> QED BY ONLY <3>1, <3>2, LastReplaced, Zenon
  <2> HIDE DEF t
  <2>9. /\ IsSeq(stack') /\ Len(stack') = n
        /\ \A i \in 1 .. n - 1 : stack'[i] = stack[i]
    BY <1>4, <2>5 DEF LastChanged
  <2>10. Encoding(L)'
    BY <1>4, <1>8, <2>5, <2>6, <2>7, <2>8, <2>9
  <2> QED BY <2>5, <2>10
<1> QED BY <1>7, <1>9, <1>10

LEMMA EncodeEnd ==
  ASSUME NEW L, Layers(L), Encoding(L), pending # <<>>, isContainer,
         node.next > Len(kids), Recorded(EndOf(node.value.type)),
         pending' = outerPending, UNCHANGED copy
  PROVE  call'.thrown = "none" /\ Encoding(L)'
<1>1. PICK n, p, k : n = Len(pending) /\ p = node /\ k = Len(kids)
  OBVIOUS
<1>2. /\ k \in Nat /\ p.next \in Nat /\ p.next # 0 /\ k = Len(p.value.kids)
      /\ ContainerOver(p.value, L[MaxDepth + 1 - n])
  BY <1>1, NodeParts DEF kids
<1>3. /\ n \in Nat \ {0} /\ IsSeq(stack) /\ Len(stack) = n
      /\ IsSeq(open) /\ Len(open) = n
      /\ \A i \in 1 .. n - 1 :
           Written(pending[i], stack[i], open[i], TRUE, i = Len(stack))
      /\ Written(p, stack[n], open[n], FALSE, FALSE)
  BY <1>1, <1>2, Outline
<1>4. /\ [open[n] EXCEPT !.data = <<>>] = p.value
      /\ Settled(stack[n], p.value.type, k, k)
  <2>1. /\ Written(p, stack[n], open[n], FALSE, FALSE) /\ p.next \in Nat
        /\ p.next > Len(p.value.kids)
        /\ ContainerOver(p.value, L[MaxDepth + 1 - n])
    BY <1>1, <1>2, <1>3 DEF kids
  <2>2. /\ [open[n] EXCEPT !.data = <<>>] = p.value
        /\ Settled(stack[n], p.value.type, Len(p.value.kids),
                   Len(p.value.kids))
    BY ONLY <2>1, WrittenWhole, Zenon
  <2> QED BY <1>2, <2>2
<1>5. EndOf(p.value.type) /\ Follow /\ Filled
  BY <1>1 DEF Recorded, Encoding
<1>6. Settled(back, p.value.type, k, k) /\ stack # <<>> /\ open # <<>>
  BY <1>3, <1>4, SequencesAre DEF back
<1>7. /\ UNCHANGED has_root /\ Filled' /\ call'.thrown = "none"
      /\ call'.op \in {"endObject", "endArray"}
      /\ stack' = SubSeq(stack, 1, Len(stack) - 1)
  <2>1. p.value.type = "array" => k >= k
    BY <1>2
  <2> QED BY <1>3, <1>5, <1>6, <2>1, EndTaken
<1>8. D!Place(D!finished, D!outer)
  BY <1>5, <1>7 DEF Follow
<1>9. D!finished = node.value
  BY <1>1, <1>3, <1>4 DEF D!finished, D!inner
<1>10. /\ IsSeq(D!outer) /\ Len(D!outer) = n - 1
       /\ \A i \in 1 .. n - 1 : D!outer[i] = open[i]
  BY <1>3, <1>6, SequenceShortened DEF D!outer
<1>11. /\ IsSeq(stack') /\ Len(stack') = n - 1
       /\ \A i \in 1 .. n - 1 : stack'[i] = stack[i]
  BY <1>3, <1>6, <1>7, SequenceShortened
<1>12. has_root' = TRUE
  <2>1. has_root = (stack # <<>>)
    BY DEF Encoding, Outlined
  <2> QED BY <1>6, <1>7, <2>1
<1>13. ASSUME n # 1
       PROVE  LET q == pending[n - 1]
              IN  Settled(stack'[n - 1], q.value.type, Len(q.value.kids),
                          q.next - 1)
  <2>1. n - 1 \in 1 .. n - 1 /\ (n - 1 = Len(stack)) = FALSE
    BY <1>3, <1>13
  <2>2. Written(pending[n - 1], stack[n - 1], open[n - 1], TRUE, FALSE)
    BY <1>3, <2>1
  <2>3. stack'[n - 1] = stack[n - 1]
    BY <1>11, <2>1
  <2> QED BY <2>2, <2>3 DEF Written
<1>14. \A i \in 1 .. n - 2 : stack'[i] = stack[i]
  <2>1. \A i \in 1 .. n - 2 : i \in 1 .. n - 1
    BY <1>3
  <2> QED BY <1>11, <2>1
<1> DEFINE s == D!outer
<1>15. /\ D!Place(node.value, s)
       /\ IsSeq(s) /\ Len(s) = Len(pending) - 1
       /\ \A i \in 1 .. Len(pending) - 1 : s[i] = open[i]
       /\ IsSeq(stack') /\ Len(stack') = Len(pending) - 1
       /\ \A i \in 1 .. Len(pending) - 2 : stack'[i] = stack[i]
       /\ Len(pending) # 1 =>
            LET q == pending[Len(pending) - 1]
            IN  Settled(stack'[Len(pending) - 1], q.value.type,
                        Len(q.value.kids), q.next - 1)
  BY <1>1, <1>8, <1>9, <1>10, <1>11, <1>13, <1>14
<1> HIDE DEF s
<1> QED BY <1>7, <1>12, <1>15, ValueFinished

(* What holds on the path of encodeAsync(): the copy is a tree of at most  *)
(* MaxDepth + 1 levels, and the worker is somewhere in it.                 *)
CopySound ==
  path = "async" =>
    \E L : Layers(L) /\ Copying(L) /\ (mode = "encode" => Encoding(L))

Kept == CopySound' /\ NativeForCause' /\ CopyIsWritten'

LEMMA CopyKept ==
  ASSUME mode' \notin {"encode", "done"}, error' # "native",
         \E M : Layers(M) /\ Copying(M)'
  PROVE  Kept
<1>1. CopySound'
  BY DEF CopySound
<1> QED BY <1>1 DEF Kept, NativeForCause, CopyIsWritten

LEMMA WriterKept ==
  ASSUME mode' = "encode", error' # "native",
         NEW L, Layers(L), Encoding(L)'
  PROVE  Kept
<1>1. Copying(L)'
  BY DEF Copying, walking
<1>2. CopySound'
  BY <1>1 DEF CopySound
<1> QED BY <1>2 DEF Kept, NativeForCause, CopyIsWritten

LEMMA CopyStops ==
  ASSUME NEW L, Layers(L), mode' = "thrown", NativeForCause'
  PROVE  Kept
<1>1. Copying(L)'
  BY DEF Copying, walking
<1>2. CopySound'
  BY <1>1 DEF CopySound
<1> QED BY <1>2 DEF Kept, CopyIsWritten

LEMMA CopyRefused ==
  ASSUME NEW L, Layers(L), NEW reason, Throw(reason), reason # "native"
  PROVE  Kept
<1>1. mode' = "thrown" /\ NativeForCause'
  BY Refused
<1> QED BY <1>1, CopyStops

LEMMA AsyncValue ==
  ASSUME WalkInv, NEW L, Layers(L), Copying(L), path = "async",
         error = "none", encodeScalar \/ encodeBinary
  PROVE  Kept
<1>1. ASSUME visitable, NEW v, Writable(v), putLeaf(v),
             Proceed(afterValue(frames)),
             UNCHANGED <<world, input, frames, ancestors>>
      PROVE  Kept
  <2>1. Placed(v, copying) /\ UNCHANGED <<pending, rvars>>
    BY <1>1 DEF putLeaf
  <2>2. Idle /\ CopyFollows(L)
    BY <1>1 DEF Copying, walking, visitable
  <2>3. (\E M : Layers(M) /\ Copying(M)') /\ error' = error
    BY <1>1, <2>1, <2>2, CopyLeaf
  <2>4. mode' \notin {"encode", "done"}
    BY <1>1 DEF Proceed, afterValue
  <2> QED BY <2>3, <2>4, CopyKept
<1>2. CASE encodeScalar
  <2>1. /\ visitable /\ input.type \in Scalars /\ putLeaf(wireScalar(input))
        /\ Proceed(afterValue(frames))
        /\ UNCHANGED <<world, input, frames, ancestors>>
    BY <1>2 DEF encodeScalar
  <2>2. Writable(wireScalar(input))
    BY <2>1, InputIsWritable
  <2> QED BY <1>1, <2>1, <2>2
<1>3. CASE encodeBinary
  <2>1. /\ visitable /\ input.type = "ref"
        /\ heap[target].kind \notin {"array", "object"}
        /\ putLeaf(Leaf(heap[target].kind, heap[target].data))
        /\ Proceed(afterValue(frames))
        /\ UNCHANGED <<world, input, frames, ancestors>>
    BY <1>3 DEF encodeBinary, fresh
  <2>2. Writable(Leaf(heap[target].kind, heap[target].data))
    BY <2>1, InputIsWritable
  <2> QED BY <1>1, <2>1, <2>2
<1> QED BY <1>2, <1>3

LEMMA AsyncContainer ==
  ASSUME WalkInv, NEW L, Layers(L), Copying(L), path = "async",
         error = "none", openArray \/ openObject
  PROVE  Kept
<1>1. ASSUME fresh, NEW kind \in {"array", "object"}, NEW names,
             heap[target].kind = kind,
             copying' = Append(copying, Leaf(kind, <<>>)), UNCHANGED rvars,
             enter(names)
      PROVE  Kept
  <2>1. mode = "value" /\ Idle /\ CopyFollows(L)
    BY <1>1 DEF Copying, walking, fresh, visitable
  <2>2. Copying(L)' /\ error' = error
    BY <1>1, <2>1, CopyOpen
  <2>3. mode' \notin {"encode", "done"}
    BY <1>1 DEF enter, Proceed
  <2> QED BY <2>2, <2>3, CopyKept
<1>2. CASE openArray
  BY <1>1, <1>2 DEF openArray, putArray
<1>3. CASE openObject
  BY <1>1, <1>3 DEF openObject, putObject
<1> QED BY <1>2, <1>3

LEMMA AsyncRead ==
  ASSUME WalkInv, NEW L, Layers(L), Copying(L), path = "async",
         error = "none", changes \in Nat, arrayElement \/ objectGet
  PROVE  Kept
<1>1. ASSUME NEW slot, IsValue(slot.value, DOMAIN heap), Get(slot, advanced),
             \/ looping("array") /\ top.index < scanned.length
             \/ mode = "get"
      PROVE  Kept
  <2>1. \A o \in DOMAIN heap : heap'[o].kind = heap[o].kind
    BY <1>1, KindsKept DEF WalkInv
  <2>2. CASE Throw("getter")
    BY <2>2, CopyRefused
  <2>3. CASE /\ mode' = "value" /\ frames' = advanced /\ error' = error
             /\ UNCHANGED <<copying, rvars>>
    <3>1. Idle /\ CopyFollows(L)
      BY <1>1 DEF Copying, walking, looping
    <3>2. CopyFollows(L)'
      BY <1>1, <2>1, <2>3, <3>1, CopyGot
    <3>3. Idle'
      BY <2>3, <3>1, IdleStays
    <3>4. Copying(L)'
      BY <2>3, <3>2, <3>3 DEF Copying
    <3> QED BY <2>3, <3>4, CopyKept
  <2> QED BY <1>1, <2>2, <2>3 DEF Get, treeVars
<1>2. CASE arrayElement
  <2>1. /\ looping("array") /\ top.index < scanned.length
        /\ IF top.index \in DOMAIN scanned.slots
           THEN Get(scanned.slots[top.index], advanced)
           ELSE Throw("sparse")
    BY <1>2 DEF arrayElement
  <2>2. CASE top.index \in DOMAIN scanned.slots
    <3>1. frames # <<>> /\ scanned.kind = "array"
      BY <2>1 DEF WalkInv, ModeSound, looping
    <3>2. SlotsSound(scanned.slots, DOMAIN heap)
      BY <3>1, AtTop, EntryParts
    <3>3. IsValue(scanned.slots[top.index].value, DOMAIN heap)
      BY <2>2, <3>2 DEF SlotsSound
    <3> QED BY <1>1, <2>1, <2>2, <3>3
  <2>3. CASE top.index \notin DOMAIN scanned.slots
    <3>1. Throw("sparse")
      BY <2>1, <2>3
    <3> QED BY <3>1, CopyRefused
  <2> QED BY <2>2, <2>3
<1>3. CASE objectGet
  <2> DEFINE name == top.names[top.index + 1]
  <2>1. mode = "get" /\ Get(scanned.slots[name], advanced)
    BY <1>3 DEF objectGet, ownNames
  <2>2. /\ frames # <<>> /\ scanned.kind = "object"
        /\ name \in DOMAIN scanned.slots
    BY <2>1 DEF WalkInv, ModeSound
  <2> HIDE DEF name
  <2>3. SlotsSound(scanned.slots, DOMAIN heap)
    BY <2>2, AtTop, EntryParts
  <2>4. IsValue(scanned.slots[name].value, DOMAIN heap)
    BY <2>2, <2>3 DEF SlotsSound
  <2> QED BY <1>1, <2>1, <2>4
<1> QED BY <1>2, <1>3

LEMMA AsyncName ==
  ASSUME WalkInv, NEW L, Layers(L), Copying(L), path = "async",
         error = "none", objectKey
  PROVE  Kept
<1> DEFINE name == top.names[top.index + 1]
<1>1. /\ looping("object") /\ top.index < Len(top.names)
      /\ \/ Throw("symbol")
         \/ /\ frames' = advanced
            /\ UNCHANGED <<world, input, ancestors, mode,
                           error, treeVars, rvars>>
         \/ /\ putKey(name) /\ Proceed("get")
            /\ UNCHANGED <<world, input, frames, ancestors>>
  BY DEF objectKey, ownNames
<1>2. frames # <<>> /\ mode = "loop" /\ Idle /\ CopyFollows(L)
  BY <1>1 DEF WalkInv, ModeSound, Copying, walking, looping
<1>3. name \in Text
  BY <1>1, <1>2, NamesAreText
<1> HIDE DEF name
<1>4. CASE Throw("symbol")
  BY <1>4, CopyRefused
<1>5. CASE /\ frames' = advanced
           /\ UNCHANGED <<world, input, ancestors, mode,
                          error, treeVars, rvars>>
  <2>1. UNCHANGED <<mode, heap, copying>> /\ Idle' /\ error' = error
    BY <1>2, <1>5, IdleStays DEF world, treeVars
  <2>2. CopyFollows(L)'
    BY <1>1, <1>2, <1>5, <2>1, CopySkipped
  <2>3. Copying(L)'
    BY <1>2, <2>1, <2>2 DEF Copying
  <2>4. mode' \notin {"encode", "done"} /\ error' # "native"
    BY <1>2, <2>1
  <2> QED BY <2>3, <2>4, CopyKept
<1>6. CASE /\ putKey(name) /\ Proceed("get")
           /\ UNCHANGED <<world, input, frames, ancestors>>
  <2>1. /\ copying' = [copying EXCEPT ![Len(copying)].keys = Append(@, name)]
        /\ UNCHANGED rvars /\ UNCHANGED <<frames, heap>>
    BY <1>6 DEF putKey, world
  <2>2. Idle' /\ mode' = "get" /\ error' = error
    BY <1>2, <1>6, <2>1, IdleStays DEF Proceed, Idle, rvars
  <2>3. CopyFollows(L)'
    BY <1>1, <1>2, <1>3, <2>1, <2>2, CopyKey
  <2>4. Copying(L)'
    BY <2>2, <2>3 DEF Copying
  <2> QED BY <2>2, <2>4, CopyKept
<1> QED BY <1>1, <1>4, <1>5, <1>6

LEMMA AsyncClose ==
  ASSUME WalkInv, NEW L, Layers(L), Copying(L), path = "async",
         error = "none", closeArray \/ closeObject
  PROVE  Kept
<1>1. ASSUME NEW kind, mode = "loop", putEnd(kind), leave
      PROVE  Kept
  <2>1. /\ Placed(innerCopy, SubSeq(copying, 1, Len(copying) - 1))
        /\ UNCHANGED rvars
    BY <1>1 DEF putEnd
  <2>2. Idle /\ CopyFollows(L)
    BY <1>1 DEF Copying, walking
  <2>3. (\E M : Layers(M) /\ Copying(M)') /\ error' = error
    BY <1>1, <2>1, <2>2, CopyEnd
  <2>4. mode' \notin {"encode", "done"}
    BY <1>1 DEF leave, Proceed, afterValue
  <2> QED BY <2>3, <2>4, CopyKept
<1>2. CASE closeArray
  <2>1. CASE Throw("named")
    BY <2>1, CopyRefused
  <2>2. CASE putEnd("array") /\ leave
    BY <1>1, <1>2, <2>2 DEF closeArray, looping
  <2> QED BY <1>2, <2>1, <2>2 DEF closeArray
<1>3. CASE closeObject
  BY <1>1, <1>3 DEF closeObject, looping
<1> QED BY <1>2, <1>3

LEMMA AsyncStart ==
  ASSUME NEW L, Layers(L), Copying(L), error = "none", startEncode
  PROVE  Kept
<1>1. /\ Idle /\ copy \in L[MaxDepth + 1]
      /\ pending' = <<Node(copy)>> /\ mode' = "encode" /\ error' = error
      /\ UNCHANGED <<copy, rvars>>
  BY DEF startEncode, Copying
<1>2. PICK t, q : q = Node(copy) /\ t = <<q>>
  OBVIOUS
<1>3. /\ DOMAIN q = {"value", "next"} /\ q.next = 0 /\ q.value = copy
      /\ MaxDepth \in Nat
  BY <1>2, DepthIsNat DEF Node
<1>4. IsSeq(t) /\ Len(t) = 1 /\ t[1] = q /\ t # <<>>
  BY <1>2, SingleByte
<1>5. pending' = t
  BY <1>1, <1>2
<1>6. Pending(L)'
  <2>1. MaxDepth + 2 - 1 = MaxDepth + 1 /\ 1 <= MaxDepth + 1
        /\ 1 .. 1 - 1 = {} /\ \A i \in 1 .. 1 : i = 1
    BY <1>3
  <2>2. /\ \A i \in 1 .. Len(t) :
             /\ DOMAIN t[i] = {"value", "next"} /\ t[i].next \in Nat
             /\ t[i].value \in L[MaxDepth + 2 - i]
        /\ \A i \in 1 .. Len(t) - 1 : Chained(t[i], t[i + 1])
    BY <1>1, <1>3, <1>4, <2>1
  <2> QED BY <1>1, <1>3, <1>4, <1>5, <2>1, <2>2 DEF Pending
<1>7. Outlined'
  <2>1. /\ stack' = <<>> /\ has_root' = has_root /\ has_root' = FALSE
        /\ open' = <<>>
    <3>1. has_root \in BOOLEAN => has_root = FALSE
      BY <1>1 DEF Idle
    <3> QED BY <1>1, <3>1 DEF Idle, rvars
  <2>2. IsSeq(<<>>) /\ Len(<<>>) = 0 /\ 1 .. 0 = {}
    BY EmptyContainers DEF SameKeys, Containers
  <2>3. node'.next = 0
    BY <1>3, <1>4, <1>5 DEF node
  <2>4. has_root' = (stack' # <<>>)
    BY <2>1
  <2>5. /\ Len(stack') = 0 /\ Len(open') = 0 /\ Len(pending') = 1
        /\ IsSeq(stack') /\ IsSeq(open') /\ pending' # <<>>
        /\ 1 - 1 = 0 /\ \A i \in 1 .. Len(stack') : FALSE
    BY <1>4, <1>5, <2>1, <2>2
  <2> QED BY <2>3, <2>4, <2>5 DEF Outlined
<1>8. Filled' /\ call'.thrown = "none"
  BY <1>1 DEF Idle, rvars, Filled
<1>9. Encoding(L)'
  BY <1>6, <1>7, <1>8 DEF Encoding
<1> QED BY <1>1, <1>9, WriterKept

(* The worker: its calls are accepted, but for the total of a buffer.       *)
LEMMA AsyncWrite ==
  ASSUME NEW L, Layers(L), mode = "encode" => Encoding(L), error = "none",
         writeValue
  PROVE  Kept
<1>1. mode = "encode" /\ pending # <<>> /\ Encoding(L)
  BY DEF writeValue
<1>2. ~(Len(pending) - 1 > MaxDepth)
  <2>1. Len(pending) \in Nat /\ Len(pending) <= MaxDepth + 1
    BY <1>1, SequencesAre DEF Encoding, Pending
  <2> QED BY <2>1, DepthIsNat
<1>3. /\ \/ node.next = 0 /\ writeBegin
         \/ node.next \in 1 .. Len(kids) /\ writeChild
         \/ isContainer /\ node.next > Len(kids) /\ writeEnd
      /\ Proceed("encode") /\ UNCHANGED copy
  BY <1>2 DEF writeValue
<1>4. ASSUME call'.thrown = "none", Encoding(L)' PROVE Kept
  <2>1. mode' = "encode" /\ error' # "native"
    BY <1>3, <1>4 DEF Proceed
  <2> QED BY <1>4, <2>1, WriterKept
<1>5. CASE node.next = 0 /\ writeBegin
  <2>1. CASE isContainer
    <3>1. /\ Recorded(IF node.value.type = "array" THEN beginArray(Len(kids))
                      ELSE beginObject)
          /\ pending' = begun
      BY <1>5, <2>1 DEF writeBegin
    <3>2. Recorded(BeginOf(node.value.type, Len(kids)))
      BY <3>1 DEF BeginOf
    <3> QED BY <1>1, <1>3, <1>4, <1>5, <2>1, <3>1, <3>2, EncodeContainer
  <2>2. CASE ~isContainer
    <3>1. Recorded(WriteLeaf(node.value)) /\ pending' = outerPending
      BY <1>5, <2>2 DEF writeBegin
    <3>2. EndsWell /\ (call'.thrown = "none" => Encoding(L)')
      BY <1>1, <1>3, <1>5, <2>2, <3>1, EncodeLeaf
    <3>3. CASE call'.thrown = "none"
      BY <1>4, <3>2, <3>3
    <3>4. CASE call'.thrown # "none"
      <4>1. mode' = "thrown"
        BY <1>3, <3>4 DEF Proceed
      <4>2. NativeForCause'
        BY <1>3, <3>2, Proceeds
      <4> QED BY <4>1, <4>2, CopyStops
    <3> QED BY <3>3, <3>4
  <2> QED BY <2>1, <2>2
<1>6. CASE node.next \in 1 .. Len(kids) /\ writeChild
  BY <1>1, <1>3, <1>4, <1>6, EncodeChild
<1>7. CASE isContainer /\ node.next > Len(kids) /\ writeEnd
  <2>1. Recorded(EndOf(node.value.type)) /\ pending' = outerPending
    BY <1>7 DEF writeEnd, EndOf
  <2> QED BY <1>1, <1>3, <1>4, <1>7, <2>1, EncodeEnd
<1> QED BY <1>3, <1>5, <1>6, <1>7

LEMMA AsyncTake ==
  ASSUME NEW L, Layers(L), mode = "encode" => Encoding(L), error = "none",
         path = "async", takeMessage
  PROVE  Kept
<1>1. /\ mode = "encode" /\ pending = <<>> /\ Encoding(L)
      /\ take /\ Follow /\ Proceed("done") /\ UNCHANGED copy
  BY DEF takeMessage, Recorded, treeVars
<1>2. has_root /\ root = copy /\ stack = <<>> /\ Filled
  <2>1. IsSeq(stack) /\ Len(stack) = Len(pending) /\ Len(pending) = 0
    BY <1>1, EmptyContainers DEF Encoding, Outlined, SameKeys, Containers
  <2> QED BY <1>1, <2>1, SequencesAre DEF Encoding, Outlined
<1>3. call'.thrown = "none" /\ call'.op = "take" /\ call'.out # <<>>
  BY <1>1, <1>2, MessageTaken
<1>4. published' = <<root>>
  BY <1>1, <1>3 DEF Follow
<1>5. mode' = "done" /\ error' = error
  BY <1>1, <1>3 DEF Proceed
<1>6. Copying(L)'
  BY <1>5 DEF Copying, walking
<1>7. CopySound'
  BY <1>5, <1>6 DEF CopySound
<1> QED BY <1>1, <1>2, <1>4, <1>5, <1>7
        DEF Kept, NativeForCause, CopyIsWritten

LEMMA AsyncStep ==
  ASSUME WalkInv, SyncSound, CopySound, path = "async", error = "none",
         TraversalNext
  PROVE  Kept
<1>1. PICK L : Layers(L) /\ Copying(L) /\ (mode = "encode" => Encoding(L))
  BY DEF CopySound
<1>2. changes \in Nat
  BY DEF SyncSound
<1>3. CASE refuse
  BY <1>1, <1>3, RefuseThrows, CopyRefused
<1>4. CASE encodeScalar \/ encodeBinary
  BY <1>1, <1>4, AsyncValue
<1>5. CASE openArray \/ openObject
  BY <1>1, <1>5, AsyncContainer
<1>6. CASE arrayElement \/ objectGet
  BY <1>1, <1>2, <1>6, AsyncRead
<1>7. CASE objectKey
  BY <1>1, <1>7, AsyncName
<1>8. CASE closeArray \/ closeObject
  BY <1>1, <1>8, AsyncClose
<1>9. CASE startEncode
  BY <1>1, <1>9, AsyncStart
<1>10. CASE writeValue
  BY <1>1, <1>10, AsyncWrite
<1>11. CASE takeMessage
  BY <1>1, <1>11, AsyncTake
<1> QED BY <1>3, <1>4, <1>5, <1>6, <1>7, <1>8, <1>9, <1>10, <1>11
        DEF TraversalNext

(* A walk that has not failed goes on without an error.                    *)
LEMMA ErrorKept ==
  ASSUME TraversalNext
  PROVE  /\ mode # "thrown"
         /\ mode' # "thrown" => error' = error
         /\ changes' \in {changes, changes + 1}
<1>1. ASSUME NEW reason, Throw(reason)
      PROVE  mode' = "thrown" /\ changes' = changes
  BY <1>1 DEF Throw, world
<1>2. ASSUME NEW next, Proceed(next)
      PROVE  mode' # "thrown" => error' = error
  BY <1>2 DEF Proceed
<1>3. CASE refuse
  <2>1. mode = "value"
    BY <1>3 DEF refuse, visitable, fresh
  <2> QED BY <1>1, <1>3, <2>1, RefuseThrows
<1>4. CASE encodeScalar \/ encodeBinary
  BY <1>2, <1>4 DEF encodeScalar, encodeBinary, visitable, fresh, world
<1>5. CASE openArray \/ openObject
  BY <1>2, <1>5 DEF openArray, openObject, enter, visitable, fresh, world
<1>6. ASSUME NEW slot, Get(slot, advanced)
      PROVE  /\ mode' # "thrown" => error' = error
             /\ changes' \in {changes, changes + 1}
  BY <1>1, <1>6 DEF Get, world
<1>7. CASE arrayElement \/ objectGet
  BY <1>1, <1>6, <1>7 DEF arrayElement, objectGet, looping
<1>8. CASE objectKey
  BY <1>1, <1>2, <1>8 DEF objectKey, looping, world
<1>9. CASE closeArray \/ closeObject
  BY <1>1, <1>2, <1>9 DEF closeArray, closeObject, leave, looping, world
<1>10. CASE startEncode
  BY <1>10 DEF startEncode, world
<1>11. CASE writeValue
  BY <1>1, <1>2, <1>11 DEF writeValue, world
<1>12. CASE takeMessage
  BY <1>2, <1>12 DEF takeMessage, world
<1> QED BY <1>3, <1>4, <1>5, <1>7, <1>8, <1>9, <1>10, <1>11, <1>12
        DEF TraversalNext

-----------------------------------------------------------------------------
(* How a walk ends.                                                        *)
Ends ==
  /\ mode # "thrown" => error = "none"
  /\ NativeForCause /\ CopyIsWritten

TreeInv == WalkInv /\ SyncSound /\ CopySound /\ Ends

LEMMA TreeInvInit == TraversalInit => TreeInv
<1> SUFFICES ASSUME TraversalInit PROVE TreeInv
  OBVIOUS
<1>1. /\ mode = "value" /\ error = "none" /\ frames = <<>> /\ copying = <<>>
      /\ stack = <<>> /\ has_root = FALSE /\ open = <<>> /\ bytes = Header
      /\ call.thrown = "none" /\ path \in {"sync", "async"} /\ changes = 0
  BY DEF TraversalInit, RInit, Init, Call
<1>2. IsSeq(<<>>) /\ Len(<<>>) = 0 /\ 1 .. 0 = {}
  BY EmptyContainers DEF SameKeys, Containers
<1>3. Filled
  <2>1. ASSUME NEW a, NEW b
        PROVE  <<a, b>> \in Seq({a, b}) /\ <<a, b>> # <<>>
    OBVIOUS
  <2>2. Header \in Seq({255, FormatVersion}) /\ Header # <<>>
    BY <2>1 DEF Header
  <2> QED BY <1>1, <2>2, SequencesAre DEF Filled
<1>4. StackFollows
  BY <1>1, <1>2, <1>3 DEF StackFollows
<1>5. SyncSound
  BY <1>1, <1>4 DEF SyncSound, Followed
<1>6. CopySound
  <2> DEFINE L == [j \in 0 .. MaxDepth + 1 |-> {}]
  <2>1. Layers(L)
    <3>1. DOMAIN L = 0 .. MaxDepth + 1 /\ \A j \in 0 .. MaxDepth + 1 : L[j] = {}
      OBVIOUS
    <3> HIDE DEF L
    <3>2. /\ 0 \in 0 .. MaxDepth + 1
          /\ \A j \in 1 .. MaxDepth + 1 : j \in 0 .. MaxDepth + 1
      BY DepthIsNat
    <3> QED BY <3>1, <3>2 DEF Layers
  <2> HIDE DEF L
  <2>2. Copying(L)
    BY <1>1, <1>2, <1>3 DEF Copying, Idle, CopyFollows
  <2>3. mode # "encode"
    BY <1>1
  <2> QED BY <2>1, <2>2, <2>3 DEF CopySound
<1>7. Ends
  BY <1>1 DEF Ends, NativeForCause, CopyIsWritten
<1> QED BY <1>5, <1>6, <1>7, WalkInvInit DEF TreeInv

LEMMA TreeInvStays == ASSUME TreeInv, UNCHANGED tvars PROVE TreeInv'
<1>1. UNCHANGED <<path, heap, changes, argument, input, frames, ancestors,
                  mode, error, copying, copy, pending, bytes, stack, has_root,
                  call, open, root, published, broken>>
  BY DEF tvars, walkVars, world, treeVars, rvars
<1>2. Followed' = Followed
  BY <1>1 DEF Followed, walking, StackFollows, Filled, FrameFollows, kindOf,
              lengthOf
<1>3. SyncSound'
  BY <1>1, <1>2 DEF TreeInv, SyncSound
<1>4. CopySound'
  <2>1. SUFFICES ASSUME path' = "async"
                 PROVE  CopySound'
    BY DEF CopySound
  <2>2. PICK L : Layers(L) /\ Copying(L) /\ (mode = "encode" => Encoding(L))
    BY <1>1, <2>1 DEF TreeInv, CopySound
  <2>3. Idle' = Idle
    BY <1>1 DEF Idle, Filled
  <2>4. CopyFollows(L)' = CopyFollows(L)
    BY <1>1 DEF CopyFollows, kindOf, half
  <2>5. Copying(L)'
    BY <1>1, <2>2, <2>3, <2>4 DEF Copying, walking
  <2>6. Pending(L)' = Pending(L)
    BY <1>1 DEF Pending
  <2>7. Outlined' = Outlined
    BY <1>1 DEF Outlined, node
  <2>8. Encoding(L)' = Encoding(L)
    BY <1>1, <2>6, <2>7 DEF Encoding, Filled
  <2> QED BY <1>1, <2>2, <2>5, <2>8 DEF CopySound
<1>5. Ends'
  BY <1>1 DEF TreeInv, Ends, NativeForCause, CopyIsWritten
<1>6. WalkInv'
  BY WalkInvStep DEF TreeInv
<1> QED BY <1>3, <1>4, <1>5, <1>6 DEF TreeInv

LEMMA TreeInvStep == TreeInv /\ [TraversalNext]_tvars => TreeInv'
<1>1. ASSUME TreeInv, TraversalNext PROVE TreeInv'
  <2>1. /\ WalkInv /\ SyncSound /\ CopySound /\ error = "none"
        /\ mode' # "thrown" => error' = "none"
    BY <1>1, ErrorKept DEF TreeInv, Ends
  <2>2. /\ path' = path /\ path \in {"sync", "async"} /\ changes' \in Nat
        /\ mode' = "encode" => path = "async"
    BY <1>1, <2>1, WorldKept, ErrorKept DEF SyncSound
  <2>3. WalkInv'
    BY <1>1, <2>1, WalkInvStep
  <2>4. CASE path = "sync"
    <3>1. SyncSound' /\ NativeForCause'
      BY <1>1, <2>1, <2>4, SyncStep
    <3>2. CopySound' /\ CopyIsWritten'
      BY <2>2, <2>4 DEF CopySound, CopyIsWritten
    <3> QED BY <2>1, <2>3, <3>1, <3>2 DEF TreeInv, Ends
  <2>5. CASE path = "async"
    <3>1. Kept
      BY <1>1, <2>1, <2>5, AsyncStep
    <3>2. SyncSound'
      BY <2>2, <2>5 DEF SyncSound
    <3> QED BY <2>1, <2>3, <3>1, <3>2 DEF TreeInv, Ends, Kept
  <2> QED BY <2>2, <2>4, <2>5
<1> QED BY <1>1, TreeInvStays

(* On both paths the Writer is called as it expects: while accessors       *)
(* change nothing its stack follows the loops of WriteJavaScriptValue(),   *)
(* and in the worker it follows the copy, which is a tree that fits.       *)
THEOREM TreeInvariant == TraversalSpec => []TreeInv
BY TreeInvInit, TreeInvStep, PTL DEF TraversalSpec

(* Encode() writes exactly the tree that CopyValue() made, for every heap  *)
(* and every value, whatever accessors did during the copy: no call of the *)
(* worker is refused for its order, and a message that is handed over      *)
(* describes the copy and nothing else.                                    *)
THEOREM CopyAlwaysWritten == TraversalSpec => []CopyIsWritten
<1>1. TreeInv => CopyIsWritten
  BY DEF TreeInv, Ends
<1> QED BY <1>1, TreeInvariant, PTL

(* A call of the Writer fails only if an accessor changed an object that   *)
(* encodeSync() is walking, or if a buffer is longer than a uint32 holds;  *)
(* in particular the depth check of WriteValue() never fires on a copy.    *)
THEOREM NativeAlwaysForCause == TraversalSpec => []NativeForCause
<1>1. TreeInv => NativeForCause
  BY DEF TreeInv, Ends
<1> QED BY <1>1, TreeInvariant, PTL

-----------------------------------------------------------------------------
(* The trees that values stand for, and what the walk has made of them.    *)

(* The trees of the objects of h that have at most n levels, given those   *)
(* of one level less.                                                      *)
TreesAt(h, n, trees) ==
  [o \in DOMAIN h |-> IF n = 0 THEN <<>> ELSE entryTree(h[o], n - 1, trees)]

(* g lists them up to n levels.                                            *)
Lists(h, g, n) == \A k \in 0 .. n : g[k] = TreesAt(h, k, g[k - 1])

LEMMA ListsAgree ==
  ASSUME NEW h, NEW n \in Nat, NEW m \in Nat, NEW f, NEW g,
         Lists(h, f, n), Lists(h, g, m), NEW k \in 0 .. n, k <= m
  PROVE  f[k] = g[k]
<1> DEFINE T == {i \in 0 .. k : f[i] # g[i]}
<1>1. SUFFICES ASSUME T # {} PROVE FALSE
  OBVIOUS
<1>2. PICK i \in T : \A j \in T : i <= j
  <2>1. T \subseteq Nat
    OBVIOUS
  <2> HIDE DEF T
  <2> QED BY <1>1, <2>1, LeastNumber
<1>3. /\ i \in 0 .. n /\ i \in 0 .. m
      /\ f[i] = TreesAt(h, i, f[i - 1]) /\ g[i] = TreesAt(h, i, g[i - 1])
  BY DEF Lists
<1>4. CASE i = 0
  <2>1. f[i] = TreesAt(h, 0, f[i - 1]) /\ g[i] = TreesAt(h, 0, g[i - 1])
    BY <1>3, <1>4
  <2>2. \A t, u : TreesAt(h, 0, t) = TreesAt(h, 0, u)
    BY DEF TreesAt
  <2>3. f[i] = g[i]
    BY ONLY <2>1, <2>2, Zenon
  <2> QED BY <2>3
<1>5. CASE i # 0
  <2>1. i - 1 \in 0 .. k /\ ~(i <= i - 1)
    BY <1>5
  <2>2. f[i - 1] = g[i - 1]
    BY <1>2, <2>1
  <2>3. f[i] = g[i]
    BY <1>3, <2>2
  <2> QED BY <2>3
<1> QED BY <1>4, <1>5

LEMMA ListExists ==
  ASSUME NEW h, NEW n \in Nat
  PROVE  \E g : Lists(h, g, n)
<1> DEFINE T == {i \in Nat : ~ \E g : Lists(h, g, i)}
<1>1. SUFFICES ASSUME n \in T PROVE FALSE
  OBVIOUS
<1>2. PICK m \in T : \A j \in T : m <= j
  <2>1. T \subseteq Nat /\ T # {}
    BY <1>1
  <2> HIDE DEF T
  <2> QED BY <2>1, LeastNumber
<1>3. m # 0
  <2> DEFINE g == [k \in 0 .. 0 |-> TreesAt(h, 0, <<>>)]
  <2>1. g[0] = TreesAt(h, 0, <<>>)
    OBVIOUS
  <2> HIDE DEF g
  <2>2. TreesAt(h, 0, <<>>) = TreesAt(h, 0, g[0 - 1])
    BY DEF TreesAt
  <2>3. \A k \in 0 .. 0 : k = 0
    OBVIOUS
  <2>4. Lists(h, g, 0)
    BY <2>1, <2>2, <2>3 DEF Lists
  <2> QED BY <2>4
<1>4. m - 1 \in Nat /\ ~(m <= m - 1)
  BY <1>3
<1>5. m - 1 \notin T
  BY <1>2, <1>4
<1>6. PICK g : Lists(h, g, m - 1)
  BY <1>4, <1>5
<1> DEFINE f == [k \in 0 .. m |->
                   IF k = m THEN TreesAt(h, m, g[m - 1]) ELSE g[k]]
<1>7. f[m] = TreesAt(h, m, g[m - 1]) /\ \A k \in 0 .. m - 1 : f[k] = g[k]
  BY <1>4
<1> HIDE DEF f
<1>8. ASSUME NEW k \in 0 .. m PROVE f[k] = TreesAt(h, k, f[k - 1])
  <2>1. CASE k = m
    <3>1. m - 1 \in 0 .. m - 1
      BY <1>4
    <3> QED BY <1>7, <2>1, <3>1
  <2>2. CASE k \in 1 .. m - 1
    <3>1. g[k] = TreesAt(h, k, g[k - 1]) /\ k - 1 \in 0 .. m - 1
      BY <1>6, <2>2 DEF Lists
    <3> QED BY <1>7, <2>2, <3>1
  <2>3. CASE k = 0 /\ k # m
    <3>1. 0 \in 0 .. m - 1
      BY <1>4, <2>3
    <3>2. f[0] = TreesAt(h, 0, g[0 - 1])
      BY <1>6, <1>7, <3>1 DEF Lists
    <3>3. TreesAt(h, 0, g[0 - 1]) = TreesAt(h, 0, f[0 - 1])
      BY DEF TreesAt
    <3> QED BY <2>3, <3>2, <3>3
  <2> QED BY <1>4, <2>1, <2>2, <2>3
<1>9. Lists(h, f, m)
  BY <1>8 DEF Lists
<1> QED BY <1>2, <1>9

(* The trees of all levels, as they are defined.                           *)
AllTrees(h, T) == T = [n \in Nat |-> TreesAt(h, n, T[n - 1])]

LEMMA TreesExist ==
  ASSUME NEW h
  PROVE  \E T : AllTrees(h, T)
<1> DEFINE list(n) == CHOOSE g : Lists(h, g, n)
           T == [n \in Nat |-> list(n)[n]]
<1>1. ASSUME NEW n \in Nat PROVE Lists(h, list(n), n)
  BY ListExists
<1>2. \A n \in Nat : T[n] = list(n)[n]
  OBVIOUS
<1>3. T = [n \in Nat |-> T[n]]
  OBVIOUS
<1> HIDE DEF T, list
<1>4. ASSUME NEW n \in Nat PROVE T[n] = TreesAt(h, n, T[n - 1])
  <2>1. T[n] = TreesAt(h, n, list(n)[n - 1])
    BY <1>1, <1>2 DEF Lists
  <2>2. CASE n = 0
    <3>1. TreesAt(h, 0, list(0)[0 - 1]) = TreesAt(h, 0, T[0 - 1])
      BY DEF TreesAt
    <3> QED BY <2>1, <2>2, <3>1
  <2>3. CASE n # 0
    <3>1. n - 1 \in Nat /\ n - 1 \in 0 .. n /\ n - 1 <= n - 1
      BY <2>3
    <3>2. Lists(h, list(n - 1), n - 1) /\ Lists(h, list(n), n)
      BY <1>1, <3>1
    <3>3. list(n)[n - 1] = list(n - 1)[n - 1]
      BY <3>1, <3>2, ListsAgree
    <3>4. list(n)[n - 1] = T[n - 1]
      BY <1>2, <3>1, <3>3
    <3> QED BY <2>1, <3>4
  <2> QED BY <2>2, <2>3
<1>5. AllTrees(h, T)
  BY <1>3, <1>4 DEF AllTrees
<1> QED BY <1>5

LEMMA ObjectTreesUnfold == AllTrees(heap, objectTrees)
<1>1. PICK T : AllTrees(heap, T)
  BY TreesExist
<1> QED BY <1>1, Zenon DEF AllTrees, TreesAt, objectTrees

LEMMA TreesStay == ASSUME heap' = heap PROVE objectTrees' = objectTrees
BY Zenon DEF objectTrees

(* The part of a container that is done: c holds the trees of the first n  *)
(* parts of e, each of at most l levels, and the loop has been through m   *)
(* places.                                                                 *)
HoldsParts(e, l, trees, c, n) ==
  /\ IsSeq(c.kids) /\ Len(c.kids) = n
  /\ \A j \in 1 .. n : valueTree(part(e, j), l, trees) = <<c.kids[j]>>

WentThrough(e, c, m) ==
  /\ m \in 0 .. size(e)
  /\ e.kind = "array" =>
       /\ c.keys = <<>>
       /\ \A j \in 1 .. m : j - 1 \in DOMAIN e.slots
  /\ e.kind = "object" =>
       /\ Len(c.keys) = m
       /\ \A j \in 1 .. m : c.keys[j] = e.names[j] /\ e.names[j] # Symbol

LEMMA SizeIsNat ==
  ASSUME NEW e, NEW O, IsEntry(e, O), e.kind \in {"array", "object"}
  PROVE  size(e) \in Nat
<1>1. CASE e.kind = "array"
  <2>1. e.length \in U32
    BY <1>1, EntryParts
  <2> QED BY <1>1, <2>1, NumberRange DEF size
<1>2. CASE e.kind = "object"
  <2>1. e.names \in Seq(Text)
    BY <1>2, EntryParts
  <2> QED BY <1>2, <2>1 DEF size
<1> QED BY <1>1, <1>2

(* An array without holes can be encoded exactly when its enumeration has  *)
(* as many names as it has places: its named properties stand in for the   *)
(* elements that are hidden.                                               *)
LEMMA OnlyElementsSuffice ==
  ASSUME NEW e, NEW O, IsEntry(e, O), Enumerated(e), e.kind = "array"
  PROVE  /\ describable(e) =>
              Cardinality(e.listed) + e.named = e.length
         /\ /\ Cardinality(e.listed) + e.named = e.length
            /\ \A j \in 1 .. e.length : j - 1 \in DOMAIN e.slots
            => describable(e)
<1>1. e.length \in Nat /\ e.named \in Nat
  BY EntryParts, NumberRange
<1>2. DOMAIN e.slots \subseteq 0 .. e.length - 1
  BY DEF Enumerated
<1>3. Cardinality(0 .. e.length - 1) = e.length
  <2>1. CASE e.length = 0
    <3>1. 0 .. e.length - 1 = {}
      BY <2>1
    <3> QED BY <2>1, <3>1, FS_EmptySet
  <2>2. CASE e.length # 0
    <3>1. 0 \in Int /\ e.length - 1 \in Int /\ ~(0 > e.length - 1)
          /\ e.length - 1 - 0 + 1 = e.length
      BY <1>1, <2>2
    <3> QED BY <3>1, FS_Interval
  <2> QED BY <2>1, <2>2
<1>3a. ASSUME DOMAIN e.slots = 0 .. e.length - 1
       PROVE  /\ Cardinality(e.listed) \in Nat
              /\ Cardinality(hidden(e)) = e.length - Cardinality(e.listed)
  <2>1. e.listed \subseteq DOMAIN e.slots
    BY DEF Enumerated
  <2>2. IsFiniteSet(DOMAIN e.slots)
    <3>1. 0 \in Int /\ e.length - 1 \in Int
      BY <1>1
    <3> QED BY <1>3a, <3>1, FS_Interval
  <2>3. DOMAIN e.slots \cap e.listed = e.listed
    BY <2>1
  <2>4. Cardinality(hidden(e))
          = Cardinality(DOMAIN e.slots) - Cardinality(e.listed)
    <3>1. Cardinality(DOMAIN e.slots \ e.listed)
            = Cardinality(DOMAIN e.slots)
                - Cardinality(DOMAIN e.slots \cap e.listed)
      BY <2>2, FS_Difference
    <3> QED BY <2>3, <3>1, Zenon DEF hidden
  <2>5. Cardinality(e.listed) \in Nat
    BY <2>1, <2>2, FS_Subset, FS_CardinalityType
  <2> QED BY <1>3, <1>3a, <2>4, <2>5
<1>4. ASSUME describable(e)
      PROVE  Cardinality(e.listed) + e.named = e.length
  <2>1. /\ DOMAIN e.slots = 0 .. e.length - 1
        /\ e.named = Cardinality(hidden(e))
    BY <1>4 DEF describable
  <2> QED BY <1>1, <1>3a, <2>1
<1>5. ASSUME Cardinality(e.listed) + e.named = e.length,
             \A j \in 1 .. e.length : j - 1 \in DOMAIN e.slots
      PROVE  describable(e)
  <2>1. \A i \in 0 .. e.length - 1 : i + 1 \in 1 .. e.length /\ (i + 1) - 1 = i
    BY <1>1
  <2>2. \A i \in 0 .. e.length - 1 : i \in DOMAIN e.slots
    BY <1>5, <2>1
  <2>3. DOMAIN e.slots = 0 .. e.length - 1
    BY <1>2, <2>2
  <2>4. e.named = Cardinality(hidden(e))
    BY <1>1, <1>3a, <1>5, <2>3
  <2> QED BY <2>3, <2>4 DEF describable
<1> QED BY <1>4, <1>5

LEMMA NamesDescribable ==
  ASSUME NEW e, NEW c, Enumerated(e), e.kind = "object", e.plain,
         WentThrough(e, c, size(e)), e.names \in Seq(Text)
  PROVE  describable(e)
<1>1. \A j \in 1 .. Len(e.names) : e.names[j] # Symbol
  BY DEF WentThrough, size
<1>2. DOMAIN e.names = 1 .. Len(e.names)
  OBVIOUS
<1>3. Symbol \notin DOMAIN e.slots
  BY <1>1, <1>2 DEF Enumerated
<1> QED BY <1>3 DEF describable

LEMMA TreeBlocked ==
  ASSUME NEW e, NEW l, NEW trees, e.kind \in {"array", "object"},
         NEW i \in 1 .. size(e), valueTree(part(e, i), l, trees) = <<>>
  PROVE  entryTree(e, l, trees) = <<>>
<1>1. containerTree(e, l, trees) = <<>>
  BY DEF containerTree
<1> QED BY <1>1 DEF entryTree

LEMMA SequenceIsFunction ==
  ASSUME NEW s, IsSeq(s)
  PROVE  s = [i \in 1 .. Len(s) |-> s[i]]
<1> DEFINE S == {s[i] : i \in 1 .. Len(s)}
<1>1. s \in Seq(S)
  BY DEF IsSeq
<1> HIDE DEF S
<1>2. DOMAIN s = 1 .. Len(s) /\ s = [i \in DOMAIN s |-> s[i]]
  BY <1>1
<1> QED BY <1>2

LEMMA SingleHead == \A a : <<a>> # <<>> /\ <<a>>[1] = a
OBVIOUS

LEMMA TreeFinished ==
  ASSUME NEW e, NEW l, NEW trees, NEW c, Whole(c), c.type = e.kind,
         e.kind \in {"array", "object"}, size(e) \in Nat,
         e.kind = "object" => IsSeq(e.names),
         HoldsParts(e, l, trees, c, size(e)), WentThrough(e, c, size(e)),
         describable(e)
  PROVE  entryTree(e, l, trees) = <<[c EXCEPT !.data = <<>>]>>
<1> DEFINE kid(i) == valueTree(part(e, i), l, trees)
           v == [type |-> e.kind, data |-> <<>>,
                 keys |-> IF e.kind = "array" THEN <<>> ELSE e.names,
                 kids |-> [i \in 1 .. size(e) |-> kid(i)[1]]]
           w == [c EXCEPT !.data = <<>>]
<1>1. /\ IsSeq(c.kids) /\ Len(c.kids) = size(e)
      /\ \A i \in 1 .. size(e) : kid(i) = <<c.kids[i]>>
  BY DEF HoldsParts
<1> HIDE DEF kid
<1>2. \A i \in 1 .. size(e) : kid(i) # <<>> /\ kid(i)[1] = c.kids[i]
  BY <1>1, SingleHead
<1>3. containerTree(e, l, trees) = <<v>>
  BY <1>2, Zenon DEF containerTree, kid
<1>4. [i \in 1 .. size(e) |-> kid(i)[1]] = c.kids
  <2>1. c.kids = [i \in 1 .. size(e) |-> c.kids[i]]
    BY <1>1, SequenceIsFunction
  <2> QED BY <1>2, <2>1
<1>5. (IF e.kind = "array" THEN <<>> ELSE e.names) = c.keys
  <2>1. CASE e.kind = "array"
    BY <2>1 DEF WentThrough
  <2>2. CASE e.kind = "object"
    <3>1. IsSeq(e.names) /\ IsSeq(c.keys) /\ Len(c.keys) = Len(e.names)
          /\ \A j \in 1 .. Len(e.names) : c.keys[j] = e.names[j]
      BY <2>2 DEF WentThrough, size, Whole
    <3>2. /\ c.keys = [j \in 1 .. Len(e.names) |-> c.keys[j]]
          /\ e.names = [j \in 1 .. Len(e.names) |-> e.names[j]]
      BY <3>1, SequenceIsFunction
    <3>3. c.keys = e.names
      BY <3>1, <3>2
    <3> QED BY <2>2, <3>3
  <2> QED BY <2>1, <2>2
<1>6. w = [type |-> c.type, data |-> <<>>, keys |-> c.keys, kids |-> c.kids]
  BY DEF Whole
<1>7. v = w
  BY <1>4, <1>5, <1>6
<1>8. entryTree(e, l, trees) = containerTree(e, l, trees)
  BY DEF entryTree
<1> QED BY <1>3, <1>7, <1>8

LEMMA TreeCases ==
  ASSUME NEW v, NEW n \in Nat
  PROVE  /\ n = 0 \/ v.type = "symbol" => TreeOf(v, n) = <<>>
         /\ n # 0 /\ v.type = "ref" /\ v.data[1] \in DOMAIN heap =>
              TreeOf(v, n) =
                entryTree(heap[v.data[1]], n - 1, objectTrees[n - 1])
         /\ n # 0 /\ v.type \in Scalars => TreeOf(v, n) = <<wireScalar(v)>>
<1>1. n = 0 \/ v.type = "symbol" => TreeOf(v, n) = <<>>
  BY DEF TreeOf, valueTree
<1>2. ASSUME n # 0, v.type = "ref", v.data[1] \in DOMAIN heap
      PROVE  TreeOf(v, n) =
               entryTree(heap[v.data[1]], n - 1, objectTrees[n - 1])
  <2>1. TreeOf(v, n) = objectTrees[n][v.data[1]]
    BY <1>2 DEF TreeOf, valueTree
  <2>2. objectTrees[n] = TreesAt(heap, n, objectTrees[n - 1])
    BY ObjectTreesUnfold DEF AllTrees
  <2> QED BY <1>2, <2>1, <2>2 DEF TreesAt
<1>3. ASSUME n # 0, v.type \in Scalars PROVE TreeOf(v, n) = <<wireScalar(v)>>
  BY <1>3 DEF TreeOf, valueTree, Scalars
<1> QED BY <1>1, <1>2, <1>3

-----------------------------------------------------------------------------
(* The invariant, as long as accessors change nothing.                     *)

(* The levels left for the parts of the i-th container, the 0-th being the *)
(* argument itself, and the part of it that is being visited.              *)
Level(i) == MaxDepth + 1 - i
walked(i) == heap[frames[i].obj]
chosen(i) == IF i = 0 THEN argument ELSE part(walked(i), frames[i].index)

(* A part that is being visited is not in its container yet.               *)
visiting(i) == IF i = Len(frames) /\ mode # "value" THEN 0 ELSE 1

FrameHolds(i) ==
  /\ walked(i).kind \in {"array", "object"}
  /\ walked(i).kind = "object" =>
       walked(i).plain /\ frames[i].names = walked(i).names
  /\ Shaped(Building[i]) /\ Building[i].type = walked(i).kind
  /\ path = "async" => Building[i].data = <<>>
  /\ HoldsParts(walked(i), Level(i), objectTrees[Level(i)], Building[i],
                frames[i].index - visiting(i))
  /\ WentThrough(walked(i), Building[i], read(i))

(* The visited part of a container is the next container.                  *)
Leads(i) == chosen(i).type = "ref" /\ chosen(i).data[1] = frames[i + 1].obj

OnTheWay ==
  /\ \A i \in 1 .. Len(frames) : FrameHolds(i)
  /\ \A i \in 0 .. Len(frames) - 1 : Leads(i)
  /\ mode = "value" => input = chosen(Len(frames))

Result == IF path = "sync" THEN root ELSE copy

Conclusive ==
  /\ mode \in {"end", "encode", "done"} => Described(argument) = <<Result>>
  /\ mode = "done" => published = <<Result>>
  /\ mode = "thrown" /\ error \notin {"getter", "native"} =>
       Described(argument) = <<>>

ValuesTrue ==
  changes = 0 =>
    /\ \A o \in DOMAIN heap : Enumerated(heap[o])
    /\ walking => OnTheWay
    /\ Conclusive

-----------------------------------------------------------------------------
(* What cannot be encoded.                                                 *)

LEMMA LevelsLeft ==
  ASSUME WalkInv, NEW i \in 0 .. Len(frames)
  PROVE  /\ Len(frames) \in Nat /\ Level(i) \in Nat
         /\ i # 0 => i - 1 \in 0 .. Len(frames) - 1 /\ Level(i - 1) # 0
                     /\ Level(i - 1) \in Nat /\ Level(i - 1) - 1 = Level(i)
<1>1. Len(frames) \in Nat /\ Len(frames) <= MaxDepth + 1 /\ MaxDepth \in Nat
  BY FramesLast, DepthIsNat DEF WalkInv, WalkSound
<1> QED BY <1>1 DEF Level

(* The tree of a container that is walked, and of the part of another one  *)
(* that led to it.                                                         *)
LEMMA ContainerTree ==
  ASSUME WalkInv, OnTheWay, NEW i \in 1 .. Len(frames)
  PROVE  /\ frames[i].obj \in DOMAIN heap
         /\ TreeOf(chosen(i - 1), Level(i - 1))
              = entryTree(walked(i), Level(i), objectTrees[Level(i)])
<1>1. frames[i].obj \in DOMAIN heap
  BY DEF WalkInv, WalkSound, Activation
<1>2. /\ i - 1 \in 0 .. Len(frames) - 1 /\ Level(i - 1) # 0 /\ i - 1 + 1 = i
      /\ Level(i - 1) \in Nat /\ Level(i - 1) - 1 = Level(i)
  BY LevelsLeft
<1>3. chosen(i - 1).type = "ref" /\ chosen(i - 1).data[1] = frames[i].obj
  BY <1>2 DEF OnTheWay, Leads
<1> QED BY <1>1, <1>2, <1>3, TreeCases DEF walked

LEMMA ChosenPlace ==
  ASSUME WalkInv, OnTheWay, NEW i \in 1 .. Len(frames),
         i < Len(frames) \/ mode = "value"
  PROVE  /\ walked(i).kind \in {"array", "object"}
         /\ frames[i].index \in 1 .. size(walked(i))
         /\ chosen(i) = part(walked(i), frames[i].index)
         /\ read(i) = frames[i].index /\ visiting(i) = 1
<1>1. FrameHolds(i) /\ frames[i].index \in Nat
  BY DEF OnTheWay, WalkInv, WalkSound, Activation
<1>2. read(i) = frames[i].index /\ visiting(i) = 1
  <2>1. ~(i = Len(frames) /\ mode # "value")
    <3>1. Len(frames) \in Nat
      BY FramesLast
    <3> QED BY <3>1
  <2>2. ~(mode = "get" /\ i = Len(frames))
    BY <2>1
  <2> QED BY <1>1, <2>1, <2>2 DEF read, visiting
<1>3. frames[i].index \in 0 .. size(walked(i))
  BY <1>1, <1>2 DEF FrameHolds, WentThrough
<1>4. frames[i].index - 1 \in Nat
  <2>1. Len(Building[i].kids) = frames[i].index - 1 /\ IsSeq(Building[i].kids)
    BY <1>1, <1>2 DEF FrameHolds, HoldsParts
  <2> QED BY <2>1, SequencesAre
<1>5. frames[i].index \in 1 .. size(walked(i))
  BY <1>3, <1>4
<1>6. chosen(i) = part(walked(i), frames[i].index)
  BY DEF chosen
<1> QED BY <1>1, <1>2, <1>5, <1>6 DEF FrameHolds

(* What one value has no tree for, the argument has no tree for.           *)
LEMMA Blocked ==
  ASSUME WalkInv, OnTheWay, NEW k \in 0 .. Len(frames),
         k < Len(frames) \/ mode = "value",
         TreeOf(chosen(k), Level(k)) = <<>>
  PROVE  Described(argument) = <<>>
<1> DEFINE T == {i \in 0 .. Len(frames) :
                   /\ i < Len(frames) \/ mode = "value"
                   /\ TreeOf(chosen(i), Level(i)) = <<>>}
<1>1. PICK i \in T : \A j \in T : i <= j
  <2>1. T \subseteq Nat /\ T # {}
    OBVIOUS
  <2> HIDE DEF T
  <2> QED BY <2>1, LeastNumber
<1>2. CASE i = 0
  <2>1. TreeOf(chosen(0), Level(0)) = <<>>
    BY <1>2
  <2>2. chosen(0) = argument /\ Level(0) = MaxDepth + 1
    BY DepthIsNat DEF chosen, Level
  <2> QED BY <2>1, <2>2 DEF Described
<1>3. CASE i # 0
  <2>1. i \in 1 .. Len(frames) /\ (i < Len(frames) \/ mode = "value")
        /\ TreeOf(chosen(i), Level(i)) = <<>>
    BY <1>3
  <2>2. /\ walked(i).kind \in {"array", "object"}
        /\ frames[i].index \in 1 .. size(walked(i))
        /\ chosen(i) = part(walked(i), frames[i].index)
    BY <2>1, ChosenPlace
  <2>3. entryTree(walked(i), Level(i), objectTrees[Level(i)]) = <<>>
    <3>1. valueTree(part(walked(i), frames[i].index), Level(i),
                    objectTrees[Level(i)]) = <<>>
      BY <2>1, <2>2 DEF TreeOf
    <3> QED BY <2>2, <3>1, TreeBlocked
  <2>4. TreeOf(chosen(i - 1), Level(i - 1)) = <<>>
    BY <2>1, <2>3, ContainerTree
  <2>5. i - 1 \in 0 .. Len(frames) /\ i - 1 < Len(frames) /\ ~(i <= i - 1)
    BY <2>1
  <2>6. i - 1 \in T
    BY <2>4, <2>5
  <2> HIDE DEF T
  <2> QED BY <1>1, <2>5, <2>6
<1> QED BY <1>2, <1>3

LEMMA ContainerBlocked ==
  ASSUME WalkInv, OnTheWay, NEW i \in 1 .. Len(frames),
         ~describable(walked(i))
  PROVE  Described(argument) = <<>>
<1>1. entryTree(walked(i), Level(i), objectTrees[Level(i)]) = <<>>
  BY DEF entryTree
<1>2. i - 1 \in 0 .. Len(frames) /\ i - 1 < Len(frames)
  BY FramesLast
<1> QED BY <1>1, <1>2, ContainerTree, Blocked

(* The containers from one to the next reference to it have no trees, for  *)
(* the one of fewest levels would hold one of fewer.                       *)
LEMMA CycleBlocked ==
  ASSUME WalkInv, OnTheWay, mode = "value", NEW k \in 1 .. Len(frames),
         input.type = "ref", input.data[1] = frames[k].obj
  PROVE  Described(argument) = <<>>
<1> DEFINE T == {m \in Nat : \E i \in k .. Len(frames) :
                               objectTrees[m][frames[i].obj] # <<>>}
<1>0. Len(frames) \in Nat
  BY FramesLast
<1>1. ASSUME NEW i \in k .. Len(frames)
      PROVE  \E j \in k .. Len(frames) :
               chosen(i).type = "ref" /\ chosen(i).data[1] = frames[j].obj
  <2>1. CASE i = Len(frames)
    BY <2>1 DEF OnTheWay
  <2>2. CASE i # Len(frames)
    <3>1. i \in 0 .. Len(frames) - 1 /\ i + 1 \in k .. Len(frames)
      BY <1>0, <2>2
    <3>2. Leads(i)
      BY <3>1 DEF OnTheWay
    <3> QED BY <3>1, <3>2 DEF Leads
  <2> QED BY <2>1, <2>2
<1>2. T = {}
  <2>1. SUFFICES ASSUME T # {} PROVE FALSE
    OBVIOUS
  <2>2. PICK m \in T : \A n \in T : m <= n
    <3>1. T \subseteq Nat
      OBVIOUS
    <3> HIDE DEF T
    <3> QED BY <2>1, <3>1, LeastNumber
  <2>3. PICK i \in k .. Len(frames) : objectTrees[m][frames[i].obj] # <<>>
    OBVIOUS
  <2>4. /\ m \in Nat /\ i \in 1 .. Len(frames) /\ frames[i].obj \in DOMAIN heap
        /\ objectTrees[m] = TreesAt(heap, m, objectTrees[m - 1])
    <3>1. m \in Nat /\ i \in 1 .. Len(frames)
      OBVIOUS
    <3>2. frames[i].obj \in DOMAIN heap
      BY <3>1 DEF WalkInv, WalkSound, Activation
    <3> QED BY <3>1, <3>2, ObjectTreesUnfold DEF AllTrees
  <2>5. m # 0 /\ objectTrees[m][frames[i].obj]
                   = entryTree(walked(i), m - 1, objectTrees[m - 1])
    BY <2>3, <2>4 DEF TreesAt, walked
  <2>6. m - 1 \in Nat /\ ~(m <= m - 1)
    BY <2>4, <2>5
  <2>7. m - 1 \notin T
    BY <2>2, <2>6
  <2>8. PICK j \in k .. Len(frames) :
          chosen(i).type = "ref" /\ chosen(i).data[1] = frames[j].obj
    BY <1>1
  <2>9. objectTrees[m - 1][frames[j].obj] = <<>>
    BY <2>6, <2>7
  <2>10. valueTree(chosen(i), m - 1, objectTrees[m - 1]) = <<>>
    BY <2>8, <2>9 DEF valueTree
  <2>11. /\ walked(i).kind \in {"array", "object"}
         /\ frames[i].index \in 1 .. size(walked(i))
         /\ chosen(i) = part(walked(i), frames[i].index)
    BY <2>4, ChosenPlace
  <2>12. entryTree(walked(i), m - 1, objectTrees[m - 1]) = <<>>
    BY <2>10, <2>11, TreeBlocked
  <2> QED BY <2>3, <2>5, <2>12
<1>3. Len(frames) \in 0 .. Len(frames) /\ Len(frames) \in k .. Len(frames)
      /\ k \in k .. Len(frames)
  BY <1>0
<1>4. Level(Len(frames)) \in Nat
  BY <1>3, LevelsLeft
<1>5. objectTrees[Level(Len(frames))][frames[k].obj] = <<>>
  BY <1>2, <1>3, <1>4
<1>6. TreeOf(input, Level(Len(frames))) = <<>>
  BY <1>5 DEF TreeOf, valueTree
<1>7. input = chosen(Len(frames))
  BY DEF OnTheWay
<1> QED BY <1>3, <1>6, <1>7, Blocked

-----------------------------------------------------------------------------
(* Steps that do not change the heap.                                      *)

LEMMA DescribedStays ==
  ASSUME UNCHANGED <<heap, argument>>
  PROVE  Described(argument)' = Described(argument)
BY TreesStay DEF Described, TreeOf

LEMMA ThrowTrue ==
  ASSUME ValuesTrue, NEW reason, Throw(reason),
         changes = 0 /\ reason \notin {"getter", "native"} =>
           Described(argument) = <<>>
  PROVE  ValuesTrue'
<1>1. /\ mode' = "thrown" /\ error' = reason
      /\ UNCHANGED <<heap, changes, argument>>
  BY DEF Throw, world
<1>2. Described(argument)' = Described(argument)
  BY <1>1, DescribedStays
<1> QED BY <1>1, <1>2 DEF ValuesTrue, Conclusive, walking

LEMMA RefuseTrue == ASSUME WalkInv, ValuesTrue, refuse PROVE ValuesTrue'
<1> DEFINE n == Len(frames)
<1>1. PICK reason : Throw(reason) /\ reason # "native"
  BY RefuseThrows
<1>2. SUFFICES ASSUME changes = 0 PROVE Described(argument) = <<>>
  BY <1>1, ThrowTrue
<1>3. mode = "value"
  BY DEF refuse, visitable, fresh
<1>4. OnTheWay /\ input = chosen(n)
  BY <1>2, <1>3 DEF ValuesTrue, walking, OnTheWay
<1>5. /\ n \in Nat /\ n \in 0 .. n /\ Level(n) \in Nat /\ n <= MaxDepth + 1
      /\ MaxDepth \in Nat
  BY FramesLast, LevelsLeft, DepthIsNat DEF WalkInv, WalkSound
<1>6. ASSUME TreeOf(input, Level(n)) = <<>> PROVE Described(argument) = <<>>
  BY <1>3, <1>4, <1>5, <1>6, Blocked
<1>7. CASE tooDeep
  <2>1. Level(n) = 0
    BY <1>5, <1>7 DEF tooDeep, Level
  <2> QED BY <1>5, <1>6, <2>1, TreeCases
<1>8. CASE input.type = "symbol"
  BY <1>5, <1>6, <1>8, TreeCases
<1>9. CASE input.type = "ref" /\ IsAncestor(target)
  <2>1. PICK k \in 1 .. Len(ancestors) : ancestors[k] = target
    BY <1>9 DEF IsAncestor
  <2>2. k \in 1 .. n /\ frames[k].obj = input.data[1]
    BY <2>1 DEF WalkInv, WalkSound, target
  <2> QED BY <1>3, <1>4, <1>9, <2>2, CycleBlocked
<1>10. CASE fresh /\ ~describable(heap[target])
  <2>1. Level(n) # 0 /\ input.type = "ref" /\ target \in DOMAIN heap
    BY <1>5, <1>10, InputIsWritable DEF fresh, visitable, tooDeep, Level
  <2>2. TreeOf(input, Level(n)) =
          entryTree(heap[target], Level(n) - 1, objectTrees[Level(n) - 1])
    BY <1>5, <2>1, TreeCases DEF target
  <2>3. TreeOf(input, Level(n)) = <<>>
    BY <1>10, <2>2 DEF entryTree
  <2> QED BY <1>6, <2>3
<1> QED BY <1>7, <1>8, <1>9, <1>10 DEF refuse, describable

(* The call of a leaf is about this leaf.                                  *)
LEMMA LeafArgument ==
  ASSUME NEW v, Writable(v), WriteLeaf(v)
  PROVE  call'.arg = v /\ call'.op \in LeafMethods
<1>1. SUFFICES call'.arg = v
  BY LeafCalled
<1>2. v = Leaf(v.type, v.data)
  BY DEF Writable
<1>3. ASSUME NEW op, NEW arg, NEW raw, Write(op, arg, raw, <<>>)
      PROVE  call'.arg = arg
  BY <1>3, RefusedOrWritten
<1>4. CASE v.type = "undefined" /\ undefined
  <2>1. v.data = <<>>
    BY <1>4, ViewTypes DEF Writable
  <2> QED BY <1>2, <1>3, <1>4, <2>1 DEF undefined, scalar
<1>5. CASE v.type = "null" /\ null
  <2>1. v.data = <<>>
    BY <1>5, ViewTypes DEF Writable
  <2> QED BY <1>2, <1>3, <1>5, <2>1 DEF null, scalar
<1>6. CASE v.type = "boolean" /\ boolean(v.data = <<1>>)
  <2> DEFINE w == Leaf("boolean", <<IF v.data = <<1>> THEN 1 ELSE 0>>)
  <2>1. v.data \in {<<0>>, <<1>>}
    BY <1>6, ViewTypes DEF Writable
  <2>2. v = w
    BY <1>2, <1>6, <2>1
  <2>3. call'.arg = w
    BY <1>3, <1>6 DEF boolean
  <2> QED BY <2>2, <2>3
<1>7. CASE v.type = "int32" /\ int32(v.data[1])
  <2>1. v.data = <<v.data[1]>>
    BY <1>7, ViewTypes DEF Writable
  <2> QED BY <1>2, <1>3, <1>7, <2>1 DEF int32
<1>8. CASE v.type = "double" /\ number(v.data)
  BY <1>2, <1>3, <1>8 DEF number
<1>9. CASE v.type = "date" /\ date(v.data)
  BY <1>2, <1>3, <1>9 DEF date
<1>10. CASE v.type = "string" /\ string16(v.data)
  BY <1>2, <1>3, <1>10 DEF string16
<1>11. CASE v.type = "arrayBuffer" /\ arrayBuffer(binary(v))
  BY <1>2, <1>3, <1>11 DEF arrayBuffer, binary
<1>12. CASE v.type \in ViewType /\ arrayBufferView(v.type, binary(v))
  BY <1>2, <1>3, <1>12 DEF arrayBufferView, binary, Refuse, Call
<1> QED BY <1>4, <1>5, <1>6, <1>7, <1>8, <1>9, <1>10, <1>11, <1>12
        DEF WriteLeaf

-----------------------------------------------------------------------------
(* Values that are put in place.                                           *)

(* v is the result, or the next part of the innermost of the containers.   *)
IsPlaced(v, containers) ==
  IF containers = <<>> THEN Result' = v
  ELSE Building' = [containers EXCEPT ![Len(containers)].kids = Append(@, v)]

LEMMA LeafPlaced ==
  ASSUME NEW v, Writable(v), putLeaf(v), path' = path, call'.thrown = "none"
  PROVE  IsPlaced(v, Building)
<1>1. CASE path = "sync"
  <2>1. call'.op \in LeafMethods /\ call'.arg = v /\ Follow
    BY <1>1, LeafArgument DEF putLeaf, Recorded
  <2>2. D!Place(v, open)
    BY <2>1 DEF Follow, LeafMethods
  <2> QED BY <1>1, <2>2 DEF D!Place, IsPlaced, Building, Result
<1>2. CASE path # "sync"
  BY <1>2 DEF putLeaf, Placed, IsPlaced, Building, Result
<1> QED BY <1>1, <1>2

LEMMA DataReset ==
  ASSUME NEW c, Shaped(c), c.data = <<>>
  PROVE  [c EXCEPT !.data = <<>>] = c
<1> DEFINE d == [c EXCEPT !.data = <<>>]
<1>1. /\ Shaped(d) /\ d.type = c.type /\ d.data = <<>>
      /\ d.keys = c.keys /\ d.kids = c.kids
  <2>1. DOMAIN c = {"type", "data", "keys", "kids"}
    BY DEF Shaped
  <2>2. d = [type |-> d.type, data |-> d.data, keys |-> d.keys,
             kids |-> d.kids]
    BY <2>1
  <2>3. Shaped(d)
    BY <2>2, Zenon DEF Shaped
  <2> QED BY <2>1, <2>3
<1> HIDE DEF d
<1>2. d = c
  BY <1>1, ShapedEqual
<1> QED BY <1>2 DEF d

LEMMA EndPlaced ==
  ASSUME NEW type, putEnd(type), path' = path, call'.thrown = "none",
         Containers(Building), Building # <<>>, path \in {"sync", "async"},
         Shaped(Building[Len(Building)]),
         path = "async" => Building[Len(Building)].data = <<>>
  PROVE  IsPlaced([Building[Len(Building)] EXCEPT !.data = <<>>],
                  SubSeq(Building, 1, Len(Building) - 1))
<1>1. CASE path = "sync"
  <2>1. call'.op \in {"endObject", "endArray"} /\ Follow
    BY <1>1 DEF putEnd, Recorded, endObject, endArray, End, Refuse, Call
  <2>2. D!Place(D!finished, D!outer)
    BY <2>1 DEF Follow
  <2>3. D!Place([open[Len(open)] EXCEPT !.data = <<>>],
                SubSeq(open, 1, Len(open) - 1))
    BY <2>2 DEF D!finished, D!outer, D!inner
  <2> QED BY <1>1, <2>3 DEF D!Place, IsPlaced, Building, Result
<1>2. CASE path = "async"
  <2> DEFINE c == Building[Len(Building)]
  <2>1. Placed(c, SubSeq(Building, 1, Len(Building) - 1))
        /\ Building' = copying' /\ Result' = copy'
    BY <1>2 DEF putEnd, innerCopy, Building, Result
  <2>2. Shaped(c) /\ c.data = <<>>
    BY <1>2
  <2> HIDE DEF c
  <2>3. [c EXCEPT !.data = <<>>] = c
    BY <2>2, DataReset
  <2>4. IsPlaced(c, SubSeq(Building, 1, Len(Building) - 1))
    <3> DEFINE s == SubSeq(Building, 1, Len(Building) - 1)
    <3>1. Placed(c, s)
      BY <2>1
    <3> HIDE DEF s
    <3>2. IsPlaced(c, s)
      BY <2>1, <3>1 DEF Placed, IsPlaced
    <3> QED BY <3>2 DEF s
  <2> QED BY <2>3, <2>4 DEF c
<1> QED BY <1>1, <1>2

-----------------------------------------------------------------------------
(* The steps of the walk.                                                  *)

(* A container that nothing happens to.                                    *)
LEMMA FrameStays ==
  ASSUME NEW i \in 1 .. Len(frames), FrameHolds(i), UNCHANGED <<heap, path>>,
         frames'[i].obj = frames[i].obj, frames'[i].names = frames[i].names,
         Building'[i] = Building[i],
         frames'[i].index - visiting(i)' = frames[i].index - visiting(i),
         WentThrough(walked(i), Building[i], read(i)')
  PROVE  FrameHolds(i)'
<1>1. objectTrees' = objectTrees /\ walked(i)' = walked(i)
  BY TreesStay DEF walked
<1> HIDE DEF walked, Building, read, visiting
<1> QED BY <1>1 DEF FrameHolds

LEMMA ChosenStays ==
  ASSUME NEW i, UNCHANGED <<heap, argument>>,
         i # 0 => /\ frames'[i].obj = frames[i].obj
                  /\ frames'[i].index = frames[i].index
  PROVE  chosen(i)' = chosen(i)
BY DEF chosen, walked

LEMMA PartPlaced ==
  ASSUME NEW s, IsSeq(s), s # <<>>, NEW v, Shaped(s[Len(s)])
  PROVE  LET t == [s EXCEPT ![Len(s)].kids = Append(@, v)]
         IN  /\ Shaped(t[Len(s)]) /\ t[Len(s)].type = s[Len(s)].type
             /\ t[Len(s)].data = s[Len(s)].data
             /\ t[Len(s)].keys = s[Len(s)].keys
             /\ t[Len(s)].kids = Append(s[Len(s)].kids, v)
             /\ \A i \in 1 .. Len(s) - 1 : t[i] = s[i]
<1> DEFINE c == s[Len(s)]
           x == Append(c.kids, v)
           d == [c EXCEPT !.kids = x]
           t == [s EXCEPT ![Len(s)] = d]
<1>1. t[Len(s)] = d /\ \A i \in 1 .. Len(s) - 1 : t[i] = s[i]
  BY LastReplaced
<1>2. /\ Shaped(d) /\ d.type = c.type /\ d.data = c.data
      /\ d.keys = c.keys /\ d.kids = x
  <2>1. DOMAIN c = {"type", "data", "keys", "kids"}
    BY DEF Shaped
  <2> HIDE DEF c, x
  <2>2. d = [type |-> d.type, data |-> d.data, keys |-> d.keys,
             kids |-> d.kids]
    BY <2>1
  <2>3. Shaped(d)
    BY <2>2, Zenon DEF Shaped
  <2> QED BY <2>1, <2>3
<1>3. t = [s EXCEPT ![Len(s)].kids = Append(@, v)]
  OBVIOUS
<1> HIDE DEF t, d
<1> QED BY <1>1, <1>2, <1>3

LEMMA PartsGrow ==
  ASSUME NEW e, NEW l, NEW trees, NEW c, NEW n \in Nat, NEW v, NEW d,
         HoldsParts(e, l, trees, c, n), d.kids = Append(c.kids, v),
         valueTree(part(e, n + 1), l, trees) = <<v>>
  PROVE  HoldsParts(e, l, trees, d, n + 1)
<1>1. /\ IsSeq(d.kids) /\ Len(d.kids) = n + 1 /\ d.kids[n + 1] = v
      /\ \A j \in 1 .. n : d.kids[j] = c.kids[j]
  BY SequenceAppended DEF HoldsParts
<1>2. ASSUME NEW j \in 1 .. n + 1
      PROVE  valueTree(part(e, j), l, trees) = <<d.kids[j]>>
  <2>1. CASE j = n + 1
    BY <1>1, <2>1
  <2>2. CASE j \in 1 .. n
    BY <1>1, <2>2 DEF HoldsParts
  <2>3. j = n + 1 \/ j \in 1 .. n
    OBVIOUS
  <2> QED BY <2>1, <2>2, <2>3
<1> QED BY <1>1, <1>2 DEF HoldsParts

(* A value takes its place among the n containers that stay open.          *)
LEMMA PlacedTrue ==
  ASSUME WalkInv, ValuesTrue, walking, changes = 0,
         UNCHANGED <<path, heap, changes, argument>>,
         NEW n \in 0 .. Len(frames), n < Len(frames) \/ mode = "value",
         IsSeq(frames'), Len(frames') = n,
         \A i \in 1 .. n : frames'[i] = frames[i],
         NEW b, IsSeq(b), Len(b) = n, \A i \in 1 .. n : b[i] = Building[i],
         NEW v, TreeOf(chosen(n), Level(n)) = <<v>>,
         call'.thrown = "none" => IsPlaced(v, b),
         Proceed(afterValue(frames'))
  PROVE  ValuesTrue'
<1>1. /\ OnTheWay /\ Len(frames) \in Nat /\ n \in Nat
      /\ \A o \in DOMAIN heap' : Enumerated(heap'[o])
  BY FramesLast DEF ValuesTrue
<1>2. Described(argument)' = Described(argument)
  BY DescribedStays
<1>3. CASE call'.thrown # "none"
  <2>1. mode' = "thrown" /\ error' = "native"
    BY <1>3 DEF Proceed
  <2> QED BY <1>1, <2>1 DEF ValuesTrue, Conclusive, walking
<1>4. CASE call'.thrown = "none" /\ n = 0
  <2>1. frames' = <<>> /\ b = <<>>
    BY <1>4, SequencesAre
  <2>2. mode' = "end" /\ Result' = v
    BY <1>4, <2>1 DEF Proceed, afterValue, IsPlaced
  <2>3. chosen(0) = argument /\ Level(0) = MaxDepth + 1
    BY DepthIsNat DEF chosen, Level
  <2>4. Described(argument) = <<v>>
    BY <1>4, <2>3 DEF Described
  <2> QED BY <1>1, <1>2, <2>2, <2>4 DEF ValuesTrue, Conclusive, walking
<1>5. CASE call'.thrown = "none" /\ n # 0
  <2>1. frames' # <<>> /\ b # <<>> /\ n \in 1 .. n
    BY <1>1, <1>5, SequencesAre
  <2>2. mode' = "loop" /\ Building' = [b EXCEPT ![n].kids = Append(@, v)]
    BY <1>5, <2>1 DEF Proceed, afterValue, IsPlaced
  <2>3. \A i \in 1 .. n : i \in 1 .. Len(frames)
                          /\ (i < Len(frames) \/ mode = "value")
    BY <1>1
  <2>4. ASSUME NEW i \in 1 .. n
        PROVE  /\ FrameHolds(i) /\ frames[i].index \in Nat
               /\ read(i) = frames[i].index /\ visiting(i) = 1
               /\ chosen(i) = part(walked(i), frames[i].index)
    <3>1. FrameHolds(i) /\ frames[i].index \in Nat
      BY <1>1, <2>3 DEF OnTheWay, WalkInv, WalkSound, Activation
    <3> QED BY <1>1, <2>3, <3>1, ChosenPlace
  <2>5. /\ Shaped(Building'[n]) /\ Building'[n].type = Building[n].type
        /\ Building'[n].data = Building[n].data
        /\ Building'[n].keys = Building[n].keys
        /\ Building'[n].kids = Append(Building[n].kids, v)
        /\ \A i \in 1 .. n - 1 : Building'[i] = Building[i]
    <3>1. Shaped(b[n]) /\ b[n] = Building[n]
      BY <2>1, <2>4 DEF FrameHolds
    <3>2. \A i \in 1 .. n - 1 : b[i] = Building[i]
      OBVIOUS
    <3> DEFINE t == [b EXCEPT ![Len(b)].kids = Append(@, v)]
    <3>3. Shaped(b[Len(b)]) /\ b[Len(b)] = Building[n]
      BY <3>1
    <3>4. /\ Shaped(t[Len(b)]) /\ t[Len(b)].type = b[Len(b)].type
          /\ t[Len(b)].data = b[Len(b)].data
          /\ t[Len(b)].keys = b[Len(b)].keys
          /\ t[Len(b)].kids = Append(b[Len(b)].kids, v)
          /\ \A i \in 1 .. Len(b) - 1 : t[i] = b[i]
      BY ONLY <2>1, <3>3, IsSeq(b), PartPlaced
    <3>5. Building' = t
      BY <2>2
    <3> HIDE DEF t, Building
    <3> QED BY <3>2, <3>3, <3>4, <3>5
  <2>6. \A i \in 1 .. n : /\ read(i)' = frames[i].index
                          /\ visiting(i)' = IF i = n THEN 0 ELSE 1
    BY <2>2, <2>4 DEF read, visiting
  <2>7. ASSUME NEW i \in 1 .. n PROVE FrameHolds(i)'
    <3>1. CASE i # n
      <4>1. /\ Building'[i] = Building[i] /\ i \in 1 .. Len(frames)
            /\ frames'[i] = frames[i] /\ FrameHolds(i)
            /\ visiting(i)' = visiting(i) /\ read(i)' = read(i)
        BY <1>1, <2>3, <2>4, <2>5, <2>6, <3>1
      <4>2. WentThrough(walked(i), Building[i], read(i)')
        BY <4>1 DEF FrameHolds
      <4> HIDE DEF Building, read, visiting
      <4> QED BY <4>1, <4>2, FrameStays
    <3>2. CASE i = n
      <4> DEFINE e == walked(n)
                 c == Building[n]
                 d == Building'[n]
                 k == frames[n].index
      <4>1. /\ FrameHolds(n) /\ k \in Nat /\ read(n) = k /\ visiting(n) = 1
            /\ chosen(n) = part(e, k) /\ read(n)' = k /\ visiting(n)' = 0
            /\ objectTrees' = objectTrees /\ walked(n)' = e
            /\ frames'[n] = frames[n]
        BY <2>1, <2>4, <2>6, TreesStay DEF walked
      <4>2. HoldsParts(e, Level(n), objectTrees[Level(n)], c, k - 1)
            /\ WentThrough(e, c, k)
        BY <4>1 DEF FrameHolds
      <4>3. k - 1 \in Nat /\ k - 1 + 1 = k
        <5>1. Len(c.kids) = k - 1 /\ IsSeq(c.kids)
          BY <4>2 DEF HoldsParts
        <5> HIDE DEF c
        <5>2. Len(c.kids) \in Nat
          BY <5>1, SequencesAre
        <5> QED BY <4>1, <5>1, <5>2
      <4>4. valueTree(part(e, k), Level(n), objectTrees[Level(n)]) = <<v>>
        BY <4>1 DEF TreeOf
      <4>5. d.kids = Append(c.kids, v)
        BY <2>5
      <4>6. HoldsParts(e, Level(n), objectTrees[Level(n)], d, k)
        <5> HIDE DEF c, d, e, k
        <5>1. HoldsParts(e, Level(n), objectTrees[Level(n)], d, (k - 1) + 1)
          BY <4>2, <4>3, <4>4, <4>5, PartsGrow
        <5> QED BY <4>3, <5>1
      <4>7. WentThrough(e, d, k)
        <5>1. d.keys = c.keys
          BY <2>5
        <5> HIDE DEF c, d, e, k
        <5> QED BY <4>2, <5>1 DEF WentThrough
      <4>8. k - 0 = k
        BY <4>1
      <4>9. /\ e.kind \in {"array", "object"}
            /\ e.kind = "object" => e.plain /\ frames'[n].names = e.names
            /\ Shaped(d) /\ d.type = e.kind
            /\ path' = "async" => d.data = <<>>
        <5>1. FrameHolds(n) /\ frames'[n] = frames[n]
          BY <4>1
        <5> HIDE DEF e
        <5> QED BY <2>5, <5>1 DEF FrameHolds, e
      <4>10. frames'[n].index = k
        BY <4>1
      <4>11. HoldsParts(e, Level(n), objectTrees[Level(n)], d,
                        frames'[n].index - visiting(n)')
             /\ WentThrough(e, d, read(n)')
        BY <4>1, <4>6, <4>7, <4>8, <4>10
      <4>12. d = Building[n]'
        OBVIOUS
      <4>13. FrameHolds(n)'
        <5> HIDE DEF e, d, k, walked, Building, read, visiting
        <5> QED BY <4>1, <4>9, <4>11, <4>12 DEF FrameHolds
      <4> QED BY <3>2, <4>13
    <3> QED BY <3>1, <3>2
  <2>8. ASSUME NEW i \in 0 .. n - 1 PROVE Leads(i)'
    <3>1. i \in 0 .. Len(frames) - 1 /\ i + 1 \in 1 .. n
          /\ (i # 0 => i \in 1 .. n)
      BY <1>1
    <3>2. chosen(i)' = chosen(i)
      BY <3>1, ChosenStays
    <3>3. Leads(i) /\ frames'[i + 1] = frames[i + 1]
      BY <1>1, <3>1 DEF OnTheWay
    <3> HIDE DEF chosen
    <3> QED BY <3>2, <3>3 DEF Leads
  <2>9. OnTheWay'
    BY <2>2, <2>7, <2>8 DEF OnTheWay
  <2> QED BY <1>1, <2>2, <2>9 DEF ValuesTrue, Conclusive
<1> QED BY <1>3, <1>4, <1>5

LEMMA LeafTrue ==
  ASSUME WalkInv, ValuesTrue, mode = "value", NEW v, Writable(v), putLeaf(v),
         TreeOf(input, Level(Len(frames))) = <<v>>,
         Proceed(afterValue(frames)),
         UNCHANGED <<world, input, frames, ancestors>>
  PROVE  ValuesTrue'
<1> DEFINE n == Len(frames)
<1>1. UNCHANGED <<path, heap, changes, argument>>
  BY DEF world
<1>2. SUFFICES ASSUME changes = 0 PROVE ValuesTrue'
  BY <1>1 DEF ValuesTrue
<1>3. walking /\ input = chosen(n)
  BY <1>2 DEF walking, ValuesTrue, OnTheWay
<1>4. /\ Containers(Building) /\ Len(Building) = n /\ IsSeq(frames')
      /\ n \in Nat /\ n \in 0 .. n /\ Len(frames') = n
  BY <1>3, FramesLast DEF WalkInv, KeysSound, Containers
<1>5. call'.thrown = "none" => IsPlaced(v, Building)
  BY <1>1, LeafPlaced
<1>6. IsSeq(Building) /\ Proceed(afterValue(frames'))
  BY <1>4 DEF Containers
<1> DEFINE b == Building
<1>7. /\ IsSeq(b) /\ Len(b) = n /\ \A i \in 1 .. n : b[i] = Building[i]
      /\ call'.thrown = "none" => IsPlaced(v, b)
      /\ \A i \in 1 .. n : frames'[i] = frames[i]
  BY <1>4, <1>5, <1>6
<1>8. TreeOf(chosen(n), Level(n)) = <<v>>
  BY <1>3
<1> HIDE DEF b, n
<1> QED BY <1>1, <1>2, <1>3, <1>4, <1>6, <1>7, <1>8, PlacedTrue DEF n

LEMMA EncodeTrue ==
  ASSUME WalkInv, ValuesTrue, encodeScalar \/ encodeBinary
  PROVE  ValuesTrue'
<1> DEFINE n == Len(frames)
<1>1. mode = "value" /\ ~tooDeep
  BY DEF encodeScalar, encodeBinary, fresh, visitable
<1>2. Level(n) \in Nat /\ Level(n) # 0
  <2>1. n \in Nat /\ MaxDepth \in Nat /\ n \in 0 .. n
    BY FramesLast, DepthIsNat
  <2> QED BY <1>1, <2>1 DEF tooDeep, Level
<1>3. CASE encodeScalar
  <2>1. /\ putLeaf(wireScalar(input)) /\ Writable(wireScalar(input))
        /\ input.type \in Scalars /\ Proceed(afterValue(frames))
        /\ UNCHANGED <<world, input, frames, ancestors>>
    BY <1>3, InputIsWritable DEF encodeScalar
  <2>2. TreeOf(input, Level(n)) = <<wireScalar(input)>>
    BY <1>2, <2>1, TreeCases
  <2> QED BY <1>1, <2>1, <2>2, LeafTrue
<1>4. CASE encodeBinary
  <2> DEFINE e == heap[target]
             v == Leaf(e.kind, e.data)
  <2>1. /\ putLeaf(v) /\ Writable(v) /\ input.type = "ref"
        /\ e.kind \notin {"array", "object"} /\ e.usable
        /\ target \in DOMAIN heap /\ Proceed(afterValue(frames))
        /\ UNCHANGED <<world, input, frames, ancestors>>
    BY <1>4, InputIsWritable DEF encodeBinary, fresh
  <2>2. TreeOf(input, Level(n)) =
          entryTree(e, Level(n) - 1, objectTrees[Level(n) - 1])
    BY <1>2, <2>1, TreeCases DEF target
  <2>3. TreeOf(input, Level(n)) = <<v>>
    BY <2>1, <2>2 DEF entryTree, describable
  <2> HIDE DEF v
  <2> QED BY <1>1, <2>1, <2>3, LeafTrue
<1> QED BY <1>3, <1>4

-----------------------------------------------------------------------------
(* A container is begun.                                                   *)

LEMMA ContainerPlaced ==
  ASSUME path' = path, call'.thrown = "none", NEW kind,
         \/ kind = "object" /\ putObject
         \/ kind = "array" /\ \E m : putArray(m)
  PROVE  \E data : /\ Building' = Append(Building, Leaf(kind, data))
                   /\ path # "sync" => data = <<>>
<1>1. CASE path = "sync"
  <2>1. PICK data : /\ call'.op \in {"beginObject", "beginArray"}
                    /\ call'.arg = Leaf(kind, data)
    <3>1. CASE kind = "object" /\ putObject
      <4>1. call'.op = "beginObject" /\ call'.arg = Leaf("object", <<>>)
        BY <1>1, <3>1, RefusedOrWritten DEF putObject, Recorded, beginObject
      <4> QED BY <3>1, <4>1
    <3>2. ASSUME kind = "array", NEW m, putArray(m)
          PROVE  /\ call'.op = "beginArray"
                 /\ call'.arg = Leaf("array", <<m>>)
      <4>1. beginArray(m)
        BY <1>1, <3>2 DEF putArray, Recorded
      <4> QED BY <4>1, RefusedOrWritten DEF beginArray
    <3>3. CASE kind = "array" /\ \E m : putArray(m)
      <4>1. PICK m : putArray(m)
        BY <3>3
      <4>2. call'.op = "beginArray" /\ call'.arg = Leaf(kind, <<m>>)
        BY <3>2, <3>3, <4>1
      <4> QED BY <4>2
    <3> QED BY <3>1, <3>3
  <2>2. Follow
    BY <1>1 DEF putObject, putArray, Recorded
  <2>3. open' = Append(open, Leaf(kind, data))
    BY <2>1, <2>2 DEF Follow
  <2> QED BY <1>1, <2>3 DEF Building
<1>2. CASE path # "sync"
  <2>1. copying' = Append(copying, Leaf(kind, <<>>))
    BY <1>2 DEF putObject, putArray
  <2>2. Building' = Append(Building, Leaf(kind, <<>>))
    BY <1>2, <2>1 DEF Building
  <2> QED BY <2>2
<1> QED BY <1>1, <1>2

LEMMA NothingDone ==
  ASSUME NEW e, NEW l, NEW trees, NEW kind, NEW data, size(e) \in Nat
  PROVE  /\ HoldsParts(e, l, trees, Leaf(kind, data), 0)
         /\ WentThrough(e, Leaf(kind, data), 0)
         /\ Shaped(Leaf(kind, data)) /\ Leaf(kind, data).type = kind
         /\ Leaf(kind, data).data = data
<1>1. IsSeq(<<>>) /\ Len(<<>>) = 0 /\ 1 .. 0 = {}
  BY EmptyContainers DEF SameKeys, Containers
<1> DEFINE c == Leaf(kind, data)
<1>2. /\ Shaped(c) /\ c.type = kind /\ c.data = data
      /\ c.keys = <<>> /\ c.kids = <<>>
  <2>1. Shaped(c)
    BY Zenon DEF Shaped, Leaf
  <2> QED BY <2>1, LeafParts
<1> HIDE DEF c
<1>3. HoldsParts(e, l, trees, c, 0) /\ WentThrough(e, c, 0)
  BY <1>1, <1>2 DEF HoldsParts, WentThrough
<1> QED BY <1>2, <1>3 DEF c

LEMMA EnterTrue ==
  ASSUME WalkInv, ValuesTrue, fresh, NEW names, enter(names),
         NEW kind, kind = heap[target].kind,
         \/ kind = "object" /\ putObject
         \/ kind = "array" /\ \E m : putArray(m),
         kind = "object" => heap[target].plain /\ names = heap[target].names
  PROVE  ValuesTrue'
<1>0. PICK n : n = Len(frames)
  OBVIOUS
<1> DEFINE f == [obj |-> target, index |-> 0, names |-> names]
           e == heap[target]
<1>1. /\ frames' = Append(frames, f)
      /\ UNCHANGED <<path, heap, changes, argument>>
      /\ IF call'.thrown = "none" THEN mode' = "loop"
         ELSE mode' = "thrown" /\ error' = "native"
      /\ mode = "value" /\ input.type = "ref"
  BY DEF enter, Proceed, world, fresh, visitable
<1>2. SUFFICES ASSUME changes = 0, call'.thrown = "none" PROVE ValuesTrue'
  BY <1>1 DEF ValuesTrue, Conclusive, walking
<1>3. /\ OnTheWay /\ input = chosen(n)
      /\ \A o \in DOMAIN heap' : Enumerated(heap'[o])
  BY <1>0, <1>1, <1>2 DEF ValuesTrue, OnTheWay, walking
<1>4. /\ n \in Nat /\ IsSeq(frames) /\ target \in DOMAIN heap
      /\ kind \in {"array", "object"} /\ size(e) \in Nat
  <2>1. target \in DOMAIN heap /\ kind \in {"array", "object"}
    BY <1>1, InputIsWritable
  <2>2. IsEntry(e, DOMAIN heap)
    BY <2>1 DEF WalkInv, HeapSound
  <2> QED BY <1>0, <2>1, <2>2, SizeIsNat, FramesLast
<1>5. /\ Len(frames') = n + 1 /\ frames'[n + 1] = f
      /\ \A i \in 1 .. n : frames'[i] = frames[i]
  BY <1>0, <1>1, <1>4, SequenceAppended
<1>6. PICK data : /\ Building' = Append(Building, Leaf(kind, data))
                  /\ path # "sync" => data = <<>>
  BY <1>1, <1>2, ContainerPlaced
<1>7. IsSeq(Building) /\ Len(Building) = n
  BY <1>0, <1>1 DEF WalkInv, KeysSound, walking, Containers
<1>8. /\ Building'[n + 1] = Leaf(kind, data)
      /\ \A i \in 1 .. n : Building'[i] = Building[i]
  BY <1>6, <1>7, SequenceAppended
<1>9. f.obj = target /\ f.index = 0 /\ f.names = names
  OBVIOUS
<1>10. mode' = "loop"
  BY <1>1, <1>2
<1> HIDE DEF f
<1>11. FrameHolds(n + 1)'
  <2>1. objectTrees' = objectTrees /\ walked(n + 1)' = e
    BY <1>1, <1>5, <1>9, TreesStay DEF walked
  <2>2. read(n + 1)' = 0 /\ frames'[n + 1].index - visiting(n + 1)' = 0
    <3>1. n + 1 = Len(frames)' /\ frames'[n + 1].index = 0
      BY <1>5, <1>9
    <3>2. visiting(n + 1)' = 0
      BY <1>10, <3>1 DEF visiting
    <3>3. read(n + 1)' = 0
      BY <1>10, <3>1 DEF read
    <3> QED BY <3>1, <3>2, <3>3
  <2>3. /\ HoldsParts(e, Level(n + 1), objectTrees[Level(n + 1)],
                      Building'[n + 1], 0)
        /\ WentThrough(e, Building'[n + 1], 0)
        /\ Shaped(Building'[n + 1]) /\ Building'[n + 1].type = kind
        /\ Building'[n + 1].data = data
    BY <1>4, <1>8, NothingDone
  <2>4. /\ e.kind \in {"array", "object"} /\ Building'[n + 1].type = e.kind
        /\ e.kind = "object" => e.plain /\ frames'[n + 1].names = e.names
        /\ path' = "async" => Building'[n + 1].data = <<>>
    BY <1>1, <1>4, <1>5, <1>6, <1>9, <2>3
  <2>0. PICK m : m = n + 1
    OBVIOUS
  <2>5. /\ objectTrees' = objectTrees /\ walked(m)' = e
        /\ read(m)' = 0 /\ frames'[m].index - visiting(m)' = 0
        /\ HoldsParts(e, Level(m), objectTrees[Level(m)], Building'[m], 0)
        /\ WentThrough(e, Building'[m], 0) /\ Shaped(Building'[m])
        /\ e.kind \in {"array", "object"} /\ Building'[m].type = e.kind
        /\ e.kind = "object" => e.plain /\ frames'[m].names = e.names
        /\ path' = "async" => Building'[m].data = <<>>
    BY <2>0, <2>1, <2>2, <2>3, <2>4
  <2> HIDE DEF e, walked, Building, read, visiting
  <2>6. FrameHolds(m)'
    BY <2>5 DEF FrameHolds
  <2> QED BY <2>0, <2>6
<1>12. ASSUME NEW i \in 1 .. n PROVE FrameHolds(i)'
  <2>1. FrameHolds(i) /\ frames'[i] = frames[i] /\ Building'[i] = Building[i]
    BY <1>0, <1>3, <1>5, <1>8 DEF OnTheWay
  <2>2. /\ frames[i].index \in Nat
        /\ i # n + 1 /\ Len(frames)' = n + 1
    BY <1>0, <1>4, <1>5 DEF WalkInv, WalkSound, Activation
  <2>3. visiting(i)' = 1 /\ visiting(i) = 1 /\ read(i)' = read(i)
    BY <1>0, <1>1, <1>10, <2>1, <2>2 DEF visiting, read
  <2>4. WentThrough(walked(i), Building[i], read(i)')
    BY <2>1, <2>3 DEF FrameHolds
  <2>5. i \in 1 .. Len(frames)
    BY <1>0
  <2> HIDE DEF walked, Building, read, visiting
  <2> QED BY <1>1, <2>1, <2>3, <2>4, <2>5, FrameStays
<1>13. ASSUME NEW i \in 0 .. n PROVE Leads(i)'
  <2>1. i # 0 => i \in 1 .. n
    BY <1>4
  <2>2. chosen(i)' = chosen(i)
    BY <1>1, <1>5, <2>1, ChosenStays
  <2>3. CASE i = n
    <3>1. chosen(n).type = "ref" /\ chosen(n).data[1] = target
      BY <1>1, <1>3 DEF target
    <3> QED BY <1>5, <1>9, <2>2, <2>3, <3>1 DEF Leads
  <2>4. CASE i # n
    <3>1. i \in 0 .. n - 1 /\ i + 1 \in 1 .. n
      BY <1>4, <2>4
    <3>2. Leads(i) /\ frames'[i + 1] = frames[i + 1]
      BY <1>0, <1>3, <1>5, <3>1 DEF OnTheWay
    <3> HIDE DEF chosen
    <3> QED BY <2>2, <3>2 DEF Leads
  <2> QED BY <2>3, <2>4
<1>14. OnTheWay'
  <2>1. /\ \A i \in 1 .. n + 1 : i \in 1 .. n \/ i = n + 1
        /\ Len(frames)' - 1 = n /\ Len(frames)' = n + 1
    BY <1>4, <1>5
  <2>2. \A i \in 1 .. Len(frames)' : FrameHolds(i)'
    BY <1>11, <1>12, <2>1
  <2>3. \A i \in 0 .. Len(frames)' - 1 : Leads(i)'
    BY <1>13, <2>1
  <2> QED BY <1>10, <2>2, <2>3 DEF OnTheWay
<1> QED BY <1>3, <1>10, <1>14 DEF ValuesTrue, Conclusive

LEMMA OpenTrue ==
  ASSUME WalkInv, ValuesTrue, openArray \/ openObject
  PROVE  ValuesTrue'
<1>1. CASE openArray
  BY <1>1, EnterTrue DEF openArray
<1>2. CASE openObject
  BY <1>2, EnterTrue DEF openObject
<1> QED BY <1>1, <1>2

-----------------------------------------------------------------------------
(* A part is read.                                                         *)

LEMMA TopHolds ==
  ASSUME WalkInv, ValuesTrue, changes = 0, mode \in {"loop", "get"}
  PROVE  LET n == Len(frames)
         IN  /\ OnTheWay /\ frames # <<>> /\ n \in Nat \ {0} /\ n \in 1 .. n
             /\ top = frames[n] /\ scanned = walked(n) /\ FrameHolds(n)
             /\ top.index \in Nat /\ visiting(n) = 0
             /\ mode = "loop" => read(n) = top.index
             /\ mode = "get" => read(n) = top.index + 1
             /\ IsEntry(scanned, DOMAIN heap) /\ Enumerated(scanned)
             /\ size(scanned) \in Nat
             /\ top.index - 0 = top.index
<1> DEFINE n == Len(frames)
<1>1. OnTheWay /\ frames # <<>>
  BY DEF ValuesTrue, walking, WalkInv, ModeSound
<1>2. /\ n \in Nat \ {0} /\ n \in 1 .. n /\ Activation(top)
      /\ IsEntry(scanned, DOMAIN heap)
  BY <1>1, AtTop
<1>3. top = frames[n] /\ scanned = walked(n) /\ FrameHolds(n)
  BY <1>1, <1>2 DEF top, scanned, walked, OnTheWay
<1>4. top.index \in Nat /\ Enumerated(scanned)
  BY <1>2 DEF Activation, ValuesTrue, scanned
<1>5. /\ visiting(n) = 0 /\ (mode = "loop" => read(n) = top.index)
      /\ (mode = "get" => read(n) = top.index + 1)
  BY <1>3, <1>4 DEF visiting, read
<1>6. size(scanned) \in Nat
  BY <1>2, <1>3, SizeIsNat DEF FrameHolds
<1> QED BY <1>1, <1>2, <1>3, <1>4, <1>5, <1>6

LEMMA GotTrue ==
  ASSUME WalkInv, SyncSound, ValuesTrue, mode \in {"loop", "get"},
         frames # <<>>,
         NEW slot, IsValue(slot.value, DOMAIN heap), Get(slot, advanced),
         changes = 0 =>
           /\ slot.value = part(scanned, top.index + 1)
           /\ WentThrough(scanned, Building[Len(frames)], top.index + 1)
  PROVE  ValuesTrue'
<1>0. PICK n : n = Len(frames)
  OBVIOUS
<1>1. SUFFICES ASSUME changes' = 0 PROVE ValuesTrue'
  BY DEF ValuesTrue
<1>2. changes = 0 /\ heap' = heap
  BY <1>1, KindsKept DEF WalkInv, SyncSound
<1>3. CASE Throw("getter")
  BY <1>3, ThrowTrue
<1>4. CASE /\ input' = slot.value /\ mode' = "value" /\ frames' = advanced
           /\ UNCHANGED <<world, ancestors, error, treeVars, rvars>>
  <2>1. /\ OnTheWay /\ n \in Nat \ {0} /\ top = frames[n] /\ n \in 1 .. n
        /\ scanned = walked(n) /\ FrameHolds(n) /\ top.index \in Nat
        /\ visiting(n) = 0
    BY <1>0, <1>2, TopHolds
  <2>2. /\ Len(frames') = n /\ UNCHANGED <<path, argument, heap>>
        /\ Building' = Building
        /\ \A i \in 1 .. n :
             /\ frames'[i].obj = frames[i].obj
             /\ frames'[i].names = frames[i].names
             /\ frames'[i].index =
                  frames[i].index + (IF i = n THEN 1 ELSE 0)
    BY <1>0, <1>4, AdvancedFrames
       DEF WalkInv, world, treeVars, rvars, Building
  <2>3. ASSUME NEW i \in 1 .. n PROVE FrameHolds(i)'
    <3>1. FrameHolds(i) /\ frames[i].index \in Nat
      BY <1>0, <2>1 DEF OnTheWay, WalkInv, WalkSound, Activation
    <3>2. visiting(i)' = 1 /\ visiting(i) = (IF i = n THEN 0 ELSE 1)
      BY <1>0, <1>4, <2>1 DEF visiting
    <3>3. frames'[i].index - visiting(i)' = frames[i].index - visiting(i)
      BY <2>2, <3>1, <3>2
    <3>4. read(i)' = frames'[i].index + 0
      BY <1>4 DEF read
    <3>5. WentThrough(walked(i), Building[i], read(i)')
      <4>1. CASE i = n
        <5>1. read(i)' = top.index + 1
          BY <2>1, <2>2, <3>4, <4>1
        <5> QED BY <1>0, <1>2, <2>1, <4>1, <5>1
      <4>2. CASE i # n
        <5>1. read(i)' = read(i)
          BY <1>0, <2>2, <3>1, <3>4, <4>2 DEF read
        <5> QED BY <3>1, <5>1 DEF FrameHolds
      <4> QED BY <4>1, <4>2
    <3>6. i \in 1 .. Len(frames) /\ Building'[i] = Building[i]
      BY <1>0, <2>2
    <3> HIDE DEF walked, Building, read, visiting
    <3> QED BY <2>2, <3>1, <3>3, <3>5, <3>6, FrameStays
  <2>4. ASSUME NEW i \in 0 .. n - 1 PROVE Leads(i)'
    <3>1. /\ i # n /\ i + 1 \in 1 .. n /\ (i # 0 => i \in 1 .. n)
      BY <2>1
    <3>2. i # 0 => frames[i].index \in Nat
      BY <1>0, <3>1 DEF WalkInv, WalkSound, Activation
    <3>3. i # 0 => frames'[i].obj = frames[i].obj
                   /\ frames'[i].index = frames[i].index
      BY <2>2, <3>1, <3>2
    <3>4. chosen(i)' = chosen(i)
      BY <2>2, <3>3, ChosenStays
    <3>5. Leads(i) /\ frames'[i + 1].obj = frames[i + 1].obj
      BY <1>0, <2>1, <2>2, <3>1 DEF OnTheWay
    <3> HIDE DEF chosen
    <3> QED BY <3>4, <3>5 DEF Leads
  <2>5. input' = chosen(n)'
    <3>1. n # 0 /\ walked(n)' = walked(n) /\ frames'[n].index = top.index + 1
      BY <2>1, <2>2 DEF walked
    <3>2. chosen(n)' = part(walked(n), top.index + 1)
      BY <3>1 DEF chosen
    <3> QED BY <1>2, <1>4, <2>1, <3>2
  <2>6. OnTheWay'
    <3>1. \A i \in 1 .. Len(frames)' : FrameHolds(i)'
      BY <2>2, <2>3
    <3>2. \A i \in 0 .. Len(frames)' - 1 : Leads(i)'
      BY <2>2, <2>4
    <3>3. input' = chosen(Len(frames))'
      <4>1. Len(frames)' = n
        BY <2>2
      <4> QED BY <2>5, <4>1 DEF chosen, walked
    <3> QED BY <3>1, <3>2, <3>3 DEF OnTheWay
  <2>7. \A o \in DOMAIN heap' : Enumerated(heap'[o])
    BY <1>2 DEF ValuesTrue
  <2> QED BY <1>4, <2>6, <2>7 DEF ValuesTrue, Conclusive
<1> QED BY <1>1, <1>2, <1>3, <1>4 DEF Get

LEMMA ElementTrue ==
  ASSUME WalkInv, SyncSound, ValuesTrue, arrayElement
  PROVE  ValuesTrue'
<1> DEFINE n == Len(frames)
<1>1. /\ mode = "loop" /\ scanned.kind = "array" /\ top.index < scanned.length
      /\ IF top.index \in DOMAIN scanned.slots
         THEN Get(scanned.slots[top.index], advanced)
         ELSE Throw("sparse")
  BY DEF arrayElement, looping
<1>2. frames # <<>>
  BY <1>1 DEF WalkInv, ModeSound
<1>3. ASSUME changes = 0
      PROVE  /\ OnTheWay /\ n \in 1 .. n /\ scanned = walked(n)
             /\ WentThrough(scanned, Building[n], top.index)
             /\ top.index \in Nat /\ size(scanned) \in Nat
  <2>1. /\ OnTheWay /\ n \in 1 .. n /\ scanned = walked(n) /\ FrameHolds(n)
        /\ read(n) = top.index
        /\ top.index \in Nat /\ size(scanned) \in Nat
    BY <1>1, <1>3, TopHolds
  <2> HIDE DEF n
  <2> QED BY <2>1 DEF FrameHolds
<1>4. CASE top.index \notin DOMAIN scanned.slots
  <2>1. SUFFICES ASSUME changes = 0 PROVE Described(argument) = <<>>
    BY <1>1, <1>4, ThrowTrue
  <2>2. top.index \in 0 .. scanned.length - 1
    BY <1>1, <1>3, <2>1 DEF size
  <2>3. ~describable(walked(n))
    BY <1>1, <1>3, <1>4, <2>1, <2>2 DEF describable
  <2> QED BY <1>3, <2>1, <2>3, ContainerBlocked
<1>5. CASE top.index \in DOMAIN scanned.slots
  <2>1. SlotsSound(scanned.slots, DOMAIN heap)
    BY <1>1, <1>2, AtTop, EntryParts
  <2>2. IsValue(scanned.slots[top.index].value, DOMAIN heap)
    BY <1>5, <2>1 DEF SlotsSound
  <2>3. ASSUME changes = 0
        PROVE  /\ scanned.slots[top.index].value = part(scanned, top.index + 1)
               /\ WentThrough(scanned, Building[n], top.index + 1)
    <3>1. /\ WentThrough(scanned, Building[n], top.index)
          /\ top.index \in Nat /\ size(scanned) \in Nat
          /\ top.index + 1 \in 0 .. size(scanned)
          /\ top.index + 1 - 1 = top.index
      BY <1>1, <1>3, <2>3 DEF size
    <3>2. \A j \in 1 .. top.index + 1 :
            j \in 1 .. top.index \/ j - 1 = top.index
      BY <3>1
    <3> QED BY <1>1, <1>5, <3>1, <3>2 DEF WentThrough, part
  <2> QED BY <1>1, <1>2, <1>5, <2>2, <2>3, GotTrue
<1> QED BY <1>4, <1>5

LEMMA PropertyTrue ==
  ASSUME WalkInv, SyncSound, ValuesTrue, objectGet
  PROVE  ValuesTrue'
<1> DEFINE n == Len(frames)
           name == top.names[top.index + 1]
<1>1. mode = "get" /\ Get(scanned.slots[name], advanced)
  BY DEF objectGet, ownNames
<1>2. frames # <<>> /\ scanned.kind = "object" /\ name \in DOMAIN scanned.slots
  BY <1>1 DEF WalkInv, ModeSound
<1>3. SlotsSound(scanned.slots, DOMAIN heap)
  BY <1>2, AtTop, EntryParts
<1>4. IsValue(scanned.slots[name].value, DOMAIN heap)
  <2> HIDE DEF name
  <2> QED BY <1>2, <1>3 DEF SlotsSound
<1>5. ASSUME changes = 0
      PROVE  /\ scanned.slots[name].value = part(scanned, top.index + 1)
             /\ WentThrough(scanned, Building[n], top.index + 1)
  <2>1. /\ scanned = walked(n) /\ FrameHolds(n) /\ read(n) = top.index + 1
        /\ top = frames[n]
    BY <1>1, <1>5, TopHolds
  <2>2. /\ WentThrough(scanned, Building[n], top.index + 1)
        /\ top.names = scanned.names
    <3> HIDE DEF n
    <3> QED BY <1>2, <2>1 DEF FrameHolds
  <2> QED BY <1>2, <2>2 DEF part
<1> HIDE DEF name
<1> QED BY <1>1, <1>2, <1>4, <1>5, GotTrue

-----------------------------------------------------------------------------
(* A key is put down, or a container ends.                                 *)

LEMMA KeyPlaced ==
  ASSUME NEW name, putKey(name), path' = path, call'.thrown = "none"
  PROVE  Building' = [Building EXCEPT ![Len(Building)].keys = Append(@, name)]
<1>1. CASE path = "sync"
  <2>1. call'.op = "key" /\ call'.arg = Leaf("string", name)
    BY <1>1 DEF putKey, Recorded, key, Refuse, Call
  <2>2. Follow /\ Building = open /\ Building' = open'
    BY <1>1 DEF putKey, Recorded, Building
  <2>3. call'.arg.data = name
    BY <2>1 DEF Leaf
  <2>4. open' = [open EXCEPT ![Len(open)].keys = Append(@, name)]
    BY <2>1, <2>2, <2>3 DEF Follow
  <2> QED BY <2>2, <2>4
<1>2. CASE path # "sync"
  BY <1>2 DEF putKey, Building
<1> QED BY <1>1, <1>2

LEMMA NamePlaced ==
  ASSUME NEW s, IsSeq(s), s # <<>>, NEW name, Shaped(s[Len(s)])
  PROVE  LET t == [s EXCEPT ![Len(s)].keys = Append(@, name)]
         IN  /\ Shaped(t[Len(s)]) /\ t[Len(s)].type = s[Len(s)].type
             /\ t[Len(s)].data = s[Len(s)].data
             /\ t[Len(s)].keys = Append(s[Len(s)].keys, name)
             /\ t[Len(s)].kids = s[Len(s)].kids
             /\ \A i \in 1 .. Len(s) - 1 : t[i] = s[i]
<1> DEFINE c == s[Len(s)]
           x == Append(c.keys, name)
           d == [c EXCEPT !.keys = x]
           t == [s EXCEPT ![Len(s)] = d]
<1>1. t[Len(s)] = d /\ \A i \in 1 .. Len(s) - 1 : t[i] = s[i]
  BY LastReplaced
<1>2. /\ Shaped(d) /\ d.type = c.type /\ d.data = c.data
      /\ d.keys = x /\ d.kids = c.kids
  <2>1. DOMAIN c = {"type", "data", "keys", "kids"}
    BY DEF Shaped
  <2> HIDE DEF c, x
  <2>2. d = [type |-> d.type, data |-> d.data, keys |-> d.keys,
             kids |-> d.kids]
    BY <2>1
  <2>3. Shaped(d)
    BY <2>2, Zenon DEF Shaped
  <2> QED BY <2>1, <2>3
<1>3. t = [s EXCEPT ![Len(s)].keys = Append(@, name)]
  OBVIOUS
<1> HIDE DEF t, d
<1> QED BY <1>1, <1>2, <1>3

LEMMA NamesGrow ==
  ASSUME NEW e, e.kind = "object", NEW c, IsSeq(c.keys), NEW m \in Nat, NEW d,
         m < size(e), size(e) \in Nat, e.names[m + 1] # Symbol,
         WentThrough(e, c, m), d.keys = Append(c.keys, e.names[m + 1])
  PROVE  WentThrough(e, d, m + 1)
<1>1. Len(c.keys) = m
  BY DEF WentThrough
<1>2. /\ Len(d.keys) = m + 1 /\ d.keys[m + 1] = e.names[m + 1]
      /\ \A j \in 1 .. m : d.keys[j] = c.keys[j]
  BY <1>1, SequenceAppended
<1>3. ASSUME NEW j \in 1 .. m + 1
      PROVE  d.keys[j] = e.names[j] /\ e.names[j] # Symbol
  <2>1. CASE j = m + 1
    BY <1>2, <2>1
  <2>2. CASE j \in 1 .. m
    BY <1>2, <2>2 DEF WentThrough
  <2>3. j = m + 1 \/ j \in 1 .. m
    OBVIOUS
  <2> QED BY <2>1, <2>2, <2>3
<1> QED BY <1>2, <1>3 DEF WentThrough

LEMMA KeyTrue == ASSUME WalkInv, ValuesTrue, objectKey PROVE ValuesTrue'
<1> DEFINE name == top.names[top.index + 1]
<1>0. PICK n : n = Len(frames)
  OBVIOUS
<1>1. /\ mode = "loop" /\ scanned.kind = "object"
      /\ top.index < Len(top.names)
      /\ \/ name = Symbol /\ Throw("symbol")
         \/ /\ name \notin DOMAIN scanned.slots
            /\ UNCHANGED <<world, input, mode>>
         \/ /\ name # Symbol /\ name \in DOMAIN scanned.slots
            /\ putKey(name) /\ Proceed("get")
            /\ UNCHANGED <<world, input, frames>>
  BY DEF objectKey, looping, ownNames
<1>2. ASSUME changes = 0
      PROVE  /\ OnTheWay /\ n \in Nat \ {0} /\ n \in 1 .. n /\ top = frames[n]
             /\ scanned = walked(n) /\ FrameHolds(n) /\ top.index \in Nat
             /\ visiting(n) = 0 /\ read(n) = top.index
             /\ top.names = scanned.names /\ scanned.names \in Seq(Text)
             /\ Enumerated(scanned) /\ name \in DOMAIN scanned.slots
             /\ size(scanned) = Len(top.names) /\ size(scanned) \in Nat
             /\ top.index + 1 \in DOMAIN top.names
  <2>1. /\ OnTheWay /\ n \in Nat \ {0} /\ n \in 1 .. n /\ top = frames[n]
        /\ scanned = walked(n) /\ FrameHolds(n) /\ top.index \in Nat
        /\ visiting(n) = 0 /\ read(n) = top.index
        /\ IsEntry(scanned, DOMAIN heap) /\ Enumerated(scanned)
        /\ size(scanned) \in Nat
    BY <1>0, <1>1, <1>2, TopHolds
  <2>2. top.names = scanned.names /\ scanned.names \in Seq(Text)
    BY <1>1, <2>1, EntryParts DEF FrameHolds
  <2>3. top.index + 1 \in DOMAIN top.names
    <3>1. DOMAIN top.names = 1 .. Len(top.names)
      BY <2>2
    <3> QED BY <1>1, <2>1, <2>2, <3>1
  <2>4. name \in DOMAIN scanned.slots
    BY <1>1, <2>1, <2>2, <2>3 DEF Enumerated
  <2> HIDE DEF name
  <2> QED BY <1>1, <2>1, <2>2, <2>3, <2>4 DEF size
<1> HIDE DEF name
<1>3. CASE name = Symbol /\ Throw("symbol")
  <2>1. SUFFICES ASSUME changes = 0 PROVE Described(argument) = <<>>
    BY <1>3, ThrowTrue
  <2>2. ~describable(walked(n)) /\ n \in 1 .. Len(frames)
    BY <1>0, <1>1, <1>2, <1>3, <2>1 DEF describable
  <2> QED BY <1>2, <2>1, <2>2, ContainerBlocked
<1>4. CASE name \notin DOMAIN scanned.slots /\ UNCHANGED <<world, input, mode>>
  <2>1. changes # 0
    BY <1>2, <1>4
  <2> QED BY <1>4, <2>1 DEF ValuesTrue, world
<1>5. CASE /\ name # Symbol /\ name \in DOMAIN scanned.slots
           /\ putKey(name) /\ Proceed("get")
           /\ UNCHANGED <<world, input, frames>>
  <2>1. /\ UNCHANGED <<path, heap, changes, argument>>
        /\ IF call'.thrown = "none" THEN mode' = "get"
           ELSE mode' = "thrown" /\ error' = "native"
    BY <1>5 DEF world, Proceed
  <2>2. SUFFICES ASSUME changes = 0, call'.thrown = "none" PROVE ValuesTrue'
    BY <2>1 DEF ValuesTrue, Conclusive, walking
  <2>3. \A o \in DOMAIN heap' : Enumerated(heap'[o])
    BY <2>1, <2>2 DEF ValuesTrue
  <2>4. IsSeq(Building) /\ Len(Building) = n /\ IsSeq(Building[n].keys)
        /\ Building # <<>>
    BY <1>0, <1>1, <1>2, <2>2, SequencesAre
       DEF WalkInv, KeysSound, walking, Containers, Whole
  <2>5. /\ Shaped(Building'[n]) /\ Building'[n].type = Building[n].type
        /\ Building'[n].data = Building[n].data
        /\ Building'[n].keys = Append(Building[n].keys, name)
        /\ Building'[n].kids = Building[n].kids
        /\ \A i \in 1 .. n - 1 : Building'[i] = Building[i]
    <3>1. Building' = [Building EXCEPT ![Len(Building)].keys = Append(@, name)]
      BY <1>5, <2>1, <2>2, KeyPlaced
    <3>2. Shaped(Building[n])
      BY <1>2, <2>2 DEF FrameHolds
    <3> DEFINE s == Building
               t == [s EXCEPT ![Len(s)].keys = Append(@, name)]
    <3>3. IsSeq(s) /\ s # <<>> /\ Shaped(s[Len(s)]) /\ Len(s) = n
      BY <2>4, <3>2
    <3> HIDE DEF s
    <3>4. /\ Shaped(t[Len(s)]) /\ t[Len(s)].type = s[Len(s)].type
          /\ t[Len(s)].data = s[Len(s)].data
          /\ t[Len(s)].keys = Append(s[Len(s)].keys, name)
          /\ t[Len(s)].kids = s[Len(s)].kids
          /\ \A i \in 1 .. Len(s) - 1 : t[i] = s[i]
      BY ONLY <3>3, NamePlaced
    <3>5. Building' = t /\ Building = s
      BY <3>1 DEF s
    <3> HIDE DEF t, Building
    <3> QED BY <3>3, <3>4, <3>5
  <2>6. mode' = "get" /\ Len(frames') = n /\ frames' = frames
    BY <1>0, <1>5, <2>1, <2>2
  <2>7. ASSUME NEW i \in 1 .. n - 1 PROVE FrameHolds(i)'
    <3>1. i \in 1 .. Len(frames) /\ i # n
      BY <1>0, <1>2, <2>2
    <3>2. FrameHolds(i) /\ frames[i].index \in Nat
      BY <1>2, <2>2, <3>1 DEF OnTheWay, WalkInv, WalkSound, Activation
    <3>3. visiting(i)' = visiting(i) /\ read(i)' = read(i)
      BY <1>0, <2>6, <3>1, <3>2 DEF visiting, read
    <3>4. WentThrough(walked(i), Building[i], read(i)')
      BY <3>2, <3>3 DEF FrameHolds
    <3>5. Building'[i] = Building[i]
      BY <2>5
    <3> HIDE DEF walked, Building, read, visiting
    <3> QED BY <2>1, <2>6, <3>1, <3>2, <3>3, <3>4, <3>5, FrameStays
  <2>8. FrameHolds(n)'
    <3> DEFINE e == walked(n)
               c == Building[n]
               d == Building'[n]
               k == frames[n].index
    <3>1. /\ FrameHolds(n) /\ k \in Nat /\ read(n) = k /\ visiting(n) = 0
          /\ objectTrees' = objectTrees /\ walked(n)' = e /\ e.kind = "object"
          /\ e = scanned /\ k = top.index
      BY <1>1, <1>2, <2>1, <2>2, <2>6, TreesStay DEF walked
    <3>2. visiting(n)' = 0 /\ read(n)' = k + 1
      BY <1>0, <2>6 DEF visiting, read
    <3>3. HoldsParts(e, Level(n), objectTrees[Level(n)], c, k)
          /\ WentThrough(e, c, k)
      <4>1. k - 0 = k
        BY <3>1
      <4> QED BY <3>1, <4>1 DEF FrameHolds
    <3>4. WentThrough(e, d, k + 1)
      <4>1. /\ e.names[k + 1] = name /\ k < size(e) /\ size(e) \in Nat
            /\ IsSeq(c.keys) /\ d.keys = Append(c.keys, e.names[k + 1])
            /\ e.kind = "object" /\ e.names[k + 1] # Symbol /\ k \in Nat
        BY <1>1, <1>2, <1>5, <2>2, <2>4, <2>5, <3>1 DEF name
      <4> HIDE DEF c, d, e, k
      <4> QED BY <3>3, <4>1, NamesGrow
    <3>5. HoldsParts(e, Level(n), objectTrees[Level(n)], d, k)
      <4>1. d.kids = c.kids
        BY <2>5
      <4> HIDE DEF c, d, e, k
      <4> QED BY <3>3, <4>1 DEF HoldsParts
    <3>6. frames'[n].index - visiting(n)' = k
      BY <2>6, <3>1, <3>2
    <3>7. /\ e.plain /\ frames'[n].names = e.names /\ Shaped(d)
          /\ d.type = e.kind
      <4>1. FrameHolds(n) /\ frames'[n] = frames[n] /\ path' = path
        BY <2>1, <2>6, <3>1
      <4>2. e.kind = "object"
        BY <3>1
      <4> HIDE DEF e
      <4> QED BY <2>5, <4>1, <4>2 DEF FrameHolds, e
    <3>8. d = Building[n]'
      OBVIOUS
    <3>9. path' = "async" => d.data = <<>>
      <4>1. path = "async" => c.data = <<>>
        BY <3>1 DEF FrameHolds
      <4>2. d.data = c.data
        BY <2>5
      <4> QED BY <2>1, <4>1, <4>2
    <3>10. HoldsParts(e, Level(n), objectTrees[Level(n)], d,
                      frames'[n].index - visiting(n)')
           /\ WentThrough(e, d, read(n)')
      BY <3>2, <3>4, <3>5, <3>6
    <3>11. e.kind \in {"array", "object"}
      BY <3>1
    <3> HIDE DEF e, d, k, walked, Building, read, visiting
    <3> QED BY <3>1, <3>7, <3>8, <3>9, <3>10, <3>11 DEF FrameHolds
  <2>9. ASSUME NEW i \in 0 .. n - 1 PROVE Leads(i)'
    <3>1. chosen(i)' = chosen(i)
      BY <2>1, <2>6, ChosenStays
    <3>2. Leads(i)
      BY <1>0, <1>2, <2>2 DEF OnTheWay
    <3> HIDE DEF chosen
    <3> QED BY <2>6, <3>1, <3>2 DEF Leads
  <2>10. OnTheWay'
    <3>1. \A i \in 1 .. n : i \in 1 .. n - 1 \/ i = n
      BY <1>2, <2>2
    <3>2. \A i \in 1 .. Len(frames)' : FrameHolds(i)'
      BY <2>6, <2>7, <2>8, <3>1
    <3>3. \A i \in 0 .. Len(frames)' - 1 : Leads(i)'
      BY <2>6, <2>9
    <3> QED BY <2>6, <3>2, <3>3 DEF OnTheWay
  <2> QED BY <2>3, <2>6, <2>10 DEF ValuesTrue, Conclusive
<1> QED BY <1>1, <1>3, <1>4, <1>5

(* The container that the innermost loop has been all through.             *)
LEMMA LeaveTrue ==
  ASSUME WalkInv, SyncSound, ValuesTrue, mode = "loop", NEW type,
         putEnd(type), leave,
         changes = 0 => /\ describable(scanned)
                        /\ top.index = size(scanned)
  PROVE  ValuesTrue'
<1>0. PICK m : m = Len(frames)
  OBVIOUS
<1> DEFINE n == m - 1
           b == SubSeq(Building, 1, n)
           c == Building[m]
           v == [c EXCEPT !.data = <<>>]
<1>1. /\ UNCHANGED <<path, heap, changes, argument>>
      /\ frames' = SubSeq(frames, 1, n) /\ Proceed(afterValue(frames'))
  BY <1>0 DEF leave, world
<1>2. SUFFICES ASSUME changes = 0 PROVE ValuesTrue'
  BY <1>1 DEF ValuesTrue
<1>3. /\ OnTheWay /\ frames # <<>> /\ m \in Nat \ {0} /\ m \in 1 .. m
      /\ scanned = walked(m) /\ FrameHolds(m) /\ visiting(m) = 0
      /\ top = frames[m] /\ read(m) = top.index
      /\ IsEntry(scanned, DOMAIN heap) /\ size(scanned) \in Nat
      /\ top.index - 0 = top.index /\ top.index = size(scanned)
      /\ describable(scanned)
  BY <1>0, <1>2, TopHolds
<1>4. /\ Containers(Building) /\ Len(Building) = m /\ IsSeq(Building)
      /\ Building # <<>> /\ walking /\ Whole(c)
  BY <1>0, <1>3, SequencesAre DEF WalkInv, KeysSound, walking, Containers
<1>5. /\ n \in 0 .. Len(frames) /\ n < Len(frames) /\ IsSeq(frames')
      /\ Len(frames') = n /\ \A i \in 1 .. n : frames'[i] = frames[i]
      /\ IsSeq(b) /\ Len(b) = n /\ \A i \in 1 .. n : b[i] = Building[i]
  <2>1. n \in 0 .. Len(frames) /\ n < Len(frames)
    BY <1>0, <1>3
  <2>2. /\ IsSeq(frames') /\ Len(frames') = n
        /\ \A i \in 1 .. n : frames'[i] = frames[i]
    BY <1>0, <1>1, <1>3, FramesLast, SequenceShortened
  <2>3. IsSeq(b) /\ Len(b) = n /\ \A i \in 1 .. n : b[i] = Building[i]
    BY <1>4, SequenceShortened
  <2> QED BY <2>1, <2>2, <2>3
<1>6. call'.thrown = "none" => IsPlaced(v, b)
  <2>1. SUFFICES ASSUME call'.thrown = "none" PROVE IsPlaced(v, b)
    OBVIOUS
  <2>2. /\ Shaped(Building[Len(Building)]) /\ path \in {"sync", "async"}
        /\ path = "async" => Building[Len(Building)].data = <<>>
    BY <1>3, <1>4 DEF FrameHolds, SyncSound
  <2>3. IsPlaced([Building[Len(Building)] EXCEPT !.data = <<>>],
                 SubSeq(Building, 1, Len(Building) - 1))
    BY <1>1, <1>4, <2>1, <2>2, EndPlaced
  <2> QED BY <1>4, <2>3
<1>7. TreeOf(chosen(n), Level(n)) = <<v>>
  <2> DEFINE e == walked(m)
  <2>1. TreeOf(chosen(n), Level(n)) =
          entryTree(e, Level(m), objectTrees[Level(m)])
    BY <1>0, <1>3, ContainerTree
  <2>2. /\ c.type = e.kind /\ e.kind \in {"array", "object"}
        /\ HoldsParts(e, Level(m), objectTrees[Level(m)], c, size(e))
        /\ WentThrough(e, c, size(e))
        /\ size(e) \in Nat /\ describable(e) /\ IsEntry(e, DOMAIN heap)
    BY <1>3 DEF FrameHolds
  <2>3. e.kind = "object" => IsSeq(e.names)
    BY <2>2, EntryParts, SequencesAre
  <2> HIDE DEF e, c, n
  <2>4. entryTree(e, Level(m), objectTrees[Level(m)]) = <<v>>
    BY <1>4, <2>2, <2>3, TreeFinished
  <2> QED BY <2>1, <2>4
<1> HIDE DEF b, v, n
<1> QED BY <1>1, <1>2, <1>4, <1>5, <1>6, <1>7, PlacedTrue

LEMMA CloseTrue ==
  ASSUME WalkInv, SyncSound, ValuesTrue, closeArray \/ closeObject
  PROVE  ValuesTrue'
<1>0. PICK n : n = Len(frames)
  OBVIOUS
<1>1. ASSUME changes = 0, mode = "loop"
      PROVE  /\ OnTheWay /\ n \in 1 .. n /\ scanned = walked(n)
             /\ WentThrough(scanned, Building[n], top.index)
             /\ top.index \in Nat /\ size(scanned) \in Nat
             /\ IsEntry(scanned, DOMAIN heap) /\ Enumerated(scanned)
             /\ scanned.kind = "object" =>
                  scanned.plain /\ top.names = scanned.names
  <2>1. /\ OnTheWay /\ n \in 1 .. n /\ scanned = walked(n) /\ FrameHolds(n)
        /\ read(n) = top.index /\ top = frames[n]
        /\ top.index \in Nat /\ size(scanned) \in Nat
        /\ IsEntry(scanned, DOMAIN heap) /\ Enumerated(scanned)
    BY <1>0, <1>1, TopHolds
  <2> QED BY <2>1 DEF FrameHolds
<1>2. ASSUME changes = 0, mode = "loop", top.index >= size(scanned)
      PROVE  top.index = size(scanned)
  <2>1. top.index \in 0 .. size(scanned)
    BY <1>1, <1>2 DEF WentThrough
  <2> QED BY <1>1, <1>2, <2>1
<1>3. CASE closeArray
  <2>1. /\ mode = "loop" /\ scanned.kind = "array"
        /\ top.index >= scanned.length
        /\ IF OnlyElements THEN putEnd("array") /\ leave ELSE Throw("named")
    BY <1>3 DEF closeArray, looping
  <2>2. CASE OnlyElements
    <3>1. ASSUME changes = 0
          PROVE  describable(scanned) /\ top.index = size(scanned)
      <4>1. top.index = size(scanned) /\ size(scanned) = scanned.length
        BY <1>2, <2>1, <3>1 DEF size
      <4>2. \A j \in 1 .. scanned.length : j - 1 \in DOMAIN scanned.slots
        BY <1>1, <2>1, <3>1, <4>1 DEF WentThrough
      <4>3. Cardinality(scanned.listed) + scanned.named = scanned.length
        BY <2>2 DEF OnlyElements
      <4>4. describable(scanned)
        BY <1>1, <2>1, <3>1, <4>2, <4>3, OnlyElementsSuffice
      <4> QED BY <4>1, <4>4
    <3> QED BY <2>1, <2>2, <3>1, LeaveTrue
  <2>3. CASE ~OnlyElements
    <3>1. SUFFICES ASSUME changes = 0 PROVE Described(argument) = <<>>
      BY <2>1, <2>3, ThrowTrue
    <3>2. ~describable(scanned)
      BY <1>1, <2>1, <2>3, <3>1, OnlyElementsSuffice DEF OnlyElements
    <3>3. ~describable(walked(n)) /\ OnTheWay /\ n \in 1 .. Len(frames)
      BY <1>0, <1>1, <2>1, <3>1, <3>2
    <3> QED BY <3>3, ContainerBlocked
  <2> QED BY <2>2, <2>3
<1>4. CASE closeObject
  <2>1. /\ mode = "loop" /\ scanned.kind = "object"
        /\ top.index >= Len(top.names) /\ putEnd("object") /\ leave
    BY <1>4 DEF closeObject, looping, ownNames
  <2>2. ASSUME changes = 0
        PROVE  describable(scanned) /\ top.index = size(scanned)
    <3>1. size(scanned) = Len(top.names) /\ scanned.names \in Seq(Text)
          /\ scanned.plain
      BY <1>1, <2>1, <2>2, EntryParts DEF size
    <3>2. top.index = size(scanned)
      BY <1>2, <2>1, <2>2, <3>1
    <3>3. describable(scanned)
      BY <1>1, <2>1, <2>2, <3>1, <3>2, NamesDescribable
    <3> QED BY <3>2, <3>3
  <2> QED BY <2>1, <2>2, LeaveTrue
<1> QED BY <1>3, <1>4

-----------------------------------------------------------------------------
(* The copy is written, and the message taken.                             *)

LEMMA WrittenTrue ==
  ASSUME SyncSound, ValuesTrue, startEncode \/ writeValue
  PROVE  ValuesTrue'
<1>1. /\ UNCHANGED <<path, heap, changes, argument, copy>> /\ path = "async"
      /\ mode \in {"end", "encode"}
      /\ mode' = "encode" \/ (mode' = "thrown" /\ error' = "native")
  <2>1. CASE startEncode
    BY <2>1 DEF startEncode, world
  <2>2. CASE writeValue
    <3>1. mode = "encode"
          /\ (Throw("native") \/ (Proceed("encode")
                                    /\ UNCHANGED <<world, copying, copy>>))
      BY <2>2 DEF writeValue
    <3>2. path = "async"
      BY <3>1 DEF SyncSound
    <3> QED BY <3>1, <3>2 DEF Throw, Proceed, world, treeVars
  <2> QED BY <2>1, <2>2
<1>2. SUFFICES ASSUME changes = 0 PROVE ValuesTrue'
  BY <1>1 DEF ValuesTrue
<1>3. Described(argument)' = Described(argument)
  BY <1>1, DescribedStays
<1>4. Described(argument) = <<Result>> /\ Result' = Result
  BY <1>1, <1>2 DEF ValuesTrue, Conclusive, Result
<1>5. \A o \in DOMAIN heap' : Enumerated(heap'[o])
  BY <1>1, <1>2 DEF ValuesTrue
<1> QED BY <1>1, <1>3, <1>4, <1>5 DEF ValuesTrue, Conclusive, walking

LEMMA TakeTrue ==
  ASSUME SyncSound, ValuesTrue, takeMessage, CopyIsWritten'
  PROVE  ValuesTrue'
<1>1. /\ UNCHANGED <<path, heap, changes, argument, copy>>
      /\ mode \in {"end", "encode"} /\ (path = "sync" => mode = "end")
      /\ take /\ Follow /\ path \in {"sync", "async"}
      /\ \/ mode' = "done" /\ call'.thrown = "none"
         \/ mode' = "thrown" /\ error' = "native"
  BY DEF takeMessage, SyncSound, world, treeVars, Recorded, Proceed
<1>2. SUFFICES ASSUME changes = 0, mode' = "done" PROVE ValuesTrue'
  BY <1>1 DEF ValuesTrue, Conclusive, walking
<1>3. Described(argument)' = Described(argument)
      /\ Described(argument) = <<Result>>
  BY <1>1, <1>2, DescribedStays DEF ValuesTrue, Conclusive
<1>4. call'.thrown = "none" /\ call'.op = "take"
  BY <1>1, <1>2 DEF take, Refuse, Call
<1>5. /\ root' = root
      /\ published' = IF call'.out = <<>> THEN published ELSE <<root>>
  BY <1>1, <1>4 DEF Follow
<1>6. CASE path = "sync"
  <2>1. Followed /\ mode = "end"
    BY <1>1, <1>2, <1>6 DEF SyncSound
  <2>2. call'.out # <<>>
    BY <1>1, <2>1, MessageTaken DEF Followed
  <2> QED BY <1>1, <1>2, <1>3, <1>5, <1>6, <2>2
          DEF ValuesTrue, Conclusive, Result, walking
<1>7. CASE path = "async"
  <2>1. published' = <<copy'>>
    BY <1>1, <1>2, <1>7 DEF CopyIsWritten
  <2> QED BY <1>1, <1>2, <1>3, <1>7, <2>1
          DEF ValuesTrue, Conclusive, Result, walking
<1> QED BY <1>1, <1>6, <1>7

-----------------------------------------------------------------------------
LEMMA ValuesTrueInit == TraversalInit => ValuesTrue
<1> SUFFICES ASSUME TraversalInit PROVE ValuesTrue
  OBVIOUS
<1>1. /\ mode = "value" /\ frames = <<>> /\ input = argument
      /\ heap \in Heaps
  BY DEF TraversalInit
<1>2. Len(frames) = 0 /\ 1 .. 0 = {} /\ 0 .. 0 - 1 = {}
  BY <1>1
<1>3. chosen(0) = argument
  BY DEF chosen
<1>4. OnTheWay
  BY <1>1, <1>2, <1>3 DEF OnTheWay
<1>5. \A o \in DOMAIN heap : Enumerated(heap[o])
  BY <1>1, TraversalAssumption
<1> QED BY <1>1, <1>4, <1>5 DEF ValuesTrue, Conclusive

LEMMA ValuesTrueStays ==
  ASSUME ValuesTrue, UNCHANGED tvars
  PROVE  ValuesTrue'
<1>1. UNCHANGED <<path, heap, changes, argument, input, frames, mode, error,
                  copying, copy, open, root, published>>
  BY DEF tvars, walkVars, world, treeVars, rvars
<1>2. objectTrees' = objectTrees /\ Described(argument)' = Described(argument)
  BY <1>1, TreesStay, DescribedStays
<1>3. SUFFICES ASSUME changes = 0 PROVE ValuesTrue'
  BY <1>1 DEF ValuesTrue
<1>4. Conclusive'
  BY <1>1, <1>2, <1>3 DEF ValuesTrue, Conclusive, Result
<1>5. ASSUME walking PROVE OnTheWay'
  <2>1. OnTheWay
    BY <1>3, <1>5 DEF ValuesTrue
  <2>2. ASSUME NEW i \in 1 .. Len(frames) PROVE FrameHolds(i)'
    <3>1. FrameHolds(i)
      BY <2>1 DEF OnTheWay
    <3>2. Building' = Building /\ visiting(i)' = visiting(i)
          /\ read(i)' = read(i)
      BY <1>1 DEF Building, visiting, read
    <3>3. WentThrough(walked(i), Building[i], read(i)')
      BY <3>1, <3>2 DEF FrameHolds
    <3> HIDE DEF walked, Building, read, visiting
    <3> QED BY <1>1, <3>1, <3>2, <3>3, FrameStays
  <2>3. ASSUME NEW i \in 0 .. Len(frames) PROVE chosen(i)' = chosen(i)
    BY <1>1, ChosenStays
  <2>4. ASSUME NEW i \in 0 .. Len(frames) - 1 PROVE Leads(i)'
    <3>1. Leads(i) /\ chosen(i)' = chosen(i)
      BY <1>1, <2>1, ChosenStays DEF OnTheWay
    <3> HIDE DEF chosen
    <3> QED BY <1>1, <3>1 DEF Leads
  <2>5. PICK n : n = Len(frames)
    OBVIOUS
  <2>6. chosen(n)' = chosen(n)
    BY <1>1, ChosenStays
  <2>7. mode' = "value" => input' = chosen(Len(frames))'
    <3>1. Len(frames)' = n
      BY <1>1, <2>5
    <3>2. chosen(Len(frames))' = chosen(n)'
      BY <3>1 DEF chosen, walked
    <3> QED BY <1>1, <2>1, <2>5, <2>6, <3>2 DEF OnTheWay
  <2> QED BY <1>1, <2>2, <2>4, <2>7 DEF OnTheWay
<1>6. walking' = walking /\ \A o \in DOMAIN heap' : Enumerated(heap'[o])
  BY <1>1, <1>3 DEF walking, ValuesTrue
<1> QED BY <1>4, <1>5, <1>6 DEF ValuesTrue

ValueInv == TreeInv /\ ValuesTrue

LEMMA ValueInvStep == ValueInv /\ [TraversalNext]_tvars => ValueInv'
<1>1. ASSUME ValueInv, [TraversalNext]_tvars PROVE ValueInv'
  <2>1. WalkInv /\ SyncSound /\ ValuesTrue /\ TreeInv' /\ CopyIsWritten'
    BY <1>1, TreeInvStep DEF ValueInv, TreeInv, Ends
  <2>2. CASE TraversalNext
    <3>1. ValuesTrue'
      BY <2>1, <2>2, RefuseTrue, EncodeTrue, OpenTrue, ElementTrue, CloseTrue,
         KeyTrue, PropertyTrue, WrittenTrue, TakeTrue DEF TraversalNext
    <3> QED BY <2>1, <3>1 DEF ValueInv
  <2>3. CASE UNCHANGED tvars
    BY <2>1, <2>3, ValuesTrueStays DEF ValueInv
  <2> QED BY <1>1, <2>2, <2>3
<1> QED BY <1>1

(* While accessors change nothing, what is under construction on either    *)
(* path is the tree of the part of the argument that has been walked, and  *)
(* a walk that is refused was given a value without a tree.                *)
THEOREM ValueInvariant == TraversalSpec => []ValueInv
<1>1. TraversalInit => ValueInv
  BY TreeInvInit, ValuesTrueInit DEF ValueInv
<1> QED BY <1>1, ValueInvStep, PTL DEF TraversalSpec

(* A message that either path hands over holds the scalars, elements and   *)
(* properties of the value passed in, for every heap, every value and      *)
(* every limit, if no accessor changed anything; a value that cannot be    *)
(* encoded yields no message.  Arrays with elements that are not           *)
(* enumerable, or not their own, are among the values: of them, as many    *)
(* named properties as there are such elements are lost (describable).     *)
THEOREM InputAlwaysEncoded == TraversalSpec => []EncodedIsInput
<1>1. ValueInv => EncodedIsInput
  <2>1. SUFFICES ASSUME ValueInv, mode = "done", changes = 0
                 PROVE  Described(argument) # <<>>
                        /\ published = Described(argument)
    BY DEF EncodedIsInput
  <2>2. Described(argument) = <<Result>> /\ published = <<Result>>
    BY <2>1 DEF ValueInv, ValuesTrue, Conclusive
  <2> QED BY <2>2, SingleHead
<1> QED BY <1>1, ValueInvariant, PTL

(* And what is refused cannot be encoded: too deep, cyclic, not plain, or  *)
(* holding a symbol, a detached buffer, an array with a hole or one with   *)
(* more or fewer enumerable names than elements.                           *)
THEOREM AlwaysRefusedForCause == TraversalSpec => []RefusedForCause
<1>1. ValueInv => RefusedForCause
  BY DEF ValueInv, ValuesTrue, Conclusive, RefusedForCause
<1> QED BY <1>1, ValueInvariant, PTL
=============================================================================
