----------------------------- MODULE MCTraversal -----------------------------
(* Small heaps for model checking Traversal: three objects, of which the   *)
(* first is passed in.                                                     *)
EXTENDS TraversalValues, TLC

Zero == <<0, 0, 0, 0, 0, 0, 0, 0>>
NegativeZero == <<0, 0, 0, 0, 0, 0, 0, 128>>
One == <<0, 0, 0, 0, 0, 0, 240, 63>>
Large == <<0, 0, 0, 0, 101, 205, 205, 65>>
Integral == (Zero :> 0) @@ (NegativeZero :> 0) @@ (One :> 1)
              @@ (Large :> 1000000000)

Number == Leaf("number", One)
Stored == {Ref(1), Leaf("null", <<>>)}
A == <<97>>
B == <<98>>
Names == {A, B}

Plain(v) == Slot(v, FALSE)
Getter(v) == Slot(v, TRUE)

MCRoots ==
  {Ref(1)} \cup {Leaf("number", n) : n \in {Zero, NegativeZero, Large}}
    \cup {Leaf("symbol", <<>>), Leaf("undefined", <<>>),
          Leaf("boolean", <<1>>), Leaf("string", <<97, 300>>)}

Arrays(S) ==
  {ArrayEntry(0, <<>>, {}, 0), ArrayEntry(1, <<>>, {}, 0),
   ArrayEntry(1, <<>>, {}, 1)}
    \cup {ArrayEntry(1, 0 :> s, listed, n)
            : s \in S, listed \in {{}, {0}}, n \in {0, 1}}
Objects(S) ==
  {ObjectEntry(<<>>, <<>>, FALSE), ObjectEntry(<<>>, <<>>, TRUE)}
    \cup {ObjectEntry(<<A>>, A :> s, TRUE) : s \in S}
    \cup {ObjectEntry(<<A, Symbol>>, (A :> s) @@ (Symbol :> s), TRUE)
            : s \in S}
Pairs(S) ==
  {ArrayEntry(2, (0 :> s) @@ (1 :> t), {0, 1}, 0) : s \in S, t \in S}
    \cup {ObjectEntry(<<A, B>>, (A :> s) @@ (B :> t), TRUE)
            : s \in S, t \in S}

FirstSlots == {Getter(Number), Plain(Ref(2)), Plain(Ref(3)),
               Getter(Ref(2)), Plain(Ref(1))}
SecondSlots == {Plain(Leaf("date", One)), Getter(Ref(3)), Plain(Ref(1))}

First == Pairs(FirstSlots)
Second == Arrays(SecondSlots) \cup Objects(SecondSlots)
Third == {ArrayEntry(0, <<>>, {}, 0),
          ObjectEntry(<<A>>, A :> Getter(Number), TRUE),
          BinaryEntry("arrayBuffer", <<>>, TRUE),
          BinaryEntry("Int16Array", <<1, 2>>, TRUE),
          BinaryEntry("arrayBuffer", <<1, 2, 3, 4, 5, 6, 7, 8>>, TRUE),
          BinaryEntry("Uint8Array", <<7>>, FALSE)}

MCHeaps == {<<f, s, t>> : f \in First, s \in Second, t \in Third}

(* Arrays whose enumeration leaves an element out.                         *)
HiddenHeaps == {<<ArrayEntry(1, 0 :> s, {}, 1), t>>
                  : s \in {Plain(Number), Plain(Ref(2)), Getter(Ref(2))},
                    t \in Third}
=============================================================================
