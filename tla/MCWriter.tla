------------------------------ MODULE MCWriter ------------------------------
(* Inputs for model checking Writer, RecordedWriter and FaultyWriter.      *)
EXTENDS FaultyWriter

Bytes(n) == [i \in 1 .. n |-> 7]

TwoViews == {"Uint8Array", "Int16Array"}

(* Empty, one and two bytes, one more byte than a uint32 of this instance  *)
(* can count, and a null pointer with a size.                              *)
BinaryCases == {[null |-> TRUE, data |-> <<>>],
                [null |-> FALSE, data |-> Bytes(1)],
                [null |-> FALSE, data |-> Bytes(2)],
                [null |-> FALSE, data |-> Bytes(U32Max + 1)],
                [null |-> TRUE, data |-> Bytes(1)]}

(* Empty, Latin-1, one and two wide units, the first wide string whose     *)
(* length takes two groups, and a length past the limit.                   *)
StringCases == {<<>>, <<97>>, <<256>>, <<300, 97>>,
                [i \in 1 .. GroupBase \div 2 |-> 256],
                [i \in 1 .. U32Max + 1 |-> 98]}

OneDouble == {<<0, 0, 0, 0, 0, 0, 248, 63>>}

(* One input that is written and one that makes a method fail half-way.    *)
FaultyBinaries == {[null |-> FALSE, data |-> Bytes(2)],
                   [null |-> TRUE, data |-> Bytes(1)]}
FaultyStrings == {<<97>>, <<256>>, [i \in 1 .. U32Max + 1 |-> 98]}

(* A null pointer that comes with a size.                                  *)
NullBinary == {[null |-> TRUE, data |-> Bytes(1)]}

OneUtf8 == {[utf8 |-> <<195, 169>>, units |-> <<233>>]}
OneInt == {-1}
OneView == {"Int16Array"}
Ints == {-1, 0, 1}
UInts == {0, U32Max}
=============================================================================
