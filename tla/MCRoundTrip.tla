---------------------------- MODULE MCRoundTrip ----------------------------
(* Inputs for model checking RoundTrip.                                    *)
EXTENDS RoundTrip

Ints == {-1, 64}
UInts == {127, 128, U32Max}
OneDouble == {<<0, 0, 0, 0, 0, 0, 248, 63>>}
OneUtf8 == {[utf8 |-> <<226, 130, 172>>, units |-> <<8364>>]}
Strings == {<<>>, <<300>>}
Binaries == {[null |-> TRUE, data |-> <<>>],
             [null |-> FALSE, data |-> <<7, 0>>],
             [null |-> TRUE, data |-> <<7, 7>>]}
OneView == {"Int16Array"}
=============================================================================
