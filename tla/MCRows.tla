------------------------------- MODULE MCRows -------------------------------
(* Inputs for model checking Rows and Boundary: small data sets, arrays of *)
(* rows in dense and sparse form with every kind of cell, their            *)
(* truncations, extensions and single-byte corruptions.                    *)
EXTENDS Boundary

Sets == [rows : {1, 3}, columns : {1, 6}]

Bodies ==
  { <<65, 2, 65, 1, 73, 2, 36, 0, 1, 65, 1, 95, 36, 0, 1, 36, 0, 2>>,
    <<65, 1, 97, 2, 73, 0, 34, 1, 200, 85, 1, 84, 64, 2, 2, 36, 0, 1>>,
    <<97, 2, 85, 0, 65, 1, 48, 36, 0, 1,
          73, 2, 65, 1, 70, 36, 0, 1, 64, 2, 2>>,
    <<65, 1, 65, 2, 99, 2, 0, 1, 83, 2, 195, 169, 36, 0, 2, 36, 0, 1, 0>>,
    <<65, 1, 63, 1, 65, 0, 36, 0, 0, 36, 0, 1>>,
    <<65, 2, 65, 0, 36, 0, 0, 65, 0, 36, 0, 0, 36, 0, 2>>,
    <<65, 2, 65, 1, 84, 36, 0, 1, 65, 2, 70, 111, 123, 0, 36, 0, 2, 36, 0, 2>>,
    <<65, 1, 65, 2, 73, 2, 111, 123, 0, 36, 0, 2, 36, 0, 1>> }

(* Strings and doubles, of which the contents are damaged, too.            *)
Texts ==
  { <<65, 2, 65, 1, 83, 6, 195, 169, 240, 159, 146, 169, 36, 0, 1,
          65, 1, 34, 2, 200, 65, 36, 0, 1, 36, 0, 2>>,
    <<65, 1, 65, 3, 83, 7, 240, 159, 146, 169, 226, 130, 172,
          99, 4, 61, 216, 169, 220, 85, 7, 36, 0, 3, 36, 0, 1>>,
    <<97, 1, 73, 0, 65, 1, 78, 0, 0, 0, 0, 0, 0, 20, 64, 36, 0, 1, 64, 1, 1>> }

Structural == {0, 1, 2, 4, 128, 36, 63, 64, 65, 68, 73, 85, 95, 97, 111}
Textual == {0, 1, 3, 5, 128, 192, 240, 36, 63, 65, 83, 99}

Corrupted(m, S) == {[m EXCEPT ![i] = b] : i \in 1 .. Len(m), b \in S}
Truncated(m) == {SubSeq(m, 1, n) : n \in 0 .. Len(m) - 1}
Extended(m) == {Append(m, b) : b \in Structural}

Messages ==
  UNION {{m} \cup Truncated(m) \cup Extended(m) \cup Corrupted(m, Structural) :
           m \in {Header \o body : body \in Bodies}}
    \cup UNION {{m} \cup Corrupted(m, Textual) :
                  m \in {Header \o body : body \in Texts}}
=============================================================================
