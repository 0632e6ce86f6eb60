-------------------------------- MODULE Utf8 --------------------------------
(***************************************************************************)
(* Reader::consumeUtf8 and appendCodePoint: strict UTF-8 to UTF-16.        *)
(***************************************************************************)
EXTENDS Integers, Sequences

(* How many continuation bytes a leading byte announces; 4 for none at all *)
(* (not a leading byte).                                                   *)
continuationCount(first) ==
  IF first < 128 THEN 0
  ELSE IF first \div 32 = 6 THEN 1
  ELSE IF first \div 16 = 14 THEN 2
  ELSE IF first \div 8 = 30 THEN 3
  ELSE 4

(* Indexed by the number of continuation bytes plus one: the smallest code *)
(* point of that length, and the payload of the leading byte.              *)
minimum == <<0, 128, 2048, 65536>>
leadLimit == <<128, 32, 16, 8>>
shift == <<1, 64, 4096, 262144>>

(* The code point at s[i], which has n continuation bytes.                 *)
codePoint(s, i, n) ==
  LET part(k) == IF k <= n THEN (s[i + k] % 64) * shift[n - k + 1] ELSE 0
  IN (s[i] % leadLimit[n + 1]) * shift[n + 1] + part(1) + part(2) + part(3)

(* Mutant: surrogates pass.                                                *)
ValidOrSurrogate(cp, n) == cp >= minimum[n + 1] /\ cp <= 1114111

ValidCodePoint(cp, n) ==
  /\ cp >= minimum[n + 1]
  /\ cp <= 1114111
  /\ ~(cp >= 55296 /\ cp <= 57343)

SequenceAt(s, i, n) ==
  /\ n <= 3
  /\ i + n <= Len(s)
  /\ \A k \in 1 .. n : s[i + k] \div 64 = 2
  /\ ValidCodePoint(codePoint(s, i, n), n)

appendCodePoint(cp) ==
  IF cp <= 65535 THEN <<cp>>
  ELSE <<55296 + ((cp - 65536) \div 1024), 56320 + ((cp - 65536) % 1024)>>

(* The code units of the bytes s from s[i] on, and whether they are valid  *)
(* UTF-8.                                                                  *)
unitsFrom(s) ==
  LET from[i \in 1 .. Len(s) + 1] ==
        IF i = Len(s) + 1 THEN [ok |-> TRUE, units |-> <<>>]
        ELSE LET n == continuationCount(s[i])
             IN IF ~SequenceAt(s, i, n) THEN [ok |-> FALSE, units |-> <<>>]
                ELSE LET more == from[i + n + 1]
                     IN [ok |-> more.ok,
                         units |-> appendCodePoint(codePoint(s, i, n))
                                     \o more.units]
  IN from

consumeUtf8 == [s \in Seq(Int) |-> unitsFrom(s)[1]]
=============================================================================
