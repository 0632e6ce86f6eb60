----------------------------- MODULE DataProofs -----------------------------
(***************************************************************************)
(* Facts about data on which the proofs of the machines rest: sequences;   *)
(* uint32 numbers and their digits in base 128; and the recursion of       *)
(* consumeUtf8() over the bytes of a string, which is well defined for     *)
(* every string and yields UTF-16 code units.                              *)
(***************************************************************************)
EXTENDS Wire, Utf8, WellFoundedInduction, SequenceTheorems,
        FiniteSetTheorems, TLAPS

-----------------------------------------------------------------------------
(* Sequences of which only the elements in use are known.                  *)

LEMMA SequencesAre ==
  /\ \A S : \A s \in Seq(S) : IsSeq(s)
  /\ \A s : IsSeq(s) => Len(s) \in Nat /\ (s = <<>> <=> Len(s) = 0)
<1>1. ASSUME NEW S, NEW s \in Seq(S) PROVE IsSeq(s)
  BY <1>1 DEF IsSeq
<1>2. ASSUME NEW s, IsSeq(s) PROVE Len(s) \in Nat /\ (s = <<>> <=> Len(s) = 0)
  BY <1>2 DEF IsSeq
<1> QED BY <1>1, <1>2

LEMMA SequenceAppended ==
  ASSUME NEW s, IsSeq(s), NEW e
  PROVE  /\ IsSeq(Append(s, e)) /\ Len(Append(s, e)) = Len(s) + 1
         /\ Append(s, e)[Len(s) + 1] = e
         /\ \A i \in 1 .. Len(s) : Append(s, e)[i] = s[i]
<1> DEFINE S == {s[i] : i \in 1 .. Len(s)}
           T == S \cup {e}
<1>1. s \in Seq(S)
  BY DEF IsSeq
<1> HIDE DEF S
<1>2. s \in Seq(T) /\ e \in T
  BY <1>1
<1> HIDE DEF T
<1>3. /\ Append(s, e) \in Seq(T) /\ Len(Append(s, e)) = Len(s) + 1
      /\ Append(s, e)[Len(s) + 1] = e
      /\ \A i \in 1 .. Len(s) : Append(s, e)[i] = s[i]
  BY <1>2
<1>4. IsSeq(Append(s, e))
  BY <1>3, SequencesAre
<1> QED BY <1>3, <1>4

LEMMA SequenceShortened ==
  ASSUME NEW s, IsSeq(s), s # <<>>
  PROVE  LET t == SubSeq(s, 1, Len(s) - 1)
         IN  /\ IsSeq(t) /\ Len(t) = Len(s) - 1
             /\ \A i \in 1 .. Len(t) : t[i] = s[i]
<1> DEFINE S == {s[i] : i \in 1 .. Len(s)}
<1>1. s \in Seq(S) /\ Len(s) \in Nat \ {0}
  BY SequencesAre DEF IsSeq
<1> HIDE DEF S
<1> DEFINE n == Len(s) - 1
           t == SubSeq(s, 1, n)
<1>2. n \in Nat /\ \A i \in 1 .. n : s[i] \in S
  BY <1>1
<1> HIDE DEF n
<1>3. /\ t \in Seq(S) /\ Len(t) = (IF 1 <= n THEN n - 1 + 1 ELSE 0)
      /\ \A i \in 1 .. n - 1 + 1 : t[i] = s[1 + i - 1]
  BY <1>2, SubSeqProperties
<1> HIDE DEF t
<1>4. Len(t) = n /\ \A i \in 1 .. n : t[i] = s[i]
  <2>1. Len(t) = n
    BY <1>2, <1>3
  <2>2. \A i \in 1 .. n : i \in 1 .. n - 1 + 1 /\ 1 + i - 1 = i
    BY <1>2
  <2> QED BY <1>3, <2>1, <2>2
<1>5. IsSeq(t)
  BY <1>3, SequencesAre
<1> QED BY <1>4, <1>5 DEF n, t

LEMMA LastReplaced ==
  ASSUME NEW s, IsSeq(s), s # <<>>, NEW e
  PROVE  LET t == [s EXCEPT ![Len(s)] = e]
         IN  /\ IsSeq(t) /\ Len(t) = Len(s) /\ t[Len(s)] = e
             /\ \A i \in 1 .. Len(s) - 1 : t[i] = s[i]
<1> DEFINE S == {s[i] : i \in 1 .. Len(s)}
           T == S \cup {e}
           t == [s EXCEPT ![Len(s)] = e]
<1>1. s \in Seq(S) /\ Len(s) \in Nat \ {0}
  BY SequencesAre DEF IsSeq
<1> HIDE DEF S
<1>2. s \in Seq(T) /\ e \in T
  BY <1>1
<1> HIDE DEF T
<1>3. /\ t \in Seq(T) /\ Len(t) = Len(s)
      /\ \A j \in 1 .. Len(s) : t[j] = IF j = Len(s) THEN e ELSE s[j]
  BY <1>1, <1>2, ExceptSeq
<1> HIDE DEF t
<1>4. IsSeq(t)
  BY <1>3, SequencesAre
<1> QED BY <1>1, <1>3, <1>4 DEF t

-----------------------------------------------------------------------------
(* Induction, in the form of the least number principle for a set.         *)
LEMMA LeastNumber ==
  ASSUME NEW T, T \subseteq Nat, T # {}
  PROVE  \E m \in T : \A k \in T : m <= k
<1> DEFINE R == OpToRel(<, Nat)
<1>1. IsWellFoundedOn(R, Nat)
  BY NatLessThanWellFounded
<1> HIDE DEF R
<1>2. PICK m \in T : \A k \in T : ~ (<<k, m>> \in R)
  BY <1>1, WFMin, Zenon
<1>3. \A k \in T : k < m => <<k, m>> \in R
  BY DEF R, OpToRel
<1>4. \A k \in T : ~ (k < m)
  BY <1>2, <1>3, Zenon
<1>5. m \in Nat /\ \A k \in T : k \in Nat
  OBVIOUS
<1>6. \A k \in T : m <= k
  BY <1>4, <1>5
<1> QED BY <1>6

-----------------------------------------------------------------------------
(* uint32 numbers and their digits in base 128.                            *)

LEMMA Widths ==
  /\ MaxGroups \in 1 .. 5 /\ TopLimit \in 2 .. 128
  /\ weight[1] = 1 /\ weight[2] = 128 /\ weight[3] = 16384
  /\ weight[4] = 2097152 /\ weight[5] = 268435456
  /\ U32Size \in Nat \ {0} /\ U32Size = weight[MaxGroups] * TopLimit
  /\ \A n : n \in U32 <=> n \in Nat /\ n < U32Size
<1>1. MaxGroups \in 1 .. 5 /\ TopLimit \in 2 .. 128
  BY WidthAssumption
<1>2. /\ weight[1] = 1 /\ weight[2] = 128 /\ weight[3] = 16384
      /\ weight[4] = 2097152 /\ weight[5] = 268435456
  BY SMT DEF weight
<1>3. U32Size \in Nat \ {0} /\ U32Size = weight[MaxGroups] * TopLimit
  <2>1. \A w \in {1, 128, 16384, 2097152, 268435456} :
          w * TopLimit \in Nat \ {0}
    BY <1>1
  <2>2. weight[MaxGroups] \in {1, 128, 16384, 2097152, 268435456}
    BY <1>1, <1>2
  <2> QED BY <2>1, <2>2 DEF U32Size
<1>4. \A n : n \in U32 <=> n \in Nat /\ n < U32Size
  BY <1>3 DEF U32, U32Max
<1> QED BY <1>1, <1>2, <1>3, <1>4

LEMMA NumberRange == U32 \subseteq Nat
BY SMT, Widths

(* varintSize(n) is the number of digits of n in base 128.                 *)
LEMMA VarintSizeExact ==
  ASSUME NEW n \in U32
  PROVE  /\ varintSize(n) \in 1 .. MaxGroups
         /\ n \div weight[varintSize(n)] < 128
         /\ varintSize(n) # 1 => n >= weight[varintSize(n)]
<1> DEFINE S == {k \in 2 .. MaxGroups : n >= weight[k]}
<1>1. n \in Nat /\ n < U32Size
  BY SMT, Widths
<1>2. PICK m \in 1 .. MaxGroups :
        S = 2 .. m /\ n \div weight[m] < 128 /\ (m # 1 => n >= weight[m])
  <2>1. CASE n < 128 \/ MaxGroups = 1
    <3>1. S = 2 .. 1
      BY SMT, <1>1, <2>1, Widths
    <3>2. n < 128
      BY SMT, <1>1, <2>1, Widths
    <3> QED BY SMT, <1>1, <3>1, <3>2, Widths
  <2>2. CASE n >= 128 /\ MaxGroups >= 2 /\ (n < 16384 \/ MaxGroups = 2)
    <3>1. S = 2 .. 2
      BY SMT, <1>1, <2>2, Widths
    <3>2. n < 16384
      BY SMT, <1>1, <2>2, Widths
    <3> QED BY SMT, <1>1, <2>2, <3>1, <3>2, Widths
  <2>3. CASE n >= 16384 /\ MaxGroups >= 3 /\ (n < 2097152 \/ MaxGroups = 3)
    <3>1. S = 2 .. 3
      BY SMT, <1>1, <2>3, Widths
    <3>2. n < 2097152
      BY SMT, <1>1, <2>3, Widths
    <3> QED BY SMT, <1>1, <2>3, <3>1, <3>2, Widths
  <2>4. CASE /\ n >= 2097152 /\ MaxGroups >= 4
             /\ n < 268435456 \/ MaxGroups = 4
    <3>1. S = 2 .. 4
      BY SMT, <1>1, <2>4, Widths
    <3>2. n < 268435456
      BY SMT, <1>1, <2>4, Widths
    <3> QED BY SMT, <1>1, <2>4, <3>1, <3>2, Widths
  <2>5. CASE n >= 268435456 /\ MaxGroups = 5
    <3>1. S = 2 .. 5
      BY SMT, <1>1, <2>5, Widths
    <3>2. n < 268435456 * 128
      BY SMT, <1>1, <2>5, Widths
    <3> QED BY SMT, <1>1, <2>5, <3>1, <3>2, Widths
  <2> QED BY SMT, <1>1, <2>1, <2>2, <2>3, <2>4, <2>5, Widths
<1>3. Cardinality(2 .. m) = m - 1
  <2>1. Cardinality(2 .. m) = IF 2 > m THEN 0 ELSE m - 2 + 1
    BY SMT, <1>2, Widths, FS_Interval
  <2> QED BY SMT, <1>2, <2>1, Widths
<1>4. varintSize(n) = 1 + (m - 1)
  BY <1>2, <1>3, Zenon DEF varintSize
<1>5. varintSize(n) = m
  BY SMT, <1>2, <1>4, Widths
<1> QED BY <1>2, <1>5

(* varint() writes an initial segment of the groups, whatever is written.  *)
LEMMA GroupsAreFirst ==
  ASSUME NEW n
  PROVE  \E m \in 1 .. MaxGroups : varintGroups(n) = 1 .. m
<1> DEFINE T == {j \in 2 .. MaxGroups : ~ (n \div weight[j] # 0)}
<1>1. MaxGroups \in 1 .. 5
  BY WidthAssumption
<1>2. varintGroups(n) = {i \in 1 .. MaxGroups : \A j \in 2 .. i : j \notin T}
  <2>1. ASSUME NEW i \in 1 .. MaxGroups, NEW j \in 2 .. i
        PROVE  j \notin T <=> n \div weight[j] # 0
    <3>1. j \in 2 .. MaxGroups
      BY <1>1
    <3> QED BY <3>1, Zenon
  <2> HIDE DEF T
  <2> QED BY <2>1, Zenon DEF varintGroups
<1>3. T \subseteq 2 .. MaxGroups
  OBVIOUS
<1> HIDE DEF T
<1>4. CASE T = {}
  <2>1. varintGroups(n) = 1 .. MaxGroups
    BY <1>2, <1>4, Zenon
  <2> QED BY <1>1, <2>1
<1>5. CASE T # {}
  <2>0. T \subseteq Nat
    BY <1>3
  <2>1. PICK m \in T : \A k \in T : m <= k
    BY <1>5, <2>0, LeastNumber, Zenon
  <2>2. m \in 2 .. MaxGroups
    BY <1>3, <2>1
  <2>3. ASSUME NEW i \in 1 .. MaxGroups
        PROVE  (\A j \in 2 .. i : j \notin T) <=> i \in 1 .. m - 1
    <3>1. CASE i < m
      <4>1. \A j \in 2 .. i : ~ (m <= j)
        BY <1>1, <2>2, <3>1
      <4>2. \A j \in 2 .. i : j \notin T
        BY <2>1, <4>1, Zenon
      <4> QED BY <2>2, <3>1, <4>2
    <3>2. CASE ~ (i < m)
      <4>1. m \in 2 .. i /\ i \notin 1 .. m - 1
        BY <1>1, <2>2, <3>2
      <4> QED BY <2>1, <4>1, Zenon
    <3> QED BY <3>1, <3>2
  <2>4. varintGroups(n) = {i \in 1 .. MaxGroups : i \in 1 .. m - 1}
    BY <1>2, <2>3, Zenon
  <2>5. varintGroups(n) = 1 .. m - 1
    BY <1>1, <2>2, <2>4
  <2>6. m - 1 \in 1 .. MaxGroups
    BY <1>1, <2>2
  <2> QED BY <2>5, <2>6
<1> QED BY <1>4, <1>5

(* The two loops of the Writer agree: varint() writes as many groups as    *)
(* varintSize() counts.                                                    *)
LEMMA GroupsCounted ==
  ASSUME NEW n \in Nat
  PROVE  /\ varintSize(n) \in 1 .. MaxGroups
         /\ varintGroups(n) = 1 .. varintSize(n)
<1> DEFINE S == {k \in 2 .. MaxGroups : n >= weight[k]}
<1>1. MaxGroups \in 1 .. 5
  BY WidthAssumption
<1>2. PICK m \in 1 .. MaxGroups : varintGroups(n) = 1 .. m
  BY GroupsAreFirst
<1>3. ASSUME NEW k \in 1 .. 5
      PROVE  n \div weight[k] # 0 <=> n >= weight[k]
  <2>1. weight[k] \in Nat \ {0}
    BY SMT DEF weight
  <2> HIDE DEF weight
  <2> QED BY SMT, <2>1
<1>4. \A j, k \in 1 .. 5 : j <= k => weight[j] <= weight[k]
  BY SMT DEF weight
<1>5. \A k \in 1 .. 5 : weight[k] \in Nat
  BY SMT DEF weight
<1>6. ASSUME NEW k \in 2 .. MaxGroups, n >= weight[k]
      PROVE  k \in 2 .. m
  <2>1. ASSUME NEW j \in 2 .. k PROVE n \div weight[j] # 0
    <3>1. j \in 1 .. 5 /\ k \in 1 .. 5 /\ j <= k
      BY <1>1, <1>6
    <3>2. n >= weight[j]
      BY SMT, <1>4, <1>5, <1>6, <3>1
    <3> QED BY <1>3, <3>1, <3>2
  <2>2. k \in 1 .. MaxGroups
    BY <1>1, <1>6
  <2>3. k \in varintGroups(n)
    BY <2>1, <2>2, Zenon DEF varintGroups
  <2> QED BY <1>1, <1>2, <1>6, <2>3
<1>7. ASSUME NEW k \in 2 .. m
      PROVE  k \in 2 .. MaxGroups /\ n >= weight[k]
  <2>1. k \in 1 .. m /\ k \in 2 .. k /\ k \in 1 .. 5 /\ k \in 2 .. MaxGroups
    BY <1>1, <1>2, <1>7
  <2>2. n \div weight[k] # 0
    BY <1>2, <2>1, Zenon DEF varintGroups
  <2> QED BY <1>3, <2>1, <2>2
<1>8. S = 2 .. m
  BY <1>6, <1>7
<1>9. Cardinality(2 .. m) = m - 1
  <2>1. Cardinality(2 .. m) = IF 2 > m THEN 0 ELSE m - 2 + 1
    BY SMT, <1>2, <1>1, FS_Interval
  <2> QED BY SMT, <1>1, <1>2, <2>1
<1>10. varintSize(n) = 1 + (m - 1)
  BY <1>8, <1>9, Zenon DEF varintSize
<1>11. varintSize(n) = m
  BY SMT, <1>1, <1>2, <1>10
<1> QED BY <1>2, <1>11

LEMMA VarintWritten ==
  ASSUME NEW n \in Nat
  PROVE  varint(n) =
           [i \in 1 .. varintSize(n) |->
              ((n \div weight[i]) % GroupBase)
                + (IF i < varintSize(n) THEN GroupBase ELSE 0)]
<1> DEFINE m == varintSize(n)
<1>1. m \in 1 .. MaxGroups /\ varintGroups(n) = 1 .. m
  BY GroupsCounted
<1>2. m \in Nat
  BY <1>1, WidthAssumption
<1> HIDE DEF m
<1>3. \A i \in 1 .. m : i + 1 \in varintGroups(n) <=> i < m
  BY <1>1, <1>2
<1>4. varint(n) = [i \in 1 .. m |->
                     ((n \div weight[i]) % GroupBase)
                       + (IF i + 1 \in varintGroups(n) THEN GroupBase ELSE 0)]
  BY <1>1, Zenon DEF varint
<1> QED BY <1>3, <1>4, Zenon DEF m

LEMMA IsDigits ==
  ASSUME NEW n \in Nat
  PROVE  n = (n % 128) + ((n \div 128) % 128) * 128
             + ((n \div 16384) % 128) * 16384
             + ((n \div 2097152) % 128) * 2097152
             + (n \div 268435456) * 268435456
<1>1. \A m \in Nat : /\ m \div 128 \in Nat /\ m % 128 \in 0 .. 127
                    /\ m = (m % 128) + (m \div 128) * 128
  BY SMT
<1>2. PICK a : a = n \div 128
  OBVIOUS
<1>3. PICK b : b = a \div 128
  OBVIOUS
<1>4. PICK c : c = b \div 128
  OBVIOUS
<1>5. PICK d : d = c \div 128
  OBVIOUS
<1>6. a \in Nat /\ b \in Nat /\ c \in Nat /\ d \in Nat
  BY <1>1, <1>2, <1>3, <1>4, <1>5
<1>7. /\ n = (n % 128) + a * 128 /\ n % 128 \in 0 .. 127
      /\ a = (a % 128) + b * 128 /\ a % 128 \in 0 .. 127
      /\ b = (b % 128) + c * 128 /\ b % 128 \in 0 .. 127
      /\ c = (c % 128) + d * 128 /\ c % 128 \in 0 .. 127
  BY <1>1, <1>2, <1>3, <1>4, <1>5, <1>6
<1>8. b * 16384 <= n /\ n < b * 16384 + 16384
  BY SMT, <1>6, <1>7
<1>9. c * 2097152 <= n /\ n < c * 2097152 + 2097152
  BY SMT, <1>6, <1>7
<1>10. d * 268435456 <= n /\ n < d * 268435456 + 268435456
  BY SMT, <1>6, <1>7
<1>11. b = n \div 16384
  BY SMT, <1>6, <1>8
<1>12. c = n \div 2097152
  BY SMT, <1>6, <1>9
<1>13. d = n \div 268435456
  BY SMT, <1>6, <1>10
<1>14. n = (n % 128) + (a % 128) * 128 + (b % 128) * 16384
           + (c % 128) * 2097152 + d * 268435456
  BY SMT, <1>6, <1>7
<1> QED BY <1>2, <1>11, <1>12, <1>13, <1>14

(* A number of at most k digits, by its digits.                            *)
Digit == 0 .. 127
DigitSum(a, b, c, d, e) ==
  a * weight[1] + b * weight[2] + c * weight[3] + d * weight[4]
    + e * weight[5]
LastDigit(k, a, b, c, d, e) ==
  IF k = 1 THEN a ELSE IF k = 2 THEN b
  ELSE IF k = 3 THEN c ELSE IF k = 4 THEN d ELSE e

(* The number of these digits has them, and the last of them leads it.     *)
HasDigits(k, a, b, c, d, e) ==
  LET n == DigitSum(a, b, c, d, e)
      last == LastDigit(k, a, b, c, d, e)
  IN /\ n \in Nat /\ n \div weight[k] = last
     /\ (n \div weight[1]) % 128 = a /\ (n \div weight[2]) % 128 = b
     /\ (n \div weight[3]) % 128 = c /\ (n \div weight[4]) % 128 = d
     /\ (n \div weight[5]) % 128 = e
     /\ last * weight[k] <= n /\ n < (last + 1) * weight[k]

LEMMA FiveDigits ==
  ASSUME NEW k \in 1 .. 5,
         NEW a \in Digit, NEW b \in Digit, NEW c \in Digit,
         NEW d \in Digit, NEW e \in Digit,
         k < 2 => b = 0, k < 3 => c = 0, k < 4 => d = 0, k < 5 => e = 0
  PROVE  HasDigits(k, a, b, c, d, e)
<1> DEFINE n == DigitSum(a, b, c, d, e)
<1>1. /\ a \in 0 .. 127 /\ b \in 0 .. 127 /\ c \in 0 .. 127
      /\ d \in 0 .. 127 /\ e \in 0 .. 127
  BY DEF Digit
<1>2. n = a + b * 128 + c * 16384 + d * 2097152 + e * 268435456
  BY SMT, <1>1, Widths DEF DigitSum
<1> HIDE DEF n
<1>3. /\ n \in Nat /\ n % 128 = a
      /\ n \div 128 = b + c * 128 + d * 16384 + e * 2097152
      /\ n \div 16384 = c + d * 128 + e * 16384
      /\ n \div 2097152 = d + e * 128
      /\ n \div 268435456 = e
      /\ (n \div 128) % 128 = b /\ (n \div 16384) % 128 = c
      /\ (n \div 2097152) % 128 = d /\ (n \div 268435456) % 128 = e
  BY SMT, <1>1, <1>2
<1>4. /\ (n \div weight[1]) % 128 = a /\ (n \div weight[2]) % 128 = b
      /\ (n \div weight[3]) % 128 = c /\ (n \div weight[4]) % 128 = d
      /\ (n \div weight[5]) % 128 = e
  BY SMT, <1>1, <1>3, Widths
<1>5. CASE k = 1
  BY SMT, <1>1, <1>2, <1>3, <1>4, <1>5, Widths DEF LastDigit, HasDigits, n
<1>6. CASE k = 2
  BY SMT, <1>1, <1>2, <1>3, <1>4, <1>6, Widths DEF LastDigit, HasDigits, n
<1>7. CASE k = 3
  BY SMT, <1>1, <1>2, <1>3, <1>4, <1>7, Widths DEF LastDigit, HasDigits, n
<1>8. CASE k = 4
  BY SMT, <1>1, <1>2, <1>3, <1>4, <1>8, Widths DEF LastDigit, HasDigits, n
<1>9. CASE k = 5
  BY SMT, <1>1, <1>2, <1>3, <1>4, <1>9, Widths DEF LastDigit, HasDigits, n
<1> QED BY <1>5, <1>6, <1>7, <1>8, <1>9

LEMMA DigitsDecide ==
  ASSUME NEW k \in 1 .. 5, NEW m \in Nat, NEW n \in Nat,
         m \div weight[k] < 128, n \div weight[k] < 128,
         \A j \in 1 .. k : (m \div weight[j]) % 128 = (n \div weight[j]) % 128
  PROVE  m = n
<1>1. \A j \in 1 .. 5 : j <= k =>
        (m \div weight[j]) % 128 = (n \div weight[j]) % 128
  OBVIOUS
<1>2. /\ (m \div weight[1]) % 128 = (n \div weight[1]) % 128
      /\ k >= 2 => (m \div weight[2]) % 128 = (n \div weight[2]) % 128
      /\ k >= 3 => (m \div weight[3]) % 128 = (n \div weight[3]) % 128
      /\ k >= 4 => (m \div weight[4]) % 128 = (n \div weight[4]) % 128
      /\ k >= 5 => (m \div weight[5]) % 128 = (n \div weight[5]) % 128
  BY <1>1
<1>3. /\ m % 128 = n % 128
      /\ k >= 2 => (m \div 128) % 128 = (n \div 128) % 128
      /\ k >= 3 => (m \div 16384) % 128 = (n \div 16384) % 128
      /\ k >= 4 => (m \div 2097152) % 128 = (n \div 2097152) % 128
      /\ k >= 5 => (m \div 268435456) % 128 = (n \div 268435456) % 128
  <2>1. m \div weight[1] = m /\ n \div weight[1] = n
    BY SMT, Widths
  <2> QED BY SMT, <1>2, <2>1, Widths
<1>6. /\ m = (m % 128) + ((m \div 128) % 128) * 128
              + ((m \div 16384) % 128) * 16384
              + ((m \div 2097152) % 128) * 2097152
              + (m \div 268435456) * 268435456
      /\ n = (n % 128) + ((n \div 128) % 128) * 128
              + ((n \div 16384) % 128) * 16384
              + ((n \div 2097152) % 128) * 2097152
              + (n \div 268435456) * 268435456
  BY SMT, IsDigits
<1>7. CASE k = 1
  <2>1. m < 128 /\ n < 128
    BY SMT, <1>7, Widths
  <2> QED BY SMT, <1>3, <1>7, <2>1
<1>8. CASE k = 2
  <2>1. m < 16384 /\ n < 16384
    BY SMT, <1>8, Widths
  <2> QED BY SMT, <1>3, <1>8, <2>1
<1>9. CASE k = 3
  <2>1. m < 2097152 /\ n < 2097152
    BY SMT, <1>9, Widths
  <2> QED BY SMT, <1>3, <1>6, <1>9, <2>1
<1>10. CASE k = 4
  <2>1. m < 268435456 /\ n < 268435456
    BY SMT, <1>10, Widths
  <2> QED BY SMT, <1>3, <1>6, <1>10, <2>1
<1>11. CASE k = 5
  <2>1. /\ m \div 268435456 \in 0 .. 127 /\ n \div 268435456 \in 0 .. 127
    BY SMT, <1>11, Widths
  <2> QED BY SMT, <1>3, <1>6, <1>11, <2>1
<1> QED BY <1>7, <1>8, <1>9, <1>10, <1>11

(* A number fits a uint32 if its last group is within the mask.            *)
LEMMA TopGroup ==
  ASSUME NEW g \in 1 .. MaxGroups, NEW last \in 0 .. 127, NEW n \in Nat,
         last * weight[g] <= n, n < (last + 1) * weight[g]
  PROVE  n \notin U32 <=> g = MaxGroups /\ last >= TopLimit
<1>1. /\ MaxGroups \in 1 .. 5 /\ g \in 1 .. 5 /\ TopLimit \in 2 .. 128
      /\ n \notin U32 <=> n >= weight[MaxGroups] * TopLimit
  BY SMT, Widths
<1>2. ASSUME NEW w \in {1, 128, 16384, 2097152, 268435456},
             last * w <= n, n < (last + 1) * w
      PROVE  /\ n >= w * TopLimit <=> last >= TopLimit
             /\ n < 128 * w
  BY SMT, <1>1, <1>2
<1>3. \A j \in 1 .. 5 : weight[j] \in {1, 128, 16384, 2097152, 268435456}
  BY SMT, Widths
<1>4. /\ n >= weight[g] * TopLimit <=> last >= TopLimit
      /\ n < 128 * weight[g]
  BY SMT, <1>1, <1>2, <1>3
<1>5. CASE g = MaxGroups
  BY <1>1, <1>4, <1>5
<1>6. CASE g # MaxGroups
  <2>1. 128 * weight[g] <= weight[MaxGroups]
    BY SMT, <1>1, <1>6, Widths
  <2>2. weight[MaxGroups] <= weight[MaxGroups] * TopLimit
    BY SMT, <1>1, <1>3
  <2>3. weight[g] \in Nat /\ weight[MaxGroups] \in Nat
        /\ weight[MaxGroups] * TopLimit \in Nat
    BY SMT, <1>1, <1>3
  <2> QED BY <1>1, <1>4, <1>6, <2>1, <2>2, <2>3
<1> QED BY <1>5, <1>6

(* How many elements of T come before its first gap.                       *)
LEMMA BeforeGap ==
  ASSUME NEW most \in Nat, NEW T \in SUBSET (1 .. most)
  PROVE  LET more == Cardinality({k \in 1 .. most : \A j \in 1 .. k : j \in T})
             GapAt(k) == k \notin T /\ \A j \in 1 .. k - 1 : j \in T
         IN /\ \A k \in 1 .. most : GapAt(k) => more = k - 1
            /\ more # most => more + 1 \in 1 .. most /\ GapAt(more + 1)
<1> DEFINE S == {k \in 1 .. most : \A j \in 1 .. k : j \in T}
           GapAt(k) == k \notin T /\ \A j \in 1 .. k - 1 : j \in T
           gaps == (1 .. most) \ T
<1>1. ASSUME NEW b \in Nat PROVE Cardinality(1 .. b) = b
  <2>1. Cardinality(1 .. b) = IF 1 > b THEN 0 ELSE b - 1 + 1
    BY FS_Interval
  <2> QED BY <2>1
<1>2. ASSUME NEW k \in 1 .. most, GapAt(k) PROVE Cardinality(S) = k - 1
  <2>1. S = 1 .. k - 1
    <3>1. ASSUME NEW i \in 1 .. most, \A j \in 1 .. i : j \in T
          PROVE  i \in 1 .. k - 1
      <4>1. ~(k \in 1 .. i)
        BY <1>2, <3>1
      <4> QED BY <4>1
    <3>2. ASSUME NEW i \in 1 .. k - 1
          PROVE  i \in 1 .. most /\ \A j \in 1 .. i : j \in T
      BY <1>2
    <3> QED BY <3>1, <3>2
  <2>2. k - 1 \in Nat
    OBVIOUS
  <2> HIDE DEF S
  <2> QED BY <1>1, <2>1, <2>2
<1>3. CASE gaps = {}
  <2>1. S = 1 .. most
    BY <1>3
  <2>2. Cardinality(S) = most
    <3> HIDE DEF S
    <3> QED BY <1>1, <2>1
  <2> QED BY <1>2, <2>2
<1>4. CASE gaps # {}
  <2>1. PICK m \in gaps : \A k \in gaps : m <= k
    <3>1. gaps \subseteq Nat
      OBVIOUS
    <3> HIDE DEF gaps
    <3> QED BY <1>4, <3>1, LeastNumber
  <2>2. m \in 1 .. most /\ GapAt(m)
    BY <2>1
  <2>3. Cardinality(S) = m - 1 /\ m - 1 + 1 = m
    BY <1>2, <2>2
  <2> QED BY <1>2, <2>2, <2>3
<1> QED BY <1>3, <1>4

-----------------------------------------------------------------------------
(* What unitsFrom(s)[i] is, given its values f behind i.                   *)
UnitsAt(s, f, i) ==
  IF i = Len(s) + 1 THEN [ok |-> TRUE, units |-> <<>>]
  ELSE LET n == continuationCount(s[i])
       IN IF ~SequenceAt(s, i, n) THEN [ok |-> FALSE, units |-> <<>>]
          ELSE LET more == f[i + n + 1]
               IN [ok |-> more.ok,
                   units |-> appendCodePoint(codePoint(s, i, n)) \o more.units]

LEMMA CountRange == ASSUME NEW b \in Int PROVE continuationCount(b) \in 0 .. 4
BY DEF continuationCount

(* It depends on f behind i only, and there within the string.             *)
LEMMA UnitsAtLooksAhead ==
  ASSUME NEW s \in Seq(Int), NEW i \in 1 .. Len(s) + 1, NEW f, NEW g,
         \A j \in i + 1 .. Len(s) + 1 : f[j] = g[j]
  PROVE  UnitsAt(s, f, i) = UnitsAt(s, g, i)
<1> DEFINE n == continuationCount(s[i])
<1>1. CASE i = Len(s) + 1
  BY <1>1 DEF UnitsAt
<1>2. CASE i # Len(s) + 1 /\ ~SequenceAt(s, i, n)
  BY <1>2 DEF UnitsAt
<1>3. CASE i # Len(s) + 1 /\ SequenceAt(s, i, n)
  <2>1. i \in 1 .. Len(s) /\ s[i] \in Int /\ i + n <= Len(s)
    BY <1>3 DEF SequenceAt
  <2>2. n \in 0 .. 4
    BY <2>1, CountRange
  <2> HIDE DEF n
  <2>3. f[i + n + 1] = g[i + n + 1]
    BY <2>1, <2>2
  <2> QED BY <1>3, <2>3, Zenon DEF UnitsAt, n
<1> QED BY <1>1, <1>2, <1>3

(* The functions that satisfy the recursion from the i-th byte on.         *)
Solves(s, f, i) == f = [j \in i .. Len(s) + 1 |-> UnitsAt(s, f, j)]

LEMMA SolutionExtends ==
  ASSUME NEW s \in Seq(Int), NEW i \in 1 .. Len(s), NEW f, Solves(s, f, i + 1)
  PROVE  \E g : Solves(s, g, i)
<1> DEFINE g == [j \in i .. Len(s) + 1 |->
                   IF j = i THEN UnitsAt(s, f, i) ELSE f[j]]
<1>1. \A j \in i + 1 .. Len(s) + 1 : g[j] = f[j]
  OBVIOUS
<1>2. \A j \in i .. Len(s) + 1 : UnitsAt(s, g, j) = UnitsAt(s, f, j)
  <2> SUFFICES ASSUME NEW j \in i .. Len(s) + 1
               PROVE  UnitsAt(s, g, j) = UnitsAt(s, f, j)
    OBVIOUS
  <2>1. \A k \in j + 1 .. Len(s) + 1 : g[k] = f[k]
    BY <1>1
  <2> HIDE DEF g
  <2> QED BY <2>1, UnitsAtLooksAhead
<1>3. \A j \in i .. Len(s) + 1 :
        (IF j = i THEN UnitsAt(s, f, i) ELSE f[j]) = UnitsAt(s, f, j)
  <2>1. ASSUME NEW j \in i + 1 .. Len(s) + 1 PROVE f[j] = UnitsAt(s, f, j)
    BY DEF Solves
  <2>2. \A j \in i .. Len(s) + 1 : j = i \/ j \in i + 1 .. Len(s) + 1
    OBVIOUS
  <2> QED BY <2>1, <2>2
<1>4. g = [j \in i .. Len(s) + 1 |-> UnitsAt(s, g, j)]
  <2>1. g = [j \in i .. Len(s) + 1 |-> UnitsAt(s, f, j)]
    BY <1>3
  <2> HIDE DEF g
  <2> QED BY <1>2, <2>1
<1> QED BY <1>4, Zenon DEF Solves

LEMMA SolutionExists ==
  ASSUME NEW s \in Seq(Int)
  PROVE  \E f : Solves(s, f, 1)
<1> DEFINE T == {k \in 0 .. Len(s) : ~ \E f : Solves(s, f, Len(s) + 1 - k)}
<1> SUFFICES ASSUME ~ \E f : Solves(s, f, 1) PROVE FALSE
  OBVIOUS
<1>1. Len(s) \in T
  OBVIOUS
<1>2. PICK m \in T : \A k \in T : m <= k
  <2>1. T \subseteq Nat /\ T # {}
    BY <1>1
  <2> HIDE DEF T
  <2> QED BY <2>1, LeastNumber
<1>3. m # 0
  <2> DEFINE f == [j \in Len(s) + 1 .. Len(s) + 1 |->
                     [ok |-> TRUE, units |-> <<>>]]
  <2>1. PICK l : l = Len(s) + 1 /\ l \in Nat
    OBVIOUS
  <2>2. f = [j \in l .. l |-> [ok |-> TRUE, units |-> <<>>]]
    BY <2>1
  <2> HIDE DEF f
  <2>3. \A j \in l .. l : UnitsAt(s, f, j) = [ok |-> TRUE, units |-> <<>>]
    BY <2>1 DEF UnitsAt
  <2>4. f = [j \in l .. l |-> UnitsAt(s, f, j)]
    BY <2>2, <2>3
  <2>5. Solves(s, f, l)
    BY <2>1, <2>4, Zenon DEF Solves
  <2> QED BY <2>1, <2>5
<1>4. m \in 1 .. Len(s) /\ m - 1 \notin T
  <2>1. m \in 1 .. Len(s)
    BY <1>3
  <2>2. ~ (m <= m - 1)
    BY <2>1
  <2> HIDE DEF T
  <2> QED BY <1>2, <2>1, <2>2
<1>5. PICK f : Solves(s, f, Len(s) + 1 - (m - 1))
  BY <1>4
<1> DEFINE i == Len(s) + 1 - m
<1>6. i \in 1 .. Len(s) /\ i + 1 = Len(s) + 1 - (m - 1)
  BY <1>4
<1>7. Solves(s, f, i + 1)
  BY <1>5, <1>6
<1>8. \E g : Solves(s, g, i)
  <2> HIDE DEF i
  <2> QED BY <1>6, <1>7, SolutionExtends
<1> QED BY <1>2, <1>8

(* unitsFrom() satisfies the equation it is defined by.                    *)
LEMMA UnitsFromUnfolds ==
  ASSUME NEW s \in Seq(Int)
  PROVE  unitsFrom(s) = [i \in 1 .. Len(s) + 1 |-> UnitsAt(s, unitsFrom(s), i)]
<1>1. PICK g : g = [i \in 1 .. Len(s) + 1 |-> UnitsAt(s, g, i)]
  BY SolutionExists DEF Solves
<1> QED BY <1>1, Zenon DEF UnitsAt, unitsFrom

-----------------------------------------------------------------------------
(* The bound has a name to keep the provers from listing the interval.    *)
MaxUnit == 65535
Unit == 0 .. MaxUnit

LEMMA UnitRange == ASSUME NEW u \in Nat, u <= 65535 PROVE u \in Unit
<1>1. u <= MaxUnit /\ MaxUnit \in Int
  BY SMT DEF MaxUnit
<1> QED BY <1>1, SMT DEF Unit

LEMMA ProductType == \A a, b \in Int : a * b \in Int
OBVIOUS

LEMMA CodePointType ==
  ASSUME NEW s \in Seq(Int), NEW n \in 0 .. 3, NEW i \in 1 .. Len(s) - n
  PROVE  codePoint(s, i, n) \in Int
<1> DEFINE lead == s[i] % leadLimit[n + 1]
           part(k) ==
             IF k <= n THEN (s[i + k] % 64) * shift[n - k + 1] ELSE 0
<1>1. \A k \in 0 .. n : s[i + k] \in Int
  OBVIOUS
<1>2. \A k \in 1 .. 4 : shift[k] \in Int
  BY SMT DEF shift
<1>3. ASSUME NEW k \in 1 .. 3 PROVE part(k) \in Int
  <2>1. CASE k <= n
    <3> DEFINE low == s[i + k] % 64
               unit == shift[n - k + 1]
    <3>1. s[i + k] \in Int /\ n - k + 1 \in 1 .. 4
      BY <1>1, <2>1
    <3>2. low \in Int /\ unit \in Int
      BY <1>2, <3>1
    <3>3. part(k) = low * unit
      BY <2>1
    <3> HIDE DEF low, unit, part
    <3> QED BY <3>2, <3>3, ProductType
  <2>2. CASE ~(k <= n)
    BY <2>2
  <2> QED BY <2>1, <2>2
<1>4. lead \in Int
  <2>1. s[i] \in Int
    BY <1>1
  <2>2. /\ leadLimit[1] = 128 /\ leadLimit[2] = 32
        /\ leadLimit[3] = 16 /\ leadLimit[4] = 8
    BY DEF leadLimit
  <2>3. \/ lead = s[i] % 128 \/ lead = s[i] % 32
        \/ lead = s[i] % 16 \/ lead = s[i] % 8
    BY <2>2
  <2> QED BY <2>1, <2>3
<1> DEFINE most == lead * shift[n + 1]
<1>5. most \in Int
  <2>1. shift[n + 1] \in Int
    <3>1. n + 1 \in 1 .. 4
      OBVIOUS
    <3> QED BY <1>2, <3>1, Zenon
  <2> HIDE DEF lead
  <2> QED BY <1>4, <2>1, ProductType
<1>6. codePoint(s, i, n) = most + part(1) + part(2) + part(3)
  BY Zenon DEF codePoint
<1>7. part(1) \in Int /\ part(2) \in Int /\ part(3) \in Int
  BY <1>3
<1> HIDE DEF part, most
<1> QED BY <1>5, <1>6, <1>7

(* A valid code point is one unit or a surrogate pair.                     *)
LEMMA AppendedUnits ==
  ASSUME NEW cp \in Int, NEW n \in 0 .. 3, ValidCodePoint(cp, n)
  PROVE  appendCodePoint(cp) \in Seq(Unit)
<1>1. cp >= 0 /\ cp <= 1114111
  BY SMT DEF ValidCodePoint, minimum
<1>2. CASE cp <= 65535
  <2>1. cp \in Unit
    BY <1>1, <1>2, UnitRange, SMT
  <2>2. appendCodePoint(cp) = <<cp>>
    BY <1>2, SMT DEF appendCodePoint
  <2> QED BY <2>1, <2>2
<1>3. CASE cp > 65535
  <2> DEFINE high == 55296 + ((cp - 65536) \div 1024)
             low == 56320 + ((cp - 65536) % 1024)
  <2>1. high \in Unit
    <3>1. high \in Nat /\ high <= 65535
      BY <1>1, <1>3, SMT
    <3> QED BY <3>1, UnitRange, SMT
  <2>2. low \in Unit
    <3>1. low \in Nat /\ low <= 65535
      BY SMT
    <3> QED BY <3>1, UnitRange, SMT
  <2>3. appendCodePoint(cp) = <<high, low>>
    BY <1>3, SMT DEF appendCodePoint
  <2> HIDE DEF high, low
  <2> QED BY <2>1, <2>2, <2>3
<1> QED BY <1>1, <1>2, <1>3

Sound(r) == r.ok \in BOOLEAN /\ r.units \in Seq(Unit)

LEMMA UnitsAtSound ==
  ASSUME NEW s \in Seq(Int), NEW i \in 1 .. Len(s) + 1, NEW f,
         \A j \in i + 1 .. Len(s) + 1 : Sound(f[j])
  PROVE  Sound(UnitsAt(s, f, i))
<1> DEFINE n == continuationCount(s[i])
<1>1. CASE i = Len(s) + 1
  BY <1>1 DEF UnitsAt, Sound
<1>2. CASE i # Len(s) + 1 /\ ~SequenceAt(s, i, n)
  BY <1>2 DEF UnitsAt, Sound
<1>3. CASE i # Len(s) + 1 /\ SequenceAt(s, i, n)
  <2>1. /\ i \in 1 .. Len(s) /\ s[i] \in Int
        /\ n <= 3 /\ i + n <= Len(s) /\ ValidCodePoint(codePoint(s, i, n), n)
    BY <1>3 DEF SequenceAt
  <2>2. n \in 0 .. 3
    BY <2>1, CountRange
  <2>3. UnitsAt(s, f, i) =
          [ok |-> f[i + n + 1].ok,
           units |-> appendCodePoint(codePoint(s, i, n)) \o f[i + n + 1].units]
    BY <1>3, Zenon DEF UnitsAt
  <2> HIDE DEF n
  <2>4. Sound(f[i + n + 1])
    BY <2>1, <2>2
  <2>5. appendCodePoint(codePoint(s, i, n)) \in Seq(Unit)
    <3>1. i \in 1 .. Len(s) - n
      BY <2>1, <2>2
    <3>2. codePoint(s, i, n) \in Int
      BY <2>2, <3>1, CodePointType
    <3> QED BY <2>1, <2>2, <3>2, AppendedUnits
  <2> QED BY <2>3, <2>4, <2>5 DEF Sound
<1> QED BY <1>1, <1>2, <1>3

(* Whatever the bytes are, what consumeUtf8() accepts becomes code units.  *)
THEOREM ConsumedUnits ==
  ASSUME NEW s \in Seq(Int)
  PROVE  /\ consumeUtf8[s].ok \in BOOLEAN
         /\ consumeUtf8[s].units \in Seq(Unit)
<1> DEFINE f == unitsFrom(s)
           T == {k \in 0 .. Len(s) : ~Sound(f[Len(s) + 1 - k])}
<1>1. \A i \in 1 .. Len(s) + 1 : f[i] = UnitsAt(s, f, i)
  BY UnitsFromUnfolds
<1> HIDE DEF f
<1>2. T = {}
  <2> SUFFICES ASSUME T # {} PROVE FALSE
    OBVIOUS
  <2>1. PICK m \in T : \A k \in T : m <= k
    <3>1. T \subseteq Nat
      OBVIOUS
    <3> HIDE DEF T
    <3> QED BY <3>1, LeastNumber
  <2> DEFINE i == Len(s) + 1 - m
  <2>2. i \in 1 .. Len(s) + 1 /\ ~Sound(f[i])
    OBVIOUS
  <2>3. ASSUME NEW j \in i + 1 .. Len(s) + 1 PROVE Sound(f[j])
    <3>1. Len(s) + 1 - j \in 0 .. Len(s) /\ Len(s) + 1 - j < m
      OBVIOUS
    <3>2. Len(s) + 1 - j \notin T
      BY <2>1, <3>1
    <3> QED BY <3>1, <3>2
  <2> HIDE DEF i
  <2> QED BY <1>1, <2>2, <2>3, UnitsAtSound
<1>3. Sound(f[1])
  <2>1. Len(s) \notin T
    BY <1>2
  <2> QED BY <2>1
<1>4. consumeUtf8[s] = f[1]
  BY DEF consumeUtf8, f
<1> QED BY <1>3, <1>4 DEF Sound
=============================================================================
