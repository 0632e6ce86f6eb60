--------------------------- MODULE JsDecodeProofs ---------------------------
(***************************************************************************)
(* Proofs about a decoding call, for every buffer, every write to it and   *)
(* every nesting limit: the Reader works on a snapshot and stays sound,    *)
(* and whatever it accepts can be built.                                   *)
(***************************************************************************)
EXTENDS JsDecode, Codec, ReaderProofs

-----------------------------------------------------------------------------
(* The inductive invariant: the Reader's; where the call is and what it    *)
(* works on; and, while values are built, that the node of the i-th        *)
(* activation is as low as the sets of the Reader say.                     *)

CallSound ==
  /\ phase \in Phases \ {"BuildError"} /\ SourceOK(handed)
  /\ phase = "call" => source = handed /\ mode = "header"
  /\ phase \in {"call", "decode"} => stack = <<>>
  /\ phase \notin {"call", "TypeError"} =>
       /\ handed.kind # "other" /\ ~handed.detached
       /\ input = view(handed)

ActivationSound(L, a, i) ==
  /\ a = [node |-> a.node, next |-> a.next, made |-> a.made]
  /\ a.next \in Nat \ {0}
  /\ a.node \in L[MaxDepth + 1 - i]

BuildOver(L) ==
  /\ value \in L[MaxDepth]
  /\ IsSeq(stack) /\ Len(stack) <= MaxDepth + 1
  /\ \A i \in 1 .. Len(stack) : ActivationSound(L, stack[i], i)

BuildSound == phase = "build" => \E L : Strata(L) /\ BuildOver(L)

DecodeInv == ReaderInv /\ CallSound /\ BuildSound

-----------------------------------------------------------------------------
(* The copy.                                                               *)

LEMMA ViewIsSnapshot ==
  ASSUME NEW s, SourceOK(s)
  PROVE  /\ view(s) \in Seq(Byte) /\ Len(view(s)) = s.length
         /\ \A i \in 1 .. s.length : view(s)[i] = s.memory[s.offset + i]
<1> DEFINE memory == s.memory
           m == s.offset + 1
           n == s.offset + s.length
<1>1. /\ memory \in Seq(Byte) /\ s.offset \in Nat /\ s.length \in Nat
      /\ Len(memory) \in Nat /\ n <= Len(memory)
  BY DEF SourceOK
<1>2. /\ m \in Nat /\ n \in Nat
      /\ \A i \in m .. n : memory[i] \in Byte
  BY <1>1
<1>3. view(s) = SubSeq(memory, m, n)
  BY DEF view
<1> HIDE DEF memory, m, n
<1>4. /\ SubSeq(memory, m, n) \in Seq(Byte)
      /\ Len(SubSeq(memory, m, n)) = (IF m <= n THEN n - m + 1 ELSE 0)
      /\ \A i \in 1 .. n - m + 1 : SubSeq(memory, m, n)[i] = memory[m + i - 1]
  BY <1>2, SubSeqProperties
<1>5. n - m + 1 = s.length /\ (m <= n <=> s.length > 0)
  BY <1>1 DEF m, n
<1>6. \A i \in 1 .. s.length : m + i - 1 = s.offset + i
  BY <1>1 DEF m
<1> QED BY <1>1, <1>3, <1>4, <1>5, <1>6 DEF memory

LEMMA CopyKeeps ==
  ASSUME DecodeInv, CopySerializedInput
  PROVE  DecodeInv'
<1>1. /\ phase = "call" /\ source = handed /\ mode = "header" /\ stack = <<>>
      /\ SourceOK(handed) /\ ReaderInv
      /\ UNCHANGED <<pos, frames, mode, value, callVars, stack, built>>
  BY DEF DecodeInv, CallSound, CopySerializedInput
<1>2. CASE /\ ~(source.kind = "other" \/ source.detached)
           /\ phase' = "decode" /\ input' = view(source)
  <2>1. PICK L : Strata(L) /\ ReaderOver(L)
    BY <1>1 DEF ReaderInv
  <2>2. AtStart'
    BY <1>1, <1>2, <2>1, ViewIsSnapshot DEF ReaderOver, AtStart
  <2>3. ReaderInv'
    BY <2>2, StartHolds, PTL
  <2> QED BY <1>1, <1>2, <2>3
          DEF DecodeInv, CallSound, BuildSound, Phases, callVars
<1>3. CASE phase' = "TypeError" /\ UNCHANGED input
  <2>1. ReaderInv'
    BY <1>1, <1>3, StutterKeeps DEF rvars
  <2> QED BY <1>1, <1>3, <2>1
          DEF DecodeInv, CallSound, BuildSound, Phases, callVars
<1> QED BY <1>2, <1>3 DEF CopySerializedInput

-----------------------------------------------------------------------------
(* The other steps of the call.                                            *)

LEMMA UserWritesKeeps ==
  ASSUME DecodeInv, userWrites
  PROVE  DecodeInv'
<1>1. /\ phase = "decode"
      /\ UNCHANGED rvars /\ UNCHANGED <<handed, path, phase, stack, built>>
  BY DEF userWrites
<1>2. ReaderInv'
  BY <1>1, StutterKeeps DEF DecodeInv
<1> QED BY <1>1, <1>2 DEF DecodeInv, CallSound, BuildSound, rvars

(* The Reader does not change its input.                                   *)
LEMMA StepKeepsInput == Step => input' = input
BY Zenon
   DEF Step, readHeader, readValue, tooDeepOrEnded, skipCountMarker,
       openObject, openArray, readLeafValue, objectLoop, denseLoop, sparseLoop,
       readPropertyKey, readSparseIndex, readProperty, readElement, finish,
       GotKey, Attempt, Fail, Return, Continue

LEMMA DecodeStepKeeps ==
  ASSUME DecodeInv, decodeStep
  PROVE  DecodeInv'
<1>1. phase = "decode" /\ Step /\ UNCHANGED jsVars
  BY DEF decodeStep
<1>2. ReaderInv' /\ input' = input
  BY <1>1, StepKeeps, StepKeepsInput DEF DecodeInv
<1> QED BY <1>1, <1>2
        DEF DecodeInv, CallSound, BuildSound, jsVars, callVars

LEMMA DecodedKeeps ==
  ASSUME DecodeInv, decoded
  PROVE  DecodeInv'
<1>1. /\ phase = "decode" /\ phase' \in {"build", "DecodeError"}
      /\ phase' = "build" => mode = "done"
      /\ UNCHANGED <<rvars, callVars, stack, built>>
  BY DEF decoded
<1>2. ReaderInv'
  BY <1>1, StutterKeeps DEF DecodeInv
<1>3. CallSound'
  BY <1>1 DEF DecodeInv, CallSound, Phases, rvars, callVars
<1>4. BuildSound'
  <2> SUFFICES ASSUME phase' = "build"
               PROVE  \E L : Strata(L)' /\ BuildOver(L)'
    BY DEF BuildSound
  <2>1. PICK L : Strata(L) /\ ReaderOver(L)
    BY DEF DecodeInv, ReaderInv
  <2>2. value' = value /\ value \in L[MaxDepth] /\ stack' = <<>>
    BY <1>1, <2>1 DEF ReaderOver, rvars, DecodeInv, CallSound
  <2>3. IsSeq(<<>>) /\ Len(<<>>) = 0 /\ 0 <= MaxDepth + 1 /\ 1 .. 0 = {}
    BY ReaderAssumption DEF IsSeq
  <2>4. BuildOver(L)'
    BY <2>2, <2>3 DEF BuildOver, IsSeq, ActivationSound
  <2>5. Strata(L)'
    BY <2>1 DEF Strata, Below, NodeOver, DataSound
  <2> QED BY <2>4, <2>5
<1> QED BY <1>2, <1>3, <1>4 DEF DecodeInv

-----------------------------------------------------------------------------
(* Building.  Neither the depth check nor the check for whole elements of  *)
(* ToJavaScript() ever fails.                                              *)

(* A step of the building is sound if its stack is.                        *)
LEMMA BuiltKeeps ==
  ASSUME DecodeInv, phase = "build", UNCHANGED <<rvars, callVars>>,
         NEW L, Strata(L), BuildOver(L),
         \/ phase' = "returned"
         \/ /\ phase' = phase
            /\ IsSeq(stack') /\ Len(stack') <= MaxDepth + 1
            /\ \A i \in 1 .. Len(stack') : ActivationSound(L, stack'[i], i)
  PROVE  DecodeInv'
<1>1. ReaderInv'
  BY StutterKeeps DEF DecodeInv
<1>2. CallSound'
  BY DEF DecodeInv, CallSound, Phases, rvars, callVars
<1>3. BuildSound'
  <2> SUFFICES ASSUME phase' = "build"
               PROVE  \E K : Strata(K)' /\ BuildOver(K)'
    BY DEF BuildSound
  <2>1. BuildOver(L)'
    BY DEF BuildOver, rvars, IsSeq, ActivationSound
  <2>2. Strata(L)'
    BY DEF Strata, Below, NodeOver, DataSound
  <2> QED BY <2>1, <2>2
<1> QED BY <1>1, <1>2, <1>3 DEF DecodeInv

LEMMA PutSound ==
  ASSUME NEW L, NEW a, NEW i, ActivationSound(L, a, i), NEW v
  PROVE  ActivationSound(L, Put(a, v), i)
<1>1. Put(a, v) = [a EXCEPT !.next = a.next + 1, !.made = Grown(a, v)]
  BY DEF Put
<1>2. a = [node |-> a.node, next |-> a.next, made |-> a.made]
  BY DEF ActivationSound
<1>3. Put(a, v) = [node |-> a.node, next |-> a.next + 1,
                   made |-> Grown(a, v)]
  BY <1>1, <1>2
<1> QED BY <1>3 DEF ActivationSound

(* What a value is given to: the caller's stack, one activation of which   *)
(* takes it, or the caller of Decode().                                    *)
LEMMA GiveSound ==
  ASSUME NEW L, NEW outer, IsSeq(outer), Len(outer) <= MaxDepth + 1,
         \A i \in 1 .. Len(outer) : ActivationSound(L, outer[i], i),
         NEW v, Give(v, outer)
  PROVE  \/ phase' = "returned"
         \/ /\ phase' = phase
            /\ IsSeq(stack') /\ Len(stack') <= MaxDepth + 1
            /\ \A i \in 1 .. Len(stack') : ActivationSound(L, stack'[i], i)
<1>1. CASE outer = <<>>
  BY <1>1 DEF Give
<1>2. CASE outer # <<>>
  <2> DEFINE n == Len(outer)
             a == Put(outer[n], v)
             new == [outer EXCEPT ![n] = a]
  <2>1. n \in Nat \ {0}
    BY <1>2, SequencesAre
  <2>2. phase' = phase /\ stack' = new
    BY <1>2 DEF Give
  <2>3. ActivationSound(L, a, n)
    BY <2>1, PutSound
  <2> HIDE DEF a
  <2>4. /\ IsSeq(new) /\ Len(new) = n /\ new[n] = a
        /\ \A i \in 1 .. n - 1 : new[i] = outer[i]
    BY <1>2, LastReplaced
  <2> HIDE DEF new, n
  <2>5. ASSUME NEW i \in 1 .. n PROVE ActivationSound(L, new[i], i)
    <3>1. CASE i = n
      BY <2>3, <2>4, <3>1
    <3>2. CASE i \in 1 .. n - 1
      BY <2>1, <2>4, <3>2 DEF n
    <3> QED BY <2>1, <3>1, <3>2
  <2> QED BY <2>2, <2>4, <2>5 DEF n
<1> QED BY <1>1, <1>2

(* A value as low as the depth says is always accepted.                    *)
LEMMA ToJavaScriptSound ==
  ASSUME NEW L, Strata(L), BuildOver(L), Len(stack) <= MaxDepth,
         NEW v \in L[MaxDepth - Len(stack)], ToJavaScript(v)
  PROVE  \/ phase' = "returned"
         \/ /\ phase' = phase
            /\ IsSeq(stack') /\ Len(stack') <= MaxDepth + 1
            /\ \A i \in 1 .. Len(stack') : ActivationSound(L, stack'[i], i)
<1> DEFINE n == Len(stack)
<1>1. n \in Nat /\ n <= MaxDepth /\ MaxDepth - n \in 0 .. MaxDepth
  BY SequencesAre, ReaderAssumption DEF BuildOver
<1>2. ~TooDeep(n) /\ WholeElements(v)
  <2>1. DataSound(v)
    BY <1>1 DEF Strata, NodeOver
  <2> QED BY <1>1, <2>1, ReaderAssumption DEF TooDeep, WholeElements, DataSound
<1>3. \/ stack' = Append(stack, Activation(v)) /\ phase' = phase
      \/ Give(Js(v.type, v.data), stack)
  BY <1>2, Zenon DEF ToJavaScript
<1>4. CASE Give(Js(v.type, v.data), stack)
  BY <1>4, GiveSound DEF BuildOver
<1>5. CASE stack' = Append(stack, Activation(v)) /\ phase' = phase
  <2>1. ActivationSound(L, Activation(v), n + 1)
    <3>1. /\ Activation(v).node = v /\ Activation(v).next = 1
          /\ Activation(v) = [node |-> Activation(v).node,
                              next |-> Activation(v).next,
                              made |-> Activation(v).made]
      BY DEF Activation
    <3>2. MaxDepth + 1 - (n + 1) = MaxDepth - n
      BY <1>1, ReaderAssumption
    <3> QED BY <3>1, <3>2 DEF ActivationSound
  <2>2. /\ IsSeq(stack') /\ Len(stack') = n + 1
        /\ stack'[n + 1] = Activation(v)
        /\ \A i \in 1 .. n : stack'[i] = stack[i]
    BY <1>5, SequenceAppended DEF BuildOver
  <2> HIDE DEF n
  <2>3. ASSUME NEW i \in 1 .. Len(stack')
        PROVE  ActivationSound(L, stack'[i], i)
    <3>1. CASE i = n + 1
      BY <2>1, <2>2, <3>1
    <3>2. CASE i \in 1 .. n
      BY <2>2, <3>2 DEF BuildOver, n
    <3> QED BY <1>1, <2>2, <3>1, <3>2
  <2> QED BY <1>1, <1>5, <2>2, <2>3, ReaderAssumption
<1> QED BY <1>3, <1>4, <1>5

LEMMA BuildStepKeeps ==
  ASSUME DecodeInv, buildRoot \/ buildChild \/ returnContainer
  PROVE  DecodeInv'
<1>1. phase = "build" /\ UNCHANGED <<rvars, callVars>>
  BY DEF buildRoot, buildChild, returnContainer
<1>2. PICK L : Strata(L) /\ BuildOver(L)
  BY <1>1 DEF DecodeInv, BuildSound
<1> DEFINE n == Len(stack)
<1>3. CASE buildRoot
  <2>1. stack = <<>> /\ ToJavaScript(value)
    BY <1>3 DEF buildRoot
  <2>2. Len(stack) <= MaxDepth /\ MaxDepth - Len(stack) = MaxDepth
    BY <2>1, ReaderAssumption
  <2>3. value \in L[MaxDepth - Len(stack)]
    BY <1>2, <2>2 DEF BuildOver
  <2> QED BY <1>1, <1>2, <2>1, <2>2, <2>3, ToJavaScriptSound, BuiltKeeps
<1>4. CASE buildChild
  <2> DEFINE node == current.node
             v == node.kids[current.next]
  <2>1. stack # <<>> /\ current.next <= Len(node.kids) /\ ToJavaScript(v)
    BY <1>4 DEF buildChild
  <2>2. n \in 1 .. MaxDepth + 1 /\ ActivationSound(L, current, n)
    BY <1>2, <2>1, SequencesAre, ReaderAssumption DEF BuildOver, current
  <2>3. node \in L[MaxDepth + 1 - n] /\ current.next \in Nat \ {0}
    BY <2>2 DEF ActivationSound
  <2> HIDE DEF n
  <2> DEFINE m == MaxDepth + 1 - n
  <2>4. m \in 0 .. MaxDepth
    BY <2>2, ReaderAssumption
  <2>5. node \in NodeOver(Below(L, m))
    BY <1>2, <2>3, <2>4 DEF Strata
  <2> HIDE DEF m
  <2>6. node.kids \in Seq(Below(L, m))
    BY <2>5 DEF NodeOver
  <2> HIDE DEF node
  <2>7. v \in Below(L, m)
    BY <2>1, <2>3, <2>6
  <2> HIDE DEF v
  <2>8. m # 0 /\ v \in L[m - 1]
    BY <2>7 DEF Below
  <2>9. n <= MaxDepth /\ m - 1 = MaxDepth - n
    BY <2>2, <2>4, <2>8, ReaderAssumption DEF m
  <2>10. Len(stack) <= MaxDepth /\ v \in L[MaxDepth - Len(stack)]
    BY <2>8, <2>9 DEF n
  <2>11. ToJavaScript(v)
    BY <2>1 DEF v, node
  <2> QED BY <1>1, <1>2, <2>10, <2>11, ToJavaScriptSound, BuiltKeeps
<1>5. CASE returnContainer
  <2> DEFINE outer == SubSeq(stack, 1, Len(stack) - 1)
  <2>1. stack # <<>> /\ Give(current.made, outer)
    BY <1>5 DEF returnContainer
  <2>2. IsSeq(stack) /\ n \in Nat \ {0} /\ n <= MaxDepth + 1
    BY <1>2, <2>1, SequencesAre DEF BuildOver
  <2>3. /\ IsSeq(outer) /\ Len(outer) = n - 1
        /\ \A i \in 1 .. Len(outer) : outer[i] = stack[i]
    BY <2>1, <2>2, SequenceShortened
  <2> HIDE DEF outer, n
  <2>4. \A i \in 1 .. Len(outer) : ActivationSound(L, outer[i], i)
    <3>1. \A i \in 1 .. Len(outer) : i \in 1 .. n
      BY <2>2, <2>3
    <3> QED BY <1>2, <2>3, <3>1 DEF BuildOver, n
  <2>5. Len(outer) <= MaxDepth + 1
    BY <2>2, <2>3, ReaderAssumption
  <2> QED BY <1>1, <1>2, <2>1, <2>3, <2>4, <2>5, GiveSound, BuiltKeeps
<1> QED BY <1>3, <1>4, <1>5

-----------------------------------------------------------------------------
(* The invariant.                                                          *)

LEMMA DecodeInitHolds == DecodeInit => DecodeInv
<1> SUFFICES ASSUME DecodeInit PROVE DecodeInv
  OBVIOUS
<1>1. AtStart
  BY DEF DecodeInit, Start, AtStart
<1>2. ReaderInv
  BY <1>1, StartHolds
<1>3. CallSound
  BY SourceAssumption DEF DecodeInit, Start, CallSound, Phases
<1> QED BY <1>2, <1>3 DEF DecodeInv, BuildSound, DecodeInit

LEMMA DecodeNextKeeps == DecodeInv /\ [DecodeNext]_dvars => DecodeInv'
<1> SUFFICES ASSUME DecodeInv, [DecodeNext]_dvars PROVE DecodeInv'
  OBVIOUS
<1>1. CASE CopySerializedInput
  BY <1>1, CopyKeeps
<1>2. CASE userWrites
  BY <1>2, UserWritesKeeps
<1>3. CASE decodeStep
  BY <1>3, DecodeStepKeeps
<1>4. CASE decoded
  BY <1>4, DecodedKeeps
<1>5. CASE buildRoot \/ buildChild \/ returnContainer
  BY <1>5, BuildStepKeeps
<1>6. CASE UNCHANGED dvars
  <2>1. ReaderInv'
    BY <1>6, StutterKeeps DEF DecodeInv, dvars
  <2>2. CallSound'
    BY <1>6 DEF DecodeInv, CallSound, dvars, rvars, jsVars, callVars
  <2>3. ASSUME phase' = "build" PROVE BuildSound'
    <3>1. phase = "build"
      BY <1>6, <2>3 DEF dvars, jsVars
    <3>2. PICK L : Strata(L) /\ BuildOver(L)
      BY <3>1 DEF DecodeInv, BuildSound
    <3>3. BuildOver(L)'
      BY <1>6, <3>2 DEF BuildOver, IsSeq, ActivationSound, dvars, rvars, jsVars
    <3>4. Strata(L)'
      BY <3>2 DEF Strata, Below, NodeOver, DataSound
    <3> QED BY <3>3, <3>4 DEF BuildSound
  <2> QED BY <2>1, <2>2, <2>3 DEF DecodeInv, BuildSound
<1> QED BY <1>1, <1>2, <1>3, <1>4, <1>5, <1>6 DEF DecodeNext, Call

(* A decoding call keeps its copy of the input, a sound Reader on it and   *)
(* sound activations of ToJavaScript().                                    *)
THEOREM DecodeInvariant == DecodeSpec => []DecodeInv
BY DecodeInitHolds, DecodeNextKeeps, PTL DEF DecodeSpec

(* In a decoding call every offset lies in the input and every open        *)
(* container has its type, whatever the bytes.                             *)
THEOREM DecodeTypeCorrect == DecodeSpec => []TypeOK
<1>1. DecodeInv => TypeOK
  BY InvariantImplies DEF DecodeInv
<1> QED BY <1>1, DecodeInvariant, PTL

(* No byte outside the copy reaches a value that read() returns.           *)
THEOREM NothingElseIsRead == DecodeSpec => []OnlyInputIsRead
<1>1. DecodeInv => OnlyInputIsRead
  BY InvariantImplies DEF DecodeInv
<1> QED BY <1>1, DecodeInvariant, PTL

(* No input drives the recursion of readValue() deeper than one activation *)
(* beyond kMaxNestingDepth, or makes it reserve more than its size.        *)
THEOREM OpenContainersAreSound == DecodeSpec => []FramesSound
<1>1. DecodeInv => FramesSound
  BY InvariantImplies DEF DecodeInv
<1> QED BY <1>1, DecodeInvariant, PTL

(* CopySerializedInput() copies: whatever is written to the buffer after   *)
(* the call, or if it is detached, the Reader sees what was handed over.   *)
THEOREM SnapshotIsKept == DecodeSpec => []InputIsSnapshot
<1>1. DecodeInv => InputIsSnapshot
  BY ViewIsSnapshot DEF DecodeInv, CallSound, InputIsSnapshot
<1> QED BY <1>1, DecodeInvariant, PTL

(* ToJavaScript() never throws on a tree that read() returned.             *)
THEOREM DecodableAlwaysBuilds == DecodeSpec => []DecodableIsBuildable
<1>1. DecodeInv => DecodableIsBuildable
  BY DEF DecodeInv, CallSound, DecodableIsBuildable
<1> QED BY <1>1, DecodeInvariant, PTL

-----------------------------------------------------------------------------
(* A message that is one number.                                           *)

LEMMA SmallRemainder ==
  ASSUME NEW S \in Nat \ {0}, NEW a \in 0 .. S - 1
  PROVE  a % S = a /\ (S + a) % S = a /\ (a - S) % S = a
OBVIOUS

(* ZigZag folds and unfolds without loss, and as shifts compute it.        *)
LEMMA ZigZagExact ==
  ASSUME NEW u \in U32
  PROVE  zigZag(unZigZag(u)) = u /\ ShiftedAndFolded(unZigZag(u)) = u
<1>1. u \in Nat /\ u < U32Size /\ U32Size \in Nat \ {0}
  BY SMT, Widths
<1>2. CASE u % 2 = 0
  <2>1. PICK h \in Nat : u = 2 * h
    BY <1>1, <1>2
  <2>2. unZigZag(u) = h
    BY <1>2, <2>1 DEF unZigZag
  <2>3. h % U32Size = h /\ (2 * h) % U32Size = 2 * h
    <3> DEFINE S == U32Size
    <3>1. S \in Nat \ {0} /\ h < S /\ 2 * h < S
      BY <1>1, <2>1
    <3> HIDE DEF S
    <3>2. h % S = h /\ (2 * h) % S = 2 * h
      BY <2>1, <3>1, SmallRemainder
    <3> QED BY <3>2 DEF S
  <2> QED BY <2>1, <2>2, <2>3 DEF zigZag, ShiftedAndFolded
<1>3. CASE u % 2 # 0
  <2>1. PICK h \in Nat \ {0} : u = 2 * h - 1
    <3>1. u = 2 * (u \div 2 + 1) - 1 /\ u \div 2 + 1 \in Nat \ {0}
      BY <1>1, <1>3
    <3> QED BY <3>1
  <2>2. unZigZag(u) = -h
    BY <1>3, <2>1 DEF unZigZag
  <2>3. (-h) % U32Size = U32Size - h
    <3> DEFINE S == U32Size
               a == S - h
    <3>1. S \in Nat \ {0} /\ a \in 0 .. S - 1 /\ -h = a - S
      BY <1>1, <2>1
    <3> HIDE DEF S, a
    <3>2. (a - S) % S = a
      BY <3>1, SmallRemainder
    <3> QED BY <3>1, <3>2 DEF S, a
  <2>4. (2 * (U32Size - h)) % U32Size = U32Size - 2 * h
    <3> DEFINE S == U32Size
               a == S - 2 * h
    <3>1. S \in Nat \ {0} /\ a \in 0 .. S - 1 /\ 2 * (S - h) = S + a
      BY <1>1, <2>1
    <3> HIDE DEF S, a
    <3>2. (S + a) % S = a
      BY <3>1, SmallRemainder
    <3> QED BY <3>1, <3>2 DEF S, a
  <2> QED BY <1>1, <2>1, <2>2, <2>3, <2>4
          DEF zigZag, ShiftedAndFolded, U32Max
<1> QED BY <1>2, <1>3

(* The two bytes of the header are read whatever the width is.             *)
LEMMA HeaderIsRead ==
  ASSUME input \in Seq(Byte), size >= 2, input[2] = FormatVersion
  PROVE  readVarint[1] = Parsed(FormatVersion, 2)
<1>1. size \in Nat /\ 1 \in 0 .. size
  BY AtType
<1>2. at(1) = FormatVersion
  BY <1>1 DEF at
<1>3. EndsAt(1, 1)
  BY <1>1, <1>2 DEF EndsAt, FormatVersion, GroupBase
<1>4. Carried(1, 1, FormatVersion)
  <2>1. weight[1] = 1 /\ 15 \div 1 = 15 /\ 15 % 128 = 15 /\ 1 + 1 - 1 = 1
    BY SMT, Widths
  <2> QED BY <1>2, <2>1 DEF Carried, FormatVersion, GroupBase
<1>5. 1 \in 1 .. MaxGroups /\ FormatVersion \in U32 /\ 1 + 1 = 2
  BY SMT, Widths, VersionAssumption
<1> QED BY <1>1, <1>3, <1>4, <1>5, ReadVarintExact

IsNumberMessage == IsRoot({Uint32Tag, Int32Tag})

(* The value that stands for the number r.                                 *)
Numbered(r) ==
  IF input[3] = Int32Tag THEN Leaf("int32", <<unZigZag(r.val)>>)
                         ELSE Leaf("uint32", <<r.val>>)

(* Where a Reader of a number is.                                          *)
RootNumber ==
  IsNumberMessage =>
    LET r == readVarint[3]
    IN \/ mode = "header" /\ pos = 0 /\ frames = <<>>
       \/ mode = "value" /\ pos = 2 /\ frames = <<>>
       \/ /\ mode = "returned" /\ frames = <<>> /\ r.ok
          /\ pos = r.next /\ value = Numbered(r)
       \/ mode = "done"
       \/ mode = "failed" /\ (r.ok => skipPadding[r.next] # size)

LEMMA NumberMessage ==
  ASSUME input \in Seq(Byte), IsNumberMessage
  PROVE  /\ size \in Nat /\ size >= 3 /\ 3 \in 0 .. size
         /\ input[1] = 255 /\ input[2] = FormatVersion
         /\ input[3] \in {Uint32Tag, Int32Tag}
         /\ at(0) = 255 /\ at(2) = input[3]
         /\ rest \in Seq(Byte) /\ Len(rest) = size - 3
         /\ \A i \in 1 .. Len(rest) : rest[i] = at(3 + i - 1)
<1>1. /\ size \in Nat /\ size >= 3 /\ SubSeq(input, 1, 2) = Header
      /\ input[3] \in {Uint32Tag, Int32Tag}
  BY AtType DEF IsNumberMessage, IsRoot
<1>2. \A i \in 1 .. size : input[i] \in Byte
  BY <1>1 DEF size
<1>3. SubSeq(input, 1, 2)[1] = input[1] /\ SubSeq(input, 1, 2)[2] = input[2]
  BY <1>1, <1>2, SubSeqProperties DEF size
<1>4. input[1] = 255 /\ input[2] = FormatVersion
  <2>1. Header[1] = 255 /\ Header[2] = FormatVersion
    BY DEF Header
  <2> QED BY <1>1, <1>3, <2>1, Zenon
<1>5. /\ rest \in Seq(Byte) /\ Len(rest) = size - 3
      /\ \A i \in 1 .. Len(rest) : rest[i] = input[3 + i]
  <2> DEFINE S == {input[i] : i \in 1 .. size}
  <2>1. \A i \in 4 .. size : input[i] \in Byte
    BY <1>1, <1>2
  <2>2. /\ SubSeq(input, 4, size) \in Seq(Byte)
        /\ Len(SubSeq(input, 4, size)) = IF 4 <= size THEN size - 4 + 1 ELSE 0
        /\ \A i \in 1 .. size - 4 + 1 :
             SubSeq(input, 4, size)[i] = input[4 + i - 1]
    BY <1>1, <2>1, SubSeqProperties DEF size
  <2> QED BY <1>1, <2>2 DEF rest
<1>6. \A i \in 1 .. Len(rest) : input[3 + i] = at(3 + i - 1)
  BY <1>1, <1>5 DEF at
<1>7. at(0) = 255 /\ at(2) = input[3]
  BY <1>1, <1>4 DEF at
<1> QED BY <1>1, <1>4, <1>5, <1>6, <1>7

LEMMA NumberStart ==
  ASSUME input \in Seq(Byte), IsNumberMessage, mode = "header", pos = 0,
         frames = <<>>, readHeader
  PROVE  mode' = "value" /\ pos' = 2 /\ frames' = <<>>
<1> DEFINE magic == readByte[0]
<1>1. magic = Parsed(255, 1)
  <2>1. 0 \in 0 .. size /\ 0 # size /\ at(0) = 255
    BY NumberMessage
  <2> QED BY <2>1 DEF readByte
<1>2. magic.val = 255 /\ magic.next = 1
  BY <1>1 DEF Parsed
<1>3. readVarint[1] = Parsed(FormatVersion, 2) /\ size >= 2
  BY NumberMessage, HeaderIsRead
<1>4. /\ readVarint[1].ok /\ readVarint[1].val = FormatVersion
      /\ readVarint[1].next = 2
  BY <1>3 DEF Parsed
<1>5. Continue(2, frames, "value")
  BY <1>2, <1>3, <1>4 DEF readHeader
<1> QED BY <1>5 DEF Continue

LEMMA NumberRead ==
  ASSUME input \in Seq(Byte), IsNumberMessage, mode = "value", pos = 2,
         frames = <<>>, readValue
  PROVE  LET r == readVarint[3]
         IN IF r.ok
            THEN /\ mode' = "returned" /\ frames' = <<>> /\ pos' = r.next
                 /\ value' = Numbered(r)
            ELSE mode' = "failed"
<1>1. readTag[pos] = Parsed(input[3], 3)
  <2>1. 2 \in 0 .. size - 1 /\ at(2) = input[3] /\ at(2) # Padding
    BY NumberMessage DEF Padding, Uint32Tag, Int32Tag
  <2> QED BY <2>1, NoPadding
<1>2. /\ readTag[pos].ok /\ readTag[pos].val = input[3] /\ behindTag = 3
  BY <1>1 DEF Parsed, behindTag
<1>3. input[3] \in {Uint32Tag, Int32Tag} /\ Len(frames) = 0
  BY NumberMessage
<1>4. ~tooDeepOrEnded
  BY <1>2, <1>3, ReaderAssumption DEF tooDeepOrEnded
<1>5. ~skipCountMarker /\ ~openObject
      /\ ~openArray(DenseTag, "dense") /\ ~openArray(SparseTag, "sparse")
  BY <1>2, <1>3 DEF skipCountMarker, openObject, openArray, TagIn, Uint32Tag,
       Int32Tag, CountMarkerTag, ObjectTag, DenseTag, SparseTag
<1>6. Attempt(readLeaf(input[3], 3))
  BY <1>2, <1>4, <1>5, Zenon DEF readValue, readLeafValue
<1>7. readLeaf(input[3], 3) = IF readVarint[3].ok
                              THEN Parsed(Numbered(readVarint[3]),
                                          readVarint[3].next)
                              ELSE Malformed
  <2>1. readLeaf(Int32Tag, 3) = readInt32(3)
    BY DEF readLeaf, UndefinedTag, NullTag, TrueTag, FalseTag, Int32Tag,
         Uint32Tag, DoubleTag, DateTag, Utf8Tag, OneByteTag, TwoByteTag,
         BufferTag, HostObjectTag
  <2>2. readLeaf(Uint32Tag, 3) = readUint32(3)
    BY DEF readLeaf, UndefinedTag, NullTag, TrueTag, FalseTag, Int32Tag,
         Uint32Tag, DoubleTag, DateTag, Utf8Tag, OneByteTag, TwoByteTag,
         BufferTag, HostObjectTag
  <2>3. Int32Tag # Uint32Tag
    BY DEF Int32Tag, Uint32Tag
  <2>4. CASE input[3] = Int32Tag
    BY <2>1, <2>4 DEF readInt32, Numbered
  <2>5. CASE input[3] = Uint32Tag
    BY <2>2, <2>3, <2>5 DEF readUint32, Numbered
  <2> QED BY <1>3, <2>4, <2>5
<1>8. CASE readVarint[3].ok
  BY <1>3, <1>6, <1>7, <1>8 DEF Attempt, Return, Parsed
<1>9. CASE ~readVarint[3].ok
  BY <1>6, <1>7, <1>9 DEF Attempt, Fail, Malformed
<1> QED BY <1>8, <1>9

LEMMA NumberKept ==
  ASSUME input \in Seq(Byte), RootNumber, Step
  PROVE  RootNumber'
<1> SUFFICES ASSUME IsNumberMessage' PROVE RootNumber'
  BY DEF RootNumber
<1> DEFINE r == readVarint[3]
<1>1. input' = input
  BY StepKeepsInput
<1>2. /\ IsNumberMessage /\ size' = size /\ r' = r
      /\ skipPadding' = skipPadding /\ Numbered(r)' = Numbered(r)
  <2>1. size' = size
    BY <1>1 DEF size
  <2>2. IsNumberMessage
    BY <1>1, <2>1 DEF IsNumberMessage, IsRoot
  <2>3. r' = r /\ skipPadding' = skipPadding
    BY <1>1, <2>1 DEF readVarint, skipPadding, at, TooWide
  <2> QED BY <1>1, <2>1, <2>2, <2>3 DEF Numbered
<1>3. CASE mode = "header" /\ pos = 0 /\ frames = <<>>
  <2>1. readHeader
    BY <1>3 DEF Step, readValue, tooDeepOrEnded, skipCountMarker, openObject,
         openArray, readLeafValue, TagIn, objectLoop, denseLoop, sparseLoop,
         AtLoop, readPropertyKey, readSparseIndex, readProperty, readElement,
         AtReturn, finish
  <2> QED BY <1>2, <1>3, <2>1, NumberStart DEF RootNumber
<1>4. CASE mode = "value" /\ pos = 2 /\ frames = <<>>
  <2>1. readValue
    BY <1>4 DEF Step, readHeader, objectLoop, denseLoop, sparseLoop,
         AtLoop, readPropertyKey, readSparseIndex, readProperty, readElement,
         AtReturn, finish
  <2>2. CASE r.ok
    BY <1>2, <1>4, <2>1, <2>2, NumberRead DEF RootNumber
  <2>3. CASE ~r.ok
    BY <1>2, <1>4, <2>1, <2>3, NumberRead DEF RootNumber
  <2> QED BY <2>2, <2>3
<1>5. CASE mode = "returned" /\ frames = <<>> /\ r.ok /\ pos = r.next
  <2>1. finish
    BY <1>5 DEF Step, readHeader, readValue, tooDeepOrEnded, skipCountMarker,
         openObject, openArray, readLeafValue, TagIn, objectLoop, denseLoop,
         sparseLoop, AtLoop, readPropertyKey, readSparseIndex, readProperty,
         readElement, AtReturn
  <2>2. CASE skipPadding[pos] = size
    BY <1>2, <2>1, <2>2 DEF finish, Continue, RootNumber
  <2>3. CASE skipPadding[pos] # size
    BY <1>2, <1>5, <2>1, <2>3 DEF finish, Fail, RootNumber
  <2> QED BY <2>2, <2>3
<1>6. CASE mode \in {"done", "failed"}
  BY <1>6 DEF Step, readHeader, readValue, tooDeepOrEnded, skipCountMarker,
       openObject, openArray, readLeafValue, TagIn, objectLoop, denseLoop,
       sparseLoop, AtLoop, readPropertyKey, readSparseIndex, readProperty,
       readElement, AtReturn, finish
<1> QED BY <1>2, <1>3, <1>4, <1>5, <1>6 DEF RootNumber

LEMMA NumberIsExact ==
  ASSUME input \in Seq(Byte), RootNumber
  PROVE  VarintIsExact
<1> SUFFICES ASSUME IsNumberMessage PROVE VarintIsExact
  BY DEF VarintIsExact, IsNumberMessage
<1> DEFINE r == readVarint[3]
           Ends(k) == k <= Len(rest) /\ IsNumber(rest, k)
<1>1. /\ size \in Nat /\ 3 \in 0 .. size /\ Len(rest) = size - 3
      /\ \A i \in 1 .. Len(rest) : rest[i] = at(3 + i - 1)
  BY NumberMessage
<1>2. \A k \in 1 .. MaxGroups : Ends(k) <=> EndsAt(3, k)
  <2> SUFFICES ASSUME NEW k \in 1 .. MaxGroups
               PROVE  Ends(k) <=> EndsAt(3, k)
    OBVIOUS
  <2>1. k \in Nat \ {0} /\ (k <= Len(rest) <=> k <= size - 3)
    BY <1>1, WidthAssumption
  <2>2. ASSUME k <= Len(rest)
        PROVE  \A j \in 1 .. k : rest[j] = at(3 + j - 1)
    BY <1>1, <2>1, <2>2
  <2>3. k \in 1 .. k /\ \A j \in 1 .. k - 1 : j \in 1 .. k
    BY <2>1
  <2>4. ASSUME k <= Len(rest) PROVE IsNumber(rest, k) <=> EndsAt(3, k)
    BY <2>1, <2>2, <2>3, <2>4 DEF IsNumber, EndsAt, GroupBase
  <2> QED BY <2>1, <2>4 DEF EndsAt
<1>3. ASSUME NEW k \in 1 .. MaxGroups, Ends(k), NEW n
      PROVE  Means(rest, k, n) <=> Carried(3, k, n)
  <2>1. \A j \in 1 .. 5 : worth[j] = weight[j]
    BY SMT, Widths DEF worth
  <2>2. /\ k \in 1 .. 5
        /\ \A j \in 1 .. k : j \in 1 .. 5 /\ rest[j] = at(3 + j - 1)
    BY SMT, <1>1, <1>3, Widths
  <2>3. \A j \in 1 .. k : worth[j] = weight[j]
    BY <2>1, <2>2
  <2>4. k \in 1 .. k
    BY <2>2
  <2>5. worth[k] = weight[k]
    BY <2>3, <2>4
  <2> QED BY <2>2, <2>3, <2>5 DEF Means, Carried, GroupBase
<1>4. ASSUME mode = "returned", frames = <<>>
      PROVE  \E k \in 1 .. MaxGroups :
               /\ pos = 3 + k /\ Ends(k)
               /\ OnTheWire(value) \in U32 /\ Means(rest, k, OnTheWire(value))
  <2>1. r.ok /\ pos = r.next /\ value = Numbered(r)
    BY <1>4 DEF RootNumber
  <2>2. PICK k \in 1 .. MaxGroups :
          /\ r.next = 3 + k /\ EndsAt(3, k)
          /\ r.val \in U32 /\ Carried(3, k, r.val)
    BY <1>1, <2>1, ReadVarintExact
  <2>3. OnTheWire(value) = r.val
    BY <2>1, <2>2, ZigZagExact DEF OnTheWire, Numbered, Leaf
  <2> QED BY <1>2, <1>3, <2>1, <2>2, <2>3
<1>5. ASSUME mode = "failed", NEW k \in 1 .. MaxGroups, Ends(k),
             NEW n \in U32, Means(rest, k, n),
             \A i \in k + 1 .. Len(rest) : rest[i] = Padding
      PROVE  FALSE
  <2>1. r = Parsed(n, 3 + k)
    BY <1>1, <1>2, <1>3, <1>5, ReadVarintExact
  <2>2. skipPadding[3 + k] # size
    BY <1>5, <2>1 DEF RootNumber, Parsed
  <2>3. 3 + k \in 0 .. size /\ \A q \in 3 + k .. size - 1 : at(q) = Padding
    <3>1. ASSUME NEW q \in 3 + k .. size - 1 PROVE at(q) = Padding
      <4>1. q - 2 \in k + 1 .. Len(rest) /\ q - 2 \in 1 .. Len(rest)
            /\ 3 + (q - 2) - 1 = q
        BY SMT, <1>1, <1>5, <3>1, Widths
      <4> QED BY <1>1, <1>5, <4>1
    <3> QED BY SMT, <1>1, <1>5, <3>1, Widths
  <2> QED BY <2>2, <2>3, AllPadding
<1> QED BY <1>4, <1>5 DEF VarintIsExact, RootReturned

LEMMA QuotientOfWeight ==
  ASSUME NEW n \in Nat, NEW i \in 1 .. 5
  PROVE  /\ n \div weight[i] \in Nat
         /\ n >= weight[i] => n \div weight[i] # 0
<1>1. weight[i] \in Nat \ {0}
  BY SMT DEF weight
<1> QED BY <1>1

LEMMA NumberIsWritten ==
  ASSUME input \in Seq(Byte), RootNumber
  PROVE  NumbersAreWritten
<1> SUFFICES ASSUME IsNumberMessage, mode = "returned", frames = <<>>
             PROVE  NumbersAreWritten
  BY DEF NumbersAreWritten, IsNumberMessage, RootReturned
<1> DEFINE r == readVarint[3]
           n == IF value.type = "int32" THEN zigZag(value.data[1])
                                        ELSE value.data[1]
           written == varint(n)
           last == Len(written)
<1>1. r.ok /\ value = Numbered(r) /\ 3 \in 0 .. size
  BY NumberMessage DEF RootNumber
<1>2. r.val \in U32
  BY <1>1, ReadVarintExact
<1>3. n = r.val /\ OnTheWire(value) = r.val
  BY <1>1, <1>2, ZigZagExact DEF OnTheWire, Numbered, Leaf
<1> HIDE DEF n
<1>4. n \in U32 /\ n \in Nat
  BY SMT, <1>2, <1>3, Widths
<1>5. /\ varintSize(n) \in 1 .. MaxGroups
      /\ n \div weight[varintSize(n)] < 128
      /\ varintSize(n) # 1 => n >= weight[varintSize(n)]
  BY <1>4, VarintSizeExact
<1>5a. written = [i \in 1 .. varintSize(n) |->
                    ((n \div weight[i]) % GroupBase)
                      + (IF i < varintSize(n) THEN GroupBase ELSE 0)]
  BY <1>4, VarintWritten
<1>6. /\ last = varintSize(n)
      /\ \A i \in 1 .. last :
           written[i] = ((n \div weight[i]) % 128)
                          + (IF i < last THEN 128 ELSE 0)
  BY SMT, <1>5, <1>5a, Widths DEF GroupBase
<1> HIDE DEF written
<1>7. last \in 1 .. MaxGroups /\ n \div weight[last] < 128
      /\ (last # 1 => n >= weight[last])
  BY <1>5, <1>6
<1> HIDE DEF last
<1>8. ASSUME NEW i \in 1 .. last
      PROVE  /\ (n \div weight[i]) % 128 \in 0 .. 127
             /\ written[i] % 128 = (n \div weight[i]) % 128
             /\ i < last => written[i] >= 128
             /\ i = last => written[i] = n \div weight[last]
  <2> DEFINE q == n \div weight[i]
  <2>1. q \in Nat
    <3>1. i \in 1 .. 5
      BY <1>7, WidthAssumption
    <3> QED BY <1>4, <3>1, QuotientOfWeight
  <2>2. written[i] = (q % 128) + (IF i < last THEN 128 ELSE 0)
    BY <1>6 DEF last
  <2>3. i = last => q < 128
    BY <1>7
  <2>4. i = last => q = n \div weight[last]
    OBVIOUS
  <2> HIDE DEF q
  <2>5. /\ q % 128 \in 0 .. 127 /\ written[i] % 128 = q % 128
        /\ i < last => written[i] >= 128
        /\ i = last => written[i] = q
    BY <1>7, <2>1, <2>2, <2>3, WidthAssumption
  <2> QED BY <2>4, <2>5 DEF q
<1>9. IsNumber(written, last)
  BY SMT, <1>7, <1>8, Widths DEF IsNumber
<1>10. Means(written, last, n)
  <2>1. \A j \in 1 .. 5 : worth[j] = weight[j]
    BY SMT, Widths DEF worth
  <2>2. last \in 1 .. 5
    BY SMT, <1>7, Widths
  <2> QED BY <1>7, <1>8, <2>1, <2>2 DEF Means
<1>11. last = 1 \/ written[last] # 0
  <2>1. last \in 1 .. 5 /\ last \in 1 .. last
    BY <1>7, WidthAssumption
  <2>2. written[last] = n \div weight[last]
    BY <1>8, <2>1
  <2> QED BY <1>4, <1>7, <2>1, <2>2, QuotientOfWeight
<1> QED BY <1>3, <1>6, <1>9, <1>10, <1>11
       DEF NumbersAreWritten, n, written, last

LEMMA NumberNextKeeps ==
  DecodeInv /\ RootNumber /\ [DecodeNext]_dvars => RootNumber'
<1> SUFFICES ASSUME DecodeInv, RootNumber, [DecodeNext]_dvars
             PROVE  RootNumber'
  OBVIOUS
<1>1. PICK L : Strata(L) /\ ReaderOver(L)
  BY DEF DecodeInv, ReaderInv
<1>2. CASE UNCHANGED rvars
  <2>1. /\ IsNumberMessage' = IsNumberMessage /\ size' = size
        /\ readVarint' = readVarint /\ skipPadding' = skipPadding
        /\ Numbered(readVarint[3])' = Numbered(readVarint[3])
    <3>1. input' = input
      BY <1>2 DEF rvars
    <3>2. size' = size
      BY <3>1 DEF size
    <3>3. IsNumberMessage' = IsNumberMessage
      BY <3>1, <3>2 DEF IsNumberMessage, IsRoot
    <3>4. readVarint' = readVarint /\ skipPadding' = skipPadding
      BY <3>1, <3>2 DEF readVarint, skipPadding, at, TooWide
    <3> QED BY <3>1, <3>2, <3>3, <3>4 DEF Numbered
  <2> QED BY <1>2, <2>1 DEF rvars, RootNumber
<1>3. CASE decodeStep
  BY <1>1, <1>3, NumberKept DEF decodeStep, ReaderOver
<1>4. CASE CopySerializedInput
  <2>1. mode = "header" /\ UNCHANGED <<pos, frames, mode, value>>
    BY <1>4 DEF CopySerializedInput, DecodeInv, CallSound
  <2>2. pos = 0 /\ frames = <<>>
    BY <1>1, <2>1 DEF ReaderOver
  <2> QED BY <2>1, <2>2 DEF RootNumber
<1>5. CASE decoded \/ buildRoot \/ buildChild \/ returnContainer \/ userWrites
  BY <1>2, <1>5 DEF decoded, buildRoot, buildChild, returnContainer, userWrites
<1>6. CASE UNCHANGED dvars
  BY <1>2, <1>6 DEF dvars
<1> QED BY <1>3, <1>4, <1>5, <1>6 DEF DecodeNext, Call

LEMMA NumbersInvariant == DecodeSpec => [](DecodeInv /\ RootNumber)
<1>1. DecodeInit => RootNumber
  BY DEF DecodeInit, Start, RootNumber
<1> QED BY <1>1, DecodeInitHolds, DecodeNextKeeps, NumberNextKeeps, PTL
        DEF DecodeSpec

LEMMA DecodeInputType == DecodeInv => input \in Seq(Byte)
BY DEF DecodeInv, ReaderInv, ReaderOver

(* readVarint() accepts a number exactly if it fits a uint32, whatever the *)
(* width, reads no further than it, and unfolds the sign.                  *)
THEOREM NumbersAreExact == DecodeSpec => []VarintIsExact
<1>1. DecodeInv /\ RootNumber => VarintIsExact
  BY DecodeInputType, NumberIsExact
<1> QED BY <1>1, NumbersInvariant, PTL

(* The Writer writes every number back that a Reader can read, in the      *)
(* shortest form there is.                                                 *)
THEOREM NumbersWrittenBack == DecodeSpec => []NumbersAreWritten
<1>1. DecodeInv /\ RootNumber => NumbersAreWritten
  BY DecodeInputType, NumberIsWritten
<1> QED BY <1>1, NumbersInvariant, PTL
=============================================================================
