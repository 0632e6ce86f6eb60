---------------------------- MODULE Latin1Proofs ----------------------------
(***************************************************************************)
(* The block loops of simd.hpp compute what single-unit loops compute, for *)
(* every vector width, every string and each of the three builds.          *)
(***************************************************************************)
EXTENDS Latin1, TLAPS

(* The inductive invariant: what is known of the units and the buffers at  *)
(* the head of each loop.                                                  *)
Scanned ==
  /\ routine = "allLatin1" =>
       \A i \in Offsets(index) : given[i].high = {}
  /\ routine \in {"narrowLatin1", "widenLatin1"} => latin1

Buffers ==
  /\ routine = "allLatin1" => bytes = <<>> /\ units = <<>>
  /\ routine = "narrowLatin1" => bytes = LowBytes /\ units = <<>>
  /\ routine = "widenLatin1" =>
       /\ bytes = [i \in Offsets(size) |-> given[i].low]
       /\ units = PassedUnits
  /\ routine = "returned" /\ latin1 => units = given

LoopInvariant == TypeOK /\ ScanIsExact /\ Scanned /\ Buffers

-----------------------------------------------------------------------------
(* An iteration stays inside the string and moves forward.                 *)
LEMMA RunFits ==
  ASSUME TypeOK, NEW w, Runs(w)
  PROVE  /\ w \in Nat \ {0}
         /\ w \in {1, Lanes, 2 * Lanes, 4 * Lanes}
         /\ index \in Nat /\ size \in Nat
         /\ index + w \in 0 .. size
  BY LanesAssumption DEF TypeOK, Runs, Widths

(* An offset of a block is a lane of one of its vectors.                   *)
LEMMA LaneOfOffset ==
  ASSUME NEW m \in {1, 2, 4}, NEW d \in 0 .. m * Lanes - 1
  PROVE  \E l \in Offsets(Lanes), k \in Offsets(m) : d = l + k * Lanes
  <1>1. CASE d < Lanes
    <2>1. 0 \in Offsets(m) /\ d \in Offsets(Lanes) /\ d = d + 0 * Lanes
      BY <1>1, LanesAssumption DEF Offsets
    <2>2. QED BY <2>1
  <1>2. CASE Lanes <= d /\ d < 2 * Lanes
    <2>1. /\ 1 \in Offsets(m) /\ d - Lanes \in Offsets(Lanes)
          /\ d = (d - Lanes) + 1 * Lanes
      BY <1>2, LanesAssumption DEF Offsets
    <2>2. QED BY <2>1
  <1>3. CASE 2 * Lanes <= d /\ d < 3 * Lanes
    <2>1. /\ 2 \in Offsets(m) /\ d - 2 * Lanes \in Offsets(Lanes)
          /\ d = (d - 2 * Lanes) + 2 * Lanes
      BY <1>3, LanesAssumption DEF Offsets
    <2>2. QED BY <2>1
  <1>4. CASE 3 * Lanes <= d
    <2>1. /\ 3 \in Offsets(m) /\ d - 3 * Lanes \in Offsets(Lanes)
          /\ d = (d - 3 * Lanes) + 3 * Lanes
      BY <1>4, LanesAssumption DEF Offsets
    <2>2. QED BY <2>1
  <1>5. QED BY <1>1, <1>2, <1>3, <1>4, LanesAssumption

(* And a lane of a vector is an offset of its block.                       *)
LEMMA OffsetOfLane ==
  ASSUME NEW m \in {1, 2, 4}, NEW l \in Offsets(Lanes), NEW k \in Offsets(m)
  PROVE  l + k * Lanes \in 0 .. m * Lanes - 1
  <1>1. k \in {0, 1, 2, 3} BY DEF Offsets
  <1>2. QED BY <1>1, LanesAssumption DEF Offsets

(* The lane-wise union of the vectors of a block has a bit set in some     *)
(* lane exactly if a unit of the block has a bit set.                      *)
LEMMA FoldedSeesAll ==
  ASSUME TypeOK, NEW w, Runs(w)
  PROVE  (\E l \in DOMAIN folded(w) : folded(w)[l] # {})
           <=> \E i \in Block(w) : given[i].high # {}
  <1>1. CASE w = 1
    <2>1. w \div w = 1 /\ w < Lanes BY <1>1, LanesAssumption
    <2>2. folded(w) = [l \in {0} |->
                         UNION {given[index + l + k * 1].high : k \in {0}}]
      BY <1>1, <2>1 DEF folded, Offsets
    <2>3. Block(w) = {index} /\ index + 0 + 0 * 1 = index
      BY <1>1, RunFits DEF Block
    <2>4. (\E l \in DOMAIN folded(w) : folded(w)[l] # {})
            <=> given[index].high # {}
      BY <2>2, <2>3
    <2>5. QED BY <2>3, <2>4
  <1>2. ASSUME NEW m \in {1, 2, 4}, w = m * Lanes
        PROVE  (\E l \in DOMAIN folded(w) : folded(w)[l] # {})
                 <=> \E i \in Block(w) : given[i].high # {}
    <2>1. w \div Lanes = m /\ ~(w < Lanes) BY <1>2, LanesAssumption
    <2>2. folded(w) = [l \in Offsets(Lanes) |->
                         UNION {given[index + l + k * Lanes].high :
                                  k \in Offsets(m)}]
      BY <2>1 DEF folded
    <2>3. ASSUME NEW l \in DOMAIN folded(w), folded(w)[l] # {}
          PROVE  \E i \in Block(w) : given[i].high # {}
      <3>1. PICK k \in Offsets(m) : given[index + l + k * Lanes].high # {}
        BY <2>2, <2>3
      <3>2. l + k * Lanes \in 0 .. m * Lanes - 1
        BY <2>2, <2>3, OffsetOfLane
      <3>3. index + l + k * Lanes \in Block(w)
        <4>1. l \in Int /\ k \in Int /\ index \in Int
          BY <2>2, <2>3, RunFits, LanesAssumption DEF Offsets
        <4>2. k * Lanes \in Int
          BY <4>1, LanesAssumption
        <4>3. PICK z \in Int : z = k * Lanes
          BY <4>2
        <4>4. index + l + z \in index .. index + w - 1
          BY <1>2, <3>2, <4>1, <4>3, LanesAssumption
        <4>5. QED BY <4>3, <4>4 DEF Block
      <3>4. QED BY <3>1, <3>3
    <2>4. ASSUME NEW i \in Block(w), given[i].high # {}
          PROVE  \E l \in DOMAIN folded(w) : folded(w)[l] # {}
      <3>1. i - index \in 0 .. m * Lanes - 1
        BY <2>4, <1>2, RunFits DEF Block
      <3>2. PICK l \in Offsets(Lanes), k \in Offsets(m) :
              i - index = l + k * Lanes
        BY <3>1, LaneOfOffset
      <3>3. i = index + l + k * Lanes
        BY <3>2, <2>4, RunFits, LanesAssumption DEF Block, Offsets
      <3>4. given[i].high \subseteq folded(w)[l]
        BY <3>3, <2>2
      <3>5. QED BY <3>4, <2>4, <2>2
    <2>5. QED BY <2>3, <2>4
  <1>3. QED BY <1>1, <1>2, RunFits, LanesAssumption

-----------------------------------------------------------------------------
LEMMA InitHolds == Init => LoopInvariant
  <1> SUFFICES ASSUME Init PROVE LoopInvariant
    OBVIOUS
  <1>1. TypeOK
    <2>1. PICK s \in Strings : given = s.data /\ size = s.size BY DEF Init
    <2>2. size \in Nat /\ given \in [Offsets(size) -> Unit]
      BY <2>1, StringsAssumption
    <2>3. index \in 0 .. size BY <2>2 DEF Init
    <2>4. QED BY <2>2, <2>3 DEF Init, TypeOK
  <1>2. ScanIsExact BY DEF Init, ScanIsExact
  <1>3. Scanned BY DEF Init, Scanned, Offsets
  <1>4. Buffers BY DEF Init, Buffers
  <1>5. QED BY <1>1, <1>2, <1>3, <1>4 DEF LoopInvariant

(* A unit of a block is a unit of the string, and the units passed after   *)
(* the block are those passed before it and the block's.                   *)
LEMMA BlockExtends ==
  ASSUME TypeOK, NEW w, Runs(w)
  PROVE  /\ Block(w) \subseteq Offsets(size)
         /\ Offsets(index + w) = Offsets(index) \cup Block(w)
         /\ \A i \in Offsets(index) : i \notin Block(w)
  BY RunFits DEF Block, Offsets

LEMMA ScanStep ==
  ASSUME LoopInvariant, NEW w, scan(w)
  PROVE  LoopInvariant'
  <1> USE DEF LoopInvariant
  <1>1. routine = "allLatin1" /\ Runs(w) /\ bytes = <<>> /\ units = <<>>
    BY DEF scan, Buffers
  <1>2. CASE \E l \in DOMAIN folded(w) : folded(w)[l] # {}
    <2>1. PICK i \in Block(w) : given[i].high # {}
      BY <1>1, <1>2, FoldedSeesAll
    <2>2. ~AllUnitsLatin1
      BY <1>1, <2>1, BlockExtends DEF AllUnitsLatin1
    <2>3. /\ latin1' = FALSE /\ routine' = "returned" /\ index' = 0
          /\ UNCHANGED <<build, size, given, bytes, units>>
      BY <1>2 DEF scan, Start
    <2>4. TypeOK'
      <3>1. size \in Nat /\ 0 \in 0 .. size BY DEF TypeOK
      <3>2. QED BY <2>3, <3>1 DEF TypeOK
    <2>5. ScanIsExact' BY <2>2, <2>3 DEF ScanIsExact, AllUnitsLatin1
    <2>6. Scanned' /\ Buffers' BY <2>3 DEF Scanned, Buffers
    <2>7. QED BY <2>4, <2>5, <2>6
  <1>3. CASE ~(\E l \in DOMAIN folded(w) : folded(w)[l] # {})
    <2>1. \A i \in Block(w) : given[i].high = {}
      BY <1>1, <1>3, FoldedSeesAll
    <2>2. /\ index' = index + w
          /\ UNCHANGED <<build, size, given, routine, latin1, bytes, units>>
      BY <1>3 DEF scan, advanced
    <2>3. TypeOK' BY <1>1, <2>2, RunFits DEF TypeOK
    <2>4. ScanIsExact' BY <1>1, <2>2 DEF ScanIsExact
    <2>5. Scanned'
      BY <1>1, <2>1, <2>2, BlockExtends DEF Scanned
    <2>6. Buffers' BY <1>1, <2>2 DEF Buffers
    <2>7. QED BY <2>3, <2>4, <2>5, <2>6
  <1>4. QED BY <1>2, <1>3

LEMMA EndScanStep ==
  ASSUME LoopInvariant, endScan
  PROVE  LoopInvariant'
  <1> USE DEF LoopInvariant
  <1>1. /\ routine' = "narrowLatin1" /\ index' = 0 /\ latin1' = TRUE
        /\ UNCHANGED <<build, size, given, bytes, units>>
        /\ routine = "allLatin1" /\ index >= size
    BY DEF endScan, Start
  <1>2. index = size BY <1>1 DEF TypeOK
  <1>3. AllUnitsLatin1 BY <1>1, <1>2 DEF Scanned, AllUnitsLatin1
  <1>4. TypeOK' BY <1>1 DEF TypeOK
  <1>5. ScanIsExact' BY <1>1, <1>3 DEF ScanIsExact, AllUnitsLatin1
  <1>6. Scanned' BY <1>1 DEF Scanned
  <1>7. Offsets(0) = {} BY DEF Offsets
  <1>8. Buffers' BY <1>1, <1>7 DEF Buffers, LowBytes
  <1>9. QED BY <1>4, <1>5, <1>6, <1>8

LEMMA NarrowStep ==
  ASSUME LoopInvariant, NEW w, narrow(w)
  PROVE  LoopInvariant'
  <1> USE DEF LoopInvariant
  <1>1. /\ routine = "narrowLatin1" /\ Runs(w) /\ latin1
        /\ bytes = LowBytes /\ units = <<>>
        /\ index' = index + w
        /\ UNCHANGED <<build, size, given, routine, latin1, units>>
    BY DEF narrow, Buffers, Scanned, advanced
  <1>2. \A i \in Block(w) : narrowed(given[i], w) = given[i].low
    BY <1>1, BlockExtends DEF narrowed, ScanIsExact, AllUnitsLatin1
  <1>3. bytes' = Store(bytes, [i \in Block(w) |-> given[i].low])
    BY <1>2 DEF narrow, stored
  <1>4. bytes' = LowBytes'
    BY <1>1, <1>3, BlockExtends DEF Store, LowBytes
  <1>5. TypeOK' BY <1>1, RunFits DEF TypeOK
  <1>6. ScanIsExact' /\ Scanned'
    BY <1>1 DEF ScanIsExact, Scanned, AllUnitsLatin1
  <1>7. Buffers' BY <1>1, <1>4 DEF Buffers
  <1>8. QED BY <1>5, <1>6, <1>7

LEMMA EndNarrowStep ==
  ASSUME LoopInvariant, endNarrow
  PROVE  LoopInvariant'
  <1> USE DEF LoopInvariant
  <1>1. /\ routine' = "widenLatin1" /\ index' = 0
        /\ UNCHANGED <<build, size, given, latin1, bytes, units>>
        /\ routine = "narrowLatin1" /\ index >= size
    BY DEF endNarrow, Start
  <1>2. index = size BY <1>1 DEF TypeOK
  <1>3. TypeOK' BY <1>1 DEF TypeOK
  <1>4. ScanIsExact' /\ Scanned'
    BY <1>1 DEF ScanIsExact, Scanned, AllUnitsLatin1
  <1>5. Offsets(0) = {} BY DEF Offsets
  <1>6. Buffers' BY <1>1, <1>2, <1>5 DEF Buffers, LowBytes, PassedUnits
  <1>7. QED BY <1>3, <1>4, <1>6

LEMMA WidenStep ==
  ASSUME LoopInvariant, NEW w, widen(w)
  PROVE  LoopInvariant'
  <1> USE DEF LoopInvariant
  <1>1. /\ routine = "widenLatin1" /\ Runs(w) /\ latin1
        /\ bytes = [i \in Offsets(size) |-> given[i].low]
        /\ units = PassedUnits
        /\ index' = index + w
        /\ UNCHANGED <<build, size, given, routine, latin1, bytes>>
    BY DEF widen, Buffers, Scanned, advanced
  <1>2. \A i \in Block(w) : [high |-> {}, low |-> bytes[i]] = given[i]
    <2>1. TAKE i \in Block(w)
    <2>2. i \in Offsets(size) BY <1>1, BlockExtends
    <2>3. given[i].high = {} /\ bytes[i] = given[i].low
      BY <1>1, <2>2 DEF ScanIsExact, AllUnitsLatin1
    <2>4. given[i] \in Unit BY <2>2 DEF TypeOK
    <2>5. QED BY <2>3, <2>4 DEF Unit
  <1>3. units' = Store(units, [i \in Block(w) |-> given[i]])
    BY <1>2 DEF widen
  <1>4. units' = PassedUnits'
    BY <1>1, <1>3, BlockExtends DEF Store, PassedUnits
  <1>5. TypeOK' BY <1>1, RunFits DEF TypeOK
  <1>6. ScanIsExact' /\ Scanned'
    BY <1>1 DEF ScanIsExact, Scanned, AllUnitsLatin1
  <1>7. Buffers' BY <1>1, <1>4 DEF Buffers
  <1>8. QED BY <1>5, <1>6, <1>7

LEMMA EndWidenStep ==
  ASSUME LoopInvariant, endWiden
  PROVE  LoopInvariant'
  <1> USE DEF LoopInvariant
  <1>1. /\ routine' = "returned" /\ index' = 0
        /\ UNCHANGED <<build, size, given, latin1, bytes, units>>
        /\ routine = "widenLatin1" /\ index >= size /\ latin1
    BY DEF endWiden, Start, Scanned
  <1>2. index = size BY <1>1 DEF TypeOK
  <1>3. units = given BY <1>1, <1>2 DEF Buffers, PassedUnits, TypeOK
  <1>4. TypeOK' BY <1>1 DEF TypeOK
  <1>5. ScanIsExact' /\ Scanned'
    BY <1>1 DEF ScanIsExact, Scanned, AllUnitsLatin1
  <1>6. Buffers' BY <1>1, <1>3 DEF Buffers
  <1>7. QED BY <1>4, <1>5, <1>6

LEMMA StepHolds == LoopInvariant /\ [Next]_vars => LoopInvariant'
  <1> SUFFICES ASSUME LoopInvariant, [Next]_vars PROVE LoopInvariant'
    OBVIOUS
  <1>1. ASSUME NEW w \in Widths, scan(w) \/ narrow(w) \/ widen(w)
        PROVE  LoopInvariant'
    BY <1>1, ScanStep, NarrowStep, WidenStep
  <1>2. CASE endScan \/ endNarrow \/ endWiden
    BY <1>2, EndScanStep, EndNarrowStep, EndWidenStep
  <1>3. CASE UNCHANGED vars
    BY <1>3 DEF vars, LoopInvariant, TypeOK, ScanIsExact, Scanned, Buffers,
                AllUnitsLatin1, LowBytes, PassedUnits
  <1>4. QED BY <1>1, <1>2, <1>3 DEF Next

(* The loops of simd.hpp never run past the end of the string.             *)
THEOREM StaysInside == Spec => []TypeOK
  <1>1. LoopInvariant => TypeOK BY DEF LoopInvariant
  <1>2. QED BY <1>1, InitHolds, StepHolds, PTL DEF Spec

(* allLatin1() answers for the string what a look at each unit answers,    *)
(* whatever the widths of its blocks.                                      *)
THEOREM ScanAlwaysExact == Spec => []ScanIsExact
  <1>1. LoopInvariant => ScanIsExact BY DEF LoopInvariant
  <1>2. QED BY <1>1, InitHolds, StepHolds, PTL DEF Spec

(* narrowLatin1() and widenLatin1() write each unit once, in its place and *)
(* nothing else, and together give back the string.                        *)
THEOREM OutputAlwaysPrefix == Spec => []OutputIsPrefix
  <1>1. LoopInvariant => OutputIsPrefix
    BY DEF LoopInvariant, Buffers, OutputIsPrefix
  <1>2. QED BY <1>1, InitHolds, StepHolds, PTL DEF Spec
=============================================================================
