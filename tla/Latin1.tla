------------------------------- MODULE Latin1 -------------------------------
(***************************************************************************)
(* The block loops of detail/simd.hpp in the order a string meets them:    *)
(* the Writer scans with allLatin1() and, if it may, narrows with          *)
(* narrowLatin1(); the Reader widens the bytes with widenLatin1().  A step *)
(* is one iteration of one loop.  A code unit is the set of bits set in    *)
(* its high byte, and its low byte, so that a vector OR is a union.        *)
(* Applying a buffer outside its offsets has no value: the checker stops.  *)
(***************************************************************************)
EXTENDS Integers

CONSTANTS Lanes,   \* code units in a vector register: 8 in the code
          Strings  \* the inputs: a size and the units at 0 .. size - 1

Byte == 0 .. 255
Unit == [high : SUBSET (8 .. 15), low : Byte]
Offsets(n) == 0 .. n - 1

ASSUME LanesAssumption == Lanes \in Nat /\ Lanes >= 2
ASSUME StringsAssumption ==
  \A s \in Strings : s.size \in Nat /\ s.data \in [Offsets(s.size) -> Unit]

VARIABLES
  build,    \* which of the three versions was compiled
  size,     \* the number of code units
  given,    \* the code units
  routine,  \* the routine that is running
  index,    \* its loop variable
  latin1,   \* what allLatin1() returned
  bytes,    \* what narrowLatin1() has written
  units     \* what widenLatin1() has written

vars == <<build, size, given, routine, index, latin1, bytes, units>>

-----------------------------------------------------------------------------
(* The loops of a routine, by the units an iteration takes.                *)
Widths ==
  IF build = "scalar" THEN {1}
  ELSE {(IF build = "NEON" \/ routine = "allLatin1" THEN 4 ELSE 2) * Lanes,
        Lanes, 1}

(* The loop that runs is the widest one that still fits.                   *)
Runs(w) ==
  /\ w \in Widths /\ index + w <= size
  /\ \A v \in Widths : v > w => index + v > size

(* Mutant: the second loop advances like the first.                        *)
advancedByWidest(w) == index + (IF w = Lanes THEN 2 * Lanes ELSE w)
advanced(w) == index + w

(* Mutant: the last vector of a block is not folded in.                    *)
foldedShort(w) ==
  LET lanes == IF w < Lanes THEN w ELSE Lanes
  IN [l \in Offsets(lanes) |->
        UNION {given[index + l + k * lanes].high :
                 k \in Offsets(IF w > Lanes THEN 3 ELSE 1)}]

(* The vectors of a block, ORed lane by lane.                              *)
folded(w) ==
  LET lanes == IF w < Lanes THEN w ELSE Lanes
  IN [l \in Offsets(lanes) |->
        UNION {given[index + l + k * lanes].high : k \in Offsets(w \div lanes)}]

(* _mm_packus_epi16 takes a unit for a signed number and saturates; the    *)
(* other versions drop the high byte.                                      *)
narrowed(unit, w) ==
  IF build # "SSE2" \/ w = 1 THEN unit.low
  ELSE IF 15 \in unit.high THEN 0
  ELSE IF unit.high # {} THEN 255 ELSE unit.low

(* Mutant: the second loop stores the whole register, zeros included.      *)
storedWhole(w) == IF w = Lanes THEN 2 * Lanes ELSE w
stored(w) == w

(* A store of the values at their offsets.                                 *)
Store(buffer, values) ==
  [i \in DOMAIN buffer \cup DOMAIN values |->
     IF i \in DOMAIN values THEN values[i] ELSE buffer[i]]

Block(n) == index .. index + n - 1

-----------------------------------------------------------------------------
Start(next) == routine' = next /\ index' = 0

scan(w) ==
  /\ routine = "allLatin1" /\ Runs(w)
  /\ IF \E l \in DOMAIN folded(w) : folded(w)[l] # {}
     THEN latin1' = FALSE /\ Start("returned")
     ELSE index' = advanced(w) /\ UNCHANGED <<routine, latin1>>
  /\ UNCHANGED <<build, size, given, bytes, units>>

endScan ==
  /\ routine = "allLatin1" /\ index >= size
  /\ latin1' = TRUE /\ Start("narrowLatin1")
  /\ UNCHANGED <<build, size, given, bytes, units>>

narrow(w) ==
  /\ routine = "narrowLatin1" /\ Runs(w)
  /\ bytes' = Store(bytes, [i \in Block(stored(w)) |->
                      IF i \in Block(w) THEN narrowed(given[i], w) ELSE 0])
  /\ index' = advanced(w)
  /\ UNCHANGED <<build, size, given, routine, latin1, units>>

endNarrow ==
  /\ routine = "narrowLatin1" /\ index >= size
  /\ Start("widenLatin1")
  /\ UNCHANGED <<build, size, given, latin1, bytes, units>>

widen(w) ==
  /\ routine = "widenLatin1" /\ Runs(w)
  /\ units' = Store(units, [i \in Block(w) |->
                               [high |-> {}, low |-> bytes[i]]])
  /\ index' = advanced(w)
  /\ UNCHANGED <<build, size, given, routine, latin1, bytes>>

endWiden ==
  /\ routine = "widenLatin1" /\ index >= size
  /\ Start("returned")
  /\ UNCHANGED <<build, size, given, latin1, bytes, units>>

Init ==
  /\ build \in {"NEON", "SSE2", "scalar"}
  /\ \E s \in Strings : given = s.data /\ size = s.size
  /\ routine = "allLatin1" /\ index = 0 /\ latin1 = FALSE
  /\ bytes = <<>> /\ units = <<>>

Next ==
  \/ \E w \in Widths : scan(w) \/ narrow(w) \/ widen(w)
  \/ endScan \/ endNarrow \/ endWiden

Spec == Init /\ [][Next]_vars

-----------------------------------------------------------------------------
(* Properties.                                                             *)

(* No loop steps over the end of the string.                               *)
TypeOK ==
  /\ build \in {"NEON", "SSE2", "scalar"}
  /\ size \in Nat /\ given \in [Offsets(size) -> Unit]
  /\ routine \in {"allLatin1", "narrowLatin1", "widenLatin1", "returned"}
  /\ index \in 0 .. size
  /\ latin1 \in BOOLEAN

(* The scan, however it is cut into blocks, says what a look at every      *)
(* single unit says.                                                       *)
AllUnitsLatin1 == \A i \in Offsets(size) : given[i].high = {}

ScanIsExact == routine # "allLatin1" => (latin1 <=> AllUnitsLatin1)

(* What a routine has written is the units it has passed, each at its      *)
(* place, and nothing behind them: no unit is skipped, none is taken       *)
(* twice, no store reaches past the end, and a string that was narrowed    *)
(* and widened is the string it was.                                       *)
PassedUnits == [i \in Offsets(index) |-> given[i]]
LowBytes == [i \in Offsets(index) |-> given[i].low]

OutputIsPrefix ==
  /\ routine = "narrowLatin1" => bytes = LowBytes
  /\ routine = "widenLatin1" => units = PassedUnits
  /\ routine = "returned" /\ latin1 => units = given
=============================================================================
