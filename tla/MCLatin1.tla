------------------------------ MODULE MCLatin1 ------------------------------
(* Strings for model checking Latin1: of every length up to two widest     *)
(* blocks and a rest, with no unit or one that is not Latin-1, anywhere.   *)
EXTENDS Latin1

CONSTANT MaxSize

Plain(n) == [i \in Offsets(n) |-> [high |-> {}, low |-> 127 + i]]
Sized(n, data) == [size |-> n, data |-> data]

MCStrings ==
  {Sized(n, Plain(n)) : n \in 0 .. MaxSize} \cup
  UNION {{Sized(n, [Plain(n) EXCEPT ![i].high = bits]) :
            i \in Offsets(n), bits \in {{8}, {14, 15}}} : n \in 0 .. MaxSize}
=============================================================================
