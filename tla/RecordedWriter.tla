--------------------------- MODULE RecordedWriter ---------------------------
(***************************************************************************)
(* The Writer with a record of what its caller asked for: the value tree   *)
(* described by the calls that returned normally.  The record only follows *)
(* the calls; it never decides whether one is accepted.  What the Writer   *)
(* accepts is then compared with the abstract Document.                    *)
(***************************************************************************)
EXTENDS Writer

VARIABLES open, root, published, \* the record, as in Document
          broken  \* since the last reset, a call threw after it changed
                  \* the writer

record == <<open, root, published, broken>>
rvars == <<bytes, stack, has_root, call, open, root, published, broken>>

(* Every value the caller may offer that has no parts.                     *)
Offered ==
  {Leaf("undefined", <<>>), Leaf("null", <<>>),
   Leaf("boolean", <<0>>), Leaf("boolean", <<1>>)}
    \cup {Leaf("int32", <<v>>) : v \in Int32Inputs}
    \cup {Leaf("uint32", <<v>>) : v \in Uint32Inputs}
    \cup {Leaf(type, v) : type \in {"double", "date"}, v \in DoubleInputs}
    \cup {Leaf("string", s.units) : s \in Utf8Inputs}
    \cup {Leaf("string", s) : s \in Utf16Inputs}
    \cup {Leaf(type, b.data) : type \in {"arrayBuffer"} \cup ViewInputs,
                               b \in BinaryInputs}

D == INSTANCE Document WITH
       Leaves <- Offered, Names <- Utf16Inputs, Lengths <- LengthInputs

Follow ==
  LET op == call'.op
      arg == call'.arg
  IN IF call'.thrown # "none" THEN UNCHANGED <<open, root, published>>
     ELSE CASE op = "reset" ->
                 open' = <<>> /\ root' = NoValue /\ published' = <<>>
            [] op = "take" ->
                 /\ published' = IF call'.out = <<>> THEN published
                                 ELSE <<root>>
                 /\ UNCHANGED <<open, root>>
            [] op = "key" ->
                 /\ open' = [open EXCEPT ![Len(open)].keys =
                               Append(@, arg.data)]
                 /\ UNCHANGED <<root, published>>
            [] op \in {"beginObject", "beginArray"} ->
                 open' = Append(open, arg) /\ UNCHANGED <<root, published>>
            [] op \in {"endObject", "endArray"} ->
                 D!Place(D!finished, D!outer) /\ UNCHANGED published
            [] OTHER ->
                 D!Place(arg, open) /\ UNCHANGED published

Notice ==
  broken' = IF call'.op = "reset" THEN FALSE
            ELSE broken \/ (call'.thrown # "none" /\ state' # state)

RInit == /\ Init
         /\ open = <<>> /\ root = NoValue /\ published = <<>>
         /\ broken = FALSE

RNext == Next /\ Follow /\ Notice

RSpec == RInit /\ [][RNext]_rvars

-----------------------------------------------------------------------------
(* Properties.                                                             *)

(* The frames of the writer describe the containers of the record: as many *)
(* of them, of the same kind, an array with the length it declared and the *)
(* number of elements really written, an object expecting a key exactly    *)
(* when its last key has a value.  has_root tells whether a root exists or *)
(* is under construction.  A failed call half-way voids this.              *)
Kind(v) == IF v.type = "array" THEN "Array" ELSE "Object"

FrameMatches(i) ==
  LET frame == stack[i]
      held == open[i]
      inside == i < Len(stack)
  IN /\ frame.kind = Kind(held)
     /\ frame.kind = "Array" =>
          /\ held.data = <<frame.expected>>
          /\ frame.count = Len(held.kids) + (IF inside THEN 1 ELSE 0)
     /\ frame.kind = "Object" =>
          Len(held.keys) = Len(held.kids)
            + (IF inside \/ ~frame.expecting_key THEN 1 ELSE 0)

FramesMatchRecord ==
  ~broken =>
    /\ Len(open) = Len(stack)
    /\ \A i \in 1 .. Len(stack) : FrameMatches(i)
    /\ has_root <=> (stack # <<>> \/ root # NoValue)
    /\ stack # <<>> => root = NoValue

(* As long as no call failed half-way since the last reset, the Writer is  *)
(* a Document.  Every call that returns does to the tree what it allows:   *)
(* arrays close full, keys and values alternate, take() hands out a        *)
(* finished tree, and a used writer is not filled again before reset().    *)
BuildsDocument == D!Init /\ [][~broken' => [D!Next]_D!vars]_rvars

(* writer.hpp on take(): "Moves out the completed version-15 message",     *)
(* "@throws std::logic_error if no root exists or a container remains      *)
(* open".  A message handed out therefore holds a root value.              *)
TakenHoldsRoot == [][call'.op = "take" /\ call'.thrown = "none"
                       => root # NoValue]_rvars
=============================================================================
