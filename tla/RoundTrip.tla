----------------------------- MODULE RoundTrip -----------------------------
(***************************************************************************)
(* A Writer and a Reader of what it wrote.  The caller builds messages     *)
(* with the Writer and takes them; the bytes of a taken message, or only a *)
(* leading part of them, reach a fresh Reader.  The two share nothing but  *)
(* those bytes, so the Reader runs to its end before the Writer goes on.   *)
(***************************************************************************)
EXTENDS Wire

CONSTANTS Int32Inputs, Uint32Inputs, DoubleInputs, Utf8Inputs, Utf16Inputs,
          BinaryInputs, ViewInputs, LengthInputs, MaxBytes, MaxOpen, MaxDepth

VARIABLES bytes, stack, has_root, call,    \* Writer
          open, root, published, broken,   \* its record
          input, pos, frames, mode, value, \* Reader
          sent  \* the message being read: what its caller described, and
                \* how it arrived

W == INSTANCE RecordedWriter
R == INSTANCE Reader WITH Inputs <- {}

writer == <<bytes, stack, has_root, call, open, root, published, broken>>
reader == <<input, pos, frames, mode, value>>

NoMessage == [tree |-> NoValue, whole |-> FALSE, broken |-> FALSE]

Init == W!RInit /\ R!Start(<<>>) /\ sent = NoMessage

Write == sent = NoMessage /\ W!RNext /\ UNCHANGED <<reader, sent>>

(* The first n bytes of a message just taken.  A second take() hands out   *)
(* an empty vector, which is not a message.                                *)
Deliver(n) ==
  /\ sent = NoMessage
  /\ call.op = "take" /\ call.thrown = "none" /\ call.out # <<>>
  /\ sent' = [tree |-> root, whole |-> n = Len(call.out), broken |-> broken]
  /\ input' = SubSeq(call.out, 1, n)
  /\ UNCHANGED <<pos, frames, mode, value, writer>>

Read == sent # NoMessage /\ R!Next /\ UNCHANGED <<writer, sent>>

Ended == sent # NoMessage /\ mode \in {"done", "failed"}

(* The Reader is gone; the caller goes on with the Writer.                 *)
Forget ==
  /\ Ended
  /\ sent' = NoMessage
  /\ input' = <<>> /\ pos' = 0 /\ frames' = <<>>
  /\ mode' = "header" /\ value' = NoValue
  /\ UNCHANGED writer

Next == \/ Write
        \/ \E n \in 0 .. Len(call.out) : Deliver(n)
        \/ Read
        \/ Forget

Spec == Init /\ [][Next]_<<writer, reader, sent>>

-----------------------------------------------------------------------------
(* Properties.                                                             *)

(* A message of which no call failed half-way decodes to exactly the tree  *)
(* its caller described: every length, count, padding byte and view the    *)
(* Writer puts out passes every check of the Reader.                       *)
WholeMessageDecodes ==
  Ended /\ sent.whole /\ ~sent.broken => mode = "done" /\ value = sent.tree

(* A message cut short is rejected.  The one exception is a root view cut  *)
(* right behind its bytes, which is then a complete ArrayBuffer.           *)
TruncationIsNoticed ==
  Ended /\ ~sent.whole /\ mode = "done" =>
    /\ sent.tree.type \in ViewType
    /\ value = Leaf("arrayBuffer", sent.tree.data)

(* The Writer does not stop a caller that goes on after a null pointer     *)
(* made a call fail half-way (invalid_argument), but the message it then   *)
(* hands out never decodes: the counts it repeats behind the elements      *)
(* betray the missing value.  A length_error is another matter, and its    *)
(* inputs are left out: it leaves a stray tag, and if the caller chooses   *)
(* the values that follow, they can complete it to a message that decodes. *)
BrokenMessageIsRejected == Ended /\ sent.broken => mode = "failed"
=============================================================================
