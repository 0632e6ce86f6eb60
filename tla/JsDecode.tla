------------------------------ MODULE JsDecode ------------------------------
(***************************************************************************)
(* decodeSync() and decodeAsync(): the bytes of a JavaScript buffer are    *)
(* copied, a Reader decodes the copy, and ToJavaScript() builds JavaScript *)
(* values from its tree.  The recursion of ToJavaScript() is an explicit   *)
(* stack whose length is the depth argument.  Between the copy and the     *)
(* decoding, decodeAsync() lets the caller go on, who may write to the     *)
(* buffer or detach it.  Argument counts are left out.                     *)
(***************************************************************************)
EXTENDS Reader

CONSTANTS Sources,      \* the values handed over: see SourceOK
          MaxChanges,   \* bound: writes to the source after the call
          ProtoName     \* the property name "__proto__"

SourceOK(s) ==
  /\ s.kind \in {"ArrayBuffer", "DataView", "TypedArray", "other"}
  /\ s.detached \in BOOLEAN
  /\ s.memory \in Seq(Byte) /\ s.offset \in Nat /\ s.length \in Nat
  /\ s.offset + s.length <= Len(s.memory)

ASSUME SourceAssumption ==
  MaxChanges \in Nat /\ \A s \in Sources : SourceOK(s)

VARIABLES
  source,   \* the argument, as JavaScript sees it now
  handed,   \* the argument, as it was when the call was made
  changes,  \* how often it was written to since
  path,     \* "sync" or "async"
  phase,    \* where the call is
  stack,    \* activations of ToJavaScript() on an array or an object
  built     \* the JavaScript value returned

callVars == <<source, handed, changes, path>>
jsVars == <<callVars, phase, stack, built>>
dvars == <<rvars, jsVars>>

Phases == {"call", "decode", "build", "returned",
           "TypeError", "DecodeError", "BuildError"}

-----------------------------------------------------------------------------
(* Mutant: the offset of a view is not added.                              *)
viewFromStart(s) == SubSeq(s.memory, 1, s.length)

view(s) == SubSeq(s.memory, s.offset + 1, s.offset + s.length)

(* CopySerializedInput(): all three kinds of buffer check for a detached   *)
(* one before they copy.                                                   *)
CopySerializedInput ==
  /\ phase = "call"
  /\ IF source.kind = "other" \/ source.detached
     THEN phase' = "TypeError" /\ UNCHANGED input
     ELSE phase' = "decode" /\ input' = view(source)
  /\ UNCHANGED <<pos, frames, mode, value, callVars, stack, built>>

(* The JavaScript thread is free until the callback of decodeAsync(), and  *)
(* may fill the buffer with something else or transfer it away.            *)
userWrites ==
  /\ path = "async" /\ phase = "decode" /\ changes < MaxChanges
  /\ \/ source' = [source EXCEPT !.memory = [i \in 1 .. Len(@) |-> Padding]]
     \/ source' = [source EXCEPT !.memory = <<>>, !.detached = TRUE,
                                 !.offset = 0, !.length = 0]
  /\ changes' = changes + 1
  /\ UNCHANGED <<rvars, handed, path, phase, stack, built>>

decodeStep ==
  /\ phase = "decode" /\ Step
  /\ UNCHANGED jsVars

decoded ==
  /\ phase = "decode" /\ mode \in {"done", "failed"}
  /\ phase' = IF mode = "done" THEN "build" ELSE "DecodeError"
  /\ UNCHANGED <<rvars, callVars, stack, built>>

-----------------------------------------------------------------------------
(* JavaScript values: numbers are one type, an array and an object hold    *)
(* kids, an object's own properties are in the order they were defined.    *)
JsType(type) ==
  IF type \in {"int32", "uint32", "double"} THEN "number" ELSE type
Js(type, data) == Leaf(JsType(type), data)

(* Mutant: the property is assigned, which for __proto__ sets the          *)
(* prototype, and a repeated name is added behind the others.              *)
assigned(object, key, v) ==
  IF key = ProtoName THEN object
  ELSE [object EXCEPT !.keys = Append(@, key), !.kids = Append(@, v)]

(* napi_define_properties with a writable, enumerable and configurable     *)
(* value: a repeated name keeps its place and takes the new value.         *)
defined(object, key, v) ==
  IF \E i \in 1 .. Len(object.keys) : object.keys[i] = key
  THEN [object EXCEPT !.kids = [i \in 1 .. Len(@) |->
                                  IF object.keys[i] = key THEN v ELSE @[i]]]
  ELSE [object EXCEPT !.keys = Append(@, key), !.kids = Append(@, v)]

Activation(node) == [node |-> node, next |-> 1, made |-> Js(node.type, <<>>)]

current == stack[Len(stack)]

(* A value of ToJavaScript(), put where its caller puts it.                *)
Grown(caller, v) ==
  IF caller.node.type = "object"
  THEN defined(caller.made, caller.node.keys[caller.next], v)
  ELSE [caller.made EXCEPT !.kids = Append(@, v)]

Put(caller, v) ==
  [caller EXCEPT !.next = @ + 1, !.made = Grown(caller, v)]

Give(v, outer) ==
  IF outer = <<>>
  THEN phase' = "returned" /\ built' = v /\ stack' = <<>>
  ELSE /\ stack' = [outer EXCEPT ![Len(outer)] = Put(@, v)]
       /\ UNCHANGED <<phase, built>>

Throw == phase' = "BuildError" /\ UNCHANGED <<stack, built>>

(* Mutant: one level less than the Reader accepts.                         *)
TooDeepByOne(depth) == depth >= MaxDepth
TooDeep(depth) == depth > MaxDepth

(* A typed array needs whole elements.                                     *)
WholeElements(v) ==
  v.type \in ViewType => Len(v.data) % elementSize[v.type] = 0

ToJavaScript(v) ==
  IF TooDeep(Len(stack)) \/ ~WholeElements(v) THEN Throw
  ELSE IF v.type \in {"array", "object"}
  THEN stack' = Append(stack, Activation(v)) /\ UNCHANGED <<phase, built>>
  ELSE Give(Js(v.type, v.data), stack)

buildRoot ==
  /\ phase = "build" /\ stack = <<>>
  /\ ToJavaScript(value)
  /\ UNCHANGED <<rvars, callVars>>

buildChild ==
  /\ phase = "build" /\ stack # <<>>
  /\ current.next <= Len(current.node.kids)
  /\ ToJavaScript(current.node.kids[current.next])
  /\ UNCHANGED <<rvars, callVars>>

returnContainer ==
  /\ phase = "build" /\ stack # <<>>
  /\ current.next > Len(current.node.kids)
  /\ Give(current.made, SubSeq(stack, 1, Len(stack) - 1))
  /\ UNCHANGED <<rvars, callVars>>

-----------------------------------------------------------------------------
DecodeInit ==
  /\ source \in Sources /\ handed = source /\ changes = 0
  /\ path \in {"sync", "async"}
  /\ Start(<<>>)
  /\ phase = "call" /\ stack = <<>> /\ built = NoValue

Call ==
  \/ CopySerializedInput \/ decodeStep \/ decoded
  \/ buildRoot \/ buildChild \/ returnContainer

DecodeNext == Call \/ userWrites

DecodeSpec == DecodeInit /\ [][DecodeNext]_dvars /\ WF_dvars(Call)

-----------------------------------------------------------------------------
(* Properties.                                                             *)

(* What the Reader sees is what the caller's buffer or view held when the  *)
(* call was made, at every later moment: nothing the caller does to the    *)
(* buffer while a worker decodes reaches the message.                      *)
InputIsSnapshot ==
  phase \notin {"call", "TypeError"} =>
    /\ handed.kind # "other" /\ ~handed.detached
    /\ Len(input) = handed.length
    /\ \A i \in 1 .. handed.length : input[i] = handed.memory[handed.offset + i]

(* What the Reader accepts can be built: the depth limits of the two       *)
(* recursions agree, and every view the Reader lets through has whole      *)
(* elements.                                                               *)
DecodableIsBuildable == phase # "BuildError"

(* Every call returns or throws.                                           *)
CallEnds ==
  <>(phase \in {"returned", "TypeError", "DecodeError", "BuildError"})
=============================================================================
