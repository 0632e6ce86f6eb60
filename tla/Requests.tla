------------------------------ MODULE Requests ------------------------------
(***************************************************************************)
(* What encodeAsync() and decodeAsync() promise to JavaScript, without     *)
(* threads: an accepted call either throws before any work is done for it, *)
(* or is told once what the work found; it is reclaimed only after that;   *)
(* and none of it can be put off forever.  Teardown of the environment     *)
(* cancels the answer but not the work and the reclaiming.                 *)
(***************************************************************************)
EXTENDS Sequences

CONSTANT Works  \* the calls

VARIABLES phase,    \* "absent", "live" or "deleted"
          found,    \* what the work for a call came to, "none" before
          torn,     \* the environment is being torn down
          answers   \* what each caller was told

requestVars == <<phase, found, torn, answers>>

Accept(w) ==
  /\ phase[w] = "absent" /\ ~torn
  /\ phase' = [phase EXCEPT ![w] = "live"]
  /\ UNCHANGED <<found, torn, answers>>

Work(w) ==
  /\ phase[w] = "live" /\ found[w] = "none" /\ answers[w] = <<>>
  /\ \E what \in {"value", "error"} : found' = [found EXCEPT ![w] = what]
  /\ UNCHANGED <<phase, torn, answers>>

(* A value that was found may turn out not to exist in JavaScript.         *)
Answers(what) ==
  CASE what = "none" -> {"exception"}
    [] what = "error" -> {"error"}
    [] what = "value" -> {"value", "uncaught exception"}

Reply(w) ==
  /\ phase[w] = "live" /\ answers[w] = <<>> /\ ~torn
  /\ \E what \in Answers(found[w]) : answers' = [answers EXCEPT ![w] = <<what>>]
  /\ UNCHANGED <<phase, found, torn>>

Reclaim(w) ==
  /\ phase[w] = "live" /\ (answers[w] # <<>> \/ (torn /\ found[w] # "none"))
  /\ phase' = [phase EXCEPT ![w] = "deleted"]
  /\ UNCHANGED <<found, torn, answers>>

TearDown == ~torn /\ torn' = TRUE /\ UNCHANGED <<phase, found, answers>>

Init ==
  /\ phase = [w \in Works |-> "absent"]
  /\ found = [w \in Works |-> "none"]
  /\ torn = FALSE
  /\ answers = [w \in Works |-> <<>>]

Next ==
  TearDown \/ \E w \in Works : Accept(w) \/ Work(w) \/ Reply(w) \/ Reclaim(w)

(* Of an accepted call something is always under way.                      *)
Advance(w) == Work(w) \/ Reply(w) \/ Reclaim(w)

Fairness == \A w \in Works : WF_requestVars(Advance(w))

Spec == Init /\ [][Next]_requestVars /\ Fairness
=============================================================================
