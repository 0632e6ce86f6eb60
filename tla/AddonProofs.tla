----------------------------- MODULE AddonProofs -----------------------------
(***************************************************************************)
(* Proofs about what the addon's calls hold.  AsyncWork, for any number of *)
(* calls: nothing is used after it was freed, no thread is left unjoined,  *)
(* no result is lost, and every step is one Requests allows.  OutputBuffer,*)
(* for any number of calls, blocks and messages: a Buffer keeps its        *)
(* message, and memory in use has one owner.                               *)
(***************************************************************************)
EXTENDS AsyncWork, OutputBuffer, FiniteSetTheorems, TLAPS

-----------------------------------------------------------------------------
(* Asynchronous calls: the inductive invariant.  All of it is about one    *)
(* call, seen together with the place of the JavaScript thread.            *)

In(at, w) == js.at = at /\ js.work = w

(* The JavaScript thread is busy with one call, or with none.              *)
ThreadOK == js.at = "loop" <=> js.work = NoWork

(* The AsyncWork and the handles of its function come and go together, and *)
(* no function stays open in a torn down environment.                      *)
LifetimesAgree(w) ==
  /\ object[w] = "absent" <=> tsfn[w].handles = "absent"
  /\ object[w] = "deleted" <=> tsfn[w].handles = "gone"
  /\ tsfn[w].closing <=> tsfn[w].handles \in {"closing", "gone"}
  /\ tsfn[w].handles = "gone" => tsfn[w].queue = 0
  /\ teardown => tsfn[w].handles # "open"

(* Where the JavaScript thread can be, for a call in its hands.            *)
PlaceOK(w) ==
  js.work = w =>
    /\ object[w] = "live"
    /\ js.at = "starting" => worker[w] = "none"
    /\ js.at = "assigning" => worker[w] # "none" /\ ~joinable[w]
    /\ js.at \in {"starting", "assigning"} => tsfn[w].handles = "open"
    /\ js.at = "callback" => ~teardown
    /\ js.at = "finalizing" => tsfn[w].handles = "closing"

(* A thread is joinable from its assignment to the end of its AsyncWork.   *)
ThreadJoined(w) ==
  /\ joinable[w] => object[w] = "live" /\ worker[w] # "none"
  /\ worker[w] # "none" /\ ~In("assigning", w) =>
       joinable[w] \/ object[w] = "deleted"
  /\ object[w] = "absent" => worker[w] = "none"
  /\ object[w] = "deleted" => worker[w] \in {"none", "exited"}

(* The worker counts as a thread of the function until it releases it; a   *)
(* call that comes after teardown drops it early.  A function that closes  *)
(* for any other reason has no thread and an empty queue.                  *)
ThreadCounted(w) ==
  /\ object[w] = "absent" \/ worker[w] \in {"returning", "exited"} =>
       tsfn[w].threads = 0
  /\ In("starting", w) \/ worker[w] \in {"working", "calling"} =>
       tsfn[w].threads = 1
  /\ worker[w] = "releasing" => tsfn[w].threads = 1 \/ teardown
  /\ tsfn[w].closing =>
       teardown \/ (tsfn[w].threads = 0 /\ tsfn[w].queue = 0)

(* The result is where control is: with the worker, in the queue, with the *)
(* callback.                                                               *)
ResultFollows(w) ==
  /\ result[w] = "none" <=> worker[w] \in {"none", "working"}
  /\ result[w] = "worker" <=> worker[w] = "calling"
  /\ result[w] = "queue" <=> tsfn[w].queue = 1
  /\ result[w] = "callback" <=> In("callback", w)
  /\ result[w] = "leaked" => object[w] = "deleted" /\ teardown
  /\ outcome[w] = "none" <=> worker[w] \in {"none", "working"}

(* The caller was told nothing before the callback, and only teardown can  *)
(* keep a freed result from it.                                            *)
AnswerFollows(w) ==
  /\ worker[w] = "none" =>
       IF object[w] = "absent" \/ In("starting", w) THEN answers[w] = <<>>
       ELSE answers[w] # <<>>
  /\ result[w] \in {"worker", "queue", "callback"} => answers[w] = <<>>
  /\ worker[w] = "working" => answers[w] = <<>>
  /\ result[w] = "freed" => answers[w] # <<>> \/ teardown

CallOK(w) ==
  /\ LifetimesAgree(w) /\ PlaceOK(w) /\ ThreadJoined(w)
  /\ ThreadCounted(w) /\ ResultFollows(w) /\ AnswerFollows(w)

AsyncInv == TypeOK /\ ThreadOK /\ \A w \in Works : CallOK(w)

(* What the operations of a thread-safe function do to its parts.          *)
Tsfn == [threads : {0, 1}, queue : {0, 1}, closing : BOOLEAN,
         signalled : BOOLEAN, handles : {"absent", "open", "closing", "gone"}]

Has(g, threads, queue, closing, handles) ==
  /\ g \in Tsfn
  /\ g.threads = threads /\ g.queue = queue
  /\ g.closing = closing /\ g.handles = handles

LEMMA TsfnParts ==
  ASSUME NEW f \in Tsfn
  PROVE  /\ Has(NoTsfn, 0, 0, FALSE, "absent")
         /\ Has(NewTsfn, 1, 0, FALSE, "open")
         /\ Has(Released(f), 0, f.queue, f.closing, f.handles)
         /\ Has(Closed(f), f.threads, f.queue, TRUE, "closing")
         /\ f.closing => Has(Pushed(f), 0, f.queue, TRUE, f.handles)
         /\ ~f.closing /\ f.queue = 0 =>
              Has(Pushed(f), f.threads, 1, FALSE, f.handles)
<1> USE DEF Tsfn, Has
<1>1. Has(NoTsfn, 0, 0, FALSE, "absent")
  BY DEF NoTsfn
<1>2. Has(NewTsfn, 1, 0, FALSE, "open")
  BY DEF NoTsfn, NewTsfn
<1>3. Has(Released(f), 0, f.queue, f.closing, f.handles)
  <2>1. CASE f.threads = 0
    BY <2>1 DEF Released
  <2>2. CASE f.threads = 1
    <3> DEFINE s == f.signalled \/ (f.threads = 1 /\ ~f.closing)
    <3>1. s \in BOOLEAN
      BY Zenon
    <3>2. Released(f) = [f EXCEPT !.threads = 0, !.signalled = s]
      BY <2>2 DEF Released
    <3> HIDE DEF s
    <3> QED BY <3>1, <3>2
  <2> QED BY <2>1, <2>2
<1>4. Has(Closed(f), f.threads, f.queue, TRUE, "closing")
  BY DEF Closed
<1>5. f.closing => Has(Pushed(f), 0, f.queue, TRUE, f.handles)
  <2>1. f.closing => Pushed(f) = [f EXCEPT !.threads = 0]
    BY DEF Pushed
  <2> QED BY <2>1
<1>6. ~f.closing /\ f.queue = 0 =>
         Has(Pushed(f), f.threads, 1, FALSE, f.handles)
  <2>1. ~f.closing /\ f.queue = 0 =>
          Pushed(f) = [f EXCEPT !.queue = 1, !.signalled = TRUE]
    BY DEF Pushed
  <2> QED BY <2>1
<1> QED BY <1>1, <1>2, <1>3, <1>4, <1>5, <1>6

JsType == [at : Places, work : Works \cup {NoWork}]

LEMMA JsParts ==
  /\ \A at \in Places, w \in Works \cup {NoWork} :
       Js(at, w) \in JsType /\ Js(at, w).at = at /\ Js(at, w).work = w
  /\ \A j \in JsType, at \in Places, w \in Works :
       j = Js(at, w) <=> j.at = at /\ j.work = w
BY DEF Js, JsType

(* What the invariant says of a call depends on that call only, and on     *)
(* what the JavaScript thread does for it.                                 *)
Untouched(v) ==
  /\ object'[v] = object[v] /\ joinable'[v] = joinable[v]
  /\ worker'[v] = worker[v] /\ outcome'[v] = outcome[v]
  /\ result'[v] = result[v] /\ tsfn'[v] = tsfn[v] /\ answers'[v] = answers[v]
  /\ js' = js \/ (js.work # v /\ js'.work # v)

LEMMA UntouchedStays ==
  ASSUME NEW v \in Works, CallOK(v), Untouched(v), teardown' = teardown
  PROVE  CallOK(v)'
BY DEF Untouched, CallOK, LifetimesAgree, PlaceOK, ThreadJoined, ThreadCounted,
       ResultFollows, AnswerFollows, In

(* Updates of a function at one call.                                      *)
LEMMA FunctionUpdate ==
  ASSUME NEW A, NEW S, NEW f \in [A -> S], NEW w \in A, NEW x \in S
  PROVE  /\ [f EXCEPT ![w] = x] \in [A -> S] /\ [f EXCEPT ![w] = x][w] = x
         /\ \A v \in A : v # w => [f EXCEPT ![w] = x][v] = f[v]
OBVIOUS

LEMMA TsfnUpdate ==
  ASSUME tsfn \in [Works -> Tsfn], NEW w \in Works, NEW g \in Tsfn,
         tsfn' = [tsfn EXCEPT ![w] = g]
  PROVE  /\ tsfn' \in [Works -> Tsfn] /\ tsfn'[w] = g
         /\ \A v \in Works : v # w => tsfn'[v] = tsfn[v]
OBVIOUS

Told == {"exception", "error", "value", "uncaught exception"}

LEMMA AnswerGiven ==
  ASSUME TypeOK, NEW w \in Works, NEW what \in Told, Answer(w, what)
  PROVE  /\ answers' \in [Works -> Seq(Told)] /\ answers'[w] # <<>>
         /\ \A v \in Works : v # w => answers'[v] = answers[v]
<1> DEFINE more == Append(answers[w], what)
<1>1. answers \in [Works -> Seq(Told)]
  BY DEF TypeOK, Told
<1>2. more \in Seq(Told) /\ more # <<>>
  BY <1>1
<1>3. answers' = [answers EXCEPT ![w] = more]
  BY DEF Answer
<1> DEFINE S == Seq(Told)
<1>4. answers \in [Works -> S] /\ more \in S
  BY <1>1, <1>2
<1> HIDE DEF more, S
<1>5. /\ answers' \in [Works -> S] /\ answers'[w] = more
      /\ \A v \in Works : v # w => answers'[v] = answers[v]
  BY <1>3, <1>4
<1>6. answers'[w] # <<>>
  BY <1>2, <1>5
<1> QED BY <1>5, <1>6 DEF S

LEMMA TypesGiven ==
  ASSUME AsyncInv, NEW w \in Works
  PROVE  /\ TypeOK /\ ThreadOK /\ CallOK(w) /\ js \in JsType
         /\ tsfn \in [Works -> Tsfn] /\ tsfn[w] \in Tsfn
         /\ Loop \in JsType /\ Loop.at = "loop" /\ Loop.work = NoWork
         /\ NoWork # w
<1>1. Loop \in JsType /\ Loop.at = "loop" /\ Loop.work = NoWork
  BY JsParts DEF Loop, Places
<1> QED BY <1>1, WorksAssumption DEF AsyncInv, TypeOK, JsType, Tsfn

LEMMA AcceptCallKeeps ==
  ASSUME AsyncInv, NEW w \in Works, acceptCall(w)
  PROVE  AsyncInv'
<1> USE DEF acceptCall
<1>0. /\ TypeOK /\ ThreadOK /\ CallOK(w) /\ js \in JsType
      /\ tsfn \in [Works -> Tsfn] /\ tsfn[w] \in Tsfn
      /\ Loop \in JsType /\ Loop.at = "loop" /\ Loop.work = NoWork
      /\ NoWork # w
  BY TypesGiven
<1>1. /\ js.at = "loop" /\ js.work = NoWork
      /\ js' \in JsType /\ js'.at = "starting" /\ js'.work = w
  BY <1>0, JsParts DEF Places
<1>2. /\ tsfn' \in [Works -> Tsfn]
      /\ \A v \in Works : v # w => tsfn'[v] = tsfn[v]
      /\ Has(tsfn'[w], 1, 0, FALSE, "open")
  <2> DEFINE g == NewTsfn
  <2>1. g \in Tsfn /\ Has(g, 1, 0, FALSE, "open")
    BY <1>0, TsfnParts DEF Has
  <2>2. tsfn' = [tsfn EXCEPT ![w] = g]
    OBVIOUS
  <2> HIDE DEF g
  <2> QED BY <1>0, <2>1, <2>2, TsfnUpdate
<1>3. TypeOK'
  <2>1. js' \in [at : Places, work : Works \cup {NoWork}]
    BY <1>0, <1>1 DEF JsType
  <2>2. object' \in [Works -> {"absent", "live", "deleted"}]
    BY <1>0 DEF TypeOK
  <2>9. UNCHANGED <<teardown, joinable, worker, outcome, result, answers>>
    OBVIOUS
  <2> HIDE DEF acceptCall
  <2> QED BY <1>0, <1>2, <2>1, <2>2, <2>9
         DEF TypeOK, Tsfn
<1>4. ThreadOK'
  BY <1>0, <1>1 DEF ThreadOK
<1>5. ASSUME NEW v \in Works, v # w PROVE CallOK(v)'
  BY <1>0, <1>1, <1>2, <1>5, UntouchedStays, WorksAssumption
     DEF Untouched, AsyncInv, TypeOK
<1>6. /\ object[w] = "absent" /\ object'[w] = "live" /\ ~teardown
      /\ joinable'[w] = joinable[w] /\ worker'[w] = worker[w]
      /\ outcome'[w] = outcome[w] /\ result'[w] = result[w]
      /\ answers'[w] = answers[w]
      /\ teardown' = teardown
  BY <1>0 DEF TypeOK
<1>7. CallOK(w)'
  <2> HIDE DEF acceptCall
  <2>1. LifetimesAgree(w)'
    BY <1>0, <1>1, <1>2, <1>6
       DEF CallOK, LifetimesAgree, PlaceOK, ThreadJoined, In, Has
  <2>2. PlaceOK(w)'
    BY <1>0, <1>1, <1>2, <1>6
       DEF CallOK, LifetimesAgree, PlaceOK, ThreadJoined, In, Has
  <2>3. ThreadJoined(w)'
    BY <1>0, <1>1, <1>2, <1>6 DEF CallOK, PlaceOK, ThreadJoined, In
  <2>4. ThreadCounted(w)'
    BY <1>0, <1>1, <1>2, <1>6
       DEF CallOK, LifetimesAgree, PlaceOK, ThreadJoined, ThreadCounted,
           In, Has
  <2>5. ResultFollows(w)'
    BY <1>0, <1>1, <1>2, <1>6
       DEF CallOK, LifetimesAgree, PlaceOK, ThreadJoined, ThreadCounted,
           ResultFollows, In, Has
  <2>6. AnswerFollows(w)'
    BY <1>0, <1>1, <1>2, <1>6
       DEF CallOK, PlaceOK, ThreadJoined, ResultFollows, AnswerFollows, In,
           Has
  <2> QED BY <2>1, <2>2, <2>3, <2>4, <2>5, <2>6 DEF CallOK
<1> QED BY <1>3, <1>4, <1>5, <1>7 DEF AsyncInv

LEMMA StartThreadKeeps ==
  ASSUME AsyncInv, NEW w \in Works, startThread(w)
  PROVE  AsyncInv'
<1> USE DEF startThread
<1>0. /\ TypeOK /\ ThreadOK /\ CallOK(w) /\ js \in JsType
      /\ tsfn \in [Works -> Tsfn] /\ tsfn[w] \in Tsfn
      /\ Loop \in JsType /\ Loop.at = "loop" /\ Loop.work = NoWork
      /\ NoWork # w
  BY TypesGiven
<1>1. /\ js.at = "starting" /\ js.work = w
      /\ js' \in JsType /\ js'.at = "assigning" /\ js'.work = w
  BY <1>0, JsParts DEF JsAt, Places
<1>2. tsfn' = tsfn
  OBVIOUS
<1>3. TypeOK'
  <2>1. js' \in [at : Places, work : Works \cup {NoWork}]
    BY <1>0, <1>1 DEF JsType
  <2>2. worker' \in [Works -> {"none", "working", "calling", "releasing",
                              "returning", "exited"}]
    BY <1>0 DEF TypeOK
  <2>9. UNCHANGED <<teardown, object, joinable, outcome, result, answers>>
    OBVIOUS
  <2> HIDE DEF startThread
  <2> QED BY <1>0, <1>2, <2>1, <2>2, <2>9
         DEF TypeOK, Tsfn
<1>4. ThreadOK'
  BY <1>0, <1>1 DEF ThreadOK
<1>5. ASSUME NEW v \in Works, v # w PROVE CallOK(v)'
  BY <1>0, <1>1, <1>2, <1>5, UntouchedStays, WorksAssumption
     DEF Untouched, AsyncInv, TypeOK
<1>6. /\ worker'[w] = "working"
      /\ object'[w] = object[w] /\ joinable'[w] = joinable[w]
      /\ outcome'[w] = outcome[w] /\ result'[w] = result[w]
      /\ answers'[w] = answers[w]
      /\ teardown' = teardown
  BY <1>0 DEF TypeOK
<1>7. CallOK(w)'
  <2> HIDE DEF startThread
  <2>1. LifetimesAgree(w)'
    BY <1>0, <1>1, <1>2, <1>6
       DEF CallOK, LifetimesAgree, PlaceOK, ThreadJoined, In, Has
  <2>2. PlaceOK(w)'
    BY <1>0, <1>1, <1>2, <1>6
       DEF CallOK, LifetimesAgree, PlaceOK, ThreadJoined, In, Has
  <2>3. ThreadJoined(w)'
    BY <1>0, <1>1, <1>2, <1>6 DEF CallOK, PlaceOK, ThreadJoined, In
  <2>4. ThreadCounted(w)'
    BY <1>0, <1>1, <1>2, <1>6
       DEF CallOK, LifetimesAgree, PlaceOK, ThreadJoined, ThreadCounted,
           In, Has
  <2>5. ResultFollows(w)'
    BY <1>0, <1>1, <1>2, <1>6
       DEF CallOK, LifetimesAgree, PlaceOK, ThreadJoined, ThreadCounted,
           ResultFollows, In, Has
  <2>6. AnswerFollows(w)'
    BY <1>0, <1>1, <1>2, <1>6
       DEF CallOK, PlaceOK, ThreadJoined, ResultFollows, AnswerFollows, In,
           Has
  <2> QED BY <2>1, <2>2, <2>3, <2>4, <2>5, <2>6 DEF CallOK
<1> QED BY <1>3, <1>4, <1>5, <1>7 DEF AsyncInv

LEMMA FailToStartKeeps ==
  ASSUME AsyncInv, NEW w \in Works, failToStart(w)
  PROVE  AsyncInv'
<1> USE DEF failToStart
<1>0. /\ TypeOK /\ ThreadOK /\ CallOK(w) /\ js \in JsType
      /\ tsfn \in [Works -> Tsfn] /\ tsfn[w] \in Tsfn
      /\ Loop \in JsType /\ Loop.at = "loop" /\ Loop.work = NoWork
      /\ NoWork # w
  BY TypesGiven
<1>1. /\ js.at = "starting" /\ js.work = w
      /\ js' \in JsType /\ js'.at = "loop" /\ js'.work = NoWork
  BY <1>0, JsParts DEF JsAt, Places
<1>2. /\ tsfn' \in [Works -> Tsfn]
      /\ \A v \in Works : v # w => tsfn'[v] = tsfn[v]
      /\ Has(tsfn'[w], 0, tsfn[w].queue, tsfn[w].closing, tsfn[w].handles)
  <2> DEFINE g == Released(tsfn[w])
  <2>1. g \in Tsfn /\ Has(g, 0, tsfn[w].queue, tsfn[w].closing, tsfn[w].handles)
    BY <1>0, TsfnParts DEF Has
  <2>2. tsfn' = [tsfn EXCEPT ![w] = g]
    OBVIOUS
  <2> HIDE DEF g
  <2> QED BY <1>0, <2>1, <2>2, TsfnUpdate
<1>3. /\ answers' \in [Works -> Seq(Told)] /\ answers'[w] # <<>>
      /\ \A v \in Works : v # w => answers'[v] = answers[v]
  <2>1. \E what \in Told : Answer(w, what)
    BY DEF Told
  <2> QED BY <1>0, <2>1, AnswerGiven
<1>4. TypeOK'
  BY <1>0, <1>1, <1>2, <1>3 DEF TypeOK, JsType, Tsfn, Told
<1>5. ThreadOK'
  BY <1>0, <1>1 DEF ThreadOK
<1>6. ASSUME NEW v \in Works, v # w PROVE CallOK(v)'
  BY <1>0, <1>1, <1>2, <1>6, <1>3, UntouchedStays, WorksAssumption
     DEF Untouched, AsyncInv, TypeOK
<1>7. CallOK(w)'
  BY <1>0, <1>1, <1>2, <1>3
     DEF CallOK, LifetimesAgree, PlaceOK, ThreadJoined, ThreadCounted,
          ResultFollows, AnswerFollows, In, Has, TypeOK
<1> QED BY <1>4, <1>5, <1>6, <1>7 DEF AsyncInv

LEMMA AssignThreadKeeps ==
  ASSUME AsyncInv, NEW w \in Works, assignThread(w)
  PROVE  AsyncInv'
<1> USE DEF assignThread
<1>0. /\ TypeOK /\ ThreadOK /\ CallOK(w) /\ js \in JsType
      /\ tsfn \in [Works -> Tsfn] /\ tsfn[w] \in Tsfn
      /\ Loop \in JsType /\ Loop.at = "loop" /\ Loop.work = NoWork
      /\ NoWork # w
  BY TypesGiven
<1>1. /\ js.at = "assigning" /\ js.work = w
      /\ js' \in JsType /\ js'.at = "loop" /\ js'.work = NoWork
  BY <1>0, JsParts DEF JsAt, Places
<1>2. tsfn' = tsfn
  OBVIOUS
<1>3. TypeOK'
  <2>1. js' \in [at : Places, work : Works \cup {NoWork}]
    BY <1>0, <1>1 DEF JsType
  <2>2. joinable' \in [Works -> BOOLEAN]
    BY <1>0 DEF TypeOK
  <2>9. UNCHANGED <<teardown, object, worker, outcome, result, answers>>
    OBVIOUS
  <2> HIDE DEF assignThread
  <2> QED BY <1>0, <1>2, <2>1, <2>2, <2>9
         DEF TypeOK, Tsfn
<1>4. ThreadOK'
  BY <1>0, <1>1 DEF ThreadOK
<1>5. ASSUME NEW v \in Works, v # w PROVE CallOK(v)'
  BY <1>0, <1>1, <1>2, <1>5, UntouchedStays, WorksAssumption
     DEF Untouched, AsyncInv, TypeOK
<1>6. /\ joinable'[w] = TRUE /\ object'[w] = object[w]
      /\ worker'[w] = worker[w] /\ outcome'[w] = outcome[w]
      /\ result'[w] = result[w] /\ answers'[w] = answers[w]
      /\ teardown' = teardown
  BY <1>0 DEF TypeOK
<1>7. CallOK(w)'
  <2> HIDE DEF assignThread
  <2>1. LifetimesAgree(w)'
    BY <1>0, <1>2, <1>6 DEF CallOK, LifetimesAgree
  <2>2. PlaceOK(w)'
    BY <1>0, <1>1 DEF PlaceOK
  <2>3. ThreadJoined(w)'
    BY <1>0, <1>1, <1>6 DEF CallOK, PlaceOK, ThreadJoined, In
  <2>4. ThreadCounted(w)'
    BY <1>0, <1>1, <1>2, <1>6 DEF CallOK, ThreadCounted, In
  <2>5. ResultFollows(w)'
    BY <1>0, <1>1, <1>2, <1>6 DEF CallOK, ResultFollows, In
  <2>6. AnswerFollows(w)'
    BY <1>0, <1>1, <1>6 DEF CallOK, PlaceOK, AnswerFollows, In
  <2> QED BY <2>1, <2>2, <2>3, <2>4, <2>5, <2>6 DEF CallOK
<1> QED BY <1>3, <1>4, <1>5, <1>7 DEF AsyncInv

LEMMA WorkKeeps ==
  ASSUME AsyncInv, NEW w \in Works, work(w)
  PROVE  AsyncInv'
<1> USE DEF work
<1>0. /\ TypeOK /\ ThreadOK /\ CallOK(w) /\ js \in JsType
      /\ tsfn \in [Works -> Tsfn] /\ tsfn[w] \in Tsfn
      /\ Loop \in JsType /\ Loop.at = "loop" /\ Loop.work = NoWork
      /\ NoWork # w
  BY TypesGiven
<1>1. js' = js
  OBVIOUS
<1>2. tsfn' = tsfn
  OBVIOUS
<1>3. TypeOK'
  <2>1. PICK o \in {"value", "error"} : outcome' = [outcome EXCEPT ![w] = o]
    OBVIOUS
  <2>2. outcome' \in [Works -> {"none", "value", "error"}]
    BY <1>0, <2>1 DEF TypeOK
  <2>3. worker' \in [Works -> {"none", "working", "calling", "releasing",
                              "returning", "exited"}]
    BY <1>0 DEF TypeOK
  <2>4. result' \in [Works -> {"none", "worker", "queue", "callback", "freed",
                              "leaked"}]
    BY <1>0 DEF TypeOK
  <2>9. UNCHANGED <<teardown, object, joinable, answers>>
    OBVIOUS
  <2> HIDE DEF work
  <2> QED BY <1>0, <1>1, <1>2, <2>2, <2>3, <2>4, <2>9
         DEF TypeOK, Tsfn
<1>4. ThreadOK'
  BY <1>0, <1>1 DEF ThreadOK
<1>5. ASSUME NEW v \in Works, v # w PROVE CallOK(v)'
  BY <1>0, <1>1, <1>2, <1>5, UntouchedStays, WorksAssumption
     DEF Untouched, AsyncInv, TypeOK
<1>6. /\ worker[w] = "working" /\ worker'[w] = "calling"
      /\ result'[w] = "worker" /\ outcome'[w] \in {"value", "error"}
      /\ object'[w] = object[w] /\ joinable'[w] = joinable[w]
      /\ answers'[w] = answers[w]
      /\ teardown' = teardown
  BY <1>0 DEF TypeOK
<1>7. CallOK(w)'
  <2> HIDE DEF work
  <2>1. LifetimesAgree(w)'
    BY <1>0, <1>1, <1>2, <1>6
       DEF CallOK, LifetimesAgree, PlaceOK, ThreadJoined, In, Has
  <2>2. PlaceOK(w)'
    BY <1>0, <1>1, <1>2, <1>6
       DEF CallOK, LifetimesAgree, PlaceOK, ThreadJoined, In, Has
  <2>3. ThreadJoined(w)'
    BY <1>0, <1>1, <1>2, <1>6 DEF CallOK, PlaceOK, ThreadJoined, In
  <2>4. ThreadCounted(w)'
    BY <1>0, <1>1, <1>2, <1>6
       DEF CallOK, LifetimesAgree, PlaceOK, ThreadJoined, ThreadCounted,
           In, Has
  <2>5. ResultFollows(w)'
    BY <1>0, <1>1, <1>2, <1>6
       DEF CallOK, LifetimesAgree, PlaceOK, ThreadJoined, ThreadCounted,
           ResultFollows, In, Has
  <2>6. AnswerFollows(w)'
    BY <1>0, <1>1, <1>2, <1>6
       DEF CallOK, PlaceOK, ThreadJoined, ResultFollows, AnswerFollows, In,
           Has
  <2> QED BY <2>1, <2>2, <2>3, <2>4, <2>5, <2>6 DEF CallOK
<1> QED BY <1>3, <1>4, <1>5, <1>7 DEF AsyncInv

LEMMA BlockingCallKeeps ==
  ASSUME AsyncInv, NEW w \in Works, blockingCall(w)
  PROVE  AsyncInv'
<1> USE DEF blockingCall
<1>0. /\ TypeOK /\ ThreadOK /\ CallOK(w) /\ js \in JsType
      /\ tsfn \in [Works -> Tsfn] /\ tsfn[w] \in Tsfn
      /\ Loop \in JsType /\ Loop.at = "loop" /\ Loop.work = NoWork
      /\ NoWork # w
  BY TypesGiven
<1>1. js' = js
  OBVIOUS
<1>2. /\ tsfn' \in [Works -> Tsfn]
      /\ \A v \in Works : v # w => tsfn'[v] = tsfn[v]
      /\ Has(tsfn'[w], IF tsfn[w].closing THEN 0 ELSE 1,
                     IF tsfn[w].closing THEN tsfn[w].queue ELSE 1,
                     tsfn[w].closing, tsfn[w].handles)
  <2> DEFINE g == Pushed(tsfn[w])
  <2>1. g \in Tsfn /\ Has(g, IF tsfn[w].closing THEN 0 ELSE 1,
                     IF tsfn[w].closing THEN tsfn[w].queue ELSE 1,
                     tsfn[w].closing, tsfn[w].handles)
    <3>1. /\ tsfn[w].threads = 1 /\ tsfn[w].queue = 0
          /\ tsfn[w].closing \in BOOLEAN
      BY <1>0 DEF CallOK, ThreadCounted, ResultFollows, Tsfn
    <3>2. CASE tsfn[w].closing
      <4>1. Has(Pushed(tsfn[w]), 0, tsfn[w].queue, TRUE, tsfn[w].handles)
        BY <1>0, <3>2, TsfnParts
      <4> QED BY <3>2, <4>1 DEF Has
    <3>3. CASE ~tsfn[w].closing
      <4>1. Has(Pushed(tsfn[w]), tsfn[w].threads, 1, FALSE, tsfn[w].handles)
        BY <1>0, <3>1, <3>3, TsfnParts
      <4> QED BY <3>1, <3>3, <4>1 DEF Has
    <3> QED BY <3>2, <3>3
  <2>2. tsfn' = [tsfn EXCEPT ![w] = g]
    OBVIOUS
  <2> HIDE DEF g
  <2> QED BY <1>0, <2>1, <2>2, TsfnUpdate
<1>3. TypeOK'
  <2>1. js' \in [at : Places, work : Works \cup {NoWork}]
    BY <1>0, <1>1 DEF JsType
  <2>2. worker' \in [Works -> {"none", "working", "calling", "releasing",
                              "returning", "exited"}]
    BY <1>0 DEF TypeOK
  <2>3. result' \in [Works -> {"none", "worker", "queue", "callback", "freed",
                              "leaked"}]
    BY <1>0 DEF TypeOK
  <2>9. UNCHANGED <<teardown, object, joinable, outcome, answers>>
    OBVIOUS
  <2> HIDE DEF blockingCall
  <2> QED BY <1>0, <1>2, <2>1, <2>2, <2>3, <2>9
         DEF TypeOK, Tsfn
<1>4. ThreadOK'
  BY <1>0, <1>1 DEF ThreadOK
<1>5. ASSUME NEW v \in Works, v # w PROVE CallOK(v)'
  BY <1>0, <1>1, <1>2, <1>5, UntouchedStays, WorksAssumption
     DEF Untouched, AsyncInv, TypeOK
<1>6. /\ worker[w] = "calling" /\ worker'[w] = "releasing"
      /\ result'[w] = IF tsfn[w].closing THEN "freed" ELSE "queue"
      /\ object'[w] = object[w] /\ joinable'[w] = joinable[w]
      /\ outcome'[w] = outcome[w] /\ answers'[w] = answers[w]
      /\ teardown' = teardown
  BY <1>0 DEF TypeOK
<1>7. CallOK(w)'
  <2> HIDE DEF blockingCall
  <2>1. LifetimesAgree(w)'
    BY <1>0, <1>1, <1>2, <1>6
       DEF CallOK, LifetimesAgree, PlaceOK, ThreadJoined, In, Has
  <2>2. PlaceOK(w)'
    BY <1>0, <1>1, <1>2, <1>6
       DEF CallOK, LifetimesAgree, PlaceOK, ThreadJoined, In, Has
  <2>3. ThreadJoined(w)'
    BY <1>0, <1>1, <1>2, <1>6 DEF CallOK, PlaceOK, ThreadJoined, In
  <2>4. ThreadCounted(w)'
    BY <1>0, <1>1, <1>2, <1>6
       DEF CallOK, LifetimesAgree, PlaceOK, ThreadJoined, ThreadCounted,
           In, Has
  <2>5. ResultFollows(w)'
    BY <1>0, <1>1, <1>2, <1>6
       DEF CallOK, LifetimesAgree, PlaceOK, ThreadJoined, ThreadCounted,
           ResultFollows, In, Has
  <2>6. AnswerFollows(w)'
    <3>1. result[w] = "worker" /\ answers[w] = <<>>
      BY <1>0, <1>6 DEF CallOK, ResultFollows, AnswerFollows
    <3>2. tsfn[w].closing => teardown
      BY <1>0, <1>6 DEF CallOK, ThreadCounted
    <3>3. answers'[w] = <<>> /\ (result'[w] = "freed" => teardown')
      BY <1>6, <3>1, <3>2
    <3>4. worker'[w] # "none" /\ worker'[w] # "working"
      BY <1>6
    <3> QED BY <3>3, <3>4 DEF AnswerFollows
  <2> QED BY <2>1, <2>2, <2>3, <2>4, <2>5, <2>6 DEF CallOK
<1> QED BY <1>3, <1>4, <1>5, <1>7 DEF AsyncInv

LEMMA ReleaseKeeps ==
  ASSUME AsyncInv, NEW w \in Works, release(w)
  PROVE  AsyncInv'
<1> USE DEF release
<1>0. /\ TypeOK /\ ThreadOK /\ CallOK(w) /\ js \in JsType
      /\ tsfn \in [Works -> Tsfn] /\ tsfn[w] \in Tsfn
      /\ Loop \in JsType /\ Loop.at = "loop" /\ Loop.work = NoWork
      /\ NoWork # w
  BY TypesGiven
<1>1. js' = js
  OBVIOUS
<1>2. /\ tsfn' \in [Works -> Tsfn]
      /\ \A v \in Works : v # w => tsfn'[v] = tsfn[v]
      /\ Has(tsfn'[w], 0, tsfn[w].queue, tsfn[w].closing, tsfn[w].handles)
  <2> DEFINE g == Released(tsfn[w])
  <2>1. g \in Tsfn /\ Has(g, 0, tsfn[w].queue, tsfn[w].closing, tsfn[w].handles)
    BY <1>0, TsfnParts DEF Has
  <2>2. tsfn' = [tsfn EXCEPT ![w] = g]
    OBVIOUS
  <2> HIDE DEF g
  <2> QED BY <1>0, <2>1, <2>2, TsfnUpdate
<1>3. TypeOK'
  <2>1. js' \in [at : Places, work : Works \cup {NoWork}]
    BY <1>0, <1>1 DEF JsType
  <2>2. worker' \in [Works -> {"none", "working", "calling", "releasing",
                              "returning", "exited"}]
    BY <1>0 DEF TypeOK
  <2>9. UNCHANGED <<teardown, object, joinable, outcome, result, answers>>
    OBVIOUS
  <2> HIDE DEF release
  <2> QED BY <1>0, <1>2, <2>1, <2>2, <2>9
         DEF TypeOK, Tsfn
<1>4. ThreadOK'
  BY <1>0, <1>1 DEF ThreadOK
<1>5. ASSUME NEW v \in Works, v # w PROVE CallOK(v)'
  BY <1>0, <1>1, <1>2, <1>5, UntouchedStays, WorksAssumption
     DEF Untouched, AsyncInv, TypeOK
<1>6. /\ worker[w] = "releasing" /\ worker'[w] = "returning"
      /\ object'[w] = object[w] /\ joinable'[w] = joinable[w]
      /\ outcome'[w] = outcome[w] /\ result'[w] = result[w]
      /\ answers'[w] = answers[w]
      /\ teardown' = teardown
  BY <1>0 DEF TypeOK
<1>7. CallOK(w)'
  <2> HIDE DEF release
  <2>1. LifetimesAgree(w)'
    BY <1>0, <1>1, <1>2, <1>6
       DEF CallOK, LifetimesAgree, PlaceOK, ThreadJoined, In, Has
  <2>2. PlaceOK(w)'
    BY <1>0, <1>1, <1>2, <1>6
       DEF CallOK, LifetimesAgree, PlaceOK, ThreadJoined, In, Has
  <2>3. ThreadJoined(w)'
    BY <1>0, <1>1, <1>2, <1>6 DEF CallOK, PlaceOK, ThreadJoined, In
  <2>4. ThreadCounted(w)'
    BY <1>0, <1>1, <1>2, <1>6
       DEF CallOK, LifetimesAgree, PlaceOK, ThreadJoined, ThreadCounted,
           In, Has
  <2>5. ResultFollows(w)'
    BY <1>0, <1>1, <1>2, <1>6
       DEF CallOK, LifetimesAgree, PlaceOK, ThreadJoined, ThreadCounted,
           ResultFollows, In, Has
  <2>6. AnswerFollows(w)'
    BY <1>0, <1>1, <1>2, <1>6
       DEF CallOK, PlaceOK, ThreadJoined, ResultFollows, AnswerFollows, In,
           Has
  <2> QED BY <2>1, <2>2, <2>3, <2>4, <2>5, <2>6 DEF CallOK
<1> QED BY <1>3, <1>4, <1>5, <1>7 DEF AsyncInv

LEMMA ExitKeeps ==
  ASSUME AsyncInv, NEW w \in Works, exit(w)
  PROVE  AsyncInv'
<1> USE DEF exit
<1>0. /\ TypeOK /\ ThreadOK /\ CallOK(w) /\ js \in JsType
      /\ tsfn \in [Works -> Tsfn] /\ tsfn[w] \in Tsfn
      /\ Loop \in JsType /\ Loop.at = "loop" /\ Loop.work = NoWork
      /\ NoWork # w
  BY TypesGiven
<1>1. js' = js
  OBVIOUS
<1>2. tsfn' = tsfn
  OBVIOUS
<1>3. TypeOK'
  <2>1. js' \in [at : Places, work : Works \cup {NoWork}]
    BY <1>0, <1>1 DEF JsType
  <2>2. worker' \in [Works -> {"none", "working", "calling", "releasing",
                              "returning", "exited"}]
    BY <1>0 DEF TypeOK
  <2>9. UNCHANGED <<teardown, object, joinable, outcome, result, answers>>
    OBVIOUS
  <2> HIDE DEF exit
  <2> QED BY <1>0, <1>2, <2>1, <2>2, <2>9
         DEF TypeOK, Tsfn
<1>4. ThreadOK'
  BY <1>0, <1>1 DEF ThreadOK
<1>5. ASSUME NEW v \in Works, v # w PROVE CallOK(v)'
  BY <1>0, <1>1, <1>2, <1>5, UntouchedStays, WorksAssumption
     DEF Untouched, AsyncInv, TypeOK
<1>6. /\ worker[w] = "returning" /\ worker'[w] = "exited"
      /\ object'[w] = object[w] /\ joinable'[w] = joinable[w]
      /\ outcome'[w] = outcome[w] /\ result'[w] = result[w]
      /\ answers'[w] = answers[w]
      /\ teardown' = teardown
  BY <1>0 DEF TypeOK
<1>7. CallOK(w)'
  <2> HIDE DEF exit
  <2>1. LifetimesAgree(w)'
    BY <1>0, <1>1, <1>2, <1>6
       DEF CallOK, LifetimesAgree, PlaceOK, ThreadJoined, In, Has
  <2>2. PlaceOK(w)'
    BY <1>0, <1>1, <1>2, <1>6
       DEF CallOK, LifetimesAgree, PlaceOK, ThreadJoined, In, Has
  <2>3. ThreadJoined(w)'
    BY <1>0, <1>1, <1>2, <1>6 DEF CallOK, PlaceOK, ThreadJoined, In
  <2>4. ThreadCounted(w)'
    BY <1>0, <1>1, <1>2, <1>6
       DEF CallOK, LifetimesAgree, PlaceOK, ThreadJoined, ThreadCounted,
           In, Has
  <2>5. ResultFollows(w)'
    BY <1>0, <1>1, <1>2, <1>6
       DEF CallOK, LifetimesAgree, PlaceOK, ThreadJoined, ThreadCounted,
           ResultFollows, In, Has
  <2>6. AnswerFollows(w)'
    BY <1>0, <1>1, <1>2, <1>6
       DEF CallOK, PlaceOK, ThreadJoined, ResultFollows, AnswerFollows, In,
           Has
  <2> QED BY <2>1, <2>2, <2>3, <2>4, <2>5, <2>6 DEF CallOK
<1> QED BY <1>3, <1>4, <1>5, <1>7 DEF AsyncInv

LEMMA RunCallbackKeeps ==
  ASSUME AsyncInv, NEW w \in Works, runCallback(w)
  PROVE  AsyncInv'
<1> USE DEF runCallback
<1>0. /\ TypeOK /\ ThreadOK /\ CallOK(w) /\ js \in JsType
      /\ tsfn \in [Works -> Tsfn] /\ tsfn[w] \in Tsfn
      /\ Loop \in JsType /\ Loop.at = "loop" /\ Loop.work = NoWork
      /\ NoWork # w
  BY TypesGiven
<1>1. /\ js.at = "callback" /\ js.work = w
      /\ js' \in JsType /\ js'.at = "loop" /\ js'.work = NoWork
  BY <1>0, JsParts DEF JsAt, Places
<1>2. tsfn' = tsfn
  OBVIOUS
<1>3. /\ answers' \in [Works -> Seq(Told)] /\ answers'[w] # <<>>
      /\ \A v \in Works : v # w => answers'[v] = answers[v]
  <2>1. \E what \in Told : Answer(w, what)
    BY DEF Told
  <2> QED BY <1>0, <2>1, AnswerGiven
<1>4. TypeOK'
  <2>1. js' \in [at : Places, work : Works \cup {NoWork}]
    BY <1>1 DEF JsType
  <2>2. result' \in [Works -> {"none", "worker", "queue", "callback", "freed",
                              "leaked"}]
    BY <1>0 DEF TypeOK
  <2>3. answers' \in [Works -> Seq({"exception", "error", "value",
                                   "uncaught exception"})]
    BY <1>3 DEF Told
  <2>9. UNCHANGED <<teardown, object, joinable, worker, outcome>>
    OBVIOUS
  <2> HIDE DEF runCallback
  <2> QED BY <1>0, <1>2, <2>1, <2>2, <2>3, <2>9
         DEF TypeOK, Tsfn
<1>5. ThreadOK'
  BY <1>0, <1>1 DEF ThreadOK
<1>6. ASSUME NEW v \in Works, v # w PROVE CallOK(v)'
  BY <1>0, <1>1, <1>2, <1>6, <1>3, UntouchedStays, WorksAssumption
     DEF Untouched, AsyncInv, TypeOK
<1>7. /\ result'[w] = "freed"
      /\ object'[w] = object[w] /\ joinable'[w] = joinable[w]
      /\ worker'[w] = worker[w] /\ outcome'[w] = outcome[w]
      /\ teardown' = teardown
  BY <1>0 DEF TypeOK
<1>8. CallOK(w)'
  <2> HIDE DEF runCallback
  <2>1. LifetimesAgree(w)'
    BY <1>0, <1>1, <1>2, <1>3, <1>7
       DEF CallOK, LifetimesAgree, PlaceOK, ThreadJoined, In, Has
  <2>2. PlaceOK(w)'
    BY <1>0, <1>1, <1>2, <1>3, <1>7
       DEF CallOK, LifetimesAgree, PlaceOK, ThreadJoined, In, Has
  <2>3. ThreadJoined(w)'
    BY <1>0, <1>1, <1>2, <1>3, <1>7 DEF CallOK, PlaceOK, ThreadJoined, In
  <2>4. ThreadCounted(w)'
    BY <1>0, <1>1, <1>2, <1>3, <1>7
       DEF CallOK, LifetimesAgree, PlaceOK, ThreadJoined, ThreadCounted,
           In, Has
  <2>5. ResultFollows(w)'
    BY <1>0, <1>1, <1>2, <1>3, <1>7
       DEF CallOK, LifetimesAgree, PlaceOK, ThreadJoined, ThreadCounted,
           ResultFollows, In, Has
  <2>6. AnswerFollows(w)'
    BY <1>0, <1>1, <1>2, <1>3, <1>7
       DEF CallOK, PlaceOK, ThreadJoined, ResultFollows, AnswerFollows, In,
           Has
  <2> QED BY <2>1, <2>2, <2>3, <2>4, <2>5, <2>6 DEF CallOK
<1> QED BY <1>4, <1>5, <1>6, <1>8 DEF AsyncInv

LEMMA EnterFinalizerKeeps ==
  ASSUME AsyncInv, NEW w \in Works, enterFinalizer(w)
  PROVE  AsyncInv'
<1> USE DEF enterFinalizer
<1>0. /\ TypeOK /\ ThreadOK /\ CallOK(w) /\ js \in JsType
      /\ tsfn \in [Works -> Tsfn] /\ tsfn[w] \in Tsfn
      /\ Loop \in JsType /\ Loop.at = "loop" /\ Loop.work = NoWork
      /\ NoWork # w
  BY TypesGiven
<1>1. /\ js.at = "loop" /\ js.work = NoWork
      /\ js' \in JsType /\ js'.at = "finalizing" /\ js'.work = w
  BY <1>0, JsParts DEF Places
<1>2. tsfn' = tsfn
  OBVIOUS
<1>3. TypeOK'
  <2>1. js' \in [at : Places, work : Works \cup {NoWork}]
    BY <1>1 DEF JsType
  <2> QED BY <1>0, <2>1 DEF TypeOK
<1>4. ThreadOK'
  BY <1>0, <1>1 DEF ThreadOK
<1>5. ASSUME NEW v \in Works, v # w PROVE CallOK(v)'
  BY <1>0, <1>1, <1>2, <1>5, UntouchedStays, WorksAssumption
     DEF Untouched, AsyncInv, TypeOK
<1>6. /\ tsfn[w].handles = "closing"
      /\ object'[w] = object[w] /\ joinable'[w] = joinable[w]
      /\ worker'[w] = worker[w] /\ outcome'[w] = outcome[w]
      /\ result'[w] = result[w] /\ answers'[w] = answers[w]
      /\ teardown' = teardown
  BY <1>0 DEF TypeOK
<1>7. CallOK(w)'
  <2> HIDE DEF enterFinalizer
  <2>1. LifetimesAgree(w)'
    BY <1>0, <1>1, <1>2, <1>6
       DEF CallOK, LifetimesAgree, PlaceOK, ThreadJoined, In, Has
  <2>2. PlaceOK(w)'
    <3>1. LifetimesAgree(w)
      BY <1>0 DEF CallOK
    <3>2. object[w] = "live"
      BY <1>0, <1>6, <3>1 DEF LifetimesAgree, TypeOK
    <3> QED BY <1>1, <1>2, <1>6, <3>2 DEF PlaceOK
  <2>3. ThreadJoined(w)'
    BY <1>0, <1>1, <1>2, <1>6 DEF CallOK, PlaceOK, ThreadJoined, In
  <2>4. ThreadCounted(w)'
    BY <1>0, <1>1, <1>2, <1>6
       DEF CallOK, LifetimesAgree, PlaceOK, ThreadJoined, ThreadCounted,
           In, Has
  <2>5. ResultFollows(w)'
    BY <1>0, <1>1, <1>2, <1>6
       DEF CallOK, LifetimesAgree, PlaceOK, ThreadJoined, ThreadCounted,
           ResultFollows, In, Has
  <2>6. AnswerFollows(w)'
    BY <1>0, <1>1, <1>2, <1>6
       DEF CallOK, PlaceOK, ThreadJoined, ResultFollows, AnswerFollows, In,
           Has
  <2> QED BY <2>1, <2>2, <2>3, <2>4, <2>5, <2>6 DEF CallOK
<1> QED BY <1>3, <1>4, <1>5, <1>7 DEF AsyncInv

LEMMA FinalizeKeeps ==
  ASSUME AsyncInv, NEW w \in Works, finalize(w)
  PROVE  AsyncInv'
<1> USE DEF finalize
<1>0. /\ TypeOK /\ ThreadOK /\ CallOK(w) /\ js \in JsType
      /\ tsfn \in [Works -> Tsfn] /\ tsfn[w] \in Tsfn
      /\ Loop \in JsType /\ Loop.at = "loop" /\ Loop.work = NoWork
      /\ NoWork # w
  BY TypesGiven
<1>1. /\ js.at = "finalizing" /\ js.work = w
      /\ js' \in JsType /\ js'.at = "loop" /\ js'.work = NoWork
  BY <1>0, JsParts DEF JsAt, Places
<1>2. /\ tsfn' \in [Works -> Tsfn]
      /\ \A v \in Works : v # w => tsfn'[v] = tsfn[v]
      /\ Has(tsfn'[w], tsfn[w].threads, 0, tsfn[w].closing, "gone")
  <2> DEFINE g == [tsfn[w] EXCEPT !.handles = "gone", !.queue = 0]
  <2>1. g \in Tsfn /\ Has(g, tsfn[w].threads, 0, tsfn[w].closing, "gone")
    BY <1>0 DEF Has, Tsfn
  <2>2. tsfn' = [tsfn EXCEPT ![w] = g]
    OBVIOUS
  <2> HIDE DEF g
  <2> QED BY <1>0, <2>1, <2>2, TsfnUpdate
<1>3. TypeOK'
  BY <1>0, <1>1, <1>2 DEF TypeOK, JsType, Tsfn
<1>4. ThreadOK'
  BY <1>0, <1>1 DEF ThreadOK
<1>5. ASSUME NEW v \in Works, v # w PROVE CallOK(v)'
  <2>1. CallOK(v) /\ v # NoWork
    BY WorksAssumption DEF AsyncInv
  <2>2. /\ object'[v] = object[v] /\ joinable'[v] = joinable[v]
        /\ result'[v] = result[v]
    BY <1>0, <1>5 DEF TypeOK
  <2>3. Untouched(v) /\ teardown' = teardown
    BY <1>1, <1>2, <1>5, <2>1, <2>2 DEF Untouched
  <2> QED BY <2>1, <2>3, UntouchedStays
<1>6. CallOK(w)'
  <2>0. /\ joinable'[w] = FALSE /\ object'[w] = "deleted"
        /\ worker'[w] = worker[w] /\ teardown' = teardown
        /\ joinable[w] => worker[w] = "exited"
    BY <1>0 DEF TypeOK
  <2>1. LifetimesAgree(w)' /\ PlaceOK(w)'
    <3> HIDE DEF finalize
    <3>1. tsfn[w].handles = "closing"
      BY <1>0, <1>1 DEF CallOK, PlaceOK
    <3> QED BY <1>0, <1>1, <1>2, <2>0, <3>1
            DEF CallOK, LifetimesAgree, PlaceOK, Has
  <2>2. ThreadJoined(w)'
    <3> HIDE DEF finalize
    <3>1. object[w] = "live"
      BY <1>0, <1>1 DEF CallOK, PlaceOK
    <3>2. worker[w] \in {"none", "exited"}
      BY <1>0, <1>1, <2>0, <3>1 DEF CallOK, ThreadJoined, In
    <3> QED BY <2>0, <3>2 DEF ThreadJoined
  <2>3. ThreadCounted(w)'
    <3> HIDE DEF finalize
    <3>1. object[w] = "live"
      BY <1>0, <1>1 DEF CallOK, PlaceOK
    <3>2. worker[w] \in {"none", "exited"}
      BY <1>0, <1>1, <2>0, <3>1 DEF CallOK, ThreadJoined, In
    <3>3. tsfn[w].handles = "closing" /\ tsfn[w].closing
      BY <1>0, <1>1 DEF CallOK, PlaceOK, LifetimesAgree
    <3>4. worker[w] = "none" => tsfn[w].threads = 0 \/ teardown
      BY <1>0, <3>3 DEF CallOK, ThreadCounted
    <3> QED BY <1>0, <1>1, <1>2, <2>0, <3>2, <3>3, <3>4
            DEF CallOK, ThreadCounted, In, Has
  <2>4. ResultFollows(w)'
    <3>1. /\ object'[w] = "deleted" /\ result[w] # "callback"
          /\ worker[w] \in {"none", "exited"}
      BY <1>0, <1>1
         DEF CallOK, PlaceOK, ThreadJoined, ResultFollows, In, TypeOK
    <3>2. result[w] = "queue" => teardown
      BY <1>0, <1>1 DEF CallOK, PlaceOK, LifetimesAgree, ThreadCounted,
                        ResultFollows, In, Tsfn
    <3>3. result'[w] = IF result[w] = "queue" THEN "leaked" ELSE result[w]
      BY <1>0 DEF TypeOK
    <3>4. /\ tsfn'[w].queue = 0 /\ js'.at = "loop"
          /\ worker'[w] = worker[w] /\ outcome'[w] = outcome[w]
          /\ teardown' = teardown
      BY <1>1, <1>2 DEF Has
    <3> HIDE DEF finalize
    <3> QED BY <1>0, <3>1, <3>2, <3>3, <3>4 DEF CallOK, ResultFollows, In
  <2>5. AnswerFollows(w)'
    <3>1. /\ object[w] = "live" /\ object'[w] = "deleted"
          /\ result[w] # "callback"
      BY <1>0, <1>1 DEF CallOK, PlaceOK, ResultFollows, In, TypeOK
    <3>2. result'[w] = IF result[w] = "queue" THEN "leaked" ELSE result[w]
      BY <1>0 DEF TypeOK
    <3>3. /\ worker' = worker /\ answers' = answers /\ teardown' = teardown
          /\ ~In("starting", w) /\ ~In("starting", w)'
      BY <1>1 DEF In
    <3> HIDE DEF finalize
    <3> QED BY <1>0, <3>1, <3>2, <3>3 DEF CallOK, AnswerFollows
  <2> QED BY <2>1, <2>2, <2>3, <2>4, <2>5 DEF CallOK
<1> QED BY <1>3, <1>4, <1>5, <1>6 DEF AsyncInv

(* The event loop takes a result from the queue, if there is one, and      *)
(* closes a function that nobody needs any more.                           *)
LEMMA DispatchKeeps ==
  ASSUME AsyncInv, NEW w \in Works, dispatch(w)
  PROVE  AsyncInv'
<1> DEFINE f == [tsfn[w] EXCEPT !.signalled = FALSE]
           left == IF f.queue > 0 THEN [f EXCEPT !.queue = @ - 1] ELSE f
           g == IF left.queue > 0 THEN [left EXCEPT !.signalled = TRUE]
                ELSE IF left.threads = 0 THEN Closed(left) ELSE left
<1>0. /\ TypeOK /\ ThreadOK /\ CallOK(w) /\ js \in JsType
      /\ tsfn \in [Works -> Tsfn] /\ tsfn[w] \in Tsfn
      /\ Loop \in JsType /\ Loop.at = "loop" /\ Loop.work = NoWork
      /\ NoWork # w
  BY TypesGiven
<1>1. tsfn' = [tsfn EXCEPT ![w] = g]
  BY Zenon DEF dispatch
<1>2. f \in Tsfn /\ f.queue = tsfn[w].queue /\ f.threads = tsfn[w].threads
      /\ f.closing = tsfn[w].closing /\ f.handles = tsfn[w].handles
  BY <1>0 DEF Tsfn
<1> HIDE DEF f
<1>3. left \in Tsfn /\ left.queue = 0 /\ left.threads = f.threads
      /\ left.closing = f.closing /\ left.handles = f.handles
  BY <1>2 DEF Tsfn
<1> HIDE DEF left
<1>4. /\ g \in Tsfn /\ g.queue = 0 /\ g.threads = tsfn[w].threads
      /\ IF tsfn[w].threads = 0
         THEN g.closing = TRUE /\ g.handles = "closing"
         ELSE g.closing = tsfn[w].closing /\ g.handles = tsfn[w].handles
  <2>1. g = IF left.threads = 0 THEN Closed(left) ELSE left
    BY <1>3
  <2>2. /\ Closed(left) \in Tsfn /\ Closed(left).queue = 0
        /\ Closed(left).threads = left.threads
        /\ Closed(left).closing = TRUE /\ Closed(left).handles = "closing"
    BY <1>3, TsfnParts DEF Has
  <2> HIDE DEF g
  <2>3. CASE left.threads = 0
    BY <1>2, <1>3, <2>1, <2>2, <2>3
  <2>4. CASE left.threads # 0
    BY <1>2, <1>3, <2>1, <2>4
  <2> QED BY <2>3, <2>4
<1> HIDE DEF g
<1>5. /\ tsfn' \in [Works -> Tsfn] /\ tsfn'[w] = g
      /\ \A v \in Works : v # w => tsfn'[v] = tsfn[v]
  BY <1>0, <1>1, <1>4, TsfnUpdate
<1>6. js.at = "loop" /\ js.work = NoWork /\ tsfn[w].handles = "open"
  BY <1>0 DEF dispatch
<1>7. IF tsfn[w].queue > 0
      THEN /\ js' \in JsType /\ js'.at = "callback" /\ js'.work = w
           /\ result' = [result EXCEPT ![w] = "callback"]
      ELSE js' = js /\ result' = result
  BY <1>2, JsParts DEF dispatch, f, Places
<1>8. UNCHANGED <<teardown, object, joinable, worker, outcome, answers>>
  BY DEF dispatch
<1>9. TypeOK'
  <2>1. js' \in [at : Places, work : Works \cup {NoWork}]
    BY <1>0, <1>7 DEF JsType
  <2>2. result' \in [Works -> {"none", "worker", "queue", "callback", "freed",
                              "leaked"}]
    BY <1>0, <1>7 DEF TypeOK
  <2> QED BY <1>0, <1>5, <1>8, <2>1, <2>2 DEF TypeOK, Tsfn
<1>10. ThreadOK'
  BY <1>0, <1>6, <1>7 DEF ThreadOK
<1>11. ASSUME NEW v \in Works, v # w PROVE CallOK(v)'
  BY <1>0, <1>5, <1>6, <1>7, <1>8, <1>11, UntouchedStays, WorksAssumption
     DEF Untouched, AsyncInv, TypeOK
<1>12. CallOK(w)'
  <2>1. LifetimesAgree(w)
    BY <1>0 DEF CallOK
  <2>2. LifetimesAgree(w)'
    BY <1>0, <1>4, <1>5, <1>6, <1>8, <2>1 DEF LifetimesAgree
  <2>3. object[w] = "live" /\ ~tsfn[w].closing /\ ~teardown
    <3>1. object[w] \in {"absent", "live", "deleted"}
      BY <1>0 DEF TypeOK
    <3> QED BY <1>6, <2>1, <3>1 DEF LifetimesAgree
  <2>4. tsfn[w].queue \in {0, 1}
    BY <1>0 DEF Tsfn
  <2>5. PlaceOK(w)'
    BY <1>0, <1>6, <1>7, <1>8, <2>3 DEF PlaceOK
  <2>6. ThreadJoined(w)'
    BY <1>0, <1>6, <1>7, <1>8 DEF CallOK, ThreadJoined, In
  <2>7. ThreadCounted(w)'
    BY <1>0, <1>4, <1>5, <1>6, <1>7, <1>8 DEF CallOK, ThreadCounted, In
  <2>8. CASE tsfn[w].queue = 0
    <3>1. js' = js /\ result' = result
      BY <1>7, <2>8
    <3>2. ResultFollows(w)' /\ AnswerFollows(w)'
      BY <1>0, <1>4, <1>5, <1>8, <2>8, <3>1
         DEF CallOK, ResultFollows, AnswerFollows, In
    <3> QED BY <2>2, <2>5, <2>6, <2>7, <3>2 DEF CallOK
  <2>9. CASE tsfn[w].queue = 1
    <3>1. js'.at = "callback" /\ js'.work = w /\ result'[w] = "callback"
      <4>1. tsfn[w].queue > 0
        BY <2>9
      <4>2. result \in [Works -> {"none", "worker", "queue", "callback",
                                  "freed", "leaked"}]
        BY <1>0 DEF TypeOK
      <4> QED BY <1>7, <4>1, <4>2
    <3>2. result[w] = "queue"
      BY <1>0, <2>9 DEF CallOK, ResultFollows
    <3>3. ResultFollows(w)'
      BY <1>0, <1>4, <1>5, <1>8, <3>1, <3>2 DEF CallOK, ResultFollows, In
    <3>4. AnswerFollows(w)'
      BY <1>0, <1>8, <3>1, <3>2 DEF CallOK, ResultFollows, AnswerFollows, In
    <3> QED BY <2>2, <2>5, <2>6, <2>7, <3>3, <3>4 DEF CallOK
  <2> QED BY <2>4, <2>8, <2>9
<1> QED BY <1>9, <1>10, <1>11, <1>12 DEF AsyncInv

LEMMA TearDownKeeps ==
  ASSUME AsyncInv, tearDown
  PROVE  AsyncInv'
<1> USE DEF tearDown
<1>1. /\ TypeOK /\ ThreadOK /\ js \in JsType /\ tsfn \in [Works -> Tsfn]
      /\ Loop.at = "loop" /\ Loop.work = NoWork
      /\ \A w \in Works : CallOK(w) /\ NoWork # w /\ tsfn[w] \in Tsfn
  <2>1. Loop.at = "loop" /\ Loop.work = NoWork
    BY JsParts DEF Loop, Places
  <2>2. /\ TypeOK /\ ThreadOK /\ js \in JsType /\ tsfn \in [Works -> Tsfn]
        /\ \A w \in Works : CallOK(w)
    BY DEF AsyncInv, TypeOK, JsType, Tsfn
  <2> QED BY <2>1, <2>2, WorksAssumption
<1>2. ASSUME NEW w \in Works
      PROVE  /\ tsfn'[w] \in Tsfn
             /\ tsfn'[w].threads = tsfn[w].threads
             /\ tsfn'[w].queue = tsfn[w].queue
             /\ IF tsfn[w].handles = "open"
                THEN tsfn'[w].closing = TRUE /\ tsfn'[w].handles = "closing"
                ELSE tsfn'[w] = tsfn[w]
  <2>1. tsfn'[w] = IF tsfn[w].handles = "open" THEN Closed(tsfn[w])
                   ELSE tsfn[w]
    OBVIOUS
  <2>2. tsfn[w] \in Tsfn
    BY <1>1
  <2>3. Has(Closed(tsfn[w]), tsfn[w].threads, tsfn[w].queue, TRUE, "closing")
    BY <2>2, TsfnParts
  <2> HIDE DEF tearDown
  <2>4. CASE tsfn[w].handles = "open"
    BY <2>1, <2>3, <2>4 DEF Has
  <2>5. CASE tsfn[w].handles # "open"
    BY <2>1, <2>2, <2>5
  <2> QED BY <2>4, <2>5
<1>3. tsfn' \in [Works -> Tsfn]
  BY <1>2
<1>4. TypeOK'
  BY <1>1, <1>3 DEF TypeOK, Tsfn
<1>5. ThreadOK'
  BY <1>1 DEF ThreadOK
<1>6. ASSUME NEW w \in Works PROVE CallOK(w)'
  <2>1. /\ js.at = "loop" /\ js.work # w /\ teardown'
        /\ UNCHANGED <<js, object, joinable, worker, outcome, result, answers>>
    BY <1>1
  <2>2. CallOK(w) /\ tsfn[w] \in Tsfn /\ tsfn'[w] \in Tsfn
    BY <1>1, <1>2
  <2> HIDE DEF tearDown
  <2>3. LifetimesAgree(w)'
    BY <1>2, <2>1, <2>2 DEF CallOK, LifetimesAgree, Tsfn
  <2>4. PlaceOK(w)' /\ ThreadJoined(w)'
    BY <2>1, <2>2 DEF CallOK, PlaceOK, ThreadJoined, In
  <2>5. ThreadCounted(w)'
    BY <1>2, <2>1, <2>2 DEF CallOK, ThreadCounted, In
  <2>6. ResultFollows(w)'
    BY <1>2, <2>1, <2>2 DEF CallOK, ResultFollows, In
  <2>7. AnswerFollows(w)'
    BY <2>1, <2>2 DEF CallOK, AnswerFollows, In
  <2> QED BY <2>3, <2>4, <2>5, <2>6, <2>7 DEF CallOK
<1> QED BY <1>4, <1>5, <1>6 DEF AsyncInv

-----------------------------------------------------------------------------
LEMMA AsyncInvInit == Init => AsyncInv
<1> SUFFICES ASSUME Init PROVE AsyncInv
  OBVIOUS
<1>1. /\ Loop \in JsType /\ Loop.at = "loop" /\ Loop.work = NoWork
      /\ Has(NoTsfn, 0, 0, FALSE, "absent")
  <2>1. NoTsfn \in Tsfn
    BY DEF NoTsfn, Tsfn
  <2> QED BY <2>1, JsParts, TsfnParts DEF Loop, Places
<1>2. TypeOK
  <2>1. tsfn \in [Works -> Tsfn]
    BY <1>1 DEF Init, Has
  <2>2. js \in JsType
    BY <1>1 DEF Init
  <2>3. answers \in [Works -> Seq(Told)]
    BY DEF Init
  <2> QED BY <2>1, <2>2, <2>3 DEF Init, TypeOK, JsType, Tsfn, Told
<1>3. ThreadOK
  BY <1>1 DEF Init, ThreadOK
<1>4. ASSUME NEW w \in Works PROVE CallOK(w)
  BY <1>1, WorksAssumption DEF Init, CallOK, LifetimesAgree, PlaceOK,
     ThreadJoined, ThreadCounted, ResultFollows, AnswerFollows, In, Has
<1> QED BY <1>2, <1>3, <1>4 DEF AsyncInv

LEMMA AsyncInvStep == AsyncInv /\ [Next]_vars => AsyncInv'
<1> SUFFICES ASSUME AsyncInv, [Next]_vars PROVE AsyncInv'
  OBVIOUS
<1>1. ASSUME NEW w \in Works, Worker(w) PROVE AsyncInv'
  BY <1>1, WorkKeeps, BlockingCallKeeps, ReleaseKeeps, ExitKeeps DEF Worker
<1>2. ASSUME NEW w \in Works, acceptCall(w) PROVE AsyncInv'
  BY <1>2, AcceptCallKeeps
<1>3. CASE JavaScript
  BY <1>3, StartThreadKeeps, FailToStartKeeps, AssignThreadKeeps,
     DispatchKeeps, RunCallbackKeeps, EnterFinalizerKeeps, FinalizeKeeps
     DEF JavaScript
<1>4. CASE tearDown
  BY <1>4, TearDownKeeps
<1>5. CASE UNCHANGED vars
  <2>1. TypeOK' /\ ThreadOK'
    BY <1>5 DEF vars, AsyncInv, TypeOK, ThreadOK
  <2>2. ASSUME NEW w \in Works PROVE CallOK(w)'
    BY <1>5, UntouchedStays DEF vars, Untouched, AsyncInv
  <2> QED BY <2>1, <2>2 DEF AsyncInv
<1> QED BY <1>1, <1>2, <1>3, <1>4, <1>5 DEF Next, rest

(* Every call stays at a place where its threads, its function and its     *)
(* result agree.                                                           *)
THEOREM AsyncInvariant == Spec => []AsyncInv
BY AsyncInvInit, AsyncInvStep, PTL DEF Spec

-----------------------------------------------------------------------------
(* Every variable keeps to its values: no more than one result is ever in  *)
(* the queue, and the thread count of a function never passes zero.        *)
THEOREM TypeCorrect == Spec => []TypeOK
<1>1. AsyncInv => TypeOK
  BY DEF AsyncInv
<1> QED BY <1>1, AsyncInvariant, PTL

(* The finalizer overtakes neither the worker, which still uses the        *)
(* function, nor the handler, which still stores the thread.               *)
THEOREM NothingUsedAfterFree == Spec => []NoUseAfterFree
<1>1. AsyncInv => NoUseAfterFree
  <2> SUFFICES ASSUME AsyncInv, NEW w \in Works,
                      \/ worker[w] \in {"working", "calling", "releasing"}
                      \/ JsAt("assigning", w)
               PROVE  object[w] = "live" /\ tsfn[w].handles # "gone"
    BY DEF NoUseAfterFree
  <2>1. TypeOK /\ CallOK(w) /\ js \in JsType
    BY TypesGiven
  <2>2. JsAt("assigning", w) => js.work = w
    BY <2>1, JsParts DEF JsAt, Places
  <2> QED BY <2>1, <2>2 DEF TypeOK, CallOK, LifetimesAgree, PlaceOK,
                            ThreadJoined
<1> QED BY <1>1, AsyncInvariant, PTL

(* delete runs on an AsyncWork whose thread has ended and was joined.      *)
THEOREM AlwaysJoined == Spec => []JoinedBeforeDelete
<1>1. AsyncInv => JoinedBeforeDelete
  BY DEF AsyncInv, CallOK, ThreadJoined, JoinedBeforeDelete
<1> QED BY <1>1, AsyncInvariant, PTL

(* A result is freed by the worker or the callback; only teardown lets one *)
(* go that was queued.                                                     *)
THEOREM NoResultEverLost == Spec => []NoResultIsLost
<1>1. AsyncInv => NoResultIsLost
  <2> SUFFICES ASSUME AsyncInv, NEW w \in Works, object[w] = "deleted"
               PROVE  \/ result[w] \in {"none", "freed"}
                      \/ teardown /\ result[w] = "leaked"
    BY DEF NoResultIsLost
  <2>1. TypeOK /\ CallOK(w)
    BY TypesGiven
  <2>2. worker[w] \in {"none", "exited"}
    BY <2>1 DEF CallOK, ThreadJoined
  <2>3. result[w] # "callback"
    BY <2>1 DEF CallOK, PlaceOK, ResultFollows, In
  <2>4. result[w] # "worker"
    BY <2>1, <2>2 DEF CallOK, ResultFollows
  <2>5. result[w] # "queue"
    BY <2>1 DEF CallOK, ResultFollows, LifetimesAgree
  <2> QED BY <2>1, <2>3, <2>4, <2>5 DEF TypeOK, CallOK, ResultFollows
<1> QED BY <1>1, AsyncInvariant, PTL

-----------------------------------------------------------------------------
(* Each step of the threads is a step of Requests, or none.                *)

LEMMA WorkIsPromised ==
  ASSUME AsyncInv, NEW w \in Works, work(w)
  PROVE  Promise!Work(w)
<1>1. TypeOK /\ CallOK(w)
  BY TypesGiven
<1>2. object[w] = "live" /\ outcome[w] = "none" /\ answers[w] = <<>>
  BY <1>1 DEF work, TypeOK, CallOK, ThreadJoined, ResultFollows, AnswerFollows
<1> QED BY <1>2 DEF work, Promise!Work

LEMMA FailToStartIsPromised ==
  ASSUME AsyncInv, NEW w \in Works, failToStart(w)
  PROVE  Promise!Reply(w)
<1>1. TypeOK /\ CallOK(w) /\ js.at = "starting" /\ js.work = w
  BY TypesGiven, JsParts DEF failToStart, JsAt, Places
<1>2. /\ object[w] = "live" /\ outcome[w] = "none" /\ answers[w] = <<>>
      /\ ~teardown
  BY <1>1
     DEF TypeOK, CallOK, PlaceOK, LifetimesAgree, ResultFollows,
         AnswerFollows, In
<1>3. "exception" \in Promise!Answers(outcome[w])
  BY <1>2 DEF Promise!Answers
<1>4. answers' = [answers EXCEPT ![w] = <<"exception">>]
  BY <1>2 DEF failToStart, Answer
<1> QED BY <1>2, <1>3, <1>4 DEF failToStart, Promise!Reply

LEMMA RunCallbackIsPromised ==
  ASSUME AsyncInv, NEW w \in Works, runCallback(w)
  PROVE  Promise!Reply(w)
<1>1. TypeOK /\ CallOK(w) /\ js.at = "callback" /\ js.work = w
  BY TypesGiven, JsParts DEF runCallback, JsAt, Places
<1>2. /\ object[w] = "live" /\ outcome[w] \in {"value", "error"}
      /\ answers[w] = <<>> /\ ~teardown
  BY <1>1 DEF TypeOK, CallOK, PlaceOK, ResultFollows, AnswerFollows, In
<1>3. PICK what \in Promise!Answers(outcome[w]) : Answer(w, what)
  <2>1. CASE outcome[w] = "error"
    BY <2>1 DEF runCallback, Promise!Answers
  <2>2. CASE outcome[w] = "value"
    BY <2>2 DEF runCallback, Promise!Answers
  <2> QED BY <1>2, <2>1, <2>2
<1>4. answers' = [answers EXCEPT ![w] = <<what>>]
  BY <1>2, <1>3 DEF Answer
<1> QED BY <1>2, <1>3, <1>4 DEF runCallback, Promise!Reply

LEMMA FinalizeIsPromised ==
  ASSUME AsyncInv, NEW w \in Works, finalize(w)
  PROVE  Promise!Reclaim(w)
<1>1. TypeOK /\ CallOK(w) /\ js.at = "finalizing" /\ js.work = w
  BY TypesGiven, JsParts DEF finalize, JsAt, Places
<1>2. object[w] = "live" /\ tsfn[w].closing
  BY <1>1 DEF CallOK, PlaceOK, LifetimesAgree
<1>3. worker[w] \in {"none", "exited"}
  BY <1>1, <1>2 DEF finalize, CallOK, ThreadJoined, In
<1>4. CASE worker[w] = "none"
  <2>1. answers[w] # <<>>
    BY <1>1, <1>2, <1>4 DEF CallOK, AnswerFollows, In
  <2> QED BY <1>2, <2>1 DEF finalize, Promise!Reclaim
<1>5. CASE worker[w] = "exited"
  <2>1. outcome[w] # "none" /\ result[w] \in {"queue", "freed"}
    BY <1>1, <1>2, <1>5 DEF TypeOK, CallOK, ResultFollows, In
  <2>2. result[w] = "queue" => teardown
    BY <1>1, <1>2 DEF CallOK, ThreadCounted, ResultFollows
  <2>3. answers[w] # <<>> \/ teardown
    BY <1>1, <2>1, <2>2 DEF CallOK, AnswerFollows
  <2> QED BY <1>2, <2>1, <2>3 DEF finalize, Promise!Reclaim
<1> QED BY <1>3, <1>4, <1>5

(* The workers, the queue and the finalizer of all calls together do       *)
(* nothing but accept a call, work on it, answer it once with what was     *)
(* found, and reclaim it afterwards.                                       *)
THEOREM CallsAreServed ==
  Spec => Promise!Init /\ [][Promise!Next]_(Promise!requestVars)
<1>1. Init => Promise!Init
  BY DEF Init, Promise!Init
<1>2. AsyncInv /\ [Next]_vars => [Promise!Next]_(Promise!requestVars)
  <2> SUFFICES ASSUME AsyncInv, [Next]_vars
               PROVE  \/ Promise!Next
                      \/ UNCHANGED <<object, outcome, teardown, answers>>
    BY DEF Promise!requestVars
  <2>1. ASSUME NEW w \in Works, acceptCall(w) PROVE Promise!Accept(w)
    BY <2>1 DEF acceptCall, Promise!Accept
  <2>2. ASSUME tearDown PROVE Promise!TearDown
    BY <2>2 DEF tearDown, Promise!TearDown
  <2>3. ASSUME NEW w \in Works,
               \/ startThread(w) \/ assignThread(w) \/ enterFinalizer(w)
               \/ blockingCall(w) \/ release(w) \/ exit(w) \/ dispatch(w)
        PROVE  UNCHANGED <<object, outcome, teardown, answers>>
    BY <2>3 DEF startThread, assignThread, enterFinalizer, blockingCall,
                release, exit, dispatch
  <2> QED
    BY <2>1, <2>2, <2>3, WorkIsPromised, FailToStartIsPromised,
       RunCallbackIsPromised, FinalizeIsPromised
       DEF Next, JavaScript, Worker, rest, vars, Promise!Next
<1> QED BY <1>1, <1>2, AsyncInvariant, PTL DEF Spec

-----------------------------------------------------------------------------
(* Output buffers: the inductive invariant.                                *)

BufferTypes ==
  /\ memory \in [Blocks -> Messages \cup {Unused}]
  /\ state \in [Calls -> States]
  /\ encoded \in [Calls -> Blocks \cup {NoBlock}]
  /\ buffer \in [Calls -> Blocks \cup {NoBlock}]
  /\ message \in [Calls -> Messages \cup {Unused}]

(* A call has a vector until its Buffer is made, then a Buffer until that  *)
(* is collected; there is its message.                                     *)
HoldsMessage(c) ==
  /\ encoded[c] # NoBlock <=> state[c] = "encoded"
  /\ buffer[c] # NoBlock <=> state[c] \in {"held", "dropped"}
  /\ state[c] = "absent" \/ message[c] \in Messages
  /\ encoded[c] # NoBlock => memory[encoded[c]] = message[c]
  /\ buffer[c] # NoBlock => memory[buffer[c]] = message[c]

Owns(c, b) == b \in {encoded[c], buffer[c]}

(* No block is under two calls, and no block in use is under none.         *)
NotShared == \A b \in Blocks, c, d \in Calls : Owns(c, b) /\ Owns(d, b) => c = d
NotLost == \A b \in Blocks : memory[b] # Unused => \E c \in Calls : Owns(c, b)

BufferInv ==
  BufferTypes /\ (\A c \in Calls : HoldsMessage(c)) /\ NotShared /\ NotLost

-----------------------------------------------------------------------------
(* A free block is under no call: what is under a call holds a message.    *)
LEMMA FreeIsUnowned ==
  ASSUME BufferInv, NEW b \in Blocks, memory[b] = Unused, NEW c \in Calls
  PROVE  ~Owns(c, b)
BY OutputBufferAssumption
   DEF BufferInv, BufferTypes, HoldsMessage, Owns, States

LEMMA BufferInvInit == BufferInit => BufferInv
BY OutputBufferAssumption
   DEF BufferInit, BufferInv, BufferTypes, HoldsMessage, Owns, NotShared,
       NotLost, States

LEMMA EncodeKeeps ==
  ASSUME BufferInv, NEW c \in Calls, encode(c)
  PROVE  BufferInv'
<1>1. PICK b \in Blocks, m \in Messages :
        /\ memory[b] = Unused
        /\ memory' = [memory EXCEPT ![b] = m]
        /\ encoded' = [encoded EXCEPT ![c] = b]
        /\ message' = [message EXCEPT ![c] = m]
  BY DEF encode
<1>2. /\ state[c] = "absent" /\ state' = [state EXCEPT ![c] = "encoded"]
      /\ buffer' = buffer
  BY DEF encode, Move
<1>3. \A d \in Calls : ~Owns(d, b)
  BY <1>1, FreeIsUnowned
<1>4. BufferTypes'
  BY <1>1, <1>2 DEF BufferInv, BufferTypes, States
<1>5. ASSUME NEW d \in Calls PROVE HoldsMessage(d)'
  BY <1>1, <1>2, <1>3, OutputBufferAssumption
     DEF BufferInv, BufferTypes, HoldsMessage, Owns, States
<1>6. NotShared'
  BY <1>1, <1>2, <1>3 DEF BufferInv, BufferTypes, NotShared, Owns
<1>7. NotLost'
  BY <1>1, <1>2, <1>3, OutputBufferAssumption
     DEF BufferInv, BufferTypes, HoldsMessage, NotLost, Owns
<1> QED BY <1>4, <1>5, <1>6, <1>7 DEF BufferInv

LEMMA CopySmallKeeps ==
  ASSUME BufferInv, NEW c \in Calls, copySmall(c)
  PROVE  BufferInv'
<1> DEFINE e == encoded[c]
<1>1. PICK b \in Blocks :
        /\ memory[b] = Unused
        /\ memory' = [memory EXCEPT ![b] = memory[e], ![e] = Unused]
        /\ buffer' = [buffer EXCEPT ![c] = b]
  BY DEF copySmall
<1>2. /\ state[c] = "encoded" /\ state' = [state EXCEPT ![c] = "held"]
      /\ encoded' = [encoded EXCEPT ![c] = NoBlock] /\ message' = message
  BY DEF copySmall, Move
<1>3. \A d \in Calls : ~Owns(d, b)
  BY <1>1, FreeIsUnowned
<1>4. e \in Blocks /\ e # b /\ memory[e] = message[c] /\ buffer[c] = NoBlock
      /\ message[c] \in Messages
  BY <1>2, <1>3 DEF BufferInv, BufferTypes, HoldsMessage, Owns
<1>5. \A d \in Calls : d # c => ~Owns(d, e)
  BY <1>4 DEF BufferInv, NotShared, Owns
<1> HIDE DEF e
<1>6. BufferTypes'
  BY <1>1, <1>2, <1>4 DEF BufferInv, BufferTypes, States
<1>7. ASSUME NEW d \in Calls PROVE HoldsMessage(d)'
  BY <1>1, <1>2, <1>3, <1>4, <1>5, OutputBufferAssumption
     DEF BufferInv, BufferTypes, HoldsMessage, Owns, States
<1>8. NotShared'
  BY <1>1, <1>2, <1>3, OutputBufferAssumption
     DEF BufferInv, BufferTypes, NotShared, Owns
<1>9. NotLost'
  BY <1>1, <1>2, <1>3, <1>4, OutputBufferAssumption
     DEF BufferInv, BufferTypes, NotLost, Owns, e
<1> QED BY <1>6, <1>7, <1>8, <1>9 DEF BufferInv

LEMMA CreateExternalKeeps ==
  ASSUME BufferInv, NEW c \in Calls, createExternal(c)
  PROVE  BufferInv'
<1>1. /\ state[c] = "encoded" /\ state' = [state EXCEPT ![c] = "held"]
      /\ buffer' = [buffer EXCEPT ![c] = encoded[c]]
      /\ encoded' = [encoded EXCEPT ![c] = NoBlock]
      /\ memory' = memory /\ message' = message
  BY DEF createExternal, Move
<1>2. /\ encoded[c] \in Blocks /\ memory[encoded[c]] = message[c]
      /\ buffer[c] = NoBlock
  BY <1>1 DEF BufferInv, BufferTypes, HoldsMessage
<1>3. \A d \in Calls, b \in Blocks : Owns(d, b)' = Owns(d, b)
  BY <1>1, <1>2, OutputBufferAssumption DEF BufferInv, BufferTypes, Owns
<1>4. BufferTypes'
  BY <1>1, <1>2 DEF BufferInv, BufferTypes, States
<1>5. ASSUME NEW d \in Calls PROVE HoldsMessage(d)'
  BY <1>1, <1>2, OutputBufferAssumption
     DEF BufferInv, BufferTypes, HoldsMessage, States
<1>6. NotShared' /\ NotLost'
  BY <1>1, <1>3 DEF BufferInv, NotShared, NotLost
<1> QED BY <1>4, <1>5, <1>6 DEF BufferInv

LEMMA RefuseKeeps ==
  ASSUME BufferInv, NEW c \in Calls, refuse(c)
  PROVE  BufferInv'
<1> DEFINE e == encoded[c]
<1>1. /\ state[c] = "encoded" /\ state' = [state EXCEPT ![c] = "refused"]
      /\ memory' = [memory EXCEPT ![e] = Unused]
      /\ encoded' = [encoded EXCEPT ![c] = NoBlock]
      /\ buffer' = buffer /\ message' = message
  BY DEF refuse, Move
<1>2. e \in Blocks /\ buffer[c] = NoBlock
  BY <1>1 DEF BufferInv, BufferTypes, HoldsMessage
<1>3. \A d \in Calls : d # c => ~Owns(d, e)
  BY <1>2 DEF BufferInv, NotShared, Owns
<1> HIDE DEF e
<1>4. BufferTypes'
  BY <1>1, <1>2 DEF BufferInv, BufferTypes, States
<1>5. ASSUME NEW d \in Calls PROVE HoldsMessage(d)'
  BY <1>1, <1>2, <1>3, OutputBufferAssumption
     DEF BufferInv, BufferTypes, HoldsMessage, Owns, States
<1>6. NotShared'
  BY <1>1, OutputBufferAssumption DEF BufferInv, BufferTypes, NotShared, Owns
<1>7. NotLost'
  BY <1>1, <1>2, OutputBufferAssumption
     DEF BufferInv, BufferTypes, NotLost, Owns, e
<1> QED BY <1>4, <1>5, <1>6, <1>7 DEF BufferInv

LEMMA UserWritesKeeps ==
  ASSUME BufferInv, NEW c \in Calls, userWrites(c)
  PROVE  BufferInv'
<1>1. PICK m \in Messages :
        /\ memory' = [memory EXCEPT ![buffer[c]] = m]
        /\ message' = [message EXCEPT ![c] = m]
  BY DEF userWrites
<1>2. state[c] = "held" /\ UNCHANGED <<state, encoded, buffer>>
  BY DEF userWrites
<1>3. buffer[c] \in Blocks /\ encoded[c] = NoBlock
  BY <1>2 DEF BufferInv, BufferTypes, HoldsMessage
<1>4. \A d \in Calls : d # c => ~Owns(d, buffer[c])
  BY <1>3 DEF BufferInv, NotShared, Owns
<1>5. BufferTypes'
  BY <1>1, <1>2 DEF BufferInv, BufferTypes
<1>6. ASSUME NEW d \in Calls PROVE HoldsMessage(d)'
  BY <1>1, <1>2, <1>3, <1>4 DEF BufferInv, BufferTypes, HoldsMessage, Owns
<1>7. NotShared' /\ NotLost'
  BY <1>1, <1>2 DEF BufferInv, BufferTypes, NotShared, NotLost, Owns
<1> QED BY <1>5, <1>6, <1>7 DEF BufferInv

LEMMA DropKeeps ==
  ASSUME BufferInv, NEW c \in Calls, drop(c)
  PROVE  BufferInv'
BY DEF drop, Move, BufferInv, BufferTypes, HoldsMessage, NotShared, NotLost,
       Owns, States

(* Node's own memory and the owner of an external Buffer go the same way.  *)
LEMMA CollectKeeps ==
  ASSUME BufferInv, NEW c \in Calls, collect(c)
  PROVE  BufferInv'
<1> DEFINE e == buffer[c]
<1>1. /\ state[c] = "dropped" /\ state' = [state EXCEPT ![c] = "gone"]
      /\ memory' = [memory EXCEPT ![e] = Unused]
      /\ buffer' = [buffer EXCEPT ![c] = NoBlock]
      /\ encoded' = encoded /\ message' = message
  BY DEF collect, FinalizeExternalBuffer, freed, Move
<1>2. e \in Blocks /\ encoded[c] = NoBlock
  BY <1>1 DEF BufferInv, BufferTypes, HoldsMessage
<1>3. \A d \in Calls : d # c => ~Owns(d, e)
  BY <1>2 DEF BufferInv, NotShared, Owns
<1> HIDE DEF e
<1>4. BufferTypes'
  BY <1>1, <1>2 DEF BufferInv, BufferTypes, States
<1>5. ASSUME NEW d \in Calls PROVE HoldsMessage(d)'
  BY <1>1, <1>2, <1>3, OutputBufferAssumption
     DEF BufferInv, BufferTypes, HoldsMessage, Owns, States
<1>6. NotShared'
  BY <1>1, OutputBufferAssumption DEF BufferInv, BufferTypes, NotShared, Owns
<1>7. NotLost'
  BY <1>1, <1>2, OutputBufferAssumption
     DEF BufferInv, BufferTypes, NotLost, Owns, e
<1> QED BY <1>4, <1>5, <1>6, <1>7 DEF BufferInv

LEMMA BufferInvStep == BufferInv /\ [BufferNext]_bvars => BufferInv'
<1> SUFFICES ASSUME BufferInv, [BufferNext]_bvars PROVE BufferInv'
  OBVIOUS
<1>1. CASE BufferNext
  BY <1>1, EncodeKeeps, CopySmallKeeps, CreateExternalKeeps, RefuseKeeps,
     UserWritesKeeps, DropKeeps, CollectKeeps DEF BufferNext, CreateOutputBuffer
<1>2. CASE UNCHANGED bvars
  BY <1>2 DEF bvars, BufferInv, BufferTypes, HoldsMessage, NotShared, NotLost,
              Owns
<1> QED BY <1>1, <1>2

(* Vectors and Buffers hold their messages in blocks of their own.         *)
THEOREM BufferInvariant == BufferSpec => []BufferInv
BY BufferInvInit, BufferInvStep, PTL DEF BufferSpec

-----------------------------------------------------------------------------
(* As long as JavaScript can reach a Buffer, and until it is collected,    *)
(* the memory below holds what was encoded or written there.               *)
THEOREM BuffersAreKept == BufferSpec => []BuffersKeepMessage
<1>1. BufferInv => BuffersKeepMessage
  BY DEF BufferInv, HoldsMessage, BuffersKeepMessage
<1> QED BY <1>1, BufferInvariant, PTL

(* Every block in use is under exactly one vector or Buffer, every free    *)
(* one under none: no path through CreateOutputBuffer() leaks or frees     *)
(* twice.                                                                  *)
THEOREM BlocksAreOwned == BufferSpec => []EveryBlockHasOneOwner
<1>1. BufferInv => EveryBlockHasOneOwner
  <2> SUFFICES ASSUME BufferInv, NEW b \in Blocks
               PROVE  Cardinality({c \in Calls : Owns(c, b)}) =
                        IF memory[b] = Unused THEN 0 ELSE 1
    BY DEF EveryBlockHasOneOwner, Owns
  <2>1. CASE memory[b] = Unused
    <3>1. {c \in Calls : Owns(c, b)} = {}
      BY <2>1, FreeIsUnowned
    <3> QED BY <2>1, <3>1, FS_EmptySet
  <2>2. CASE memory[b] # Unused
    <3>1. PICK c \in Calls : Owns(c, b)
      BY <2>2 DEF BufferInv, NotLost
    <3>2. {d \in Calls : Owns(d, b)} = {c}
      BY <3>1 DEF BufferInv, NotShared
    <3> QED BY <2>2, <3>2, FS_Singleton
  <2> QED BY <2>1, <2>2
<1> QED BY <1>1, BufferInvariant, PTL
=============================================================================
