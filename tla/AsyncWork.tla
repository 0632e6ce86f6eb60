----------------------------- MODULE AsyncWork -----------------------------
(***************************************************************************)
(* encodeAsync() and decodeAsync(): one JavaScript thread, one worker      *)
(* thread per call, and a thread-safe function per call that carries the   *)
(* result back.  Both handlers have the same control, so a call here is    *)
(* either of them.  An exception on the way to "starting" (wrong           *)
(* arguments, a value that cannot be copied) changes nothing and is left   *)
(* out.  The thread-safe function and the event loop are Node's: they are  *)
(* modelled from how the addon uses them.                                  *)
(***************************************************************************)
EXTENDS Integers, Sequences

CONSTANTS Works,   \* the asynchronous calls
          NoWork   \* not one of them

ASSUME WorksAssumption == NoWork \notin Works

VARIABLES
  js,        \* the JavaScript thread: where it is, and for which call
  teardown,  \* the environment is being torn down
  object,    \* the AsyncWork of a call
  joinable,  \* its member worker refers to a thread
  worker,    \* the worker thread: where it is in its lambda
  outcome,   \* what the worker stored in the result
  result,    \* who has the result
  tsfn,      \* the thread-safe function
  answers    \* what the caller was told, in order

vars == <<js, teardown, object, joinable, worker, outcome, result, tsfn,
          answers>>

Places == {"loop", "starting", "assigning", "callback", "finalizing"}
Js(at, w) == [at |-> at, work |-> w]
Loop == Js("loop", NoWork)
JsAt(at, w) == js = Js(at, w)

(* handles: whether its event-loop handles are open.  A closed one that    *)
(* was finalised is gone.                                                  *)
NoTsfn == [threads |-> 0, queue |-> 0, closing |-> FALSE,
           signalled |-> FALSE, handles |-> "absent"]
NewTsfn == [NoTsfn EXCEPT !.threads = 1, !.handles = "open"]

(* napi_release_threadsafe_function                                        *)
Released(f) ==
  IF f.threads = 0 THEN f
  ELSE [f EXCEPT !.threads = f.threads - 1,
                 !.signalled = @ \/ (f.threads = 1 /\ ~f.closing)]

Closed(f) == [f EXCEPT !.closing = TRUE, !.handles = "closing"]

(* napi_call_threadsafe_function: it drops the thread of a caller that     *)
(* comes too late.                                                         *)
Pushed(f) ==
  IF f.closing
  THEN [f EXCEPT !.threads = IF f.threads = 0 THEN 0 ELSE f.threads - 1]
  ELSE [f EXCEPT !.queue = f.queue + 1, !.signalled = TRUE]

Answer(w, what) == answers' = [answers EXCEPT ![w] = Append(@, what)]

-----------------------------------------------------------------------------
(* The handler, on the JavaScript thread: the AsyncWork and its            *)
(* thread-safe function exist, the thread is about to be started.          *)
acceptCall(w) ==
  /\ js = Loop /\ ~teardown
  /\ object[w] = "absent"
  /\ object' = [object EXCEPT ![w] = "live"]
  /\ tsfn' = [tsfn EXCEPT ![w] = NewTsfn]
  /\ js' = Js("starting", w)
  /\ UNCHANGED <<teardown, joinable, worker, outcome, result, answers>>

startThread(w) ==
  /\ JsAt("starting", w)
  /\ worker' = [worker EXCEPT ![w] = "working"]
  /\ js' = Js("assigning", w)
  /\ UNCHANGED <<teardown, object, joinable, outcome, result, tsfn, answers>>

(* Mutant: the function is not released when no thread was started.        *)
failToStartUnreleased(w) ==
  /\ JsAt("starting", w)
  /\ Answer(w, "exception")
  /\ js' = Loop
  /\ UNCHANGED <<teardown, object, joinable, worker, outcome, result, tsfn>>

(* std::system_error: the handler releases the function and throws.        *)
failToStart(w) ==
  /\ JsAt("starting", w)
  /\ tsfn' = [tsfn EXCEPT ![w] = Released(@)]
  /\ Answer(w, "exception")
  /\ js' = Loop
  /\ UNCHANGED <<teardown, object, joinable, worker, outcome, result>>

(* The thread already runs when it is moved into the AsyncWork.            *)
assignThread(w) ==
  /\ JsAt("assigning", w)
  /\ joinable' = [joinable EXCEPT ![w] = TRUE]
  /\ js' = Loop
  /\ UNCHANGED <<teardown, object, worker, outcome, result, tsfn, answers>>

-----------------------------------------------------------------------------
(* The lambda of the worker thread.                                        *)
work(w) ==
  /\ worker[w] = "working"
  /\ worker' = [worker EXCEPT ![w] = "calling"]
  /\ result' = [result EXCEPT ![w] = "worker"]
  /\ \E o \in {"value", "error"} : outcome' = [outcome EXCEPT ![w] = o]
  /\ UNCHANGED <<js, teardown, object, joinable, tsfn, answers>>

(* Mutant: the status of the call is not looked at.                        *)
blockingCallUnchecked(w) ==
  /\ worker[w] = "calling"
  /\ worker' = [worker EXCEPT ![w] = "releasing"]
  /\ tsfn' = [tsfn EXCEPT ![w] = Pushed(@)]
  /\ result' = [result EXCEPT ![w] = IF tsfn[w].closing THEN @ ELSE "queue"]
  /\ UNCHANGED <<js, teardown, object, joinable, outcome, answers>>

blockingCall(w) ==
  /\ worker[w] = "calling"
  /\ worker' = [worker EXCEPT ![w] = "releasing"]
  /\ tsfn' = [tsfn EXCEPT ![w] = Pushed(@)]
  /\ result' = [result EXCEPT ![w] =
                  IF tsfn[w].closing THEN "freed" ELSE "queue"]
  /\ UNCHANGED <<js, teardown, object, joinable, outcome, answers>>

release(w) ==
  /\ worker[w] = "releasing"
  /\ worker' = [worker EXCEPT ![w] = "returning"]
  /\ tsfn' = [tsfn EXCEPT ![w] = Released(@)]
  /\ UNCHANGED <<js, teardown, object, joinable, outcome, result, answers>>

exit(w) ==
  /\ worker[w] = "returning"
  /\ worker' = [worker EXCEPT ![w] = "exited"]
  /\ UNCHANGED <<js, teardown, object, joinable, outcome, result, tsfn,
                 answers>>

-----------------------------------------------------------------------------
(* The event loop serves a signalled function: it takes one result from    *)
(* the queue, and closes the function when it is empty and unused.         *)
dispatch(w) ==
  LET f == [tsfn[w] EXCEPT !.signalled = FALSE]
      left == IF f.queue > 0 THEN [f EXCEPT !.queue = @ - 1] ELSE f
  IN /\ js = Loop
     /\ tsfn[w].handles = "open" /\ tsfn[w].signalled
     /\ tsfn' = [tsfn EXCEPT ![w] =
                   IF left.queue > 0 THEN [left EXCEPT !.signalled = TRUE]
                   ELSE IF left.threads = 0 THEN Closed(left) ELSE left]
     /\ IF f.queue > 0
        THEN /\ js' = Js("callback", w)
             /\ result' = [result EXCEPT ![w] = "callback"]
        ELSE UNCHANGED <<js, result>>
     /\ UNCHANGED <<teardown, object, joinable, worker, outcome, answers>>

(* The lambda handed to BlockingCall: it owns the result.  Building the    *)
(* JavaScript value may throw, and then the callback is not called.        *)
runCallback(w) ==
  /\ JsAt("callback", w)
  /\ result' = [result EXCEPT ![w] = "freed"]
  /\ IF outcome[w] = "error" THEN Answer(w, "error")
     ELSE \E what \in {"value", "uncaught exception"} : Answer(w, what)
  /\ js' = Loop
  /\ UNCHANGED <<teardown, object, joinable, worker, outcome, tsfn>>

(* The handles are closed: the finalizer handed to New() runs.  It joins   *)
(* the worker, which blocks the JavaScript thread, and deletes the         *)
(* AsyncWork.  Results still queued are dropped without being freed.       *)
enterFinalizer(w) ==
  /\ js = Loop
  /\ tsfn[w].handles = "closing"
  /\ js' = Js("finalizing", w)
  /\ UNCHANGED <<teardown, object, joinable, worker, outcome, result, tsfn,
                 answers>>

(* Mutant: the worker is detached instead of joined.                       *)
finalizeDetached(w) ==
  /\ JsAt("finalizing", w)
  /\ joinable' = [joinable EXCEPT ![w] = FALSE]
  /\ object' = [object EXCEPT ![w] = "deleted"]
  /\ tsfn' = [tsfn EXCEPT ![w].handles = "gone", ![w].queue = 0]
  /\ result' = [result EXCEPT ![w] = IF @ = "queue" THEN "leaked" ELSE @]
  /\ js' = Loop
  /\ UNCHANGED <<teardown, worker, outcome, answers>>

finalize(w) ==
  /\ JsAt("finalizing", w)
  /\ joinable[w] => worker[w] = "exited"
  /\ joinable' = [joinable EXCEPT ![w] = FALSE]
  /\ object' = [object EXCEPT ![w] = "deleted"]
  /\ tsfn' = [tsfn EXCEPT ![w].handles = "gone", ![w].queue = 0]
  /\ result' = [result EXCEPT ![w] = IF @ = "queue" THEN "leaked" ELSE @]
  /\ js' = Loop
  /\ UNCHANGED <<teardown, worker, outcome, answers>>

(* Environment teardown closes every function that is still open.          *)
tearDown ==
  /\ js = Loop /\ ~teardown
  /\ teardown' = TRUE
  /\ tsfn' = [w \in Works |-> IF tsfn[w].handles = "open"
                              THEN Closed(tsfn[w]) ELSE tsfn[w]]
  /\ UNCHANGED <<js, object, joinable, worker, outcome, result, answers>>

-----------------------------------------------------------------------------
Init ==
  /\ js = Loop /\ teardown = FALSE
  /\ object = [w \in Works |-> "absent"]
  /\ joinable = [w \in Works |-> FALSE]
  /\ worker = [w \in Works |-> "none"]
  /\ outcome = [w \in Works |-> "none"]
  /\ result = [w \in Works |-> "none"]
  /\ tsfn = [w \in Works |-> NoTsfn]
  /\ answers = [w \in Works |-> <<>>]

Worker(w) == work(w) \/ blockingCall(w) \/ release(w) \/ exit(w)

(* What the JavaScript thread does by itself once it was given a call.     *)
JavaScript ==
  \E w \in Works :
    \/ startThread(w) \/ failToStart(w) \/ assignThread(w)
    \/ dispatch(w) \/ runCallback(w)
    \/ enterFinalizer(w) \/ finalize(w)

(* Nothing is left to do.                                                  *)
rest ==
  /\ js = Loop /\ teardown
  /\ \A w \in Works : object[w] # "live"
  /\ UNCHANGED vars

Next ==
  \/ \E w \in Works : acceptCall(w) \/ Worker(w)
  \/ JavaScript
  \/ tearDown
  \/ rest

(* The threads are scheduled and the event loop turns; nobody is bound to  *)
(* make a call or to tear the environment down.                            *)
Fairness == WF_vars(JavaScript) /\ \A w \in Works : WF_vars(Worker(w))

Spec == Init /\ [][Next]_vars /\ Fairness

-----------------------------------------------------------------------------
(* Properties.                                                             *)

TypeOK ==
  /\ js \in [at : Places, work : Works \cup {NoWork}]
  /\ teardown \in BOOLEAN
  /\ object \in [Works -> {"absent", "live", "deleted"}]
  /\ joinable \in [Works -> BOOLEAN]
  /\ worker \in [Works -> {"none", "working", "calling", "releasing",
                           "returning", "exited"}]
  /\ outcome \in [Works -> {"none", "value", "error"}]
  /\ result \in [Works -> {"none", "worker", "queue", "callback", "freed",
                           "leaked"}]
  /\ tsfn \in [Works -> [threads : {0, 1}, queue : {0, 1},
                         closing : BOOLEAN, signalled : BOOLEAN,
                         handles : {"absent", "open", "closing", "gone"}]]
  /\ answers \in [Works -> Seq({"exception", "error", "value",
                                "uncaught exception"})]

(* While the worker still has to use work->tsfn, and while the handler     *)
(* still has to store the thread in it, the AsyncWork and the thread-safe  *)
(* function exist: the finalizer may not overtake either of them.          *)
NoUseAfterFree ==
  \A w \in Works :
    worker[w] \in {"working", "calling", "releasing"} \/ JsAt("assigning", w)
      => object[w] = "live" /\ tsfn[w].handles # "gone"

(* The AsyncWork is deleted only when its thread has ended and was joined: *)
(* destroying a joinable std::thread would terminate the process.          *)
JoinedBeforeDelete ==
  \A w \in Works :
    object[w] = "deleted" => worker[w] \in {"none", "exited"} /\ ~joinable[w]

(* Once a call is over, its result was freed by the worker or by the       *)
(* callback.  The exception is a result that was queued when the           *)
(* environment was torn down: nobody frees that one.                       *)
NoResultIsLost ==
  \A w \in Works :
    object[w] = "deleted" =>
      \/ result[w] \in {"none", "freed"}
      \/ teardown /\ result[w] = "leaked"

Promise == INSTANCE Requests WITH phase <- object, found <- outcome,
                                  torn <- teardown

(* The threads, the queue and the finalizer of encodeAsync() and           *)
(* decodeAsync() together implement the plain exchange of Requests: one    *)
(* answer per accepted call, which is what the worker found; nothing is    *)
(* reclaimed before it, unless the environment is torn down; and no call   *)
(* stays unanswered or unreclaimed forever.                                *)
ServesRequests == Promise!Spec
=============================================================================
