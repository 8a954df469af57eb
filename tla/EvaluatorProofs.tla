--------------------------- MODULE EvaluatorProofs ---------------------------
(* Theorems about Evaluator, for any submissions, any number of calls of     *)
(* close(), and pipes and messages of any size.  What SchedulerProofs and    *)
(* WorkerProofs prove of each part alone is taken over here by instance, its *)
(* assumption on the constants proved, and the rest is about their meeting.  *)
EXTENDS Evaluator, FiniteSetTheorems, TLAPS

SP == INSTANCE SchedulerProofs WITH
        Closers <- {First(x) : x \in Closings} \cup {Last(x) : x \in Closings},
        Joining <- {Last(x) : x \in Closings}

WP == INSTANCE WorkerProofs WITH
        Callers <- {Dispatcher}, Closers <- Closings,
        MaxRuns <- Cardinality(Requests), closed <- workerClosed

-----------------------------------------------------------------------------
(* The parts *)

(* A step of the evaluator is one of the scheduler or none, and one of the   *)
(* transport or none: a call from one to the other is a step of both, and no *)
(* step reaches past the interface of either.                                *)
LEMMA StepParts == ASSUME [Next]_vars PROVE [S!Next]_S!vars /\ [W!Next]_W!vars
<1>0. /\ UNCHANGED queue => UNCHANGED S!vars
      /\ UNCHANGED worker => UNCHANGED W!vars
  BY DEF queue, S!vars, worker, W!vars, W!transport, W!engine
<1> USE <1>0
<1>1. ASSUME NEW r \in Requests, Use(r) \/ S!Resolve(r), UNCHANGED worker
      PROVE  S!Next /\ UNCHANGED worker
  BY <1>1 DEF Use, S!Next
<1>2. CASE Dispatch
  BY <1>2 DEF Dispatch, Execute, Finish, S!Next, S!Run, W!Next
<1>3. ASSUME NEW x \in Closings, CloseQueue(x) \/ Closing(x)
      PROVE  [S!Next]_S!vars /\ [W!Next]_W!vars
  BY <1>3 DEF CloseQueue, Closing, CloseWorker, JoinQueue, S!Next, S!Close, W!Next
<1>4. CASE Engine \/ Tick
  BY <1>4 DEF Engine, Tick, W!Next
<1>5. CASE Ended \/ UNCHANGED vars
  BY <1>5 DEF Ended, vars
<1> QED
  BY <1>1, <1>2, <1>3, <1>4, <1>5 DEF Next

(* Within the evaluator each part behaves as its own module says, for every  *)
(* order of submissions, failures and closing: what holds of every behaviour *)
(* of Scheduler and of Worker holds of the parts of the evaluator.           *)
THEOREM PartsKeepTheirSpecs == Spec => S!Spec /\ W!Spec
<1>1. Init => S!Init /\ W!Init
  BY DEF Init
<1>3. [Next]_vars => [S!Next]_S!vars /\ [W!Next]_W!vars
  BY StepParts
<1> QED
  BY <1>1, <1>3, PTL DEF Spec, S!Spec, W!Spec

(* S and SP name the definitions of one module, as W and WP do. *)
LEMMA SameScheduler == [S!Next]_S!vars <=> [SP!Next]_SP!vars
  BY Zenon DEF S!vars, SP!vars, S!AfterCancel, SP!AfterCancel,
      S!AfterClaim, SP!AfterClaim, S!IsFirst, SP!IsFirst, S!Live, SP!Live,
      S!OlderFrames, SP!OlderFrames, S!Cardinality, SP!Cardinality,
      S!Full, SP!Full, S!TakeQueue, SP!TakeQueue, S!Notify, SP!Notify,
      S!RejectClosed, SP!RejectClosed, S!Replace, SP!Replace,
      S!RejectFull, SP!RejectFull, S!Enqueue, SP!Enqueue,
      S!ClaimReplaced, SP!ClaimReplaced, S!FailReplaced, SP!FailReplaced,
      S!Cancel, SP!Cancel, S!Wait, SP!Wait, S!Exit, SP!Exit, S!Pop, SP!Pop,
      S!Claim, SP!Claim, S!Expire, SP!Expire, S!Execute, SP!Execute,
      S!Finish, SP!Finish, S!BeginClose, SP!BeginClose,
      S!CancelDrained, SP!CancelDrained, S!EndClose, SP!EndClose,
      S!Ended, SP!Ended, S!Submit, SP!Submit, S!Resolve, SP!Resolve,
      S!Run, SP!Run, S!Close, SP!Close, S!Next, SP!Next

LEMMA SameWorker == [W!Next]_W!vars <=> [WP!Next]_WP!vars
  BY Zenon DEF W!transport, WP!transport, W!engine, WP!engine,
      W!vars, WP!vars, W!Replies, WP!Replies, W!Complete, WP!Complete,
      W!GoTo, WP!GoTo, W!Call, WP!Call, W!Begin, WP!Begin,
      W!Refuse, WP!Refuse, W!Unencodable, WP!Unencodable, W!Check, WP!Check,
      W!Continue, WP!Continue, W!Write, WP!Write, W!Read, WP!Read,
      W!Break, WP!Break, W!Leave, WP!Leave, W!Return, WP!Return,
      W!Distrust, WP!Distrust, W!Kill, WP!Kill, W!Fail, WP!Fail,
      W!BeginClose, WP!BeginClose, W!Stopped, WP!Stopped,
      W!ClosePipes, WP!ClosePipes, W!EngineRead, WP!EngineRead,
      W!EngineWrite, WP!EngineWrite, W!EngineExit, WP!EngineExit,
      W!Tick, WP!Tick, W!Ended, WP!Ended, W!Run, WP!Run, W!Close, WP!Close,
      W!Next, WP!Next

LEMMA SameSpecs == S!Spec /\ W!Spec => SP!Spec /\ WP!Spec
<1>1. (S!Init <=> SP!Init) /\ (W!Init <=> WP!Init)
  BY DEF S!Init, SP!Init, W!Init, WP!Init, W!Threads, WP!Threads
<1> QED
  BY <1>1, SameScheduler, SameWorker, PTL DEF S!Spec, SP!Spec, W!Spec, WP!Spec

LEMMA ConstantsFit == SP!SchedulerAssumption /\ WP!WorkerAssumption
<1>1. Cardinality(Requests) \in Nat
  BY EvaluatorAssumption, FS_CardinalityType
<1> QED
  BY <1>1, EvaluatorAssumption DEF SP!SchedulerAssumption, WP!WorkerAssumption

\* What a caller of the evaluator sees of its future is what the ledger of
\* requests promises, with the transport that api.py puts behind the queue.
THEOREM EvaluatorImplementsLedger == Spec => SP!ImplementsLedger
  BY PartsKeepTheirSpecs, SameSpecs, SP!SchedulerImplementsLedger, ConstantsFit, PTL

(* What each part guarantees alone. *)
Alone == SP!TypeOK /\ SP!InOneHand /\ WP!TypeOK /\ WP!Inductive

LEMMA AlwaysAlone == Spec => []Alone
<1>1. Spec => SP!Spec /\ WP!Spec
  BY PartsKeepTheirSpecs, SameSpecs
<1>2. SP!Spec => []SP!TypeOK
  BY SP!TypeCorrect, ConstantsFit
<1>3. SP!Spec => []SP!InOneHand
  BY SP!EveryRequestInOneHand, ConstantsFit
<1>4. WP!Spec => []WP!TypeOK
  BY WP!TypeCorrect, ConstantsFit
<1>5. WP!Spec => []WP!Inductive
  BY WP!Invariance, ConstantsFit
<1> QED
  BY <1>1, <1>2, <1>3, <1>4, <1>5, PTL DEF Alone

LEMMA Shapes ==
  ASSUME Alone
  PROVE  /\ dispatcher \in {"checking", "waiting", "exited", "popped", "claimed", "executing"}
         /\ served \in Seq(Requests) /\ job \in Requests \cup {NoRequest}
         /\ job # NoRequest <=> dispatcher \in {"popped", "claimed", "executing"}
         /\ future \in [Requests -> SP!FutureStates]
         /\ closer \in [{First(x) : x \in Closings} \cup {Last(x) : x \in Closings}
                            -> {"idle", "cancelling", "closed"}]
         /\ thread \in [{Dispatcher} \cup Closings -> WP!Places]
         /\ \A x \in Closings :
                thread[x] \in {"idle", "closing", "stopping", "stopped", "closed"}
         /\ outcome \in [{Dispatcher} ->
                            {"none", "result", "error", "failed", "refused"}]
         /\ request \in [{Dispatcher} -> Nat] /\ issued \in Nat
<1>1. Cardinality(Requests) \in Nat
  BY EvaluatorAssumption, FS_CardinalityType
<1>2. SP!TypeOK /\ WP!Control
  BY DEF Alone, WP!Inductive, WP!Typed
<1> QED
  BY <1>1, <1>2 DEF SP!TypeOK, SP!Holding, SP!Carrying, WP!Control, WP!Threads

-----------------------------------------------------------------------------
(* The dispatcher's calls of run() *)

\* The last exchange brought a whole answer to the last request.
Whole ==
    /\ Len(received) = Parts
    /\ \A i \in 1 .. Parts : received[i].id = request[Dispatcher]
    /\ received[Parts].says = "result"

\* run() runs only inside self.execute, for the job that was popped last, and
\* what it returned is still there when self.execute returns.
Calls ==
    /\ issued = Len(served) /\ request[Dispatcher] = issued
    /\ dispatcher = "executing" => served # <<>> /\ served[Len(served)] = job
    /\ thread[Dispatcher] # "idle" =>
        dispatcher = "executing" /\ outcome[Dispatcher] = "none"
    /\ outcome[Dispatcher] = "result" => Whole

LEMMA StepCalls == ASSUME Alone, Calls, [Next]_vars PROVE Calls'
<1> USE Shapes
<1>1. ASSUME UNCHANGED worker, served' = served,
             dispatcher' = "executing" <=> dispatcher = "executing",
             dispatcher = "executing" => job' = job
      PROVE  Calls'
  BY <1>1 DEF Calls, Whole, worker
<1>2. ASSUME UNCHANGED queue, UNCHANGED <<issued, request, outcome, received>>,
             thread'[Dispatcher] = thread[Dispatcher]
      PROVE  Calls'
  BY <1>2 DEF Calls, Whole, queue
<1>3. ASSUME NEW r \in Requests, Use(r) \/ S!Resolve(r), UNCHANGED worker
      PROVE  Calls'
  BY <1>1, <1>3 DEF Use, S!Submit, S!RejectClosed, S!Replace, S!RejectFull, S!Enqueue,
     S!Cancel, S!Resolve, S!ClaimReplaced, S!FailReplaced, S!Notify
<1>4. ASSUME NEW x \in Closings, CloseQueue(x) \/ Closing(x)
      PROVE  Calls'
  <2>1. ASSUME NEW c, S!BeginClose(c) \/ S!CancelDrained(c) \/ S!EndClose(c),
               UNCHANGED worker
        PROVE  Calls'
    BY <1>1, <2>1 DEF S!BeginClose, S!CancelDrained, S!EndClose, S!Notify
  <2>2. x # Dispatcher
    BY EvaluatorAssumption
  <2>3. ASSUME W!BeginClose(x) \/ W!Close(x), UNCHANGED queue
        PROVE  Calls'
    BY <1>2, <2>2, <2>3 DEF W!BeginClose, W!Close, W!Kill, W!Stopped, W!ClosePipes,
       W!GoTo, W!transport
  <2> QED
    BY <1>4, <2>1, <2>3 DEF CloseQueue, Closing, CloseWorker, JoinQueue
<1>5. CASE Engine \/ Tick
  BY <1>2, <1>5 DEF Engine, Tick, W!EngineRead, W!EngineWrite, W!EngineExit, W!Tick,
     W!transport
<1>6. CASE Dispatch
  <2>1. CASE (S!Wait \/ S!Exit \/ S!Pop \/ S!Claim \/ S!Expire) /\ UNCHANGED worker
    BY <1>1, <2>1 DEF S!Wait, S!Exit, S!Pop, S!Claim, S!Expire
  <2>2. CASE Execute
    <3>1. Len(served') = Len(served) + 1 /\ served'[Len(served')] = job
      BY <2>2 DEF Execute, S!Execute
    <3> QED
      BY <2>2, <3>1 DEF Execute, S!Execute, W!Call, W!GoTo, Calls
  <2>3. CASE Finish
    BY <2>3 DEF Finish, S!Finish, worker, Calls, Whole
  <2>4. CASE W!Run(Dispatcher) /\ UNCHANGED queue
    <3>1. thread[Dispatcher] # "idle"
      BY <2>4 DEF W!Run, W!Begin, W!Refuse, W!Unencodable, W!Check, W!Write, W!Read,
         W!Break, W!Return, W!Distrust, W!Kill, W!Fail
    <3>2. UNCHANGED <<issued, request>>
      BY <2>4 DEF W!Run, W!Begin, W!Refuse, W!Unencodable, W!Check, W!Write, W!Read,
         W!Break, W!Return, W!Distrust, W!Kill, W!Fail
    <3>3. \/ outcome' = outcome
          \/ thread'[Dispatcher] = "idle" /\ outcome'[Dispatcher] # "result"
          \/ W!Return(Dispatcher)
      BY <2>4 DEF W!Run, W!Begin, W!Refuse, W!Unencodable, W!Check, W!Write, W!Read,
         W!Break, W!Return, W!Distrust, W!Kill, W!Fail, W!GoTo, W!Leave
    <3>4. CASE W!Return(Dispatcher)
      <4>1. thread'[Dispatcher] = "idle" /\ received' = received
        BY <3>4 DEF W!Return, W!Leave, W!GoTo, W!transport
      <4>2. /\ Len(received) = Parts
            /\ \A i \in 1 .. Parts : received[i].id = request[Dispatcher]
        BY EvaluatorAssumption, <3>4
        DEF Alone, WP!Inductive, WP!Typed, WP!Pipes, WP!Exchange, WP!Exchanging,
            WP!Own, WP!Answered, W!Return
      <4>3. outcome'[Dispatcher] = received[Parts].says
        BY <3>4, <4>2 DEF W!Return, W!Leave
      <4> QED
        BY <2>4, <3>2, <4>1, <4>2, <4>3 DEF Calls, Whole, queue
    <3> QED
      BY <2>4, <3>1, <3>2, <3>3, <3>4 DEF Calls, queue
  <2> QED
    BY <1>6, <2>1, <2>2, <2>3, <2>4 DEF Dispatch
<1>7. CASE Ended \/ UNCHANGED vars
  BY <1>1, <1>7 DEF Ended, vars, queue
<1> QED
  BY <1>3, <1>4, <1>5, <1>6, <1>7 DEF Next

LEMMA AlwaysCalls == Spec => []Calls
<1>1. Init => Calls
  BY DEF Init, S!Init, W!Init, W!Threads, Calls
<1>2. Alone /\ Calls /\ [Next]_vars => Calls'
  BY StepCalls
<1> QED
  BY <1>1, <1>2, AlwaysAlone, PTL DEF Spec

\* run() is in progress only while the dispatcher executes a job, and the two
\* parts count the same requests: the number a request has on the pipes is its
\* place in the order of service.
THEOREM TypeCorrect == Spec => []TypeOK
<1>1. SP!TypeOK => S!TypeOK
  BY DEF SP!TypeOK, S!TypeOK, SP!FutureStates, S!FutureStates, SP!Outcomes,
     S!Outcomes, SP!Holding, S!Holding, SP!Carrying, S!Carrying
<1>2. WP!TypeOK => W!TypeOK
  BY DEF WP!TypeOK, W!TypeOK, WP!Threads, W!Threads, WP!InTransport, W!InTransport,
     WP!InStop, W!InStop, WP!Piece, W!Piece, WP!Replies, W!Replies
<1>3. Alone /\ Calls => TypeOK
  BY <1>1, <1>2 DEF Alone, Calls, TypeOK
<1> QED
  BY <1>3, AlwaysAlone, AlwaysCalls, PTL

\* A future gets a result only from a whole answer that the engine computed
\* from this very request, whatever was left of earlier ones.
THEOREM ResultsAreOwn == Spec => ResultIsItsOwn
<1>1. ASSUME Alone, Calls, [Next]_vars,
             NEW r \in Requests, future[r] # "result", future'[r] = "result"
      PROVE  /\ served[Len(served)] = r
             /\ Len(received) = Parts
             /\ \A i \in 1 .. Parts : received[i].id = Len(served)
             /\ received[Parts].says = "result"
  <2> USE <1>1, Shapes
  <2>1. UNCHANGED queue => future' = future
    BY DEF queue
  <2>2. ASSUME NEW q, S!Submit(q) \/ S!Resolve(q) \/ S!Cancel(q)
        PROVE  FALSE
    BY <2>2 DEF S!Submit, S!RejectClosed, S!Replace, S!RejectFull, S!Enqueue,
       S!Cancel, S!Resolve, S!ClaimReplaced, S!FailReplaced, S!AfterClaim, S!AfterCancel
  <2>3. ASSUME NEW c, S!BeginClose(c) \/ S!CancelDrained(c) \/ S!EndClose(c)
        PROVE  FALSE
    BY <2>3 DEF S!BeginClose, S!CancelDrained, S!EndClose, S!AfterCancel
  <2>4. ~ (S!Wait \/ S!Exit \/ S!Pop \/ S!Claim \/ S!Expire \/ S!Execute)
    BY DEF S!Wait, S!Exit, S!Pop, S!Claim, S!Expire, S!Execute, S!AfterClaim
  <2>5. Finish
    BY <2>1, <2>2, <2>3, <2>4 DEF Next, Use, Dispatch, Execute, Closing, CloseQueue,
       CloseWorker, JoinQueue, Engine, Tick, Ended, vars
  <2>6. dispatcher = "executing" /\ r = job /\ outcome[Dispatcher] = "result"
    BY <2>5 DEF Finish, S!Finish
  <2> QED
    BY <2>6 DEF Calls, Whole
<1>2. Alone /\ Calls /\ [Next]_vars =>
        [\A r \in Requests :
            (future[r] # "result" /\ future'[r] = "result") =>
                /\ served[Len(served)] = r
                /\ Len(received) = Parts
                /\ \A i \in 1 .. Parts : received[i].id = Len(served)
                /\ received[Parts].says = "result"]_vars
  BY <1>1
<1> QED
  BY <1>2, AlwaysAlone, AlwaysCalls, PTL DEF Spec, ResultIsItsOwn

-----------------------------------------------------------------------------
(* close() *)

\* How far each call of close() has come in one part bounds what the other
\* part may still do.
ClosedDown ==
    /\ \A x \in Closings :
        /\ closer[Last(x)] # "idle" => thread[x] = "closed"
        /\ closer[Last(x)] = "closed" => dispatcher = "exited"
    /\ dispatcher = "exited" => closed /\ pending = {}

LEMMA StepClosedDown ==
  ASSUME Alone, ClosedDown, [Next]_vars PROVE ClosedDown'
<1> USE Shapes
<1>0. SP!TypeOK
  BY DEF Alone
<1>1. ASSUME dispatcher = "exited" =>
                dispatcher' = "exited" /\ closed' /\ pending' = {},
             dispatcher' = "exited" => closed' /\ pending' = {},
             closer' = closer,
             \A x \in Closings : thread[x] = "closed" => thread'[x] = "closed"
      PROVE  ClosedDown'
  BY <1>1 DEF ClosedDown
<1>2. ASSUME UNCHANGED queue,
             \A x \in Closings : thread[x] = "closed" => thread'[x] = "closed"
      PROVE  ClosedDown'
  BY <1>1, <1>2 DEF queue, ClosedDown
<1>3. ASSUME NEW r \in Requests, Use(r) \/ S!Resolve(r), UNCHANGED worker
      PROVE  ClosedDown'
  <2>1. UNCHANGED <<closer, closed, thread>>
    BY <1>3 DEF Use, S!Submit, S!RejectClosed, S!Replace, S!RejectFull, S!Enqueue,
       S!Cancel, S!Resolve, S!ClaimReplaced, S!FailReplaced, worker
  <2>2. dispatcher = "exited" <=> dispatcher' = "exited"
    BY <1>3 DEF Use, S!Submit, S!RejectClosed, S!Replace, S!RejectFull, S!Enqueue,
       S!Cancel, S!Resolve, S!ClaimReplaced, S!FailReplaced, S!Notify
  <2>3. closed => pending' = pending
    BY <1>3 DEF Use, S!Submit, S!RejectClosed, S!Replace, S!RejectFull, S!Enqueue,
       S!Cancel, S!Resolve, S!ClaimReplaced, S!FailReplaced
  <2> QED
    BY <1>1, <2>1, <2>2, <2>3 DEF ClosedDown
<1>4. ASSUME NEW x \in Closings, CloseQueue(x) \/ Closing(x)
      PROVE  ClosedDown'
  <2>1. CASE CloseQueue(x)
    BY <2>1 DEF CloseQueue, S!BeginClose, S!TakeQueue, S!Notify, worker, ClosedDown,
       First, Last
  <2>2. CASE JoinQueue(x)
    BY <2>2 DEF JoinQueue, S!BeginClose, S!TakeQueue, S!Notify, worker, ClosedDown,
       First, Last
  <2>3. CASE CloseWorker(x) \/ (W!Close(x) /\ UNCHANGED queue)
    <3>1. \A y \in Closings : thread[y] = "closed" => thread'[y] = "closed"
      BY <2>3 DEF CloseWorker, W!BeginClose, W!Close, W!Kill, W!Stopped, W!ClosePipes,
         W!GoTo
    <3> QED
      BY <1>2, <2>3, <3>1 DEF CloseWorker
  <2>4. ASSUME NEW c \in {First(x), Last(x)}, S!CancelDrained(c), UNCHANGED worker
        PROVE  ClosedDown'
    BY <1>1, <2>4 DEF S!CancelDrained, worker, ClosedDown
  <2>5. ASSUME NEW c \in {First(x), Last(x)}, S!EndClose(c), UNCHANGED worker
        PROVE  ClosedDown'
    BY <2>5 DEF S!EndClose, worker, ClosedDown, First, Last
  <2> QED
    BY <1>4, <2>1, <2>2, <2>3, <2>4, <2>5 DEF Closing
<1>5. CASE Engine \/ Tick
  BY <1>2, <1>5 DEF Engine, Tick, W!EngineRead, W!EngineWrite, W!EngineExit, W!Tick
<1>6. CASE Dispatch
  <2>1. CASE (S!Wait \/ S!Exit \/ S!Pop \/ S!Claim \/ S!Expire) /\ UNCHANGED worker
    BY <1>1, <2>1 DEF S!Wait, S!Exit, S!Pop, S!Claim, S!Expire, worker
  <2>2. ASSUME Execute \/ (W!Run(Dispatcher) /\ UNCHANGED queue)
        PROVE  \A x \in Closings : thread'[x] = thread[x]
    BY <2>2, EvaluatorAssumption DEF Execute, W!Call, W!Run, W!Begin, W!Refuse,
       W!Unencodable, W!Check, W!Write, W!Read, W!Continue, W!Break, W!Return,
       W!Distrust, W!Kill, W!Fail, W!Leave, W!GoTo
  <2>3. CASE Execute
    BY <1>1, <2>2, <2>3 DEF Execute, S!Execute, ClosedDown
  <2>4. CASE Finish
    BY <1>1, <2>4 DEF Finish, S!Finish, worker, ClosedDown
  <2> QED
    BY <1>2, <1>6, <2>1, <2>2, <2>3, <2>4 DEF Dispatch
<1>7. CASE Ended \/ UNCHANGED vars
  BY <1>2, <1>7 DEF Ended, vars, worker
<1> QED
  BY <1>3, <1>4, <1>5, <1>6, <1>7 DEF Next

LEMMA AlwaysClosedDown == Spec => []ClosedDown
<1>1. Init => ClosedDown
  BY DEF Init, S!Init, ClosedDown
<1>2. Alone /\ ClosedDown /\ [Next]_vars => ClosedDown'
  BY StepClosedDown
<1> QED
  BY <1>1, <1>2, AlwaysAlone, PTL DEF Spec

\* When LocalEvaluator.close() has returned, the engine is reaped, its pipes are
\* closed, the dispatcher thread has ended, and whoever still waits for a
\* future is served by a submit() or another close() that is at work on it.
THEOREM ClosingIsComplete == Spec => []ClosedIsQuiet
<1>1. ASSUME Alone, ClosedDown, NEW x \in Closings, closer[Last(x)] = "closed"
      PROVE  /\ process = "exited" /\ ~pipesOpen
             /\ dispatcher = "exited" /\ pending = {}
             /\ \A r \in Requests :
                 future[r] \in {"PENDING", "RUNNING"} =>
                     \/ \E q \in Requests : replaced[q] = r
                     \/ \E c \in Closings : r \in drained[First(c)] \cup drained[Last(c)]
  <2>1. dispatcher = "exited" /\ pending = {} /\ thread[x] = "closed"
    BY <1>1 DEF ClosedDown
  <2>2. process = "exited" /\ ~pipesOpen
    BY <1>1, <2>1 DEF Alone, WP!Inductive, WP!Ends
  <2>3. job = NoRequest
    BY <1>1, <2>1, Shapes
  <2>4. SP!NothingLost
    BY <1>1 DEF Alone, SP!InOneHand
  <2> QED
    BY <2>1, <2>2, <2>3, <2>4, EvaluatorAssumption DEF SP!NothingLost
<1>2. Alone /\ ClosedDown => ClosedIsQuiet
  BY <1>1 DEF ClosedIsQuiet
<1> QED
  BY <1>2, AlwaysAlone, AlwaysClosedDown, PTL
=============================================================================
