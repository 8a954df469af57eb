------------------------------ MODULE Evaluator ------------------------------
(***************************************************************************)
(* gevva/api.py: LocalEvaluator, one Scheduler in front of one Worker.     *)
(*                                                                         *)
(* The scheduler's dispatcher thread is the only caller of Worker.run():   *)
(* Scheduler's "execute" begins with a call of Worker's run() and ends     *)
(* when that returns or raises.  close() is a call of Scheduler.close()    *)
(* that does not join, one of Worker.close(), and one of Scheduler.close() *)
(* that joins, in this order.  A step of the evaluator is a step of either *)
(* part, or of both where one calls the other.                             *)
(***************************************************************************)
EXTENDS Naturals, FiniteSets, Sequences

CONSTANTS
    Requests, NoRequest, Stream, Latest, Limited, Capacity,     \* see Scheduler
    Dispatcher, \* the thread "gevva-inference"
    Closings,   \* the calls of LocalEvaluator.close()
    Nobody, Parts, Room                                         \* see Worker

ASSUME EvaluatorAssumption ==
    /\ IsFiniteSet(Requests) /\ NoRequest \notin Requests
    /\ Latest \subseteq Requests
    /\ Limited \subseteq Requests
    /\ Capacity \in Nat \ {0}
    /\ Dispatcher \notin Closings
    /\ Nobody \notin Closings \cup {Dispatcher}
    /\ Parts \in Nat \ {0}
    /\ Room \in Nat \ {0}

VARIABLES
    pending, slot, arrivals, closed, future, submitter, replaced, dispatcher,
    job, closer, drained, served
queue == <<pending, slot, arrivals, closed, future, submitter, replaced,
           dispatcher, job, closer, drained, served>>

VARIABLES
    workerClosed, starting, deadline, transportLock, stopLock, pipesOpen,
    process, thread, outcome, request, issued, sent, received, inbox, line,
    emitted, outbox
worker == <<workerClosed, starting, deadline, transportLock, stopLock, pipesOpen,
            process, thread, outcome, request, issued, sent, received, inbox,
            line, emitted, outbox>>

vars == <<queue, worker>>

First(x) == <<x, "first">>      \* self.scheduler.close(wait=False)
Last(x) == <<x, "last">>        \* self.scheduler.close()

S == INSTANCE Scheduler WITH
        Closers <- {First(x) : x \in Closings} \cup {Last(x) : x \in Closings},
        Joining <- {Last(x) : x \in Closings}

W == INSTANCE Worker WITH
        Callers <- {Dispatcher}, Closers <- Closings,
        MaxRuns <- Cardinality(Requests), closed <- workerClosed

Init == S!Init /\ W!Init

-----------------------------------------------------------------------------
(* _execute() *)

Execute == S!Execute /\ W!Call(Dispatcher)

\* Mutant: what run() raises is lost.
FinishAnyway ==
    /\ thread[Dispatcher] = "idle"
    /\ S!Finish
    /\ UNCHANGED worker

\* format_response() may still refuse what run() returned; what run() raised
\* stays an error.
Finish ==
    /\ thread[Dispatcher] = "idle"
    /\ S!Finish
    /\ future'[job] = "result" => outcome[Dispatcher] = "result"
    /\ UNCHANGED worker

-----------------------------------------------------------------------------
(* close() *)

CloseQueue(x) == S!BeginClose(First(x)) /\ UNCHANGED worker

\* Mutants: the engine is left alone; the dispatcher is joined before it.
CloseWorkerNever(x) ==
    /\ closer[First(x)] = "closed"
    /\ thread[x] = "idle"
    /\ thread' = [thread EXCEPT ![x] = "closed"]
    /\ UNCHANGED <<queue, workerClosed, starting, deadline, transportLock, stopLock,
                   pipesOpen, process, outcome, request, issued, sent, received,
                   inbox, line, emitted, outbox>>
CloseWorkerAfterJoin(x) ==
    /\ closer[First(x)] = "closed"
    /\ dispatcher = "exited"
    /\ W!BeginClose(x)
    /\ UNCHANGED queue

\* "Interrupt active transport before joining its owner."
CloseWorker(x) ==
    /\ closer[First(x)] = "closed"
    /\ W!BeginClose(x)
    /\ UNCHANGED queue

JoinQueue(x) ==
    /\ thread[x] = "closed"
    /\ S!BeginClose(Last(x))
    /\ UNCHANGED worker

Closing(x) ==
    \/ CloseWorker(x)
    \/ JoinQueue(x)
    \/ W!Close(x) /\ UNCHANGED queue
    \/ /\ \E c \in {First(x), Last(x)} : S!CancelDrained(c) \/ S!EndClose(c)
       /\ UNCHANGED worker

-----------------------------------------------------------------------------
\* submit(), and the holder of a future.
Use(r) == S!Submit(r) \/ S!Cancel(r)

\* The dispatcher thread, between two calls of run() and inside one.
Dispatch ==
    \/ (S!Wait \/ S!Exit \/ S!Pop \/ S!Claim \/ S!Expire) /\ UNCHANGED worker
    \/ Execute
    \/ W!Run(Dispatcher) /\ UNCHANGED queue
    \/ Finish

Engine == (W!EngineRead \/ W!EngineWrite \/ W!EngineExit) /\ UNCHANGED queue
Tick == W!Tick /\ UNCHANGED queue

Ended ==
    /\ S!Ended
    /\ W!Ended
    /\ UNCHANGED vars

Next ==
    \/ \E r \in Requests : (Use(r) \/ S!Resolve(r)) /\ UNCHANGED worker
    \/ Dispatch
    \/ \E x \in Closings : CloseQueue(x) \/ Closing(x)
    \/ Engine
    \/ Tick
    \/ Ended

\* Threads are scheduled and a killed process dies.
ThreadsRun ==
    /\ \A r \in Requests : WF_vars(S!Resolve(r) /\ UNCHANGED worker)
    /\ WF_vars(Dispatch)
    /\ \A x \in Closings : WF_vars(Closing(x))
    /\ WF_vars(process = "killed" /\ W!EngineExit /\ UNCHANGED queue)

Spec == Init /\ [][Next]_vars

\* Time may stand still: an exchange has minutes, close() should not need them.
FairSpec == Spec /\ ThreadsRun

-----------------------------------------------------------------------------
\* Both parts keep their types, and run() runs exactly while the dispatcher
\* executes: issued requests are the served ones, in their order.
TypeOK ==
    /\ S!TypeOK
    /\ W!TypeOK
    /\ issued = Len(served)
    /\ thread[Dispatcher] # "idle" => dispatcher = "executing"

\* _execute(): a future gets a result only with a whole answer, and the engine
\* computed that answer from this very request, whatever earlier requests
\* expired, failed or left unread on the pipes.
ResultIsItsOwn ==
    [][\A r \in Requests :
        (future[r] # "result" /\ future'[r] = "result") =>
            /\ served[Len(served)] = r
            /\ Len(received) = Parts
            /\ \A i \in 1 .. Parts : received[i].id = Len(served)
            /\ received[Parts].says = "result"]_vars

\* LocalEvaluator.close() has returned: the engine is reaped, the dispatcher
\* gone, the queue empty, and no future is left for it to settle.
ClosedIsQuiet ==
    \A x \in Closings : closer[Last(x)] = "closed" =>
        /\ process = "exited"
        /\ ~pipesOpen
        /\ dispatcher = "exited"
        /\ pending = {}
        /\ \A r \in Requests :
            future[r] \in {"PENDING", "RUNNING"} =>
                \/ \E q \in Requests : replaced[q] = r
                \/ \E c \in Closings : r \in drained[First(c)] \cup drained[Last(c)]

\* "Shutdown cancels pending work and interrupts active inference": close()
\* returns although the engine may neither answer nor die by itself and no
\* deadline passes.
ShutdownInterrupts ==
    \A x \in Closings :
        (closer[First(x)] # "idle") ~> (closer[Last(x)] = "closed")

\* Scheduler.tla assumes that self.execute ends.  If time passes it does, with
\* the worker's deadline behind it: the evaluator is a fair scheduler.
QueueIsFair == WF_vars(Tick) => S!Fairness

=============================================================================
