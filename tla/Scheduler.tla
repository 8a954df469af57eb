------------------------------ MODULE Scheduler ------------------------------
(***************************************************************************)
(* gevva/scheduler.py: the bounded FIFO of the Python front end and the    *)
(* one thread ("gevva-inference") that empties it.                         *)
(*                                                                         *)
(* Four kinds of threads meet here: callers of submit(), the dispatcher    *)
(* thread _run(), callers of close(), and holders of a returned future,    *)
(* who may cancel() it at any time WITHOUT the scheduler's lock.  A step   *)
(* is what one thread does while it holds the condition's lock, or one     *)
(* call on a future outside it.                                            *)
(*                                                                         *)
(* The list self.pending is a set of requests with a slot number each: an  *)
(* append takes the next number, a replacement takes over the number of    *)
(* the frame it replaces, pop(0) takes the smallest.  The number of a      *)
(* request never changes, so the slots also record the queue's history.    *)
(***************************************************************************)
EXTENDS Naturals, FiniteSets, Sequences

CONSTANTS
    Requests,   \* the submissions, one Job each
    NoRequest,  \* "None" where a Job could be
    Stream,     \* Job.stream of each request
    Latest,     \* the requests submitted with latest=True
    Limited,    \* the requests submitted with a max_queue_ms
    Capacity,   \* self.capacity
    Closers,    \* the calls of close()
    Joining     \* the calls of close() that join the dispatcher thread

ASSUME SchedulerAssumption ==
    /\ NoRequest \notin Requests
    /\ Latest \subseteq Requests
    /\ Limited \subseteq Requests
    /\ Capacity \in Nat \ {0}
    /\ Joining \subseteq Closers

VARIABLES
    pending,    \* self.pending, as a set
    slot,       \* the queue position a request took, 0 if it never queued
    arrivals,   \* the number of slots handed out
    closed,     \* self.closed
    future,     \* the state of each request's Future, FINISHED by its outcome
    submitter,  \* where the caller of submit() is
    replaced,   \* submit()'s local "replaced"
    dispatcher, \* where _run() is
    job,        \* _run()'s local "job"
    closer,     \* where each call of close() is
    drained,    \* close()'s local "pending", less the jobs already cancelled
    served      \* the requests handed to self.execute, in order (history)

vars == <<pending, slot, arrivals, closed, future, submitter, replaced,
          dispatcher, job, closer, drained, served>>

-----------------------------------------------------------------------------
(* concurrent.futures.Future *)

Outcomes == {"result", "error", "expired", "superseded"}
FutureStates == {"none", "PENDING", "RUNNING", "CANCELLED",
                 "CANCELLED_AND_NOTIFIED"} \cup Outcomes

\* Future.cancel(): too late once the future runs or is finished.
AfterCancel(state) == IF state = "PENDING" THEN "CANCELLED" ELSE state

\* Future.set_running_or_notify_cancel(): it returns whether the result is
\* "RUNNING", and raises unless the future is PENDING or CANCELLED.
AfterClaim(state) ==
    IF state = "CANCELLED" THEN "CANCELLED_AND_NOTIFIED" ELSE "RUNNING"

-----------------------------------------------------------------------------
(* The queue *)

\* Mutant: the newest job first.
IsLast(r, S) == r \in S /\ \A q \in S : slot[r] >= slot[q]

\* r is at the front of the jobs in S.
IsFirst(r, S) == r \in S /\ \A q \in S : slot[r] <= slot[q]

\* The jobs submit() keeps: a cancelled one gives its place back.
Live == {q \in pending :
            future[q] \notin {"CANCELLED", "CANCELLED_AND_NOTIFIED"}}

\* Mutant: a FIFO request is replaced.
OlderFramesAnyPolicy(r) ==
    {q \in Live : r \in Latest /\ Stream[q] = Stream[r]}

\* The pending frames a submission of r would replace.
OlderFrames(r) ==
    {q \in Live : r \in Latest /\ q \in Latest /\ Stream[q] = Stream[r]}

\* Mutant: one place too many.
FullTooLate == Cardinality(Live) > Capacity

\* There is no place for one more job.
Full == Cardinality(Live) >= Capacity

\* Mutant: "pending" is emptied first.
TakeNothing(c) == pending' = {} /\ UNCHANGED drained

\* "pending, self.pending = self.pending, []"
TakeQueue(c) == drained' = [drained EXCEPT ![c] = pending] /\ pending' = {}

\* Mutant: nobody is woken.
NotifyNobody == UNCHANGED dispatcher

\* condition.notify(), or notify_all(): the dispatcher is the only waiter.
Notify == dispatcher' = IF dispatcher = "waiting" THEN "checking"
                                                  ELSE dispatcher

-----------------------------------------------------------------------------
Init ==
    /\ pending = {}
    /\ slot = [r \in Requests |-> 0]
    /\ arrivals = 0
    /\ closed = FALSE
    /\ future = [r \in Requests |-> "none"]
    /\ submitter = [r \in Requests |-> "idle"]
    /\ replaced = [r \in Requests |-> NoRequest]
    /\ dispatcher = "checking"
    /\ job = NoRequest
    /\ closer = [c \in Closers |-> "idle"]
    /\ drained = [c \in Closers |-> {}]
    /\ served = <<>>

-----------------------------------------------------------------------------
(* submit() *)

\* The evaluator is closed: RuntimeError, before anything is pruned.
RejectClosed(r) ==
    /\ submitter[r] = "idle"
    /\ closed
    /\ submitter' = [submitter EXCEPT ![r] = "rejected"]
    /\ UNCHANGED <<pending, slot, arrivals, closed, future, replaced,
                   dispatcher, job, closer, drained, served>>

\* A pending frame of the same stream gives its place to r; its future is
\* settled after the lock is released.
Replace(r) ==
    /\ submitter[r] = "idle"
    /\ ~closed
    /\ \E old \in OlderFrames(r) :
        /\ IsFirst(old, OlderFrames(r))
        /\ pending' = (Live \ {old}) \cup {r}
        /\ slot' = [slot EXCEPT ![r] = slot[old]]
        /\ replaced' = [replaced EXCEPT ![r] = old]
    /\ future' = [future EXCEPT ![r] = "PENDING"]
    /\ submitter' = [submitter EXCEPT ![r] = "replacing"]
    /\ Notify
    /\ UNCHANGED <<arrivals, closed, job, closer, drained, served>>

\* QueueFull: the cancelled jobs are gone all the same.
RejectFull(r) ==
    /\ submitter[r] = "idle"
    /\ ~closed
    /\ OlderFrames(r) = {}
    /\ Full
    /\ pending' = Live
    /\ submitter' = [submitter EXCEPT ![r] = "rejected"]
    /\ UNCHANGED <<slot, arrivals, closed, future, replaced, dispatcher, job,
                   closer, drained, served>>

\* Mutant: "if replaced is not None" (line 60) is forgotten.
EnqueueResolves(r) ==
    /\ submitter[r] = "idle"
    /\ ~closed
    /\ OlderFrames(r) = {}
    /\ ~Full
    /\ pending' = Live \cup {r}
    /\ arrivals' = arrivals + 1
    /\ slot' = [slot EXCEPT ![r] = arrivals + 1]
    /\ future' = [future EXCEPT ![r] = "PENDING"]
    /\ submitter' = [submitter EXCEPT ![r] = "replacing"]
    /\ Notify
    /\ UNCHANGED <<closed, replaced, job, closer, drained, served>>

Enqueue(r) ==
    /\ submitter[r] = "idle"
    /\ ~closed
    /\ OlderFrames(r) = {}
    /\ ~Full
    /\ pending' = Live \cup {r}
    /\ arrivals' = arrivals + 1
    /\ slot' = [slot EXCEPT ![r] = arrivals + 1]
    /\ future' = [future EXCEPT ![r] = "PENDING"]
    /\ submitter' = [submitter EXCEPT ![r] = "returned"]
    /\ Notify
    /\ UNCHANGED <<closed, replaced, job, closer, drained, served>>

\* set_running_or_notify_cancel() on the replaced future: it loses to a
\* caller's cancel() that came first, and shuts out one that comes later.
ClaimReplaced(r) ==
    /\ submitter[r] = "replacing"
    /\ LET old == replaced[r]
           state == AfterClaim(future[old])
       IN  /\ future' = [future EXCEPT ![old] = state]
           /\ submitter' = [submitter EXCEPT ![r] =
                                IF state = "RUNNING" THEN "failing" ELSE "returned"]
           /\ replaced' = [replaced EXCEPT ![r] =
                                IF state = "RUNNING" THEN old ELSE NoRequest]
    /\ UNCHANGED <<pending, slot, arrivals, closed, dispatcher, job, closer,
                   drained, served>>

\* set_exception(Superseded(...)), then submit() returns its own future.
FailReplaced(r) ==
    /\ submitter[r] = "failing"
    /\ future' = [future EXCEPT ![replaced[r]] = "superseded"]
    /\ replaced' = [replaced EXCEPT ![r] = NoRequest]
    /\ submitter' = [submitter EXCEPT ![r] = "returned"]
    /\ UNCHANGED <<pending, slot, arrivals, closed, dispatcher, job, closer,
                   drained, served>>

\* The caller cancels the future submit() gave it.
Cancel(r) ==
    /\ submitter[r] = "returned"
    /\ future' = [future EXCEPT ![r] = AfterCancel(@)]
    /\ UNCHANGED <<pending, slot, arrivals, closed, submitter, replaced,
                   dispatcher, job, closer, drained, served>>

-----------------------------------------------------------------------------
(* _run() *)

\* wait_for() finds its predicate false and gives the lock up.
Wait ==
    /\ dispatcher = "checking"
    /\ ~closed
    /\ pending = {}
    /\ dispatcher' = "waiting"
    /\ UNCHANGED <<pending, slot, arrivals, closed, future, submitter,
                   replaced, job, closer, drained, served>>

Exit ==
    /\ dispatcher = "checking"
    /\ closed
    /\ pending = {}
    /\ dispatcher' = "exited"
    /\ UNCHANGED <<pending, slot, arrivals, closed, future, submitter,
                   replaced, job, closer, drained, served>>

Pop ==
    /\ dispatcher = "checking"
    /\ \E r \in pending :
        /\ IsFirst(r, pending)
        /\ pending' = pending \ {r}
        /\ job' = r
    /\ dispatcher' = "popped"
    /\ UNCHANGED <<slot, arrivals, closed, future, submitter, replaced,
                   closer, drained, served>>

\* Mutant: the job is run without claiming its future.
ClaimNothing ==
    /\ dispatcher = "popped"
    /\ dispatcher' = "claimed"
    /\ UNCHANGED <<pending, slot, arrivals, closed, future, submitter,
                   replaced, job, closer, drained, served>>

\* set_running_or_notify_cancel(): a cancelled job is skipped.
Claim ==
    /\ dispatcher = "popped"
    /\ LET state == AfterClaim(future[job])
       IN  /\ future' = [future EXCEPT ![job] = state]
           /\ dispatcher' = IF state = "RUNNING" THEN "claimed" ELSE "checking"
           /\ job' = IF state = "RUNNING" THEN job ELSE NoRequest
    /\ UNCHANGED <<pending, slot, arrivals, closed, submitter, replaced,
                   closer, drained, served>>

\* queue_ms > max_queue_ms: QueueExpired without running the request.  How
\* long the job has queued is any time at all.
Expire ==
    /\ dispatcher = "claimed"
    /\ job \in Limited
    /\ future' = [future EXCEPT ![job] = "expired"]
    /\ job' = NoRequest
    /\ dispatcher' = "checking"
    /\ UNCHANGED <<pending, slot, arrivals, closed, submitter, replaced,
                   closer, drained, served>>

\* self.execute(job.payload) begins.
Execute ==
    /\ dispatcher = "claimed"
    /\ dispatcher' = "executing"
    /\ served' = Append(served, job)
    /\ UNCHANGED <<pending, slot, arrivals, closed, future, submitter,
                   replaced, job, closer, drained>>

\* self.execute returned or raised; its future gets the one or the other.
Finish ==
    /\ dispatcher = "executing"
    /\ \E outcome \in {"result", "error"} :
        future' = [future EXCEPT ![job] = outcome]
    /\ job' = NoRequest
    /\ dispatcher' = "checking"
    /\ UNCHANGED <<pending, slot, arrivals, closed, submitter, replaced,
                   closer, drained, served>>

-----------------------------------------------------------------------------
(* close() *)

\* Under the lock: closed for good, and the queue becomes this call's own.
BeginClose(c) ==
    /\ closer[c] = "idle"
    /\ closed' = TRUE
    /\ TakeQueue(c)
    /\ closer' = [closer EXCEPT ![c] = "cancelling"]
    /\ Notify
    /\ UNCHANGED <<slot, arrivals, future, submitter, replaced, job, served>>

\* One turn of "for job in pending: job.future.cancel()".
CancelDrained(c) ==
    /\ closer[c] = "cancelling"
    /\ \E r \in drained[c] :
        /\ IsFirst(r, drained[c])
        /\ future' = [future EXCEPT ![r] = AfterCancel(@)]
        /\ drained' = [drained EXCEPT ![c] = @ \ {r}]
    /\ UNCHANGED <<pending, slot, arrivals, closed, submitter, replaced,
                   dispatcher, job, closer, served>>

\* close() returns, after self.thread.join() unless wait is false or it runs
\* on the dispatcher thread itself (a future's callback).
EndClose(c) ==
    /\ closer[c] = "cancelling"
    /\ drained[c] = {}
    /\ c \in Joining => dispatcher = "exited"
    /\ closer' = [closer EXCEPT ![c] = "closed"]
    /\ UNCHANGED <<pending, slot, arrivals, closed, future, submitter,
                   replaced, dispatcher, job, drained, served>>

-----------------------------------------------------------------------------
\* Every thread has ended: the only state the scheduler may stop in.
Ended ==
    /\ \A r \in Requests : submitter[r] \in {"returned", "rejected"}
    /\ \A c \in Closers : closer[c] = "closed"
    /\ dispatcher = "exited"
    /\ UNCHANGED vars

Submit(r) == RejectClosed(r) \/ Replace(r) \/ RejectFull(r) \/ Enqueue(r)
Resolve(r) == ClaimReplaced(r) \/ FailReplaced(r)
Run == Wait \/ Exit \/ Pop \/ Claim \/ Expire \/ Execute \/ Finish
Close(c) == BeginClose(c) \/ CancelDrained(c) \/ EndClose(c)

Next ==
    \/ \E r \in Requests : Submit(r) \/ Resolve(r) \/ Cancel(r)
    \/ Run
    \/ \E c \in Closers : Close(c)
    \/ Ended

\* A thread that is inside submit(), _run() or close() is scheduled until it
\* leaves; self.execute ends because each engine exchange has a deadline.
\* Nobody has to submit, cancel or close.
Fairness ==
    /\ \A r \in Requests : WF_vars(Resolve(r))
    /\ WF_vars(Run)
    /\ \A c \in Closers : WF_vars(CancelDrained(c) \/ EndClose(c))

Spec == Init /\ [][Next]_vars
FairSpec == Spec /\ Fairness

-----------------------------------------------------------------------------
(* Safety *)

Holding == {"replacing", "failing"}         \* submit() has a replaced job
Carrying == {"popped", "claimed", "executing"}      \* _run() has a job

\* Types, and which thread has a job in hand where.
TypeOK ==
    /\ pending \subseteq Requests
    /\ slot \in [Requests -> Nat]
    /\ arrivals \in Nat
    /\ closed \in BOOLEAN
    /\ future \in [Requests -> FutureStates]
    /\ submitter \in [Requests ->
                        {"idle", "rejected", "returned"} \cup Holding]
    /\ replaced \in [Requests -> Requests \cup {NoRequest}]
    /\ \A r \in Requests : replaced[r] # NoRequest <=> submitter[r] \in Holding
    /\ dispatcher \in {"checking", "waiting", "exited"} \cup Carrying
    /\ job \in Requests \cup {NoRequest}
    /\ job # NoRequest <=> dispatcher \in Carrying
    /\ closer \in [Closers -> {"idle", "cancelling", "closed"}]
    /\ drained \in [Closers -> SUBSET Requests]
    /\ served \in Seq(Requests)

\* The queue never holds more than its capacity, whatever mix of appends,
\* replacements and cancellations filled it; and a stream has one frame in it
\* at most, also after frames of it were cancelled there (lines 49-58).
BoundedQueue == Cardinality(pending) <= Capacity
OneFramePerStream ==
    \A q, r \in pending \cap Latest : Stream[q] = Stream[r] => q = r
QueueShape == BoundedQueue /\ OneFramePerStream

\* Every accepted request that has no answer yet is in somebody's hands: the
\* queue's, the dispatcher's, a submit() that replaced it, or a close() that
\* took it.  A request nobody holds is a caller that waits for ever.
NothingLost ==
    \A r \in Requests : future[r] \in {"PENDING", "RUNNING"} =>
        \/ r \in pending
        \/ r = job
        \/ \E s \in Requests : replaced[s] = r
        \/ \E c \in Closers : r \in drained[c]

\* ... and in one pair of hands only, so that no two threads settle it.
NothingShared ==
    /\ \A r \in pending :
        /\ r # job
        /\ \A s \in Requests : replaced[s] # r
        /\ \A c \in Closers : r \notin drained[c]
    /\ \A s \in Requests : replaced[s] # NoRequest =>
        /\ replaced[s] # job
        /\ \A t \in Requests : replaced[t] = replaced[s] => s = t
        /\ \A c \in Closers : replaced[s] \notin drained[c]
    /\ \A c \in Closers :
        /\ job \notin drained[c]
        /\ \A d \in Closers : c # d => drained[c] \cap drained[d] = {}

\* Each request is in the hands of the one thread that will settle it.
InOneHand == NothingLost /\ NothingShared

\* Futures raise on an operation their state does not allow, and a raise in
\* _run() outside self.execute ends the only dispatcher.  Each operation
\* finds its future in a state it accepts, however callers cancel:
\* set_running_or_notify_cancel() finds PENDING or CANCELLED, set_result() and
\* set_exception() find RUNNING.
FutureProtocol ==
    /\ dispatcher = "popped" => future[job] \in {"PENDING", "CANCELLED"}
    /\ dispatcher \in {"claimed", "executing"} => future[job] = "RUNNING"
    /\ \A s \in Requests :
        /\ submitter[s] = "replacing" =>
                future[replaced[s]] \in {"PENDING", "CANCELLED"}
        /\ submitter[s] = "failing" => future[replaced[s]] = "RUNNING"

\* Requests run in the order of their places in the queue, each at most once;
\* a replacement runs in the place of the frame it replaced.
ServedInOrder ==
    /\ \A i, k \in DOMAIN served : i < k => slot[served[i]] < slot[served[k]]
    /\ \A i \in DOMAIN served : \A r \in pending : slot[served[i]] < slot[r]

-----------------------------------------------------------------------------
(* Liveness *)

\* Every accepted request is answered or cancelled, also when the evaluator is
\* closed under it; the wake-up of a dispatcher that waits is never lost.
EveryRequestSettles ==
    \A r \in Requests :
        (future[r] # "none") ~> (future[r] \notin {"none", "PENDING", "RUNNING"})

-----------------------------------------------------------------------------
(* What a caller sees, as RequestLedger states it *)

LedgerStatus(r) ==
    CASE submitter[r] = "rejected" -> "rejected"
      [] future[r] = "none" /\ submitter[r] # "rejected" -> "new"
      [] future[r] = "PENDING" -> "open"
      [] future[r] = "RUNNING" ->
            IF dispatcher = "executing" /\ job = r THEN "running" ELSE "open"
      [] future[r] \in {"CANCELLED", "CANCELLED_AND_NOTIFIED"} -> "cancelled"
      [] future[r] \in Outcomes -> future[r]

Ledger == INSTANCE RequestLedger
            WITH status <- [r \in Requests |-> LedgerStatus(r)]

\* To its callers the scheduler is the ledger: each request is rejected or
\* gets one answer, one request runs at a time, nothing is accepted once
\* closed.
ImplementsLedger == Ledger!Spec

=============================================================================
