---------------------------- MODULE RequestLedger ----------------------------
(***************************************************************************)
(* What LocalEvaluator promises about the requests submitted to it, with   *)
(* no queue, lock or thread: the exceptions of gevva/scheduler.py and the  *)
(* policies of submit() in gevva/api.py as a state machine.  A request is  *)
(* rejected or accepted; an accepted one gets exactly one answer, which    *)
(* never changes; one request runs at a time.                              *)
(***************************************************************************)
CONSTANTS Requests, Stream, Latest, Limited

VARIABLES
    status,     \* what the caller of each request can tell
    closed      \* the evaluator was closed

vars == <<status, closed>>

Statuses == {"new", "rejected", "open", "running", "result", "error",
             "expired", "superseded", "cancelled"}

\* r was let into the queue.
Accepted(r) == status[r] \notin {"new", "rejected"}

Init ==
    /\ status = [r \in Requests |-> "new"]
    /\ closed = FALSE

Become(r, from, to) ==
    /\ status[r] = from
    /\ status' = [status EXCEPT ![r] = to]
    /\ UNCHANGED closed

Accept(r) == ~closed /\ Become(r, "new", "open")
Reject(r) == Become(r, "new", "rejected")
Cancel(r) == Become(r, "open", "cancelled")

\* The engine is one: nothing starts while a request runs.
Start(r) ==
    /\ \A q \in Requests : status[q] # "running"
    /\ Become(r, "open", "running")

Answer(r) == \E outcome \in {"result", "error"} : Become(r, "running", outcome)

\* Only a request with a max_queue_ms expires, and only before it ran.
Expire(r) == r \in Limited /\ Become(r, "open", "expired")

\* Only a "latest" request gives way, to another one of its stream.
Supersede(r) ==
    /\ r \in Latest
    /\ \E q \in Latest \ {r} : Stream[q] = Stream[r] /\ Accepted(q)
    /\ Become(r, "open", "superseded")

Close == closed' = TRUE /\ UNCHANGED status

Next ==
    \/ \E r \in Requests :
        \/ Accept(r) \/ Reject(r) \/ Cancel(r) \/ Start(r)
        \/ Answer(r) \/ Expire(r) \/ Supersede(r)
    \/ Close

Spec == Init /\ [][Next]_vars

=============================================================================
