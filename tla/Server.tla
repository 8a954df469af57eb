------------------------------- MODULE Server -------------------------------
(***************************************************************************)
(* gevva/server.py: the HTTP endpoint, one handler thread per connection,  *)
(* in front of an evaluator that may answer, refuse or fail.               *)
(*                                                                         *)
(* Two semaphores bound it: "connections" counts accepted sockets and is   *)
(* taken by the accept loop before a thread exists; "admission" counts     *)
(* POSTs from their headers to the last byte of their answer.  A           *)
(* connection carries one request after another; what is written of a      *)
(* response is nothing, its headers, or all of it.                         *)
(***************************************************************************)
EXTENDS Naturals, FiniteSets

CONSTANTS
    Clients,            \* the connections made, one after another or together
    Capacity,           \* capacity: "max_connections"
    RequestCapacity,    \* request_capacity
    MaxRequests         \* bound: requests sent on each connection

ASSUME ServerAssumption ==
    /\ Capacity \in Nat \ {0}
    /\ RequestCapacity \in Nat \ {0}
    /\ MaxRequests \in [Clients -> Nat]

VARIABLES
    connections,    \* free slots of the semaphore of that name
    admission,      \* free slots of the other one
    closed,         \* the evaluator was closed (Ctrl-C)
    where,          \* where the handler of each connection is
    admitted,       \* its request holds an admission slot
    command,        \* of the request: "GET", "POST", "none" before the first
    unread,         \* bytes of the request's body are still on the socket
    keep,           \* not self.close_connection
    outcome,        \* how evaluate() ended
    status,         \* the status being replied, 0 for none
    answers,        \* status lines written for the current request
    written,        \* how much of the response is: 0, 1 (headers), 2 (all)
    asked           \* requests parsed

reply == <<outcome, status>>
request == <<command, unread, keep, reply, answers, written, asked>>
vars == <<connections, admission, closed, where, admitted, request>>

\* The requests a handler can be sent: a GET that passes authorized(), without
\* and with a body; a GET or POST that does not; a POST elsewhere, one without a
\* length to read, and one that may be admitted.
Kinds == {"get", "get_body", "unauthorized", "unknown", "length", "post"}
Gets == {"get", "get_body"}

\* What can come of evaluate(), by the except clause it ends in; the body not
\* being the JSON of a request is a ValueError too.
Outcomes == {"result", "QueueFull", "Superseded", "QueueExpired",
             "CancelledError", "ValueError", "RuntimeError"}

\* Mutant: the clauses in another order; the first three are RuntimeErrors.
StatusOfRuntimeFirst(o) ==
    CASE o = "result" -> 200
      [] o = "CancelledError" -> 503
      [] o = "ValueError" -> 422
      [] OTHER -> 500

StatusOf(o) ==
    CASE o = "result" -> 200
      [] o = "QueueFull" -> 529
      [] o = "Superseded" -> 409
      [] o = "QueueExpired" -> 408
      [] o = "CancelledError" -> 503
      [] o = "ValueError" -> 422
      [] o = "RuntimeError" -> 500

GoTo(c, pc) == where' = [where EXCEPT ![c] = pc]

\* The semaphores' release(), admission's only by who holds it.
ReleaseAdmission(c) ==
    /\ admission' = IF admitted[c] THEN admission + 1 ELSE admission
    /\ admitted' = [admitted EXCEPT ![c] = FALSE]

-----------------------------------------------------------------------------
Init ==
    /\ connections = Capacity
    /\ admission = RequestCapacity
    /\ closed = FALSE
    /\ where = [c \in Clients |-> "away"]
    /\ admitted = [c \in Clients |-> FALSE]
    /\ command = [c \in Clients |-> "none"]
    /\ unread = [c \in Clients |-> FALSE]
    /\ keep = [c \in Clients |-> TRUE]
    /\ outcome = [c \in Clients |-> "none"]
    /\ status = [c \in Clients |-> 0]
    /\ answers = [c \in Clients |-> 0]
    /\ written = [c \in Clients |-> 0]
    /\ asked = [c \in Clients |-> 0]

-----------------------------------------------------------------------------
(* The accept loop: process_request() *)

\* A slot is taken before there is a thread; without one the socket is closed.
Accept(c) ==
    /\ where[c] = "away"
    /\ ~closed
    /\ IF connections = 0
       THEN GoTo(c, "gone") /\ UNCHANGED connections
       ELSE GoTo(c, "starting") /\ connections' = connections - 1
    /\ UNCHANGED <<admission, closed, admitted, request>>

Start(c) ==
    /\ where[c] = "starting"
    /\ GoTo(c, "parsing")
    /\ UNCHANGED <<connections, admission, closed, admitted, request>>

\* Mutant: the slot of a thread that did not start is not given back.
StartFailsKeepsSlot(c) ==
    /\ where[c] = "starting"
    /\ GoTo(c, "gone")
    /\ UNCHANGED <<connections, admission, closed, admitted, request>>

\* No thread can be started: the slot comes back with the exception.
StartFails(c) ==
    /\ where[c] = "starting"
    /\ GoTo(c, "gone")
    /\ connections' = connections + 1
    /\ UNCHANGED <<admission, closed, admitted, request>>

-----------------------------------------------------------------------------
(* do_GET() and do_POST(), called once per request of the connection *)

\* self.reply(code, ...) is about to write, and leaves the connection as it is.
Reply(c, code) ==
    /\ GoTo(c, "replying")
    /\ status' = [status EXCEPT ![c] = code]
    /\ UNCHANGED keep

\* Mutant: a full server lets the client use the connection again.
RefuseKeeps(c, code) == Reply(c, code)

\* self.reply(code, ..., close=True): answered before the body is read, which
\* then is in the way of whatever comes next on the connection.
Refuse(c, code) ==
    /\ GoTo(c, "replying")
    /\ status' = [status EXCEPT ![c] = code]
    /\ keep' = [keep EXCEPT ![c] = FALSE]

\* The order of do_POST()'s early returns; only what passes them all is admitted.
\* do_GET() never reads a body, and leaves the connection as it is.
Answer(c, kind) ==
    /\ command' = [command EXCEPT ![c] = IF kind \in Gets THEN "GET" ELSE "POST"]
    /\ unread' = [unread EXCEPT ![c] = kind # "get"]
    /\ \/ kind = "unauthorized" /\ Refuse(c, 401)
       \/ kind = "unknown" /\ Refuse(c, 404)
       \/ kind = "length" /\ Refuse(c, 422)
       \/ kind = "post" /\ admission = 0 /\ Refuse(c, 529)
       \/ kind \in Gets /\ \E code \in {200, 404, 503} : Reply(c, code)
       \/ kind = "post" /\ admission > 0 /\ GoTo(c, "reading") /\ UNCHANGED <<status, keep>>
    /\ admitted' = [admitted EXCEPT ![c] = kind = "post" /\ admission > 0]
    /\ admission' = IF kind = "post" /\ admission > 0 THEN admission - 1 ELSE admission

\* Headers have arrived, of a request of whichever kind.  Where a body was left
\* unread they are parsed out of it: any request again, or none (Hangup).
Receive(c) ==
    /\ where[c] = "parsing"
    /\ asked[c] < MaxRequests[c]
    /\ asked' = [asked EXCEPT ![c] = @ + 1]
    /\ answers' = [answers EXCEPT ![c] = 0]
    /\ written' = [written EXCEPT ![c] = 0]
    /\ \E kind \in Kinds : Answer(c, kind)
    /\ UNCHANGED <<connections, closed, outcome>>

\* Mutant: the socket has no timeout.
HangupByClient(c) ==
    /\ where[c] = "parsing"
    /\ asked[c] = MaxRequests[c]
    /\ GoTo(c, "ended")
    /\ UNCHANGED <<connections, admission, closed, admitted, request>>

\* The client goes, says nothing for the socket's timeout, or sends no HTTP.
Hangup(c) ==
    /\ where[c] = "parsing"
    /\ GoTo(c, "ended")
    /\ UNCHANGED <<connections, admission, closed, admitted, request>>

\* self.rfile.read(length), and a JSON object was in it.
ReadBody(c) ==
    /\ where[c] = "reading"
    /\ unread' = [unread EXCEPT ![c] = FALSE]
    /\ GoTo(c, "evaluating")
    /\ UNCHANGED <<connections, admission, closed, admitted, command, keep,
                   outcome, status, answers, written, asked>>

\* Incomplete, or not JSON: ValueError.
BadBody(c) ==
    /\ where[c] = "reading"
    /\ unread' = [unread EXCEPT ![c] = FALSE]
    /\ outcome' = [outcome EXCEPT ![c] = "ValueError"]
    /\ Reply(c, StatusOf("ValueError"))
    /\ UNCHANGED <<connections, admission, closed, admitted, command, answers,
                   written, asked>>

\* evaluator.evaluate() returned or raised.  Only its shutdown cancels.
Evaluate(c) ==
    /\ where[c] = "evaluating"
    /\ \E o \in Outcomes :
        /\ o = "CancelledError" => closed
        /\ outcome' = [outcome EXCEPT ![c] = o]
        /\ Reply(c, StatusOf(o))
    /\ UNCHANGED <<connections, admission, closed, admitted, command, unread,
                   answers, written, asked>>

\* The status line and headers go out together, then the body.
Write(c) ==
    /\ where[c] = "replying"
    /\ answers' = [answers EXCEPT ![c] = IF written[c] = 0 THEN @ + 1 ELSE @]
    /\ written' = [written EXCEPT ![c] = @ + 1]
    /\ GoTo(c, IF written'[c] = 2 THEN "leaving" ELSE "replying")
    /\ UNCHANGED <<connections, admission, closed, admitted, command, unread,
                   keep, outcome, status, asked>>

\* A result that is not finite has no JSON: ValueError before anything is sent.
Unserializable(c) ==
    /\ where[c] = "replying"
    /\ outcome[c] = "result"
    /\ written[c] = 0
    /\ outcome' = [outcome EXCEPT ![c] = "ValueError"]
    /\ status' = [status EXCEPT ![c] = StatusOf("ValueError")]
    /\ UNCHANGED <<connections, admission, closed, where, admitted, command,
                   unread, keep, answers, written, asked>>

\* Mutant: a reply that broke off is answered as an engine failure is.
BreakAnswers(c) ==
    /\ where[c] = "replying"
    /\ outcome[c] = "result"
    /\ outcome' = [outcome EXCEPT ![c] = "RuntimeError"]
    /\ written' = [written EXCEPT ![c] = 0]
    /\ Refuse(c, 500)
    /\ UNCHANGED <<connections, admission, closed, admitted, command, unread,
                   answers, asked>>

\* The client is gone or stalls while its body is read or its answer written:
\* caught in do_POST(), or past it by the server, and closed in either case.
Break(c) ==
    /\ where[c] \in {"reading", "replying"}
    /\ keep' = [keep EXCEPT ![c] = FALSE]
    /\ GoTo(c, "leaving")
    /\ UNCHANGED <<connections, admission, closed, admitted, command, unread,
                   outcome, status, answers, written, asked>>

\* do_POST()'s locals end with it.
ForgetReply(c) ==
    /\ outcome' = [outcome EXCEPT ![c] = "none"]
    /\ status' = [status EXCEPT ![c] = 0]

\* "finally: admission.release()", then the next request or the end.
Leave(c) ==
    /\ where[c] = "leaving"
    /\ ReleaseAdmission(c)
    /\ GoTo(c, IF keep[c] THEN "parsing" ELSE "ended")
    /\ ForgetReply(c)
    /\ UNCHANGED <<connections, closed, command, unread, keep, answers, written, asked>>

\* process_request_thread()'s finally: the socket is closed, with what was on
\* it, then its slot freed.
Release(c) ==
    /\ where[c] = "ended"
    /\ connections' = connections + 1
    /\ GoTo(c, "gone")
    /\ command' = [command EXCEPT ![c] = "none"]
    /\ unread' = [unread EXCEPT ![c] = FALSE]
    /\ answers' = [answers EXCEPT ![c] = 0]
    /\ written' = [written EXCEPT ![c] = 0]
    /\ UNCHANGED <<admission, closed, admitted, keep, reply, asked>>

-----------------------------------------------------------------------------
\* main(): Ctrl-C ends the accept loop, then closes the evaluator; no handler
\* is waited for.
Interrupt ==
    /\ ~closed
    /\ closed' = TRUE
    /\ UNCHANGED <<connections, admission, where, admitted, request>>

Ended ==
    /\ closed
    /\ \A c \in Clients : where[c] \in {"away", "gone"}
    /\ UNCHANGED vars

Handle(c) ==
    \/ Start(c) \/ StartFails(c) \/ Hangup(c) \/ ReadBody(c) \/ BadBody(c)
    \/ Evaluate(c) \/ Write(c) \/ Unserializable(c) \/ Break(c) \/ Leave(c)
    \/ Release(c)

Next ==
    \/ \E c \in Clients : Accept(c) \/ Receive(c) \/ Handle(c)
    \/ Interrupt
    \/ Ended

\* A handler runs; sockets time out and evaluate() ends (Evaluator.tla), so
\* none of its waits lasts for ever.  No client has to send anything.
Fairness == \A c \in Clients : WF_vars(Handle(c))

Spec == Init /\ [][Next]_vars
FairSpec == Spec /\ Fairness

-----------------------------------------------------------------------------
\* Connections that have a slot, and the handlers inside do_POST()'s try.
Accepted == {c \in Clients : where[c] \notin {"away", "gone"}}
Trying == {c \in Clients : admitted[c]}

\* Types, and that each slot is held by exactly the connection or the request
\* it was taken for: none leaks on any path out, none is given back twice.
TypeOK ==
    /\ connections \in 0 .. Capacity
    /\ connections = Capacity - Cardinality(Accepted)
    /\ admission \in 0 .. RequestCapacity
    /\ admission = RequestCapacity - Cardinality(Trying)
    /\ closed \in BOOLEAN
    /\ where \in [Clients -> {"away", "starting", "parsing", "reading", "evaluating",
                              "replying", "leaving", "ended", "gone"}]
    /\ admitted \in [Clients -> BOOLEAN]
    /\ command \in [Clients -> {"none", "GET", "POST"}]
    /\ unread \in [Clients -> BOOLEAN]
    /\ keep \in [Clients -> BOOLEAN]
    /\ outcome \in [Clients -> Outcomes \cup {"none"}]
    /\ status \in [Clients -> {0, 200, 401, 404, 408, 409, 422, 500, 503, 529}]
    /\ answers \in [Clients -> 0 .. 2]
    /\ written \in [Clients -> 0 .. 2]
    /\ asked \in [Clients -> Nat]

\* A handler that waits for the next request of a kept connection has answered
\* the last one in full, and when that was a POST, on whichever way out of
\* do_POST(), no byte of its body is left to be parsed as a request.  (The body
\* of a GET is: do_GET() neither reads it nor closes.)
PostsLeaveNothing ==
    \A c \in Clients : where[c] = "parsing" /\ asked[c] > 0 =>
        /\ written[c] = 2
        /\ command[c] = "POST" => ~unread[c]

\* do_POST()'s try also covers the reply of a result: a reply that breaks off
\* never becomes a second response to the same request.
OneResponse == \A c \in Clients : answers[c] <= 1

\* 529 promises "Retry-After: 1": it goes only to requests that were never
\* queued.  409 and 408 say why a queued one never ran, 503 that the evaluator
\* closed, and 200 needs a result.
StatusTellsOutcome ==
    \A c \in Clients : where[c] = "replying" =>
        /\ status[c] = 529 => outcome[c] \in {"none", "QueueFull"}
        /\ outcome[c] = "QueueFull" => status[c] = 529
        /\ outcome[c] = "Superseded" <=> status[c] = 409
        /\ outcome[c] = "QueueExpired" <=> status[c] = 408
        /\ outcome[c] = "CancelledError" => status[c] = 503 /\ closed
        /\ status[c] = 200 => outcome[c] \in {"none", "result"}

\* "max_connections limits accepted connections, including idle keep-alive and
\* incomplete-header clients": such clients cannot keep their slots.
SlotsComeBack ==
    \A c \in Clients : (where[c] = "starting") ~> (where[c] = "gone")

=============================================================================
