------------------------------- MODULE Worker -------------------------------
(***************************************************************************)
(* gevva/worker.py: the transport between the front end and its engine, a  *)
(* child process that reads one JSON line per request and answers with one *)
(* line.  run() may be called by any thread, close() by any other, and the *)
(* engine may be slow, crash or answer nonsense at any moment.             *)
(*                                                                         *)
(* A request and a response are Parts pieces on a pipe with room for Room  *)
(* pieces; a piece carries only the number of the request it belongs to,   *)
(* the last one of a response what the response says.  Each turn of        *)
(* _exchange()'s loop is a check of the deadline and of "closed" followed  *)
(* by one read or write; a second event of the same select() is a turn     *)
(* whose check came early.                                                 *)
(***************************************************************************)
EXTENDS Naturals, Sequences

CONSTANTS
    Callers,    \* threads that call run()
    Closers,    \* threads that call close()
    Nobody,     \* a lock that is free
    MaxRuns,    \* bound: calls of run() in one behaviour
    Parts,      \* pieces of a request, and of a response
    Room        \* pieces a pipe holds

ASSUME WorkerAssumption ==
    /\ Callers \cap Closers = {}
    /\ Nobody \notin Callers \cup Closers
    /\ MaxRuns \in Nat
    /\ Parts \in Nat \ {0}
    /\ Room \in Nat \ {0}

VARIABLES
    closed,         \* self.closed
    starting,       \* self.starting: no response has been read yet
    deadline,       \* self.deadline: "none", ahead, or "passed"
    transportLock,  \* who holds self._transport_lock
    stopLock,       \* who holds self._stop_lock
    pipesOpen,      \* self.process.stdin and stdout are open
    process,        \* the engine: "alive", "killed", or "exited" (poll())
    thread,         \* where each caller of run() or close() is
    outcome,        \* how the last run() of each caller ended
    request,        \* the number of the request of each caller's last run()
    issued,         \* requests numbered so far
    sent,           \* _exchange()'s locals, one for all callers: the transport
    received,       \*   lock is held from their first use to their last
    inbox,          \* the engine's stdin pipe
    line,           \* what the engine has read of its next request
    emitted,        \* pieces the engine has written of its response
    outbox          \* the engine's stdout pipe

transport == <<sent, received>>
engine == <<inbox, line, emitted, outbox>>
vars == <<closed, starting, deadline, transportLock, stopLock, pipesOpen,
          process, thread, outcome, request, issued, transport, engine>>

Threads == Callers \cup Closers

\* What a complete response line says: a result, {"error": ...}, or something
\* that is not one JSON object on one line of at most 64 MiB.
Replies == {"result", "error", "nonsense"}
Piece == [id : 1 .. MaxRuns, says : Replies \cup {"more"}]

Complete == received # <<>> /\ received[Len(received)].says # "more"

\* Thread t goes on at pc.
GoTo(t, pc) == thread' = [thread EXCEPT ![t] = pc]

-----------------------------------------------------------------------------
Init ==
    /\ closed = FALSE
    /\ starting = TRUE
    /\ deadline = "none"
    /\ transportLock = Nobody
    /\ stopLock = Nobody
    /\ pipesOpen = TRUE
    /\ process = "alive"
    /\ thread = [t \in Threads |-> "idle"]
    /\ outcome = [c \in Callers |-> "none"]
    /\ request = [c \in Callers |-> 0]
    /\ issued = 0
    /\ sent = 0
    /\ received = <<>>
    /\ inbox = <<>>
    /\ line = <<>>
    /\ emitted = 0
    /\ outbox = <<>>

-----------------------------------------------------------------------------
(* run() and _exchange() *)

\* A caller enters run() and waits for the transport lock.
Call(c) ==
    /\ thread[c] = "idle"
    /\ issued < MaxRuns
    /\ issued' = issued + 1
    /\ request' = [request EXCEPT ![c] = issued']
    /\ outcome' = [outcome EXCEPT ![c] = "none"]
    /\ GoTo(c, "calling")
    /\ UNCHANGED <<closed, starting, deadline, transportLock, stopLock,
                   pipesOpen, process, transport, engine>>

\* The lock is taken, and the engine is there: one deadline for the exchange.
Begin(c) ==
    /\ thread[c] = "calling"
    /\ transportLock = Nobody
    /\ ~closed
    /\ process # "exited"
    /\ transportLock' = c
    /\ deadline' = "ahead"
    /\ sent' = 0
    /\ received' = <<>>
    /\ GoTo(c, "checking")
    /\ UNCHANGED <<closed, starting, stopLock, pipesOpen, process, outcome,
                   request, issued, engine>>

\* The lock is taken and given back: "decision worker is not running".
Refuse(c) ==
    /\ thread[c] = "calling"
    /\ transportLock = Nobody
    /\ closed \/ process = "exited"
    /\ outcome' = [outcome EXCEPT ![c] = "refused"]
    /\ GoTo(c, "idle")
    /\ UNCHANGED <<closed, starting, deadline, transportLock, stopLock,
                   pipesOpen, process, request, issued, transport, engine>>

\* The lock is taken and given back: json.dumps() has no text for the request.
Unencodable(c) ==
    /\ thread[c] = "calling"
    /\ transportLock = Nobody
    /\ ~closed
    /\ process # "exited"
    /\ outcome' = [outcome EXCEPT ![c] = "error"]
    /\ GoTo(c, "idle")
    /\ UNCHANGED <<closed, starting, deadline, transportLock, stopLock,
                   pipesOpen, process, request, issued, transport, engine>>

\* The top of the loop; then select() waits for a pipe or the deadline.
Check(c) ==
    /\ thread[c] = "checking"
    /\ GoTo(c, IF deadline = "passed" \/ closed THEN "failing" ELSE "selecting")
    /\ UNCHANGED <<closed, starting, deadline, transportLock, stopLock,
                   pipesOpen, process, outcome, request, issued, transport, engine>>

\* The loop ends once the request is out and the response in.
Continue(c) ==
    GoTo(c, IF sent' = Parts /\ Complete' THEN "parsing" ELSE "checking")

Write(c) ==
    /\ thread[c] = "selecting"
    /\ deadline = "ahead"
    /\ process # "exited"
    /\ sent < Parts
    /\ Len(inbox) < Room
    /\ inbox' = Append(inbox, request[c])
    /\ sent' = sent + 1
    /\ received' = received
    /\ Continue(c)
    /\ UNCHANGED <<closed, starting, deadline, transportLock, stopLock,
                   pipesOpen, process, outcome, request, issued, line, emitted, outbox>>

Read(c) ==
    /\ thread[c] = "selecting"
    /\ deadline = "ahead"
    /\ ~Complete
    /\ outbox # <<>>
    /\ received' = Append(received, Head(outbox))
    /\ outbox' = Tail(outbox)
    /\ sent' = sent
    /\ Continue(c)
    /\ UNCHANGED <<closed, starting, deadline, transportLock, stopLock,
                   pipesOpen, process, outcome, request, issued, inbox, line, emitted>>

\* Mutants: a slow engine is left running; the deadline is not looked at.
BreakKeepsEngine(c) ==
    /\ thread[c] = "selecting"
    /\ deadline = "passed"
    /\ deadline' = "none"
    /\ transportLock' = Nobody
    /\ outcome' = [outcome EXCEPT ![c] = "failed"]
    /\ GoTo(c, "idle")
    /\ UNCHANGED <<closed, starting, stopLock, pipesOpen, process, request,
                   issued, transport, engine>>
BreakOnPipesOnly(c) ==
    /\ thread[c] = "selecting"
    /\ process = "exited" /\ outbox = <<>>
    /\ GoTo(c, "failing")
    /\ UNCHANGED <<closed, starting, deadline, transportLock, stopLock,
                   pipesOpen, process, outcome, request, issued, transport, engine>>

\* The deadline passes inside select(), or EPIPE on the request pipe, or the
\* end of the response pipe.
Break(c) ==
    /\ thread[c] = "selecting"
    /\ \/ deadline = "passed"
       \/ process = "exited" /\ sent < Parts
       \/ process = "exited" /\ ~Complete /\ outbox = <<>>
    /\ GoTo(c, "failing")
    /\ UNCHANGED <<closed, starting, deadline, transportLock, stopLock,
                   pipesOpen, process, outcome, request, issued, transport, engine>>

\* "finally: self.deadline = None", and the transport lock is released.
Leave(c, how) ==
    /\ deadline' = "none"
    /\ transportLock' = Nobody
    /\ outcome' = [outcome EXCEPT ![c] = how]
    /\ GoTo(c, "idle")

\* json.loads() accepts the line: a result, or the engine's error.
Return(c) ==
    /\ thread[c] = "parsing"
    /\ received[Len(received)].says \in {"result", "error"}
    /\ starting' = FALSE
    /\ Leave(c, received[Len(received)].says)
    /\ UNCHANGED <<closed, stopLock, pipesOpen, process, request, issued,
                   transport, engine>>

\* It does not: the engine is stopped as after a broken exchange.
Distrust(c) ==
    /\ thread[c] = "parsing"
    /\ received[Len(received)].says = "nonsense"
    /\ GoTo(c, "failing")
    /\ UNCHANGED <<closed, starting, deadline, transportLock, stopLock,
                   pipesOpen, process, outcome, request, issued, transport, engine>>

-----------------------------------------------------------------------------
(* _stop(), called by a failing run() and by close() *)

\* Under the stop lock: kill the engine unless it has ended.
Kill(t) ==
    /\ thread[t] \in {"failing", "closing"}
    /\ stopLock = Nobody
    /\ stopLock' = t
    /\ process' = IF process = "alive" THEN "killed" ELSE process
    /\ GoTo(t, IF t \in Callers THEN "failed" ELSE "stopping")
    /\ UNCHANGED <<closed, starting, deadline, transportLock, pipesOpen,
                   outcome, request, issued, transport, engine>>

\* process.wait() has returned: run() raises RuntimeError.
Fail(c) ==
    /\ thread[c] = "failed"
    /\ process = "exited"
    /\ stopLock' = Nobody
    /\ Leave(c, "failed")
    /\ UNCHANGED <<closed, starting, pipesOpen, process, request, issued,
                   transport, engine>>

-----------------------------------------------------------------------------
(* close() *)

\* Mutant: close() also takes the deadline away.
BeginCloseResets(x) ==
    /\ thread[x] = "idle"
    /\ closed' = TRUE
    /\ deadline' = "none"
    /\ GoTo(x, "closing")
    /\ UNCHANGED <<starting, transportLock, stopLock, pipesOpen,
                   process, outcome, request, issued, transport, engine>>

BeginClose(x) ==
    /\ thread[x] = "idle"
    /\ closed' = TRUE
    /\ GoTo(x, "closing")
    /\ UNCHANGED <<starting, deadline, transportLock, stopLock, pipesOpen,
                   process, outcome, request, issued, transport, engine>>

\* Mutants: close() does not wait for the engine; it keeps the stop lock.
StoppedEarly(x) ==
    /\ thread[x] = "stopping"
    /\ stopLock' = Nobody
    /\ GoTo(x, "stopped")
    /\ UNCHANGED <<closed, starting, deadline, transportLock, pipesOpen,
                   process, outcome, request, issued, transport, engine>>
Stopped(x) ==
    /\ thread[x] = "stopping"
    /\ process = "exited"
    /\ stopLock' = Nobody
    /\ GoTo(x, "stopped")
    /\ UNCHANGED <<closed, starting, deadline, transportLock, pipesOpen,
                   process, outcome, request, issued, transport, engine>>

\* Mutant: without the transport lock.
ClosePipesAtOnce(x) ==
    /\ thread[x] = "stopped"
    /\ pipesOpen' = FALSE
    /\ GoTo(x, "closed")
    /\ UNCHANGED <<closed, starting, deadline, transportLock, stopLock, process,
                   outcome, request, issued, transport, engine>>

\* The pipes are closed once no exchange uses them.
ClosePipes(x) ==
    /\ thread[x] = "stopped"
    /\ transportLock = Nobody
    /\ pipesOpen' = FALSE
    /\ GoTo(x, "closed")
    /\ UNCHANGED <<closed, starting, deadline, transportLock, stopLock, process,
                   outcome, request, issued, transport, engine>>

-----------------------------------------------------------------------------
(* The engine, run_decision_worker() in src/decisions.cpp, and the world *)

\* std::getline() takes the pieces of the next line.
EngineRead ==
    /\ process = "alive"
    /\ Len(line) < Parts
    /\ inbox # <<>>
    /\ line' = Append(line, Head(inbox))
    /\ inbox' = Tail(inbox)
    /\ UNCHANGED <<closed, starting, deadline, transportLock, stopLock, pipesOpen,
                   process, thread, outcome, request, issued, transport, emitted, outbox>>

\* The answer to that line goes out piece by piece.
EngineWrite ==
    /\ process = "alive"
    /\ Len(line) = Parts
    /\ Len(outbox) < Room
    /\ \E says \in IF emitted + 1 = Parts THEN Replies ELSE {"more"} :
        outbox' = Append(outbox, [id |-> line[1], says |-> says])
    /\ emitted' = (emitted + 1) % Parts
    /\ line' = IF emitted + 1 = Parts THEN <<>> ELSE line
    /\ UNCHANGED <<closed, starting, deadline, transportLock, stopLock, pipesOpen,
                   process, thread, outcome, request, issued, transport, inbox>>

\* The engine crashes, or dies of the signal.  What it wrote can be read.
EngineExit ==
    /\ process # "exited"
    /\ process' = "exited"
    /\ UNCHANGED <<closed, starting, deadline, transportLock, stopLock, pipesOpen,
                   thread, outcome, request, issued, transport, engine>>

Tick ==
    /\ deadline = "ahead"
    /\ deadline' = "passed"
    /\ UNCHANGED <<closed, starting, transportLock, stopLock, pipesOpen, process,
                   thread, outcome, request, issued, transport, engine>>

-----------------------------------------------------------------------------
\* Every call has returned and close() was called.
Ended ==
    /\ \A c \in Callers : thread[c] = "idle"
    /\ \A x \in Closers : thread[x] = "closed"
    /\ UNCHANGED vars

Run(c) ==
    \/ Begin(c) \/ Refuse(c) \/ Unencodable(c) \/ Check(c) \/ Write(c) \/ Read(c)
    \/ Break(c) \/ Return(c) \/ Distrust(c) \/ Kill(c) \/ Fail(c)
Close(x) == Kill(x) \/ Stopped(x) \/ ClosePipes(x)

Next ==
    \/ \E c \in Callers : Call(c) \/ Run(c)
    \/ \E x \in Closers : BeginClose(x) \/ Close(x)
    \/ EngineRead \/ EngineWrite \/ EngineExit \/ Tick
    \/ Ended

\* Threads are scheduled, time passes and a killed process dies.  Nothing is
\* asked of a living engine, nor of the locks: who waits for one gets it when
\* it stays free.
Fairness ==
    /\ \A c \in Callers : WF_vars(Run(c))
    /\ \A x \in Closers : WF_vars(Close(x))
    /\ WF_vars(Tick)
    /\ WF_vars(process = "killed" /\ EngineExit)

Spec == Init /\ [][Next]_vars
FairSpec == Spec /\ Fairness

-----------------------------------------------------------------------------
(* Safety *)

\* Where run() holds the transport lock, and where _stop() holds its own.
InTransport == {"checking", "selecting", "parsing", "failing", "failed"}
InStop == {"failed", "stopping"}

\* Types, and that each lock is held exactly where the code holds it.
TypeOK ==
    /\ closed \in BOOLEAN
    /\ starting \in BOOLEAN
    /\ deadline \in {"none", "ahead", "passed"}
    /\ pipesOpen \in BOOLEAN
    /\ process \in {"alive", "killed", "exited"}
    /\ \A c \in Callers : thread[c] \in {"idle", "calling"} \cup InTransport
    /\ \A x \in Closers :
        thread[x] \in {"idle", "closing", "stopping", "stopped", "closed"}
    /\ outcome \in [Callers -> {"none", "result", "error", "failed", "refused"}]
    /\ request \in [Callers -> 0 .. MaxRuns]
    /\ issued \in 0 .. MaxRuns
    /\ sent \in 0 .. Parts
    /\ received \in Seq(Piece)
    /\ inbox \in Seq(1 .. MaxRuns) /\ Len(inbox) <= Room
    /\ line \in Seq(1 .. MaxRuns) /\ Len(line) <= Parts
    /\ emitted \in 0 .. (Parts - 1)
    /\ outbox \in Seq(Piece) /\ Len(outbox) <= Room
    /\ transportLock \in Callers \cup {Nobody}
    /\ \A c \in Callers : transportLock = c <=> thread[c] \in InTransport
    /\ stopLock \in Threads \cup {Nobody}
    /\ \A t \in Threads : stopLock = t <=> thread[t] \in InStop

\* A line that run() parses is the answer to its own request from the first
\* byte to the last, although requests time out and leave their answers, and
\* pieces of them, on the way.
AnswersMatch ==
    \A c \in Callers : thread[c] = "parsing" =>
        \A i \in DOMAIN received : received[i].id = request[c]

\* _exchange() does arithmetic with the deadline at each turn: nobody takes it
\* away while an exchange runs, nor leaves one behind.
DeadlineCoversExchange ==
    (deadline # "none") <=> (\E c \in Callers : thread[c] \in InTransport)

\* The pipes are never closed under a run() that selects on them.
NoUseOfClosedPipes ==
    ~pipesOpen => \A c \in Callers : thread[c] \notin {"checking", "selecting"}

\* "A timeout, oversized response, or broken transport stops and reaps the
\* worker": when run() has raised for one, the engine is gone.  When close()
\* returns it is gone as well, its pipes are closed, and no run() will reach it.
StoppedForGood ==
    /\ \A c \in Callers : outcome[c] = "failed" => process = "exited"
    /\ \A x \in Closers : thread[x] = "closed" =>
            process = "exited" /\ ~pipesOpen /\ closed

-----------------------------------------------------------------------------
(* Liveness *)

\* Every run() returns or raises, whatever the engine does or does not do, and
\* close() returns, also in the middle of an exchange or of another close().
EveryCallEnds ==
    /\ \A c \in Callers : (thread[c] # "idle") ~> (thread[c] = "idle")
    /\ \A x \in Closers : (thread[x] # "idle") ~> (thread[x] = "closed")

=============================================================================
