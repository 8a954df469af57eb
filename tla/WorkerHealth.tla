---------------------------- MODULE WorkerHealth ----------------------------
(***************************************************************************)
(* Worker together with the threads that ask whether it is healthy: each   *)
(* GET /health evaluates Worker.healthy on its own handler thread, without *)
(* either lock of the worker.                                              *)
(***************************************************************************)
EXTENDS Worker

CONSTANT Readers    \* the evaluations of Worker.healthy

VARIABLE reader     \* where each is, or what it came to

healthVars == <<vars, reader>>

HealthInit == Init /\ reader = [h \in Readers |-> "idle"]

Reads(h, to) == reader' = [reader EXCEPT ![h] = to] /\ UNCHANGED vars

\* "not self.closed and self.process.poll() is None and (self.deadline is None
\* or": decided here unless an exchange is on.
ReadDeadline(h) ==
    /\ reader[h] = "idle"
    /\ Reads(h, IF closed \/ process = "exited" THEN "unavailable"
                ELSE IF deadline = "none" THEN "ready" ELSE "comparing")

\* "time.monotonic() < self.deadline": the deadline is read again, and None
\* does not compare with a number.
CompareDeadline(h) ==
    /\ reader[h] = "comparing"
    /\ Reads(h, CASE deadline = "none" -> "TypeError"
                  [] deadline = "ahead" -> "ready"
                  [] deadline = "passed" -> "unavailable")

HealthNext ==
    \/ Next /\ UNCHANGED reader
    \/ \E h \in Readers : ReadDeadline(h) \/ CompareDeadline(h)

HealthSpec == HealthInit /\ [][HealthNext]_healthVars

-----------------------------------------------------------------------------
\* SETUP.md: "GET /health reports readiness".  Whatever run() and close() do
\* meanwhile, evaluating Worker.healthy says ready or unavailable.
HealthReports == \A h \in Readers : reader[h] # "TypeError"

=============================================================================
