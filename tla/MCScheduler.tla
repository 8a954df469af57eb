----------------------------- MODULE MCScheduler -----------------------------
(* Scheduler with frames a1 and a2 and a FIFO request of one stream. *)
EXTENDS Scheduler

CONSTANTS a1, a2, mail

MCStream == [r \in Requests |->
                IF r \in {a1, a2, mail} THEN "a" ELSE "none"]

=============================================================================
