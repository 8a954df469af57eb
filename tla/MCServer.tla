------------------------------ MODULE MCServer ------------------------------
(* Server with one connection that may be used twice. *)
EXTENDS Server

CONSTANT regular

MCMaxRequests == [c \in Clients |-> IF c = regular THEN 2 ELSE 1]

=============================================================================
