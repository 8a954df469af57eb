-------------------------- MODULE MCDecisionCache --------------------------
(* DecisionCache with one-token questions and one that takes more than one *)
(* pass through the model.                                                 *)
EXTENDS DecisionCache

A == <<"a">>
B == <<"b">>
Long == <<"b", "b", "b", "b", "b">>

\* Two images of different sizes, and one of the second size.
ListShapes == [i1 |-> <<"wide", "tall">>, i2 |-> <<"tall">>]

Lists == {<<A>>, <<A, B, Long>>}

\* Each mode with the prompts of the front end, and one with those that have
\* no prefix in common.  "shared" with the latter is what fails.
AllSettings == Modes \X Layouts
SoundSettings ==
    (Modes \X {"system_state"}) \cup {<<"readonly", "user_state">>}

=============================================================================
