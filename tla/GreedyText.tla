---------------------------- MODULE GreedyText -----------------------------
(***************************************************************************)
(* What decoding promises, with no caches, windows or drafts: a text is    *)
(* prompted and then grows, each new token the one the model predicts from *)
(* the tokens before it.  A step may add several tokens at once (that is   *)
(* what accepted drafts buy) but never a token the model would not pick.   *)
(***************************************************************************)
EXTENDS Naturals, Sequences

CONSTANT NextToken(_)      \* the model's choice after a text

VARIABLES line,            \* the text, prompt and output
          generating       \* the prompt is complete

Init == line = << >> /\ ~generating

Prompt ==
  /\ ~generating
  /\ Len(line') > Len(line)
  /\ SubSeq(line', 1, Len(line)) = line
  /\ UNCHANGED generating

Generate ==
  /\ line # << >>
  /\ generating'
  /\ Len(line') > Len(line)
  /\ SubSeq(line', 1, Len(line)) = line
  /\ \A i \in Len(line) + 1 .. Len(line') : line'[i] = NextToken(SubSeq(line', 1, i - 1))

Next == Prompt \/ Generate

Spec == Init /\ [][Next]_<<line, generating>>
=============================================================================
