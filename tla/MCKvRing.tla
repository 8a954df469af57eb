------------------------------ MODULE MCKvRing ------------------------------
(***************************************************************************)
(* KvRing for TLC: a window of four slots, three candidates, contexts that *)
(* wrap the ring twice.                                                    *)
(***************************************************************************)
EXTENDS KvRing, FiniteSetsExt

MCPaths == {<<"single", "single">>, <<"scalar", "scalar">>, <<"packed", "packed">>,
            <<"direct", "packed">>, <<"direct", "direct">>, <<"packed", "direct">>}

\* A prediction that depends on every row of the two views.
MCPredict(view) ==
  LET Weight(f, p) == (p + 1) * f[p].tok + p * f[p].pos
      Sum(f) == MapThenSumSet(LAMBDA p : Weight(f, p), DOMAIN f)
  IN  (Sum(view.sliding.scored) + Sum(view.sliding.summed) * 3 + Sum(view.global.summed)) % 2
=============================================================================
