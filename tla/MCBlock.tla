------------------------------- MODULE MCBlock -------------------------------
(***************************************************************************)
(* Block for TLC: warps of four lanes, blocks of two warps; maxima that    *)
(* are absent, alone, tied in a thread, a warp, a block and across tiles;  *)
(* batches whose experts are spread, concentrated, first, last and padded. *)
(***************************************************************************)
EXTENDS Block

MCPeaks == <<{}, {5}, {0, 1}, {2, 13}, {3, 9, 17}, {7, 30, 31, 33}>>
MCBatches ==
  <<<<3, 7>>, <<0, 7, 7, 0>>, <<5, 2, 5, 2, 2, 5>>, <<1, 6, 6, 1, 0, 7, 1, 2, 1, 4>>,
    <<7, 3, 7, 3, 7, 3, 7, 3, 7, 0, 7, 0, 7, 6>>, <<1, 2, 2, 1, 1, 2, 2, 1, 1, 2, 2, 1, 1, 2, 2, 1, 1, 2>>>>
=============================================================================
