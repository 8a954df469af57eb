---------------------------- MODULE SelectKernels ----------------------------
(***************************************************************************)
(* Choosing: the best of a row, the best few of a tile of the vocabulary,  *)
(* the experts of a token.  Higher values first, ties to the lower id.     *)
(***************************************************************************)
EXTENDS RouteKernels

WORST == 99                      \* INT_MAX
None == <<-9, 0>>                \* -INFINITY, and token 0
Last == <<-9, WORST>>            \* -INFINITY, and INT_MAX
Pair(values, i) == <<values[i], i>>
\* The element of a set that `rank' others beat.
Ranked(pairs, rank) == CHOOSE p \in pairs : Cardinality({q \in pairs : Better(q, p)}) = rank
Best(pairs) == Ranked(pairs, 0)
PairLists(values, items) == [t \in DOMAIN items |-> [k \in DOMAIN items[t] |-> Pair(values, items[t][k])]]

-----------------------------------------------------------------------------
(* argmax over pairs: a stripe a thread, then a tree                        *)

Argmax(lists, pairs) ==
  LET n == Narrow
  IN  Kernel(n,
        <<Select("best", None, lists, Threads(n))>> \o ThreadTree("best", "maxima", "best", 1, n)
          \o <<Get("best", "best", "maxima", Zero(n), {0}), Write([t \in Threads(n) |-> <<0>>], <<"best">>, {0})>>,
        Outputs({0}, <<IF pairs = {} THEN None ELSE Best(pairs)>>))

\* Block `block' of `blocks' takes every blocks-th stretch of Narrow values.
argmax_bf16_partial(values, count, block, blocks) ==
  LET first(t) == block * Narrow + t
      mine == [t \in Threads(Narrow) |->
                 IF first(t) >= count THEN <<>>
                 ELSE [k \in DOMAIN Stripe(count - first(t), blocks * Narrow, 0) |->
                         first(t) + Stripe(count - first(t), blocks * Narrow, 0)[k]]]
  IN  Argmax(PairLists(values, mine),
             {Pair(values, i) : i \in {i \in 0 .. count - 1 : (i \div Narrow) % blocks = block}})
argmax_finish(pairs) ==
  Argmax([t \in Threads(Narrow) |-> IF t < Len(pairs) THEN <<pairs[t + 1]>> ELSE <<None>>],
         {pairs[k] : k \in DOMAIN pairs})
\* Candidates are <<corrected value, token>> pairs, in the order of their tiles.
argmax_corrected(pairs) ==
  Argmax([t \in Threads(Narrow) |-> SubSeq(pairs, 2 * t + 1, 2 * t + 2)], {pairs[k] : k \in DOMAIN pairs})
argmax_corrected_rows(pairs) ==
  Argmax([t \in Threads(Narrow) |-> [k \in DOMAIN Stripe(Len(pairs), Narrow, t) |-> pairs[Stripe(Len(pairs), Narrow, t)[k] + 1]]],
         {pairs[k] : k \in DOMAIN pairs})
argmax_nvfp4_vocab_candidates(pairs) == argmax_corrected_rows(pairs)

\* A decision's row: its normaliser and best token, and the logits of the options.
\* maxima[] and ids[] go together; sums[] is an array of its own.
Summary == -1                   \* the cells before those of the options
summarize_decision_logits(values, options) ==
  LET n == Narrow
      count == Cardinality(DOMAIN values)
      best == Best({Pair(values, i) : i \in DOMAIN values})
  IN  Kernel(n,
        <<Select("best", Last, PairLists(values, Strided(count, n, n)), Threads(n))>>
          \o ThreadTree("best", "maxima", "best", 1, n)
          \o <<Get("maximum", "best", "maxima", Zero(n), Threads(n)),
               Reduce("total", "sum", Strided(count, n, n), <<"maximum">>, Threads(n))>>
          \o ThreadTree("sum", "sums", "total", 1, n)
          \o <<Get("total", "sum", "sums", Zero(n), {0}), Get("best", "best", "maxima", Zero(n), {0}),
               Write([t \in Threads(n) |-> <<Summary>>], <<"maximum", "total", "best">>, {0}),
               Write([t \in Threads(n) |-> <<t>>], <<>>, Threads(options))>>,
        {<<Summary, <<best, BlockTree("sum", Terms("sum", count, <<best>>), n), best>>>>}
          \union Outputs(Threads(options), <<>>))
summarize_decision_options(options) ==
  LET n == Narrow
  IN  Kernel(n, <<Write([t \in Threads(n) |-> <<Summary>>], <<>>, {0}),
                  Write([t \in Threads(n) |-> <<t>>], <<>>, Threads(options))>>,
        {<<Summary, <<>>>>} \union Outputs(Threads(options), <<>>))

-----------------------------------------------------------------------------
(* The best of a tile of the vocabulary                                     *)

RowsPerGroup == 4 * Narrow       \* 2048
Vocabulary == 2 * RowsPerGroup   \* 262144
Rows == 0..1
Physical == 3                    \* rows of the plan, of which Rows are active

\* The grouped GEMM's output, a group of tokens after the other; or one problem.
VocabPlan(single, row, token) ==
  IF single THEN row * Vocabulary + token
  ELSE ((token \div RowsPerGroup) * Physical + row) * RowsPerGroup + (token % RowsPerGroup)
\* What a kernel finds at an address: the logit of the row and token put there.
Found(single, logits, address) ==
  LET owner == CHOOSE o \in Rows \X (0 .. Vocabulary - 1) : VocabPlan(single, o[1], o[2]) = address
  IN  logits[owner[1]][owner[2]]

\* Thread t's `items' tokens of a tile and the logits it reads for them.
TileLists(tile, items, logit) ==
  [t \in Threads(Narrow) |->
     [k \in 1 .. items |->
        LET token == (tile * Narrow + t) * items + k - 1 IN <<logit[token], token>>]]
TilePairs(tile, items, values) ==
  {Pair(values, token) : token \in tile * Narrow * items .. (tile + 1) * Narrow * items - 1}
Finalists(pairs, keep) == {<<rank, <<Ranked(pairs, rank)>>>> : rank \in 0 .. keep - 1}

\* Thread 0 holds the head of the block's sorted list.
SortedTop(lists, keep, pairs) ==
  LET n == Narrow
      Keep(rank) == <<First("winner", "items", {0}), Write([t \in Threads(n) |-> <<rank>>], <<"winner">>, {0}),
                      Pop("items", "winner", {0})>>
  IN  Kernel(n,
        <<List("items", lists, Threads(n)), Sort("items", "descending", WORST, n)>>
          \o Flatten([r \in 1 .. keep |-> Keep(r - 1)]),
        Finalists(pairs, keep))

local_top4(values, tile) ==
  SortedTop(TileLists(tile, 2, values), 2, TilePairs(tile, 2, values))
local_top_accumulated_rows(values, tile, keep) ==
  SortedTop(TileLists(tile, 2, values), keep, TilePairs(tile, 2, values))
\* 1024 or 2048 tokens a tile, read from the grouped layout.
local_top_vocab_rows(logits, row, tile, keep, items) ==
  LET logit == [token \in 0 .. Vocabulary - 1 |->
        Found(FALSE, logits, ((token \div RowsPerGroup) * Physical + row) * RowsPerGroup + (token % RowsPerGroup))]
  IN  SortedTop(TileLists(tile, items, logit), keep, TilePairs(tile, items, logits[row]))

\* Each thread keeps its own best; a round of shuffles elects the next of the
\* tile, and the thread that held it drops it.
local_top_vocab_rows_reduce_2048(logits, row, tile, keep, rowMajor) ==
  LET n == Narrow
      items == RowsPerGroup \div n
      logit == [token \in 0 .. Vocabulary - 1 |->
        Found(rowMajor, logits, IF rowMajor THEN row * Vocabulary + token
                                ELSE (tile * Physical + row) * RowsPerGroup + (token % RowsPerGroup))]
      Elect(rank) ==
        <<First("value", "local", Threads(n))>> \o Shuffles("best", <<"value">>, Threads(n))
          \o <<Put("warp_values", WarpOf(n), "value", Leaders(n)), Sync(n),
               Get("value", "best", "warp_values", Own(n), Threads(Warps)),
               Select("value", Last, Nothing(n), Threads(Lanes) \ Threads(Warps))>>
          \o Shuffles("best", <<"value">>, Threads(Lanes))
          \o <<Put("winner_id", Zero(n), "value", {0}), Sync(n),
               Get("winner", "best", "winner_id", Zero(n), Threads(n)),
               Write([t \in Threads(n) |-> <<rank>>], <<"winner">>, {0}),
               Pop("local", "winner", Threads(n))>>
  IN  Kernel(n,
        <<KeepBest("local", TileLists(tile, items, logit), keep, Threads(n))>>
          \o Flatten([r \in 1 .. keep |-> Elect(r - 1)]),
        Finalists(TilePairs(tile, items, logits[row]), keep))

\* The kernel a launch picks: twice as many finalists of a tile twice as long.
VocabLaunch(logits, row, tile, candidatesPerTile, hot, single, groupedTop, reductionTop) ==
  IF hot \/ (candidatesPerTile <= 2 /\ groupedTop /\ reductionTop)
  THEN local_top_vocab_rows_reduce_2048(logits, row, tile, 2 * candidatesPerTile, single)
  ELSE IF candidatesPerTile <= 2 /\ groupedTop
  THEN local_top_vocab_rows(logits, row, tile, 2 * candidatesPerTile, 4)
  ELSE local_top_vocab_rows(logits, row, 2 * tile, candidatesPerTile, 2)

VocabGroups == 3 * 4   \* columns / 16, in tiles of four

\* Every 16 columns of a row one scale factor, rows past the active ones zero.
quantize_vocab_rows(active, block) ==
  LET n == Narrow
      index(t) == block * n + t
      count == Physical * VocabGroups
      Scaled(i) == <<ScaleCell(i \div VocabGroups, i % VocabGroups), i \div VocabGroups < active>>
      inside == {t \in Threads(n) : index(t) < count}
  IN  Kernel(n,
        <<Return(Threads(n) \ inside), Write([t \in Threads(n) |-> <<Scaled(index(t))>>], <<>>, Threads(n))>>,
        Outputs({<<ScaleCell(i \div VocabGroups, i % VocabGroups), i < active * VocabGroups>> : i \in block * n .. (block * n + Cardinality(inside) - 1)}, <<>>))

-----------------------------------------------------------------------------
(* The experts of a token: the first Top of a descending sort, and a        *)
(* softmax over them by the first warp.                                     *)
route_128_top8(values) ==
  LET n == Narrow
      pairs == {Pair(values, e) : e \in Threads(n)}
      maximum == Ranked(pairs, 0)
      total == Pairwise("sum", [l \in Threads(Lanes) |->
                 IF l < Top THEN Leaf(l, <<Ranked(pairs, l), maximum>>) ELSE Nil], Lanes)
  IN  Kernel(n,
        <<List("items", [t \in Threads(n) |-> <<Pair(values, t)>>], Threads(n)),
          Sort("items", "descending", WORST, n), Sync(n),
          First("key", "items", Threads(n)), First("maximum", "items", Threads(n)), Broadcast("maximum", Threads(n)),
          Reduce("total", "sum", [t \in Threads(n) |-> IF t < Top THEN <<t>> ELSE <<>>], <<"key", "maximum">>, Threads(n))>>
          \o Shuffles("sum", <<"total">>, Threads(n))
          \o <<Broadcast("total", Threads(n)),
               Write([t \in Threads(n) |-> <<t>>], <<"key", "maximum", "total">>, Threads(Top))>>,
        {<<l, <<Ranked(pairs, l), maximum, total>>>> : l \in Threads(Top)})
=============================================================================
