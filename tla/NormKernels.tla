----------------------------- MODULE NormKernels -----------------------------
(***************************************************************************)
(* RMS norms, their fused forms, and the quantisers that follow them.  A   *)
(* row has `columns' columns; a launch wider than Narrow still sums with   *)
(* Narrow threads, so that the row comes out the same to the bit.          *)
(***************************************************************************)
EXTENDS BlockOps

Everyone(threads) == Threads(threads)
AllColumns(columns, threads) == Strided(columns, threads, threads)
Reducers(threads) == IF threads < Narrow THEN threads ELSE Narrow

\* sum x^2 in registers; thread 0 leaves 1/rms in a cell for the block.
InverseRms(regs, arrays, cells, reducers, threads) ==
  WarpReduce("sum", regs, arrays, reducers \div Lanes, threads)
    \o [r \in DOMAIN regs |-> Put(cells[r], Zero(threads), regs[r], {0})]
    \o <<Sync(threads)>>
    \o [r \in DOMAIN regs |-> Get(regs[r], "sum", cells[r], Zero(threads), Everyone(threads))]
RowNorm(columns, reducers, threads) ==
  <<Reduce("sum", "sum", StridedBy(columns, reducers, threads), <<>>, Everyone(threads))>>
    \o InverseRms(<<"sum">>, <<"warp_sums">>, <<"inverse_rms">>, reducers, threads)
SumOf(columns, reducers) == WarpTree("sum", Terms("sum", columns, <<>>), reducers)

NormKernel(columns, threads) ==
  Kernel(threads,
    RowNorm(columns, Reducers(threads), threads)
      \o <<Write(AllColumns(columns, threads), <<"sum">>, Everyone(threads))>>,
    Outputs(0 .. columns - 1, <<SumOf(columns, Reducers(threads))>>))

rmsnorm_2816(columns) == NormKernel(columns, Narrow)
rmsnorm_add_2816(columns, threads) == NormKernel(columns, threads)
rmsnorm_1024(columns) == NormKernel(columns, Narrow)
rmsnorm_add_scale_1024(columns) == NormKernel(columns, Narrow)
vision_rmsnorm_1152(columns) == NormKernel(columns, Narrow)
vision_rmsnorm_add_1152(columns) == NormKernel(columns, Narrow)
vision_rmsnorm_noscale_1152(columns) == NormKernel(columns, Narrow)

\* Three outputs of one norm: the dense branch's, the experts' and the router's.
dual_rmsnorm_router_2816(columns) ==
  LET outs == [b \in {"dense", "expert", "router"} |->
                 [t \in Threads(Narrow) |-> [k \in DOMAIN Stripe(columns, Narrow, t) |->
                                               <<b, Stripe(columns, Narrow, t)[k]>>]]]
  IN  Kernel(Narrow,
        RowNorm(columns, Narrow, Narrow)
          \o [b \in 1..3 |-> Write(outs[<<"dense", "expert", "router">>[b]], <<"sum">>, Everyone(Narrow))],
        Outputs((DOMAIN outs) \X (0 .. columns - 1), <<SumOf(columns, Narrow)>>))

\* The feed-forward tail: the norms of both branches, then of their sum.  With
\* `routes' the experts' row is first reduced into shared memory, where another
\* thread may read it once the launch is wider than its reducers.
FinalizeFeedForward(columns, routes, threads) ==
  LET reducers == Reducers(threads)
      mine == StridedBy(columns, reducers, threads)
      Row(i) == IF routes THEN <<At("reduced_expert", i)>> ELSE <<>>
      from == [i \in 0 .. columns - 1 |-> Row(i)]
      branches == <<"dense", "expert">>
      sum == SumOf(columns, reducers)
      Reduced(i) == IF routes THEN <<Leaf(i, <<>>)>> ELSE <<>>
      combined == WarpTree("sum", [i \in 0 .. columns - 1 |-> Leaf(i, <<sum, sum>> \o Reduced(i))], reducers)
  IN  Kernel(threads,
        (IF routes THEN <<Store("reduced_expert", mine, <<>>, Everyone(threads))>> ELSE <<>>)
          \o [b \in 1..2 |-> Reduce(branches[b], "sum", mine, <<>>, Everyone(threads))]
          \o InverseRms(branches, <<"dense_warp_sums", "expert_warp_sums">>,
                        <<"dense_inverse", "expert_inverse">>, reducers, threads)
          \o <<ReduceFrom("combined", "sum", mine, branches, from, Everyone(threads))>>
          \o InverseRms(<<"combined">>, <<"combined_warp_sums">>, <<"combined_inverse">>, reducers, threads)
          \o <<WriteFrom(AllColumns(columns, threads), <<"dense", "expert", "combined">>, from, Everyone(threads))>>,
        {<<i, <<sum, sum, combined>> \o Reduced(i)>> : i \in 0 .. columns - 1})
finalize_feedforward_2816(columns, threads) == FinalizeFeedForward(columns, FALSE, threads)
finalize_feedforward_routes_2816(columns, threads) == FinalizeFeedForward(columns, TRUE, threads)

\* An exact dot product of the vocabulary row a candidate names; thread 0 keeps
\* it, and with a token map replaces the candidate every thread has read.
CorrectCandidates(columns, mapped) ==
  Kernel(Narrow,
    <<Get("row", "sum", "candidate_ids", Zero(Narrow), Everyone(Narrow)),
      Reduce("sum", "sum", AllColumns(columns, Narrow), <<>>, Everyone(Narrow))>>
      \o WarpReduce("sum", <<"sum">>, <<"warp_sums">>, Warps, Narrow)
      \o <<Write([t \in Threads(Narrow) |-> <<0>>], <<"sum">>, {0})>>
      \o (IF mapped THEN <<Put("candidate_ids", Zero(Narrow), "row", {0})>> ELSE <<>>),
    Outputs({0}, <<SumOf(columns, Narrow)>>))
correct_vocab_candidates(columns) == CorrectCandidates(columns, FALSE)
correct_vocab_candidates_rows(columns) == CorrectCandidates(columns, FALSE)
correct_nvfp4_vocab_candidates(columns, mapped) == CorrectCandidates(columns, mapped)

-----------------------------------------------------------------------------
(* Quantisers: a row's largest magnitude is its scale.                      *)

Magnitude(columns, using) == UNION {Term("max", i, using) : i \in 0 .. columns - 1}

\* Thread 0 turns reductions[0] into scales[row], which all then read.
RowScale(reg, columns, using) ==
  LET n == Narrow
  IN  <<Reduce(reg, "max", AllColumns(columns, n), using, Everyone(n))>>
        \o ThreadTree("max", "reductions", reg, 1, n)
        \o <<Get(reg, "max", "reductions", Zero(n), {0}), Put("scales", Zero(n), reg, {0}), Sync(n),
             Get(reg, "max", "scales", Zero(n), Everyone(n))>>
QuantizedBy(reg, columns) == <<Write(AllColumns(columns, Narrow), <<reg>>, Everyone(Narrow))>>
QuantizedRow(columns) ==
  Kernel(Narrow, RowScale("maximum", columns, <<>>) \o QuantizedBy("maximum", columns),
    Outputs(0 .. columns - 1, <<Magnitude(columns, <<>>)>>))

quantize_fp8_rows(columns) == QuantizedRow(columns)
gelu_quantize_fp8_2112(columns) == QuantizedRow(columns)

rmsnorm_quantize_fp8_2816(columns) ==
  LET sum == SumOf(columns, Narrow)
      n == Narrow
  IN  Kernel(n,
        <<Reduce("sum", "sum", AllColumns(columns, n), <<>>, Everyone(n))>>
          \o InverseRms(<<"sum">>, <<"reductions">>, <<"inverse_rms">>, n, n)
          \o RowScale("maximum", columns, <<"sum">>)
          \o <<Write(AllColumns(columns, n), <<"sum", "maximum">>, Everyone(n))>>,
        Outputs(0 .. columns - 1, <<sum, Magnitude(columns, <<sum>>)>>))

\* Every thread derives the scale from reductions[0] itself; thread 0 keeps it.
OwnScale(columns, last) ==
  LET n == Narrow
  IN  Kernel(n,
        <<Reduce("maximum", "max", AllColumns(columns, n), <<>>, Everyone(n))>>
          \o ThreadTree("max", "maxima", "maximum", last, n)
          \o <<Get("maximum", "max", "maxima", Zero(n), Everyone(n)),
               Write([t \in Threads(n) |-> <<-1>>], <<"maximum">>, {0}),
               Write(AllColumns(columns, n), <<"maximum">>, Everyone(n))>>,
        Outputs(-1 .. columns - 1, <<Magnitude(columns, <<>>)>>))
quantize_int8_vector(columns) == OwnScale(columns, 1)
quantize_int8_rows(columns) == OwnScale(columns, 1)
unpack_quantize_attention(columns) == OwnScale(columns, Lanes)

\* The residual after attention (fused: kept in shared memory for threads other
\* than its writer), the norm of it, and the scales of both quantised outputs.
\* Its two magnitudes share a reduction, across warps or across threads.
dual_rmsnorm_router_quantize_fp8_2816(columns, fused, threads) ==
  LET reducers == Reducers(threads)
      mine == StridedBy(columns, reducers, threads)
      all == AllColumns(columns, threads)
      from == IF fused THEN [i \in 0 .. columns - 1 |-> <<At("residual_row", i)>>] ELSE <<>>
      attention == SumOf(columns, reducers)
      residual == [i \in 0 .. columns - 1 |-> IF fused THEN <<Leaf(i, <<attention>>)>> ELSE <<>>]
      sum == WarpTree("sum", [i \in 0 .. columns - 1 |-> Leaf(i, residual[i])], reducers)
      magnitude == {Leaf(i, <<sum>> \o residual[i]) : i \in 0 .. columns - 1}
      maxima == <<"maximum", "dense_maximum">>
      arrays == <<"reductions", "dense_reductions">>
      attentionNorm ==
        <<Reduce("attention", "sum", mine, <<>>, Everyone(threads))>>
          \o InverseRms(<<"attention">>, <<"reductions">>, <<"inverse_rms">>, reducers, threads)
          \o <<Store("residual_row", all, <<"attention">>, Everyone(threads)), Sync(threads)>>
      rowNorm ==
        <<ReduceFrom("sum", "sum", mine, <<>>, from, Everyone(threads))>>
          \o InverseRms(<<"sum">>, <<"reductions">>, <<"inverse_rms">>, reducers, threads)
          \o [m \in 1..2 |-> ReduceFrom(maxima[m], "max", all, <<"sum">>, from, Everyone(threads))]
      acrossWarps == WarpReduce("max", maxima, arrays, threads \div Lanes, threads)
      acrossThreads ==
        [m \in 1..2 |-> Put(arrays[m], Own(threads), maxima[m], Everyone(threads))]
          \o <<Sync(threads)>> \o Tree("max", arrays, threads, 1, threads)
          \o [m \in 1..2 |-> Get(maxima[m], "max", arrays[m], Zero(threads), {0})]
  IN  Kernel(threads,
        (IF fused THEN attentionNorm ELSE <<>>) \o rowNorm
          \o (IF fused THEN acrossWarps ELSE acrossThreads)
          \o <<Put("scales", Zero(threads), "maximum", {0}), Put("dense_scales", Zero(threads), "dense_maximum", {0}),
               Sync(threads),
               Get("maximum", "max", "scales", Zero(threads), Everyone(threads)),
               Get("dense_maximum", "max", "dense_scales", Zero(threads), Everyone(threads)),
               WriteFrom(all, <<"sum", "maximum", "dense_maximum">>, from, Everyone(threads))>>,
        {<<i, <<sum, magnitude, magnitude>> \o residual[i]>> : i \in 0 .. columns - 1})
=============================================================================
