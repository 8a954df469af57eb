-------------------------- MODULE AttentionKernels --------------------------
(***************************************************************************)
(* What the attention kernels compute block by block: the softmax of a row *)
(* of scores, and the normalised and rotated heads of Q, K and V.          *)
(***************************************************************************)
EXTENDS BlockOps

-----------------------------------------------------------------------------
(* Softmax of a row of `columns' scores                                     *)

\* The maximum, then the sum of what it scales, then every column over both:
\* the additions of a block of `threads', which the fast paths reproduce.
SoftmaxOutputs(columns, threads) ==
  LET maximum == BlockTree("max", Terms("max", columns, <<>>), threads)
      total == BlockTree("sum", Terms("sum", columns, <<maximum>>), threads)
  IN  Outputs(0 .. columns - 1, <<maximum, total>>)

RowReduction(kind, reg, last) ==
  ThreadTree(kind, "reductions", reg, last, Narrow)
    \o <<Get(reg, kind, "reductions", Zero(Narrow), Threads(Narrow))>>

\* The second reduction reuses the array of the first: a barrier parts the
\* last read of the maximum from the first partial sum.
PartedBy(parting, columns, last) ==
  LET n == Narrow
  IN  <<Reduce("maximum", "max", Strided(columns, n, n), <<>>, Threads(n))>>
        \o RowReduction("max", "maximum", last)
        \o parting \o <<Reduce("denominator", "sum", Strided(columns, n, n), <<"maximum">>, Threads(n))>>
        \o RowReduction("sum", "denominator", last)
        \o <<Write(Strided(columns, n, n), <<"maximum", "denominator">>, Threads(n))>>
RowSoftmaxUnparted(columns, last) == PartedBy(<<>>, columns, last)
RowSoftmax(columns, last) == PartedBy(<<Sync(Narrow)>>, columns, last)

SoftmaxKernel(columns, last) == Kernel(Narrow, RowSoftmax(columns, last), SoftmaxOutputs(columns, Narrow))

decode_attention_softmax(columns) == SoftmaxKernel(columns, 1)
decode_attention_softmax_batch(columns) == SoftmaxKernel(columns, 1)
ragged_attention_softmax(columns) == SoftmaxKernel(columns, 1)
\* kSlots = 0 walks the tree to its end, kSlots # 0 leaves the last levels to a warp.
ragged_gemm_softmax(columns, slots) == SoftmaxKernel(columns, IF slots THEN Lanes ELSE 1)
vision_softmax(columns, padded) ==
  LET kernel == RowSoftmax(columns, Lanes)
      tail == [t \in Threads(Narrow) |-> [k \in DOMAIN Stripe(padded - columns, Narrow, t) |->
                                            columns + Stripe(padded - columns, Narrow, t)[k]]]
  IN  Kernel(Narrow, kernel \o <<Write(tail, <<>>, Threads(Narrow))>>,
        SoftmaxOutputs(columns, Narrow) \union Outputs(columns .. padded - 1, <<>>))

\* A decision's queries over the prefix they share and, past its aligned end, the
\* keys of their own question, which are padded too.
Span == 4                       \* 1024: how far back a sliding layer sees
decision_allowed(key, query, past, storagePast, sliding) ==
  LET position == IF key < past THEN key ELSE past + key - storagePast
  IN  /\ ~(key >= past /\ key < storagePast)
      /\ position <= past + query
      /\ sliding => position > past + query - Span
\* The column that holds position p, for every position a query may see.
DecisionColumns(query, past, storagePast, sliding) ==
  {IF p < past THEN p ELSE storagePast + p - past :
     p \in {p \in 0 .. past + query : sliding => p > past + query - Span}}
decision_segmented_softmax(query, past, storagePast, columns, sliding) ==
  LET n == Narrow
      Allowed(key) == decision_allowed(key, query, past, storagePast, sliding)
      Denied(key) == ~Allowed(key)
      keys == [t \in Threads(n) |-> SelectSeq(Stripe(columns, n, t), Allowed)]
      others == [t \in Threads(n) |-> SelectSeq(Stripe(columns, n, t), Denied)]
      seen == DecisionColumns(query, past, storagePast, sliding)
      Over(kind, using) ==
        BlockTree(kind, [c \in 0 .. columns - 1 |-> IF c \in seen THEN Term(kind, c, using) ELSE Identity(kind)], n)
      maximum == Over("max", <<>>)
  IN  Kernel(n,
        <<Reduce("maximum", "max", keys, <<>>, Threads(n))>> \o RowReduction("max", "maximum", 1)
          \o <<Sync(n), Reduce("total", "sum", keys, <<"maximum">>, Threads(n))>>
          \o RowReduction("sum", "total", 1)
          \o <<Write(keys, <<"maximum", "total">>, Threads(n)), Write(others, <<>>, Threads(n))>>,
        Outputs(seen, <<maximum, Over("sum", <<maximum>>)>>) \union Outputs((0 .. columns - 1) \ seen, <<>>))

\* One warp, Warps scores a lane: the tree's upper levels in the lane's own
\* registers, its last ones across the lanes.
warp_gemm_softmax(columns) ==
  LET col(lane, i) == lane + Lanes * i
      Mine(i) == [l \in Threads(Lanes) |-> IF col(l, i) < columns THEN <<col(l, i)>> ELSE <<>>]
      Reg(name, i) == <<name, i>>
      Values(name, kind, using) ==
        [i \in 1 .. Warps |-> Reduce(Reg(name, i - 1), kind, Mine(i - 1), using, Threads(Lanes))]
      Levels(name, kind) ==
        Flatten([k \in DOMAIN Halves(Warps, 1) |->
          [i \in 1 .. Halves(Warps, 1)[k] |->
             Fold(kind, Reg(name, i - 1), Reg(name, i - 1 + Halves(Warps, 1)[k]), Threads(Lanes))]])
      Row(name, kind, using) ==
        Values(name, kind, using) \o Levels(name, kind)
          \o Shuffles(kind, <<Reg(name, 0)>>, Threads(Lanes)) \o <<Broadcast(Reg(name, 0), Threads(Lanes))>>
  IN  Kernel(Lanes,
        Row("maximum", "max", <<>>) \o Row("sum", "sum", <<Reg("maximum", 0)>>)
          \o <<Write(Strided(columns, Lanes, Lanes), <<Reg("maximum", 0), Reg("sum", 0)>>, Threads(Lanes))>>,
        SoftmaxOutputs(columns, Narrow))

-----------------------------------------------------------------------------
(* Heads: RMS norm of a vector by one thread a dimension, then RoPE, which  *)
(* needs the normalised value of the paired dimension.                      *)

HeadTree(n, items) == Pairwise("sum", [t \in Threads(n) |-> Leaf(items[t][1], <<>>)], n)
Named(name, n) == [t \in Threads(n) |-> <<<<name, t>>>>]
Paired(col, n) == IF col < n \div 2 THEN col + n \div 2 ELSE col - n \div 2
Mates(n) == [c \in Threads(n) |-> Paired(c, n)]

\* One tree a reduction of `regs' (the array of each bears its name).
HeadSums(n, regs) ==
  Flatten([r \in DOMAIN regs |-> <<Reduce(regs[r], "sum", Named(regs[r], n), <<>>, Threads(n)),
                                   Put(regs[r], Own(n), regs[r], Threads(n))>>])
    \o <<Sync(n)>> \o Tree("sum", regs, n, 1, n)
    \o [r \in DOMAIN regs |-> Get(regs[r], "sum", regs[r], Zero(n), Threads(n))]

\* The normalised head in shared memory, a barrier, and each column with its mate.
Rotate(n, reg, before, mate) ==
  <<Store("normed", Named(reg, n), <<reg>>, Threads(n))>> \o before
    \o <<Sync(n),
         WriteFrom(Named(reg, n), <<>>,
           [i \in {<<reg, t>> : t \in Threads(n)} |-> <<At("normed", i), At("normed", <<reg, mate[i[2]]>>)>>],
           Threads(n))>>
RotatedOutputs(n, reg, mate) ==
  LET sum == HeadTree(n, Named(reg, n))
  IN  {<<<<reg, c>>, <<Leaf(<<reg, c>>, <<sum>>), Leaf(<<reg, mate[c]>>, <<sum>>)>>>> : c \in Threads(n)}
ScaledOutputs(n, reg) ==
  {<<<<reg, c>>, <<HeadTree(n, Named(reg, n))>>>> : c \in Threads(n)}

RotatedHead(n) ==
  Kernel(n, HeadSums(n, <<"x">>) \o Rotate(n, "x", <<>>, Mates(n)), RotatedOutputs(n, "x", Mates(n)))

norm_rope_256 == RotatedHead(Narrow)
norm_rope_512_global == RotatedHead(Wide)
norm_rope_ragged == RotatedHead(Narrow)
prepare_assistant_query == RotatedHead(Narrow)
head_rmsnorm ==
  Kernel(Narrow, HeadSums(Narrow, <<"x">>) \o <<Write(Named("x", Narrow), <<"x">>, Threads(Narrow))>>,
    ScaledOutputs(Narrow, "x"))

\* A block of a query head, or of a key head with the value beside it.  The
\* value is read before the key it may be tied to is overwritten.
QkvHead(n, isQuery, valueLast) ==
  LET mate == Mates(n)
      value == <<Write(Named("value", n), <<"value">>, Threads(n))>>
  IN  IF isQuery THEN RotatedHead(n)
      ELSE Kernel(n,
             HeadSums(n, <<"x", "value">>)
               \o (IF valueLast THEN Rotate(n, "x", <<>>, mate) \o value ELSE Rotate(n, "x", value, mate)),
             RotatedOutputs(n, "x", mate) \union ScaledOutputs(n, "value"))
transform_qkv_ragged(isQuery) == QkvHead(Narrow, isQuery, FALSE)
transform_qkv_direct(isQuery) == QkvHead(Narrow, isQuery, TRUE)

\* Two rotary axes: a column's mate is in its own half.
vision_qkv_norm_rope ==
  LET n == Narrow
      mate == [c \in Threads(n) |-> (n \div 2) * (c \div (n \div 2)) + Paired(c % (n \div 2), n \div 2)]
      regs == <<"q", "k", "v">>
      Sum(reg) == OverWarps("sum", [t \in Threads(n) |-> Leaf(<<reg, t>>, <<>>)], n)
      Normed(reg) == <<Get(reg, "sum", reg \o "_inverse", Zero(n), Threads(n)),
                       Store(reg \o "_values", Named(reg, n), <<reg>>, Threads(n))>>
      Turn(reg) == WriteFrom(Named(reg, n), <<>>,
                     [i \in {<<reg, t>> : t \in Threads(n)} |->
                        <<At(reg \o "_values", i), At(reg \o "_values", <<reg, mate[i[2]]>>)>>], Threads(n))
  IN  Kernel(n,
        [r \in DOMAIN regs |-> Reduce(regs[r], "sum", Named(regs[r], n), <<>>, Threads(n))]
          \o WarpReduce("sum", regs, [r \in DOMAIN regs |-> regs[r] \o "_warp"], Warps, n)
          \o [r \in DOMAIN regs |-> Put(regs[r] \o "_inverse", Zero(n), regs[r], {0})]
          \o <<Sync(n)>> \o Normed("q") \o Normed("k")
          \o <<Get("v", "sum", "v_inverse", Zero(n), Threads(n)), Write(Named("v", n), <<"v">>, Threads(n)), Sync(n),
               Turn("q"), Turn("k")>>,
        {<<<<reg, c>>, <<Leaf(<<reg, c>>, <<Sum(reg)>>), Leaf(<<reg, mate[c]>>, <<Sum(reg)>>)>>>> :
            reg \in {"q", "k"}, c \in Threads(n)}
          \union {<<<<"v", c>>, <<Sum("v")>>>> : c \in Threads(n)})
=============================================================================
