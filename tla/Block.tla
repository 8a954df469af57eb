-------------------------------- MODULE Block --------------------------------
(***************************************************************************)
(* One thread block: threads that run a kernel's program at their own pace *)
(* between barriers, the memory they share, and what each has touched      *)
(* since the last barrier.  A warp's shuffles need all of its lanes and    *)
(* order no memory; __syncthreads needs every thread of the block.         *)
(***************************************************************************)
EXTENDS AttentionKernels, NormKernels, SelectKernels, Functions, TLC

CONSTANTS
  Peaks,     \* sets of tokens that hold the maximum of a row
  Batches    \* the experts of the routes of a batch

\* Every kernel, at each of its block sizes and for each of its template arguments.
HeadsAndRows ==
  <<decode_attention_softmax(10), decode_attention_softmax_batch(10), ragged_attention_softmax(3),
    ragged_gemm_softmax(10, TRUE), ragged_gemm_softmax(10, FALSE), warp_gemm_softmax(6), vision_softmax(9, 12),
    decision_segmented_softmax(1, 5, 8, 16, FALSE), decision_segmented_softmax(2, 4, 8, 12, TRUE),
    decision_segmented_softmax(0, 0, 0, 4, TRUE), summarize_decision_options(3),
    norm_rope_256, norm_rope_512_global, norm_rope_ragged, prepare_assistant_query, head_rmsnorm,
    transform_qkv_ragged(TRUE), transform_qkv_ragged(FALSE),
    transform_qkv_direct(TRUE), transform_qkv_direct(FALSE), vision_qkv_norm_rope,
    rmsnorm_2816(10), rmsnorm_add_2816(10, Half), rmsnorm_add_2816(10, Wide), rmsnorm_1024(8),
    rmsnorm_add_scale_1024(8), vision_rmsnorm_1152(9), vision_rmsnorm_add_1152(9),
    vision_rmsnorm_noscale_1152(9), dual_rmsnorm_router_2816(10),
    finalize_feedforward_2816(10, Half), finalize_feedforward_2816(10, Wide),
    finalize_feedforward_routes_2816(10, Half), finalize_feedforward_routes_2816(10, Wide),
    correct_vocab_candidates(10), correct_vocab_candidates_rows(10),
    correct_nvfp4_vocab_candidates(10, TRUE), correct_nvfp4_vocab_candidates(10, FALSE),
    quantize_fp8_rows(10), gelu_quantize_fp8_2112(9), rmsnorm_quantize_fp8_2816(10),
    quantize_int8_vector(10), quantize_int8_rows(9), unpack_quantize_attention(10),
    dual_rmsnorm_router_quantize_fp8_2816(10, TRUE, Narrow), dual_rmsnorm_router_quantize_fp8_2816(10, TRUE, Wide),
    dual_rmsnorm_router_quantize_fp8_2816(10, FALSE, Narrow), quantize_vocab_rows(2, 0),
    quantize_vocab_rows(1, 1), quantize_vocab_rows(1, 4)>>

\* Rows of values with their maxima at `peaks', candidates in the order of the tiles.
Row(peaks, n) == [i \in 0 .. n - 1 |-> IF i \in peaks THEN 2 ELSE 1]
Choices(peaks) ==
  LET row == Row(peaks, Vocabulary)
      logits == [r \in Rows |-> IF r = 1 THEN row ELSE Row({}, Vocabulary)]
      candidates == [k \in 1 .. 2 * Narrow |-> <<row[k - 1], (7 * k) % 32>>]
  IN  <<argmax_bf16_partial(row, 2 * Narrow + 3, 0, 2), argmax_bf16_partial(row, 2 * Narrow + 3, 1, 2),
        argmax_finish(SubSeq(candidates, 1, 3)), argmax_corrected(candidates),
        argmax_corrected_rows(candidates), summarize_decision_logits(Row(peaks, 4 * Narrow + 3), Narrow - 1),
        argmax_nvfp4_vocab_candidates(candidates),
        local_top4(row, 1), local_top_accumulated_rows(row, 0, 1), route_128_top8(row),
        VocabLaunch(logits, 1, 0, 1, FALSE, FALSE, TRUE, TRUE), VocabLaunch(logits, 1, 0, 2, TRUE, TRUE, TRUE, TRUE),
        VocabLaunch(logits, 1, 0, 2, FALSE, FALSE, TRUE, FALSE), VocabLaunch(logits, 1, 0, 1, FALSE, FALSE, FALSE, TRUE)>>

Kernels ==
  HeadsAndRows
    \o Flatten([k \in DOMAIN Peaks |-> Choices(Peaks[k])])
    \o Flatten([k \in DOMAIN Batches |->
         <<SortRoutes(Batches[k], Len(Batches[k]) \div Top, FALSE),
           SortRoutes(Batches[k], 3 * FusedTokens, FALSE), SortRoutes(Batches[k], 3 * FusedTokens, TRUE)>>])

VARIABLES
  kernel,    \* the kernel this block runs: a program and what it should compute
  pc,        \* where each thread is
  reg,       \* each thread's registers
  shared,    \* the cells of the block's arrays that have been written
  touched,   \* <<cell, thread, access>> since the last barrier
  out        \* <<output, thread, value>> written

vars == <<kernel, pc, reg, shared, touched, out>>

Program == kernel.program
Team == Threads(kernel.threads)
Running(t) == pc[t] <= Len(Program)
Instruction(t) == Program[pc[t]]
Takes(t) == t \in Instruction(t).who
Held(t, r) == reg[t][r]
Cell(kind, c) == IF c \in DOMAIN shared THEN shared[c] ELSE Junk(kind)

-----------------------------------------------------------------------------
\* What an item is computed from: registers of the thread, cells of the block.
CellsOf(op, i) == IF op.from = <<>> THEN <<>> ELSE op.from[i]
Operands(t, op, i) ==
  [k \in DOMAIN op.using |-> Held(t, op.using[k])]
    \o [k \in DOMAIN CellsOf(op, i) |-> Cell("sum", CellsOf(op, i)[k])]

\* The cells an instruction uses for the thread that takes it, and how.
Accesses(t, op) ==
  CASE op.op \in {"reduce", "write"} ->
         {<<c, "read">> : c \in UNION {Range(CellsOf(op, i)) : i \in Range(op.items[t])}}
    [] op.op = "store" -> {<<At(op.array, i), "write">> : i \in Range(op.items[t])}
    [] op.op = "put" -> {<<At(op.array, op.at[t]), "write">>}
    [] op.op = "get" -> {<<At(op.array, op.at[t]), "read">>}
    [] op.op = "join" -> {<<At(op.array, t), "write">>, <<At(op.array, t + op.stride), "read">>}
    [] op.op = "route" ->
         LET step == RouteStep(op, t, shared, reg[t])
         IN  {<<c, "read">> : c \in step.reads}
               \union {<<c, IF c \in step.atomics THEN "atomic" ELSE "write">> : c \in DOMAIN step.writes}
    [] OTHER -> {}

\* The best `keep' of a list, each inserted before the first it beats.
InsertWhere(Beats(_, _), list, keep) ==
  LET insert(best, p) ==
        LET beaten == {k \in 1 .. keep : Beats(p, best[k])}
            rank == CHOOSE k \in beaten : \A j \in beaten : k <= j
        IN  IF beaten = {} THEN best ELSE SubSeq(best, 1, rank - 1) \o <<p>> \o SubSeq(best, rank, keep - 1)
      few[k \in 0 .. Len(list)] == IF k = 0 THEN [r \in 1 .. keep |-> Last] ELSE insert(few[k - 1], list[k])
  IN  few[Len(list)]
BestFewLatest(list, keep) == LET NoWorse(p, q) == p[1] >= q[1] IN InsertWhere(NoWorse, list, keep)
BestFew(list, keep) == InsertWhere(Better, list, keep)

NoEffect == [writes |-> <<>>, regs |-> <<>>, outs |-> {}]

\* What it leaves in memory, in the thread's registers and in the outputs.
Effect(t, op) ==
  CASE op.op = "reduce" ->
         [NoEffect EXCEPT !.regs = op.reg :>
            Accumulate(op.kind, Identity(op.kind),
              [k \in DOMAIN op.items[t] |-> Term(op.kind, op.items[t][k], Operands(t, op, op.items[t][k]))])]
    [] op.op = "list" -> [NoEffect EXCEPT !.regs = op.reg :> op.lists[t]]
    [] op.op = "insert" -> [NoEffect EXCEPT !.regs = op.reg :> BestFew(op.lists[t], op.keep)]
    [] op.op = "head" -> [NoEffect EXCEPT !.regs = op.reg :> Held(t, op.list)[1]]
    [] op.op = "pop" ->
         [NoEffect EXCEPT !.regs = op.list :>
            IF Held(t, op.list)[1][2] = Held(t, op.winner)[2]
            THEN Append(Tail(Held(t, op.list)), Last) ELSE Held(t, op.list)]
    [] op.op = "route" ->
         LET step == RouteStep(op, t, shared, reg[t])
         IN  [NoEffect EXCEPT !.writes = step.writes, !.regs = step.regs]
    [] op.op = "select" ->
         [NoEffect EXCEPT !.regs = op.reg :> Accumulate("best", op.init, op.pairs[t])]
    [] op.op = "store" ->
         [NoEffect EXCEPT !.writes = [c \in {At(op.array, i) : i \in Range(op.items[t])} |->
                                        Leaf(c[2], [u \in DOMAIN op.using |-> Held(t, op.using[u])])]]
    [] op.op = "write" ->
         [NoEffect EXCEPT !.outs = {<<i, t, Operands(t, op, i)>> : i \in Range(op.items[t])}]
    [] op.op = "fold" ->
         [NoEffect EXCEPT !.regs = op.reg :> Merge(op.kind, Held(t, op.reg), Held(t, op.other))]
    [] op.op = "put" -> [NoEffect EXCEPT !.writes = At(op.array, op.at[t]) :> Held(t, op.reg)]
    [] op.op = "get" -> [NoEffect EXCEPT !.regs = op.reg :> Cell(op.kind, At(op.array, op.at[t]))]
    [] op.op = "join" ->
         [NoEffect EXCEPT !.writes = At(op.array, t) :>
            Merge(op.kind, Cell(op.kind, At(op.array, t)), Cell(op.kind, At(op.array, t + op.stride)))]

Advance(t) == pc' = [pc EXCEPT ![t] = IF Takes(t) /\ Instruction(t).op = "return" THEN Len(Program) + 1 ELSE @ + 1]

Skips(t) == ~Takes(t) \/ Instruction(t).op = "return"

Apply(t, op) ==
  LET effect == Effect(t, op)
  IN  /\ reg' = [reg EXCEPT ![t] = effect.regs @@ @]
      /\ shared' = effect.writes @@ shared
      /\ touched' = touched \union {<<a[1], t, a[2]>> : a \in Accesses(t, op)}
      /\ out' = out \union effect.outs

Execute(t) ==
  /\ Running(t) /\ Instruction(t).op \notin WarpWide \union BlockWide
  /\ Advance(t)
  /\ IF Skips(t) THEN UNCHANGED <<reg, shared, touched, out>> ELSE Apply(t, Instruction(t))
  /\ UNCHANGED kernel

\* The lanes of a warp exchange registers together.
WarpLanes(w) == {t \in Team : t \div Lanes = w}
TeamWarps == {t \div Lanes : t \in Team}
Gathered(w) ==
  \A t \in WarpLanes(w) : Running(t) /\ pc[t] = pc[w * Lanes] /\ Instruction(t).op \in WarpWide
Exchange(w) ==
  LET lanes == WarpLanes(w)
      op == Program[pc[w * Lanes]]
      Up(t) == IF op.op = "broadcast" THEN w * Lanes
               ELSE IF (t % Lanes) + op.offset < Lanes THEN t + op.offset ELSE t
      Value(t) == IF op.op = "broadcast" THEN Held(Up(t), op.reg)
                  ELSE Merge(op.kind, Held(t, op.reg), Held(Up(t), op.reg))
  IN  /\ Gathered(w)
      /\ pc' = [t \in Team |-> IF t \in lanes THEN pc[t] + 1 ELSE pc[t]]
      /\ reg' = [t \in Team |->
                   IF t \in lanes /\ t \in op.who THEN op.reg :> Value(t) @@ reg[t] ELSE reg[t]]
      /\ UNCHANGED <<kernel, shared, touched, out>>

Barrier ==
  /\ \A t \in Team : Running(t) /\ Instruction(t).op = "sync"
  /\ pc' = [t \in Team |-> pc[t] + 1]
  /\ touched' = {}
  /\ UNCHANGED <<kernel, reg, shared, out>>

\* cub::BlockRadixSort: the lists of the block's threads, end to end.
BlockSort ==
  /\ \A t \in Team : Running(t) /\ Instruction(t).op = "sort"
  /\ LET op == Instruction(0)
         size == Len(Held(0, op.list))
         key(item) == IF op.order = "ascending" THEN item[1] % op.modulus ELSE 0 - item[1]
         Item(i) == Held((i - 1) \div size, op.list)[((i - 1) % size) + 1]
         Precedes(a, b) == a[1] < b[1] \/ (a[1] = b[1] /\ a[2] < b[2])
         sorted == SortSeq([i \in 1 .. size * Cardinality(Team) |-> <<key(Item(i)), i, Item(i)>>], Precedes)
     IN  reg' = [t \in Team |-> op.list :> [k \in 1 .. size |-> sorted[t * size + k][3]] @@ reg[t]]
  /\ pc' = [t \in Team |-> pc[t] + 1]
  /\ UNCHANGED <<kernel, shared, touched, out>>

AllDone == \A t \in Team : ~Running(t)
Finished == AllDone /\ UNCHANGED vars

\* What a thread may still use before the barrier it is heading for.
NextBarrier(i) ==
  LET barriers == {k \in i .. Len(Program) : Program[k].op \in BlockWide}
  IN  IF barriers = {} THEN Len(Program) ELSE CHOOSE k \in barriers : \A j \in barriers : k <= j
Upcoming(t) ==
  UNION {Accesses(t, Program[k]) : k \in {k \in pc[t] .. NextBarrier(pc[t]) : t \in Program[k].who}}

Claims == UNION {{<<a[1], t, a[2]>> : a \in Upcoming(t)} : t \in {t \in Team : Running(t)}}

\* A step that no step of another thread before the barrier conflicts with: the
\* order of the two does not matter, so it is taken first.
Quiet(t, claims) ==
  /\ Running(t) /\ Instruction(t).op \notin WarpWide \union BlockWide
  /\ Skips(t) \/ \A mine \in Accesses(t, Instruction(t)) : \A claim \in claims :
                   mine[1] = claim[1] /\ t # claim[2] => mine[2] = "read" /\ claim[3] = "read"

Init ==
  /\ \E k \in DOMAIN Kernels : kernel = Kernels[k]
  /\ pc = [t \in Team |-> 1]
  /\ reg = [t \in Team |-> <<>>]
  /\ shared = kernel.memory
  /\ touched = {}
  /\ out = {}

Next ==
  LET claims == Claims
      quiet == {t \in Team : Quiet(t, claims)}
      gathered == {w \in TeamWarps : Gathered(w)}
  IN  IF quiet # {} THEN Execute(CHOOSE t \in quiet : \A u \in quiet : t <= u)
      ELSE IF gathered # {} THEN Exchange(CHOOSE w \in gathered : \A u \in gathered : w <= u)
      ELSE (\E t \in Team : Execute(t)) \/ Barrier \/ BlockSort \/ Finished

Spec == Init /\ [][Next]_vars
-----------------------------------------------------------------------------
(* Properties                                                               *)

\* Between two barriers no two threads use the same cell, unless both only
\* read it: what one thread stores another may read only after the barrier.
NoDataRace ==
  \A a, b \in touched : a[1] = b[1] /\ a[2] # b[2] => a[3] = b[3] /\ a[3] \in {"read", "atomic"}

\* When the block retires, every output holds the value of the reference, to
\* the order of its additions, and was written by one thread.
OutputsAreRight ==
  AllDone =>
    /\ {<<o[1], o[3]>> : o \in out} = kernel.expected
    /\ \A a, b \in out : a[1] = b[1] => a[2] = b[2]

\* Whatever kernel sorts the routes, the tables it leaves take every route of
\* every token through both GEMMs of its expert, on its own scale factors, and
\* back to the token, within the scratch the scale factors are given.
RoutesReachTheirTokens ==
  AllDone /\ kernel.path # "none" => RoutesArrive(kernel, shared)

\* No thread waits, at a barrier or in a shuffle, for one that has returned.
BarriersAreMet ==
  \A t, u \in Team :
    ~Running(u) /\ Running(t) =>
      /\ Instruction(t).op \notin BlockWide
      /\ t \div Lanes = u \div Lanes => Instruction(t).op \notin WarpWide
=============================================================================
