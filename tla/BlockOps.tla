------------------------------ MODULE BlockOps ------------------------------
(***************************************************************************)
(* The instructions the kernels of src/cuda/kernels and nvfp4_cutlass.cu   *)
(* are made of, as the threads of one block execute them, and the values   *)
(* they compute, kept symbolic.                                            *)
(*                                                                         *)
(* A kernel is one program run by every thread; "who" names the threads    *)
(* that take an instruction, the others skip it.  Floating point addition  *)
(* is not associative, so a sum is the tree of the additions that made it; *)
(* a maximum is the set of what was compared; a selection is the better of *)
(* its [value, id] pairs, ties to the lower id.                            *)
(***************************************************************************)
EXTENDS Integers, Sequences, FiniteSets

CONSTANTS
  Lanes,   \* 32 threads of a warp
  Warps    \* 8 warps of a block of 256 threads

ASSUME GeometryAssumption == Lanes \in {4, 8} /\ Warps \in {2, 4} /\ 2 * Warps <= Lanes

Narrow == Lanes * Warps       \* the usual launch, 256 threads
Half == Narrow \div 2         \* 128
Wide == 2 * Narrow            \* 512
Threads(n) == 0 .. n - 1

-----------------------------------------------------------------------------
(* Values                                                                   *)

Nil == <<"nil">>
Leaf(i, using) == <<"leaf", i, using>>
Identity(kind) == CASE kind = "sum" -> Nil [] kind = "max" -> {}
\* What memory that nothing has written holds.
Junk(kind) == CASE kind = "sum" -> <<"junk">> [] kind = "max" -> {<<"junk", 0, <<>>>>} [] kind = "best" -> <<-99, -99>>

Better(a, b) == a[1] > b[1] \/ (a[1] = b[1] /\ a[2] < b[2])

Merge(kind, a, b) ==
  CASE kind = "sum" -> (IF a = Nil THEN b ELSE IF b = Nil THEN a ELSE <<"sum", a, b>>)
    [] kind = "max" -> a \union b
    [] kind = "best" -> (IF Better(b, a) THEN b ELSE a)

\* The items a thread meets, in the order it meets them.
Accumulate(kind, init, values) ==
  LET acc[k \in 0 .. Len(values)] == IF k = 0 THEN init ELSE Merge(kind, acc[k - 1], values[k])
  IN  acc[Len(values)]

\* for (i = t; i < n; i += stride)
Stripe(n, stride, t) ==
  IF t >= n THEN <<>> ELSE [k \in 1 .. (n - t + stride - 1) \div stride |-> t + (k - 1) * stride]
Strided(n, stride, threads) == [t \in Threads(threads) |-> Stripe(n, stride, t)]
\* ... taken only by the first `reducers' threads of the block.
StridedBy(n, reducers, threads) ==
  [t \in Threads(threads) |-> IF t < reducers THEN Stripe(n, reducers, t) ELSE <<>>]

\* n/2, n/4, ..., last
Halves(n, last) ==
  LET steps == {k \in 1..8 : n \div 2^k >= last /\ n \div 2^k >= 1}
  IN  [k \in 1 .. Cardinality(steps) |-> n \div 2^k]

-----------------------------------------------------------------------------
(* References: what a reduction over a block should compute                 *)

\* f(0..n-1) by halving: the tree of a shared-memory reduction.
Pairwise(kind, f, n) ==
  LET levels == Len(Halves(n, 1))
      level[k \in 0..levels] ==
        IF k = 0 THEN f
        ELSE [i \in 0 .. (n \div 2^k) - 1 |->
                Merge(kind, level[k - 1][i], level[k - 1][i + n \div 2^k])]
  IN  level[levels][0]

\* What item i contributes, computed from the values in `using'.
Term(kind, i, using) == IF kind = "max" THEN {Leaf(i, using)} ELSE Leaf(i, using)
Terms(kind, n, using) == [i \in 0 .. n - 1 |-> Term(kind, i, using)]

\* The partial results of the threads, then each warp's, then the block's.
Partials(kind, terms, stride, threads) ==
  [t \in Threads(threads) |->
     LET items == Stripe(Cardinality(DOMAIN terms), stride, t)
     IN  Accumulate(kind, Identity(kind), [k \in DOMAIN items |-> terms[items[k]]])]
BlockTree(kind, terms, threads) == Pairwise(kind, Partials(kind, terms, threads, threads), threads)
OverWarps(kind, partials, threads) ==
  LET OfWarp(w) == Pairwise(kind, [l \in Threads(Lanes) |-> partials[w * Lanes + l]], Lanes)
  IN  Pairwise(kind, [w \in Threads(Lanes) |->
        IF w < threads \div Lanes THEN OfWarp(w) ELSE Identity(kind)], Lanes)
WarpTree(kind, terms, threads) == OverWarps(kind, Partials(kind, terms, threads, threads), threads)

-----------------------------------------------------------------------------
(* Instructions                                                             *)

At(array, i) == <<array, i>>

\* reg := the items merged; each item with the registers and cells it is computed from.
Reduce(reg, kind, items, using, who) ==
  [op |-> "reduce", reg |-> reg, kind |-> kind, items |-> items, using |-> using, from |-> <<>>, who |-> who]
ReduceFrom(reg, kind, items, using, from, who) ==
  [op |-> "reduce", reg |-> reg, kind |-> kind, items |-> items, using |-> using, from |-> from, who |-> who]
\* array[item] := computed from the registers
Store(array, items, using, who) ==
  [op |-> "store", array |-> array, items |-> items, using |-> using, who |-> who]
\* output[item] := computed from the registers and cells
Write(items, using, who) == [op |-> "write", items |-> items, using |-> using, from |-> <<>>, who |-> who]
WriteFrom(items, using, from, who) ==
  [op |-> "write", items |-> items, using |-> using, from |-> from, who |-> who]
Put(array, at, reg, who) == [op |-> "put", array |-> array, at |-> at, reg |-> reg, who |-> who]
Get(reg, kind, array, at, who) ==
  [op |-> "get", reg |-> reg, kind |-> kind, array |-> array, at |-> at, who |-> who]
\* array[t] := array[t] merged with array[t + stride]
Join(kind, array, stride, who) ==
  [op |-> "join", kind |-> kind, array |-> array, stride |-> stride, who |-> who]
\* reg := reg merged with the register of the lane `offset' above
Shuffle(kind, reg, offset, who) ==
  [op |-> "shuffle", kind |-> kind, reg |-> reg, offset |-> offset, who |-> who]
\* reg := reg merged with another register of the thread
Fold(kind, reg, other, who) == [op |-> "fold", kind |-> kind, reg |-> reg, other |-> other, who |-> who]
\* reg := the register of lane zero
Broadcast(reg, who) == [op |-> "broadcast", reg |-> reg, who |-> who]
\* reg := the best of the pairs; the thread's list; the best `keep' of one; its
\* first element; and the list without a winner at its head
Select(reg, init, pairs, who) ==
  [op |-> "select", reg |-> reg, init |-> init, pairs |-> pairs, who |-> who]
List(reg, lists, who) == [op |-> "list", reg |-> reg, lists |-> lists, who |-> who]
KeepBest(reg, lists, keep, who) == [op |-> "insert", reg |-> reg, lists |-> lists, keep |-> keep, who |-> who]
First(reg, list, who) == [op |-> "head", reg |-> reg, list |-> list, who |-> who]
Pop(list, winner, who) == [op |-> "pop", list |-> list, winner |-> winner, who |-> who]
\* cub::BlockRadixSort: the block's lists, end to end, by key modulo `modulus', stably.
Sort(list, order, modulus, n) ==
  [op |-> "sort", list |-> list, order |-> order, modulus |-> modulus, who |-> Threads(n)]
Sync(n) == [op |-> "sync", who |-> Threads(n)]
Return(who) == [op |-> "return", who |-> who]

\* Taken by a warp's lanes together, by the threads of a block together.
WarpWide == {"shuffle", "broadcast"}
BlockWide == {"sync", "sort"}

-----------------------------------------------------------------------------
(* The reductions the kernels share                                         *)

Own(n) == [t \in Threads(n) |-> t]
Zero(n) == [t \in Threads(n) |-> 0]
WarpOf(n) == [t \in Threads(n) |-> t \div Lanes]
Leaders(n) == {t \in Threads(n) : t % Lanes = 0}
Nothing(n) == [t \in Threads(n) |-> <<>>]

Flatten(seqs) ==
  LET all[k \in 0 .. Len(seqs)] == IF k = 0 THEN <<>> ELSE all[k - 1] \o seqs[k]
  IN  all[Len(seqs)]

\* for (stride = n / 2; stride >= last; stride >>= 1) { ...; __syncthreads(); }
Tree(kind, arrays, n, last, threads) ==
  Flatten([k \in DOMAIN Halves(n, last) |->
    [a \in DOMAIN arrays |-> Join(kind, arrays[a], Halves(n, last)[k], Threads(Halves(n, last)[k]))]
      \o <<Sync(threads)>>])

Shuffles(kind, regs, who) ==
  Flatten([k \in DOMAIN Halves(Lanes, 1) |->
    [r \in DOMAIN regs |-> Shuffle(kind, regs[r], Halves(Lanes, 1)[k], who)]])

\* One warp finishes a tree that stopped at Lanes, and leaves it in cell 0.
FinishInWarp(kind, array, threads) ==
  <<Get("value", kind, array, Own(threads), Threads(Lanes))>>
    \o Shuffles(kind, <<"value">>, Threads(Lanes))
    \o <<Put(array, Zero(threads), "value", {0}), Sync(threads)>>

\* A cell a thread, halved down to cell `last', what is left within a warp.
ThreadTree(kind, array, reg, last, threads) ==
  <<Put(array, Own(threads), reg, Threads(threads)), Sync(threads)>>
    \o Tree(kind, <<array>>, threads, last, threads)
    \o (IF last > 1 THEN FinishInWarp(kind, array, threads) ELSE <<>>)

\* Shuffle in the warps, one cell a warp, shuffle in warp zero: thread 0 holds the result.
WarpReduce(kind, regs, arrays, readers, threads) ==
  Shuffles(kind, regs, Threads(threads))
    \o [r \in DOMAIN regs |-> Put(arrays[r], WarpOf(threads), regs[r], Leaders(threads))]
    \o <<Sync(threads)>>
    \o Flatten([r \in DOMAIN regs |->
         <<Get(regs[r], kind, arrays[r], Own(threads), Threads(readers)),
           Reduce(regs[r], kind, Nothing(threads), <<>>, Threads(Lanes) \ Threads(readers))>>])
    \o Shuffles(kind, regs, Threads(Lanes))

\* A kernel, what it must have written when every thread has returned, the
\* memory it finds, and for the kernels that sort them the routes.
Kernel(threads, program, expected) ==
  [threads |-> threads, program |-> program, expected |-> expected,
   memory |-> <<>>, ids |-> <<>>, path |-> "none"]
Outputs(items, values) == {<<i, values>> : i \in items}
=============================================================================
