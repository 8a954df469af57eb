----------------------------- MODULE RouteKernels -----------------------------
(***************************************************************************)
(* The routes of the mixture of experts.  Route t * Top + k sends token t  *)
(* to its k-th expert; one block sorts the routes by expert, stably, and   *)
(* fills the tables two grouped GEMMs and the reduction then follow.  The  *)
(* last part follows them.                                                 *)
(***************************************************************************)
EXTENDS BlockOps

Top == 2            \* 8 experts a token
kExperts == 8       \* 128
Inner == 2          \* 32 rows ...
Outer == 2          \* ... times 4 make
Tile == Inner * Outer   \* a 128-row tile of scale factors
Groups == 8         \* width / 16 scale factors a row
CountThreads == 12  \* 512
CountRoutes == 10   \* 320: at most so many are counted
BlockThreads == 2 * kExperts   \* 256
BlockItems == 2     \* 16 routes a thread
FusedRoutes == 16   \* 320 * 8: the block sort's share
FusedTokens == 4    \* 16: plans from here on sort in one block
PAD == 1007         \* 0x7fffffff: above every expert, and the last one to its low bits

RoundUpNever(n) == n
RoundUp(n) == ((n + Tile - 1) \div Tile) * Tile

\* if the n items of f, in order, are sorted: the first that is not below value
sorted_lower_bound(f, size, value) ==
  LET search[first \in 0 .. size, count \in 0 .. size] ==
        IF count = 0 THEN first
        ELSE LET step == count \div 2
                 probe == first + step
             IN  IF f[probe] < value THEN search[probe + 1, count - step - 1] ELSE search[first, step]
  IN  search[0, size]

-----------------------------------------------------------------------------
(* What a thread does between two barriers: the cells it reads, the cells   *)
(* and the registers it writes.  `mem' reads a cell, `ids' are the experts. *)

Cells(array, indices) == {At(array, i) : i \in indices}
Routes(ids) == 0 .. Len(ids) - 1
Expert(ids, r) == ids[r + 1]
Assign(array, i, value) == [c \in {At(array, i)} |-> value]
Nowhere == [c \in {} |-> 0]
Also(f, g) == [c \in DOMAIN f \union DOMAIN g |-> IF c \in DOMAIN f THEN f[c] ELSE g[c]]
Step(reads, writes, regs) == [reads |-> reads, writes |-> writes, atomics |-> {}, regs |-> regs]

\* One expert's row of every table.
ConfigureExpert(e, begin, end, scaleRow) ==
  [c \in {At(table, e) : table \in {"offsets", "scale_row_offsets", "shapes", "input_ptrs",
                                    "input_scale_ptrs", "output_ptrs"}} |->
     CASE c[1] = "shapes" -> end - begin
       [] c[1] \in {"scale_row_offsets", "input_scale_ptrs"} -> scaleRow
       [] OTHER -> begin]
PlaceRoute(position, expert, route) ==
  Also(Assign("sorted_experts", position, expert),
       Also(Assign("sorted_routes", position, route), Assign("inverse_routes", route, position)))

LoadPadded(t, ids) ==
  Step({}, Also(Assign("keys", t, IF t \in Routes(ids) THEN Expert(ids, t) ELSE PAD),
                Assign("values", t, IF t \in Routes(ids) THEN t ELSE PAD)), <<>>)

Partner(t, stride) == IF (t \div stride) % 2 = 0 THEN t + stride ELSE t - stride
CompareExchange(t, span, stride, mem) ==
  LET other == Partner(t, stride)
      mine == <<mem[At("keys", t)], mem[At("values", t)]>>
      theirs == <<mem[At("keys", other)], mem[At("values", other)]>>
      greater == mine[1] > theirs[1] \/ (mine[1] = theirs[1] /\ mine[2] > theirs[2])
      ascending == (t \div span) % 2 = 0
      Both(i) == Cells("keys", {i}) \union Cells("values", {i})
  IN  IF other <= t THEN Step({}, Nowhere, <<>>)
      ELSE Step(Both(t) \union Both(other),
             IF greater # ascending THEN Nowhere
             ELSE Also(Also(Assign("keys", t, theirs[1]), Assign("values", t, theirs[2])),
                       Also(Assign("keys", other, mine[1]), Assign("values", other, mine[2]))), <<>>)

PlaceSorted(t, mem) ==
  Step(Cells("keys", {t}) \union Cells("values", {t}),
       PlaceRoute(t, mem[At("keys", t)], mem[At("values", t)]), <<>>)
PlaceItems(t, items, ids) ==
  LET kept == {k \in DOMAIN items : t * BlockItems + k - 1 < Len(ids)}
  IN  Step({}, [c \in UNION {DOMAIN PlaceRoute(t * BlockItems + k - 1, items[k][1], items[k][2]) : k \in kept} |->
                  LET k == CHOOSE k \in kept : c \in DOMAIN PlaceRoute(t * BlockItems + k - 1, items[k][1], items[k][2])
                  IN  PlaceRoute(t * BlockItems + k - 1, items[k][1], items[k][2])[c]], <<>>)

\* Where the expert's routes begin and end in `array', and the scale rows they take.
FindBounds(t, array, ids, mem) ==
  LET keys == [r \in Routes(ids) |-> mem[At(array, r)]]
      begin == sorted_lower_bound(keys, Len(ids), t)
      end == sorted_lower_bound(keys, Len(ids), t + 1)
  IN  Step(Cells(array, Routes(ids)), Assign("scale_rows", t, RoundUp(end - begin)),
           [begin |-> begin, end |-> end])

\* Thread 0: the running total of what the experts before each one take.
Before(f, e) ==
  LET total[i \in 0 .. kExperts] == IF i = 0 THEN 0 ELSE total[i - 1] + f[i - 1]
  IN  total[e]
ScanScaleRows(mem) ==
  LET rows == [e \in 0 .. kExperts - 1 |-> mem[At("scale_rows", e)]]
  IN  Step(Cells("scale_rows", DOMAIN rows),
           [c \in Cells("scale_rows", DOMAIN rows) |-> Before(rows, c[2])], <<>>)
ScanCounts(mem) ==
  LET counts == [e \in 0 .. kExperts - 1 |-> mem[At("counts", e)]]
  IN  Step(Cells("counts", DOMAIN counts),
           [c \in Cells("scale_rows", DOMAIN counts) \union Cells("begins", 0 .. kExperts) |->
              IF c[1] = "begins" THEN Before(counts, c[2])
              ELSE Before([e \in DOMAIN counts |-> RoundUp(counts[e])], c[2])], <<>>)

ConfigureFound(t, regs, mem) ==
  Step(Cells("scale_rows", {t}), ConfigureExpert(t, regs.begin, regs.end, mem[At("scale_rows", t)]), <<>>)

LoadAndClear(t, ids) ==
  Step({}, Also(IF t < kExperts THEN Assign("counts", t, 0) ELSE Nowhere,
                IF t \in Routes(ids) THEN Assign("ids", t, Expert(ids, t)) ELSE Nowhere), <<>>)
AddToCount(t, mem) ==
  LET counter == At("counts", mem[At("ids", t)])
  IN  [Step(Cells("ids", {t}), [c \in {counter} |-> mem[counter] + 1], <<>>) EXCEPT !.atomics = {counter}]
\* A route's place: after the routes of lower experts and the earlier of its own.
PlaceCounted(t, ids, mem) ==
  LET expert == mem[At("ids", t)]
      rank == Cardinality({r \in 0 .. t - 1 : mem[At("ids", r)] = expert})
      placed == IF t \in Routes(ids) THEN PlaceRoute(mem[At("begins", expert)] + rank, expert, t) ELSE Nowhere
      configured == IF t < kExperts
                    THEN ConfigureExpert(t, mem[At("begins", t)], mem[At("begins", t + 1)], mem[At("scale_rows", t)])
                    ELSE Nowhere
  IN  Step((IF t \in Routes(ids) THEN Cells("ids", 0 .. t) \union Cells("begins", {expert}) ELSE {})
             \union (IF t < kExperts THEN Cells("begins", {t, t + 1}) \union Cells("scale_rows", {t}) ELSE {}),
           Also(placed, configured), <<>>)

\* The expert a route's GEMM works with, when there is one token and no sort.
PointRoute(t, ids) == Step({}, Assign("weight_ptrs", t, Expert(ids, t)), <<>>)

RouteStep(op, t, mem, regs) ==
  CASE op.step = "load_padded" -> LoadPadded(t, op.ids)
    [] op.step = "exchange" -> CompareExchange(t, op.span, op.stride, mem)
    [] op.step = "place_sorted" -> PlaceSorted(t, mem)
    [] op.step = "place_items" -> PlaceItems(t, regs.items, op.ids)
    [] op.step = "bounds" -> FindBounds(t, op.array, op.ids, mem)
    [] op.step = "scan_rows" -> ScanScaleRows(mem)
    [] op.step = "configure" -> ConfigureFound(t, regs, mem)
    [] op.step = "load_and_clear" -> LoadAndClear(t, op.ids)
    [] op.step = "count" -> AddToCount(t, mem)
    [] op.step = "scan_counts" -> ScanCounts(mem)
    [] op.step = "place_counted" -> PlaceCounted(t, op.ids, mem)
    [] op.step = "point" -> PointRoute(t, op.ids)

-----------------------------------------------------------------------------
(* The kernels                                                              *)

Routing(step, ids, who) == [op |-> "route", step |-> step, ids |-> ids, who |-> who]
Bounds(array, ids, who) == [op |-> "route", step |-> "bounds", array |-> array, ids |-> ids, who |-> who]
CompareExchangeAt(span, stride, who) ==
  [op |-> "route", step |-> "exchange", span |-> span, stride |-> stride, who |-> who]
Experts == Threads(kExperts)

\* Route order by expert, the earlier route first: what a stable sort must give.
Place(ids, r) ==
  Cardinality({q \in Routes(ids) : Expert(ids, q) < Expert(ids, r) \/ (Expert(ids, q) = Expert(ids, r) /\ q < r)})
\* cub::DeviceRadixSort::SortPairs leaves the pairs in global memory.
SortedPairs(ids) ==
  [c \in Cells("sorted_experts", Routes(ids)) \union Cells("sorted_routes", Routes(ids)) |->
     LET r == CHOOSE r \in Routes(ids) : Place(ids, r) = c[2]
     IN  IF c[1] = "sorted_experts" THEN Expert(ids, r) ELSE r]

RoutesKernel(threads, program, ids, memory, path) ==
  [Kernel(threads, program, {}) EXCEPT !.ids = ids, !.memory = memory, !.path = path]

configure_dynamic_grouped(ids) ==
  RoutesKernel(kExperts,
    <<Bounds("sorted_experts", ids, Experts), Sync(kExperts), Routing("scan_rows", ids, {0}), Sync(kExperts),
      Routing("configure", ids, Experts)>>, ids, SortedPairs(ids), "device")

sort_and_configure_dynamic_grouped(ids) ==
  LET network == Flatten([s \in 1..3 |->
        Flatten([k \in 1..s |-> <<CompareExchangeAt(2^s, 2^(s - k), Experts), Sync(kExperts)>>])])
  IN  RoutesKernel(kExperts,
        <<Routing("load_padded", ids, Experts), Sync(kExperts)>> \o network
          \o <<Routing("place_sorted", ids, Routes(ids)), Sync(kExperts),
               Bounds("keys", ids, Experts), Sync(kExperts), Routing("scan_rows", ids, {0}), Sync(kExperts),
               Routing("configure", ids, Experts)>>, ids, Nowhere, "sorted")

count_sort_and_configure_dynamic_grouped(ids) ==
  LET n == CountThreads
  IN  RoutesKernel(n,
        <<Routing("load_and_clear", ids, Threads(n)), Sync(n), Routing("count", ids, Routes(ids)), Sync(n),
          Routing("scan_counts", ids, {0}), Sync(n), Routing("place_counted", ids, Threads(n))>>,
        ids, Nowhere, "sorted")

BlockSorted(ids, returning) ==
  LET n == BlockThreads
      items == [t \in Threads(n) |-> [k \in 1 .. BlockItems |->
                  LET r == t * BlockItems + k - 1
                  IN  <<IF r \in Routes(ids) THEN Expert(ids, r) ELSE PAD, r>>]]
  IN  RoutesKernel(n,
        <<List("items", items, Threads(n)), Sort("items", "ascending", kExperts, n),
          Routing("place_items", ids, Threads(n)), Return(returning), Sync(n),
          Bounds("sorted_experts", ids, Experts), Sync(n), Routing("scan_rows", ids, {0}), Sync(n),
          Routing("configure", ids, Experts)>>, ids, Nowhere, "sorted")
block_sort_for_experts_only(ids) == BlockSorted(ids, Threads(BlockThreads) \ Experts)
block_sort_and_configure_dynamic_grouped(ids) == BlockSorted(ids, {})

\* One token: every route is a problem of its own, in the order of the routes.
configure_grouped_experts(ids) ==
  RoutesKernel(Len(ids), <<Routing("point", ids, Routes(ids))>>, ids, Nowhere, "single")

sort_and_configure(ids, countingSort) ==
  IF ~countingSort THEN sort_and_configure_dynamic_grouped(ids)
  ELSE IF Len(ids) <= CountRoutes THEN count_sort_and_configure_dynamic_grouped(ids)
  ELSE block_sort_and_configure_dynamic_grouped(ids)

\* The kernel that orders the routes of `ids', under a plan for `maximum' tokens.
fused_route_sort(maximum, disabled) == maximum >= FusedTokens /\ ~disabled
SortRoutes(ids, maximum, disabled) ==
  LET fused == fused_route_sort(maximum, disabled) /\ Len(ids) <= FusedRoutes
  IN  IF maximum = 1 THEN configure_grouped_experts(ids)
      ELSE IF Len(ids) <= kExperts \/ fused THEN sort_and_configure(ids, fused)
      ELSE configure_dynamic_grouped(ids)

-----------------------------------------------------------------------------
(* What follows the tables.  Memory is a relation: the set of what any      *)
(* thread writes to a row or an address.                                    *)

\* Scale factors live in 128-row tiles: [K tile][outer M][inner M][inner K].
ScaleCell(row, group) ==
  (row \div Tile) * (Tile * Groups) + (group \div 4) * (4 * Tile)
    + (row % Inner) * (4 * Outer) + ((row \div Inner) % Outer) * 4 + (group % 4)
ScaleCapacity(routes) == (routes + kExperts * (Tile - 1)) * Groups

\* Row r's address of scale factor g, and the route whose token it carries.
RouteAt(path, mem, r) == IF path = "single" THEN r ELSE mem[At("sorted_routes", r)]
ExpertAt(path, ids, mem, r) == IF path = "single" THEN Expert(ids, r) ELSE mem[At("sorted_experts", r)]
ScaleAddress(path, mem, expert, r, g) ==
  IF path = "single" THEN r * Tile * Groups + ScaleCell(0, g)
  ELSE mem[At("scale_row_offsets", expert)] * Groups + ScaleCell(r - mem[At("offsets", expert)], g)

\* A quantised row is named by what it holds and whose input scale it used.
Quantized(kernel, mem, content) ==
  LET expert(r) == ExpertAt(kernel.path, kernel.ids, mem, r)
  IN  [packed |-> [r \in Routes(kernel.ids) |-> <<expert(r), content[r]>>],
       scales |-> {<<ScaleAddress(kernel.path, mem, expert(r), r, g), <<expert(r), content[r], g>>>> :
                     r \in Routes(kernel.ids), g \in 0 .. Groups - 1}]
quantize_bf16_sorted_moe(kernel, mem) ==
  Quantized(kernel, mem, [r \in Routes(kernel.ids) |-> RouteAt(kernel.path, mem, r) \div Top])
geglu_quantize_sorted_moe(kernel, mem) ==
  Quantized(kernel, mem, [r \in Routes(kernel.ids) |-> r])
\* The inverse map: from the sort, or from the quantiser when the sort was CUB's.
InverseRoute(kernel, mem, route) ==
  CASE kernel.path = "single" -> {route}
    [] kernel.path = "sorted" -> {mem[At("inverse_routes", route)]}
    [] kernel.path = "device" -> {r \in Routes(kernel.ids) : mem[At("sorted_routes", r)] = route}

\* The problems of a grouped GEMM: rows, where they start, their scales, the weights.
Problem(m, input, scaleRow, output, weights) ==
  [m |-> m, input |-> input, scaleRow |-> scaleRow, output |-> output, weights |-> weights]
GroupedPlan(kernel, mem) ==
  {Problem(1, r, r * Tile, r, mem[At("weight_ptrs", r)]) : r \in Routes(kernel.ids)}
FirstProblems(kernel, mem) ==
  IF kernel.path = "single" THEN GroupedPlan(kernel, mem)
  ELSE {Problem(mem[At("shapes", e)], mem[At("input_ptrs", e)], mem[At("input_scale_ptrs", e)],
                mem[At("output_ptrs", e)], e) : e \in Experts}
\* The second GEMM's tables are found again from the sorted experts.
SecondProblems(kernel, mem) ==
  IF kernel.path = "single" THEN GroupedPlan(kernel, mem)
  ELSE LET keys == [r \in Routes(kernel.ids) |-> mem[At("sorted_experts", r)]]
           begin(e) == sorted_lower_bound(keys, Len(kernel.ids), e)
       IN  {Problem(begin(e + 1) - begin(e), begin(e), mem[At("scale_row_offsets", e)], begin(e), e) : e \in Experts}
\* What a grouped GEMM leaves in row `row'.
GroupedGemm(problems, rows, row) ==
  UNION {{[weights |-> p.weights, input |-> rows.packed[p.input + i],
           scales |-> [g \in 0 .. Groups - 1 |->
                         {s[2] : s \in {s \in rows.scales : s[1] = p.scaleRow * Groups + ScaleCell(i, g)}}]] :
              i \in {i \in 0 .. p.m - 1 : p.output + i = row}} : p \in problems}

\* The row an expert computes from `content', all of it scaled for that expert.
ExpertRow(e, content) ==
  [weights |-> e, input |-> <<e, content>>, scales |-> [g \in 0 .. Groups - 1 |-> {<<e, content, g>>}]]
\* reduce_expert_routes: token t's k-th term is its k-th expert, applied to it.
RoutesArrive(kernel, mem) ==
  LET first == quantize_bf16_sorted_moe(kernel, mem)
      second == geglu_quantize_sorted_moe(kernel, mem)
      gate == FirstProblems(kernel, mem)
      down == SecondProblems(kernel, mem)
      Arrives(route, row) ==
        LET e == Expert(kernel.ids, route)
        IN  /\ InverseRoute(kernel, mem, route) = {row}
            /\ GroupedGemm(gate, first, row) = {ExpertRow(e, route \div Top)}
            /\ GroupedGemm(down, second, row) = {ExpertRow(e, row)}
  IN  /\ \A route \in Routes(kernel.ids) : \E row \in Routes(kernel.ids) : Arrives(route, row)
      /\ \A s \in first.scales \union second.scales :
           kernel.path # "single" => s[1] < ScaleCapacity(Len(kernel.ids))
=============================================================================
