------------------------------ MODULE Streams ------------------------------
(***************************************************************************)
(* GpuExecutionContext, Fp8LinearRunner, DeviceScratchPool and the plans   *)
(* of cudnn_attention.cpp, driven by the launch code of the runtime (the   *)
(* modules that EXTEND StreamOps).                                         *)
(*                                                                         *)
(* The host runs a call step by step.  Enqueueing adds kernels to three    *)
(* streams, which the device executes in any order the streams and events  *)
(* leave open; a captured graph replays the kernels it was recorded from.  *)
(*                                                                         *)
(* A buffer holds <<name, n>>: what the n-th write of `name' in the order  *)
(* of the host's calls left there.  An FP8 activation holds the quantised  *)
(* form of another buffer and so carries the name and number of that one.  *)
(* A kernel expects, of each buffer, what it held in the host's order.     *)
(***************************************************************************)
EXTENDS StreamOps, Integers, FiniteSets, SequencesExt, TLC

CONSTANTS
    Programs,       \* the calls: name -> [steps, given, needs, shape, fallback: the steps without a plan]
    NoShape,        \* the shape of a call without cuDNN attention
    Leftover,       \* what the FP8 runner may hold between launches
    Mixes,          \* sets of calls: a context serves one of them
    Evicting,       \* the sets in which GEVVA_CUDNN_EVICT_PLANS is set
    Idle,           \* no call
    MaxCalls,       \* calls begun before the device has caught up
    MaxGraphs,      \* graphs a context keeps (64 and 16 in the code)
    MaxGeneration,  \* a call that starts past it finds its scratch
    MaxSeen,        \* shapes it remembers for a second use (128 in the code)
    MaxPlans,       \* plans kept (vision_limit(): 16)
    MaxEvictions    \* a call that starts past it finds its plan, or room for it

ASSUME StreamsAssumption ==
    /\ Idle \notin DOMAIN Programs
    /\ \A m \in Mixes : m \subseteq DOMAIN Programs
    /\ Evicting \subseteq Mixes
    /\ {MaxCalls, MaxGraphs, MaxGeneration, MaxSeen, MaxPlans, MaxEvictions} \subseteq Nat \ {0}

VARIABLES
    mix,            \* the calls this context serves
    call,           \* the call in progress
    steps,          \* what its host code has still to do
    begun,          \* calls begun since the device was last idle between calls
    fp8,            \* Fp8LinearRunner::Impl
    tails,          \* by stream: the kernels its next kernel comes after
    pending,        \* kernels enqueued and not finished
    issued,         \* their numbering
    memory,         \* what the buffers hold
    version,        \* writes to each buffer so far, in the host's order
    scale,          \* Fp8OutputScale variables: which scales they point to
    blocks,         \* DeviceScratchPool::blocks_
    generation,     \* and generation_
    graphs,         \* the two maps of captured graphs, each coldest first
    seen,           \* seen_prefill_shapes, oldest first
    plans,          \* the shapes of CachedPlan, the least recently used first
    evictions       \* plan_evictions

host == <<mix, call, steps, begun, fp8>>
device == <<tails, pending, issued, memory, version, scale>>
pool == <<blocks, generation>>
cache == <<graphs, seen>>
attention == <<plans, evictions>>
vars == <<host, device, pool, cache, attention>>

Prog(p) == Programs[p]
Persistent == UNION {Programs[p].given : p \in DOMAIN Programs}
Count(ver, b) == IF b \in DOMAIN ver THEN ver[b] ELSE 0
Junk == <<"", 0>>
\* What is new takes the place of what was there.
Over(new, old) == [b \in DOMAIN new \cup DOMAIN old |-> IF b \in DOMAIN new THEN new[b] ELSE old[b]]
Holds(b) == IF b \in DOMAIN memory THEN memory[b] ELSE IF b \in Persistent THEN <<b, 0>> ELSE Junk

-----------------------------------------------------------------------------
(* The host side of an enqueue: kernels with physical buffers and the      *)
(* kernels they come after.  0 is whatever main held before, -1 and -2 the *)
(* other two streams.                                                      *)

Other(side) == IF side = "A" THEN "B" ELSE "A"
Itself(S) == {<<b, b>> : b \in S}
Workspace(i) == <<"workspace0", "workspace1", "workspace2">>[i + 1]
Padding(i) == <<"padded0", "padded1", "padded2">>[i + 1]

NewRunner == [active |-> "A", source |-> "", stream |-> Main]
Start == [s \in AllStreams |-> CASE s = Main -> {0} [] s = Auxiliary -> {-1} [] s = Tertiary -> {-2}]
From(f) == [fp8 |-> f, out |-> <<>>, tail |-> Start, past |-> [s \in AllStreams |-> {0} \cap Start[s]],
          ready |-> [A |-> {}, B |-> {}]]

Emit(r, s, reads, writes, fresh, scales, keeps) ==
    LET i == Len(r.out) + 1
    IN  [r EXCEPT !.out = Append(@, [on |-> s, after |-> r.tail[s], reads |-> reads, writes |-> writes,
                                     fresh |-> fresh, scales |-> scales, keeps |-> keeps,
                                     past |-> r.past[s]]),
                  !.tail[s] = {i}, !.past[s] = @ \cup {i}]

\* begin_auxiliary(), begin_tertiary(), end_..., join_tertiary_to_auxiliary().
Follow(r, later, earlier) ==
    [r EXCEPT !.tail[later] = @ \cup r.tail[earlier], !.past[later] = @ \cup r.past[earlier]]

\* The activation is that of `key', recorded on stream s.
Records(r, s) == [r EXCEPT !.ready[r.fp8.active] = r.tail[s]]
Names(r, s, key) == [r EXCEPT !.fp8 = [@ EXCEPT !.source = key, !.stream = s]]
Swap(r) == [r EXCEPT !.fp8 = [@ EXCEPT !.active = Other(r.fp8.active)]]

\* The kernels X, and those they come after.
Behind(out, X) ==
    LET known == X \cap (0 .. Len(out))
    IN  known \cup UNION {out[k].past : k \in known \ {0}}

\* The quantised activation is kept when the source is that of the last launch.
Quantize(r, o) ==
    IF o.source # r.fp8.source
    THEN LET q == Emit(r, o.on, Itself({o.source}), {<<r.fp8.active, o.source>>}, {}, {}, <<>>)
         IN  Names(Records(q, o.on), o.on, o.source)
    ELSE IF o.on # r.fp8.stream
    THEN [r EXCEPT !.tail[o.on] = @ \cup r.ready[r.fp8.active],
                   !.past[o.on] = @ \cup Behind(r.out, r.ready[r.fp8.active])]
    ELSE r

\* The product, in tiles; one that is not a whole tile goes through the padding.
Multiply(r, o) ==
    LET target == IF o.packed THEN o.dest ELSE Padding(o.ws)
        reads == {<<r.fp8.active, o.source>>}
        keeps == IF o.scale = "" THEN <<>> ELSE <<o.scale, r.fp8.active, o.source>>
        gemm == Emit(r, o.on, reads, Itself({target, Workspace(o.ws)}), {target, Workspace(o.ws)}, {}, keeps)
        copied == IF o.packed THEN gemm
                  ELSE Emit(gemm, o.on, Itself({target}), Itself({o.dest}), {o.dest}, {}, <<>>)
    IN  IF o.rescale
        THEN Emit(copied, o.on, reads \cup Itself({o.dest}), Itself({o.dest}), {o.dest}, {}, <<>>)
        ELSE copied

LaunchProduct(r, o) == Multiply(Quantize(r, o), o)

Prepare(r, o) ==
    LET q == Emit(r, o.on, Itself(o.reads), Itself(o.writes) \cup {<<r.fp8.active, o.key>>},
                  o.writes \cup {o.key}, o.scales, <<>>)
    IN  Names(Records(q, o.on), o.on, o.key)

PrepareBoth(r, o) ==
    LET q == Emit(r, o.on, Itself(o.reads),
                  Itself(o.writes) \cup {<<r.fp8.active, o.key>>, <<Other(r.fp8.active), o.dense>>},
                  o.writes \cup {o.key}, o.scales, <<>>)
    IN  Names(Records(q, o.on), o.on, o.key)

UseSecond(r, o) == Names(Swap(r), o.on, o.key)

PrepareProduct(r, o) ==
    LET q == Emit(r, o.on, Itself(o.reads), {<<Other(r.fp8.active), o.key>>}, {o.key}, o.scales, <<>>)
    IN  Names(Swap(q), o.on, o.key)

Issue(r, o) ==
    CASE o.do = "kernel" -> Emit(r, o.on, Itself(o.reads), Itself(o.writes), o.writes, o.scales, <<>>)
      [] o.do = "begin" -> Follow(r, o.on, Main)
      [] o.do = "end" -> Follow(r, Main, o.on)
      [] o.do = "join" -> Follow(r, Auxiliary, Tertiary)
      [] o.do = "launch" -> LaunchProduct(r, o)
      [] o.do = "prepare" -> Prepare(r, o)
      [] o.do = "dual" -> PrepareBoth(r, o)
      [] o.do = "secondary" -> UseSecond(r, o)
      [] o.do = "gelu" -> PrepareProduct(r, o)
      [] o.do = "assume" -> [r EXCEPT !.fp8.stream = o.on]
      [] o.do = "invalidate" -> [r EXCEPT !.fp8.source = ""]
      [] o.do = "plan" -> r

\* The CHOOSE has TLC finish one operation before it starts on the next.
Resolve(f, ops) ==
    LET after[n \in Nat] == IF n = 0 THEN From(f)
                            ELSE CHOOSE s \in {Issue(r, ops[n]) : r \in {after[n - 1]}} : TRUE
    IN  after[Len(ops)]

-----------------------------------------------------------------------------
(* What the host code of a call is taken to be.                            *)

\* What the programs name as the source of a quantised activation.
Keys(ops) ==
    {ops[i].source : i \in {i \in DOMAIN ops : ops[i].do = "launch"}}
    \cup {ops[i].key : i \in {i \in DOMAIN ops : ops[i].do \in {"prepare", "dual", "secondary", "gelu"}}}
Bodies(P) == UNION {{Programs[p].steps, Programs[p].fallback} : p \in P}
Enqueuing(ss) == {i \in DOMAIN ss : ss[i].do \in {"enqueue", "launch"}}
Sources == {""} \cup UNION {UNION {Keys(ss[i].ops) : i \in Enqueuing(ss)} : ss \in Bodies(DOMAIN Programs)}
Runners == [active : {"A", "B"}, source : Sources, stream : AllStreams]

\* The launch code: operations in order, on the streams of the context.
Operations == {"kernel", "begin", "end", "join", "launch", "prepare", "dual", "secondary", "gelu", "assume",
               "invalidate", "plan"}
Launching == {"kernel", "launch", "prepare", "dual", "gelu"}
IsSequence(s) == s \in Seq(ToSet(s))
LaunchCode(ops) ==
    /\ IsSequence(ops)
    /\ \A i \in DOMAIN ops :
         /\ ops[i].do \in Operations
         /\ ops[i].do \in Launching \cup {"begin", "end", "secondary", "assume"} => ops[i].on \in AllStreams
    /\ Keys(ops) \subseteq Sources

\* What is forked is joined: main waits for a side stream after the last kernel
\* the code launches on it, for the third one through the second at times.
EndsAfter(ops, i, s) == \E j \in DOMAIN ops : i < j /\ ops[j].do = "end" /\ ops[j].on = s
JoinsAfter(ops, i) == \E j \in DOMAIN ops : i < j /\ ops[j].do = "join" /\ EndsAfter(ops, j, Auxiliary)
Joined(ops) ==
    \A i \in DOMAIN ops :
      ops[i].do \in Launching =>
         CASE ops[i].on = Main -> TRUE
           [] ops[i].on = Auxiliary -> EndsAfter(ops, i, Auxiliary)
           [] ops[i].on = Tertiary -> EndsAfter(ops, i, Tertiary) \/ JoinsAfter(ops, i)

\* The launches that have set the scales x points to, up to the n-th.
Keeping(out, n, x) == {i \in 1 .. n : out[i].keeps # <<>> /\ out[i].keeps[1] = x}
LastKeeping(out, n, x) == CHOOSE i \in Keeping(out, n, x) : \A j \in Keeping(out, n, x) : j <= i

\* Kernels that share a buffer one of them writes come one after the other, all
\* come after what main held before, and scales are those of a launch before.
WritesOf(out, i) == {x[1] : x \in out[i].writes}
TouchesOf(out, i) ==
    {x[1] : x \in out[i].reads \cup out[i].writes}
    \cup {out[LastKeeping(out, i - 1, x)].keeps[2] : x \in out[i].scales}
Apart(out, i, j) ==
    WritesOf(out, i) \cap TouchesOf(out, j) = {} /\ WritesOf(out, j) \cap TouchesOf(out, i) = {}
RaceFree(out) ==
    \A j \in DOMAIN out :
      /\ 0 \in out[j].past
      /\ \A x \in out[j].scales : Keeping(out, j - 1, x) # {}
      /\ \A i \in (1 .. j - 1) \ out[j].past : Apart(out, i, j)

\* Whatever the runner was left with.
Sound(ops) == LaunchCode(ops) /\ Joined(ops) /\ \A f \in Runners : RaceFree(Resolve(f, ops).out)
Untouched(ops, B) ==
    \A f \in Runners :
      LET out == Resolve(f, ops).out
      IN  \A i \in DOMAIN out : TouchesOf(out, i) \cap B = {}

\* What the host reads and writes itself, in whichever call.
HostUses(ss) == {j \in DOMAIN ss : ss[j].do \in {"stage", "read"}}
Pinned == UNION {{ss[j].buffer : j \in HostUses(ss)} : ss \in Bodies(DOMAIN Programs)}

\* Nothing is forked when a plan is looked up; only graphs whose key has the
\* evictions in it are of code that uses one.
AsksForPlan(ops) == \E i \in DOMAIN ops : ops[i].do = "plan"
FirstPlan(ops) == CHOOSE i \in DOMAIN ops : ops[i].do = "plan" /\ \A j \in 1 .. i - 1 : ops[j].do # "plan"
UpToPlan(ops) == SubSeq(ops, 1, FirstPlan(ops))
AfterPlan(ops) == SubSeq(ops, FirstPlan(ops) + 1, Len(ops))
Launchable(s) ==
    /\ Sound(s.ops)
    /\ AsksForPlan(s.ops) => Sound(UpToPlan(s.ops)) /\ Sound(AfterPlan(s.ops))
    /\ s.do = "launch" /\ s.graph \in {"first", "bare"} => ~AsksForPlan(s.ops)
    /\ s.do = "launch" /\ s.graph = "bare" => Untouched(s.ops, Pinned)

\* The host waits between a launch and the next use of a pinned buffer, and at
\* some time after a launch that may be a graph with such buffers in it.
SyncIn(ss, I) == \E k \in I : ss[k].do = "sync"
HostCode(ss) ==
    /\ IsSequence(ss)
    /\ \A i \in DOMAIN ss : ss[i].do \in {"stage", "enqueue", "launch", "sync", "read"}
    /\ \A i \in Enqueuing(ss) :
         /\ Launchable(ss[i])
         /\ \A j \in HostUses(ss) : i < j => SyncIn(ss, i + 1 .. j - 1)
         /\ ss[i].do = "launch" => SyncIn(ss, i + 1 .. Len(ss)) \/ ss[i].graph = "bare"

\* What a call launches after its last wait does not touch what the calls of the
\* context use before their first.
Early(m) ==
    UNION {{ss[j].buffer : j \in {j \in HostUses(ss) : ~SyncIn(ss, 1 .. j - 1)}} : ss \in Bodies(m)}
Lingers(ss, m) ==
    \A i \in Enqueuing(ss) : SyncIn(ss, i + 1 .. Len(ss)) \/ Untouched(ss[i].ops, Early(m))

CodesOf(ops) == IF AsksForPlan(ops) THEN {ops, UpToPlan(ops), AfterPlan(ops)} ELSE {ops}
Codes == UNION {UNION {CodesOf(ss[i].ops) : i \in Enqueuing(ss)} : ss \in Bodies(DOMAIN Programs)}

\* After n kernels, one by one, buffer b has what s was last, where the buffers K
\* had what they were last; and so has the one whose scales x points to.
WritersOf(out, n, b) == {k \in 1 .. n : \E x \in out[k].writes : x[1] = b}
LastWriter(out, n, b) == CHOOSE k \in WritersOf(out, n, b) : \A j \in WritersOf(out, n, b) : j <= k
Renewed(out, k, n, s) == \E j \in k + 1 .. n : s \in out[j].fresh
Keeps(out, K, n, b, s) ==
    IF WritersOf(out, n, b) = {} THEN b = s /\ b \in K /\ ~Renewed(out, 0, n, s)
    ELSE LET k == LastWriter(out, n, b) IN <<b, s>> \in out[k].writes /\ ~Renewed(out, k, n, s)
KeepsScales(out, n, x) ==
    LET i == LastKeeping(out, n, x)
    IN  Keeps(out, {}, i, out[i].keeps[2], out[i].keeps[3]) /\ WritersOf(out, n, out[i].keeps[2]) \subseteq 1 .. i

\* Every kernel finds what it reads; the buffers L have what they were last then.
Supports(out, K, L) ==
    /\ \A j \in DOMAIN out :
         /\ \A x, y \in out[j].writes : x[1] = y[1] => x = y
         /\ \A x \in out[j].reads : Keeps(out, K, j - 1, x[1], x[2])
         /\ \A x \in out[j].scales : KeepsScales(out, j - 1, x)
    /\ \A b \in L : Keeps(out, K, Len(out), b, b)
Sustains(ops, K, L) == \A out \in {Resolve(f, ops).out : f \in Leftover} : Supports(out, K, L)

\* What launch code writes whatever the runner holds.
Filled(out) == {b \in UNION {WritesOf(out, i) : i \in DOMAIN out} : Keeps(out, {}, Len(out), b, b)}
Fills(ops) ==
    LET all == {Filled(out) : out \in {Resolve(f, ops).out : f \in Leftover}}
    IN  {b \in UNION all : \A S \in all : b \in S}

\* How a launch uses graphs: one is captured the first time a shape is seen, or
\* the second; "bare" is the first time, under a key without the generation of
\* the scratch.  There is one map for keys of 64 bits and one for image shapes.
Policies == {"first", "second", "bare"}
Stores == {"first", "second"}
Store(policy) == IF policy = "second" THEN "second" ELSE "first"

\* A call has the same graphs with cuDNN and without.
Recorded(p, policy) ==
    UNION {{ss[i].ops : i \in {i \in Enqueuing(ss) : ss[i].do = "launch" /\ ss[i].graph = policy}} : ss \in Bodies({p})}
Replayable(p, s) == {s.ops} \cup IF s.do = "launch" /\ s.graph \in Policies THEN Recorded(p, s.graph) ELSE {}

\* A step of call p finds the buffers K as they should be, and leaves L so.
Carries(p, s, K, L) ==
    CASE s.do = "stage" -> L \subseteq K \cup {s.buffer}
      [] s.do = "read" -> s.buffer \in K /\ L \subseteq K
      [] s.do \in {"enqueue", "launch"} ->
           /\ \A ops \in Replayable(p, s) : Sustains(ops, K, L)
           /\ s.do = "launch" /\ AsksForPlan(s.ops) =>
                LET M == K \cup Fills(UpToPlan(s.ops)) IN Sustains(UpToPlan(s.ops), K, M) /\ Sustains(AfterPlan(s.ops), M, L)
      [] OTHER -> L \subseteq K
Supplied(p, ss, S) ==
    /\ \A i \in 0 .. Len(ss) : Persistent \subseteq S[i]
    /\ \A i \in DOMAIN ss : Carries(p, ss[i], S[i - 1], S[i])
Brings(p, s) ==
    CASE s.do = "stage" -> {s.buffer}
      [] s.do \in {"enqueue", "launch"} ->
           LET all == {Fills(ops) : ops \in Replayable(p, s)} IN {b \in UNION all : \A S \in all : b \in S}
      [] OTHER -> {}
Supply(ss, brings) == [i \in 0 .. Len(ss) |-> Persistent \cup UNION {brings[j] : j \in 1 .. i}]

ASSUME ProgramsAreHostCode ==
    /\ \A p \in DOMAIN Programs : Programs[p].needs \in Seq(Nat)
    /\ \A ss \in Bodies(DOMAIN Programs) : HostCode(ss)
    /\ \A m \in Mixes : \A ss \in Bodies(m) : Lingers(ss, m)

\* Leftover has what the runner may hold when launch code starts.
ASSUME RunnersAreLeft ==
    /\ NewRunner \in Leftover /\ Leftover \subseteq Runners
    /\ \A ops \in Codes : \A f \in Leftover : Resolve(f, ops).fp8 \in Leftover

ASSUME CallsAreSupplied ==
    \A p \in DOMAIN Programs :
      \A ss \in Bodies({p}) :
        \E brings \in {[i \in DOMAIN ss |-> Brings(p, ss[i])]} :
          \E S \in {Supply(ss, brings)} : S[0] = Persistent /\ Supplied(p, ss, S)

\* "Fixed-session scratch reuse for generation stages whose temporary geometry is
\* identical from one speculative cycle to the next" (runtime.hpp): no call asks
\* more of a block than one that keeps graphs without the generation has asked.
FixedGeometry ==
    \A m \in Mixes : \A p, q \in m :
      Recorded(p, "bare") # {} =>
        \A i \in DOMAIN Programs[p].needs \cap DOMAIN Programs[q].needs :
          Programs[q].needs[i] <= Programs[p].needs[i]

-----------------------------------------------------------------------------
(* Kernels enter the streams.  A replayed graph starts after main.         *)

Before(i, replay) ==
    IF i > 0 THEN {issued + i}
    ELSE IF i = 0 THEN tails[Main]
    ELSE IF replay THEN {} ELSE tails[IF i = -1 THEN Auxiliary ELSE Tertiary]
At(S, replay) == UNION {Before(i, replay) : i \in S}

\* Writes of b by the first n kernels and before them; the scales that x points
\* to when it is their turn.
CountAfter(out, n, b) == Count(version, b) + Cardinality({i \in 1 .. n : b \in out[i].fresh})
ScaleAfter(out, n, x) ==
    IF Keeping(out, n, x) = {} THEN scale[x]
    ELSE LET i == LastKeeping(out, n, x)
         IN  <<out[i].keeps[2], <<out[i].keeps[3], CountAfter(out, i, out[i].keeps[3])>>>>

Enter(out, i, replay) ==
    [id |-> issued + i,
     after |-> At(out[i].after, replay),
     expects |-> {<<x[1], <<x[2], CountAfter(out, i - 1, x[2])>>>> : x \in out[i].reads}
                 \cup {ScaleAfter(out, i - 1, x) : x \in out[i].scales},
     gives |-> {<<x[1], <<x[2], CountAfter(out, i, x[2])>>>> : x \in out[i].writes}]

EnterAll(out, replay, last) ==
    LET n == Len(out)
        all == DOMAIN out
    IN  /\ issued' = issued + n
        /\ version' = [b \in DOMAIN version \cup UNION {out[i].fresh : i \in all} |-> CountAfter(out, n, b)]
        /\ scale' = [x \in DOMAIN scale \cup {out[i].keeps[1] : i \in {i \in all : out[i].keeps # <<>>}} |->
                       ScaleAfter(out, n, x)]
        /\ pending' = pending \cup {Enter(out, i, replay) : i \in all}
        /\ tails' = [s \in AllStreams |-> At(last[s], replay)]
        /\ UNCHANGED memory

Enqueue(ops) ==
    LET r == Resolve(fp8, ops)
    IN  /\ EnterAll(r.out, FALSE, r.tail)
        /\ fp8' = r.fp8

\* Mutant: what main is given next does not come after the graph.
ReplayApart(g) ==
    /\ EnterAll(g.out, TRUE, Start)
    /\ UNCHANGED fp8
\* cudaGraphLaunch on main: the host objects do not change.
Replay(g) ==
    /\ EnterAll(g.out, TRUE, [Start EXCEPT ![Main] = 0 .. Len(g.out)])
    /\ UNCHANGED fp8

-----------------------------------------------------------------------------
(* DeviceScratchPool::allocate() over the blocks a call asks for.  A block *)
(* that is too small is freed and a larger one takes its place.            *)

Grows(i, needs) == i \in DOMAIN blocks => blocks[i].bytes < needs[i]
Grown(n, needs) == {i \in 1 .. n : Grows(i, needs)}
Allocate(i, needs) ==
    [bytes |-> IF i \in DOMAIN blocks /\ needs[i] <= 2 * blocks[i].bytes THEN 2 * blocks[i].bytes ELSE needs[i],
     address |-> <<i, generation + Cardinality(Grown(i, needs))>>]
AllocateFirst(n, needs) ==
    [blocks |-> [i \in (1 .. n) \cup DOMAIN blocks |-> IF i \in Grown(n, needs) THEN Allocate(i, needs) ELSE blocks[i]],
     generation |-> generation + Cardinality(Grown(n, needs))]

\* cudaMalloc() fails for block k: what it was to replace is gone already.
Lose(m, k) ==
    IF k \notin DOMAIN m.blocks THEN m
    ELSE [blocks |-> [m.blocks EXCEPT ![k] = [bytes |-> 0, address |-> <<k, 0>>]], generation |-> m.generation + 1]

Addresses == [i \in DOMAIN Programs[call].needs |-> blocks[i].address]

-----------------------------------------------------------------------------
(* The plans of cuDNN attention, each with a workspace.  A plan is the     *)
(* shape it was built for and the evictions there had been by then.        *)

Built(shape) == [shape |-> shape, after |-> evictions]
PlansOf(shape) == {i \in DOMAIN plans : plans[i].shape = shape}
Full == Len(plans) >= MaxPlans
Evicts == mix \in Evicting

\* cudnn_vision_plan_available()
PlanAvailable(shape) == PlansOf(shape) # {} \/ ~Full \/ Evicts
\* cached_plan(), a hit or with room: the plan, now the last used.
Without(seq, i) == SubSeq(seq, 1, i - 1) \o SubSeq(seq, i + 1, Len(seq))
PlanAt(shape) == CHOOSE i \in PlansOf(shape) : TRUE
PlanFor(shape) == IF PlansOf(shape) # {} THEN plans[PlanAt(shape)] ELSE Built(shape)
Used(shape) == Append(IF PlansOf(shape) # {} THEN Without(plans, PlanAt(shape)) ELSE plans, PlanFor(shape))

-----------------------------------------------------------------------------
(* Graphs.                                                                 *)

Step(do) == steps # <<>> /\ Head(steps).do = do
Now == Head(steps)

\* Mutant: the pool's generation is not part of any key.
KeyOfShape == <<call, Now.graph>>
\* What a call is told apart by, its tokens and its context, is the call.
Key ==
    CASE Now.graph = "first" -> <<call, "first", generation>>
      [] Now.graph = "second" -> <<call, "second", generation, evictions>>
      [] Now.graph = "bare" -> <<call, "bare">>
Kept(policy) == graphs[Store(policy)]
Hit(policy) == {i \in DOMAIN Kept(policy) : Kept(policy)[i].key = Key}

\* should_capture_graph(): a shape seen before is forgotten and captured.
SeenAt == {i \in DOMAIN seen : seen[i] = Key}

-----------------------------------------------------------------------------
Init ==
    /\ mix \in Mixes
    /\ call = Idle /\ steps = <<>> /\ begun = 0
    /\ fp8 = NewRunner
    /\ tails = [s \in AllStreams |-> {}]
    /\ pending = {} /\ issued = 0
    /\ memory = <<>> /\ version = <<>> /\ scale = <<>>
    /\ blocks = <<>> /\ generation = 0
    /\ graphs = [store \in Stores |-> <<>>] /\ seen = <<>>
    /\ plans = <<>> /\ evictions = 0

\* A call starts with its allocations.  A buffer has the same address in every
\* call that allocates it, so the runner knows the source it quantised last.
BeginCall(p) ==
    /\ call = Idle
    /\ begun < MaxCalls
    /\ pending = {} => begun = 0
    /\ evictions >= MaxEvictions => PlansOf(Programs[p].shape) # {} \/ ~Full \/ ~Evicts
    /\ call' = p
    /\ steps' = IF PlanAvailable(Programs[p].shape) THEN Programs[p].steps ELSE Programs[p].fallback
    /\ begun' = begun + 1
    /\ LET m == AllocateFirst(Len(Programs[p].needs), Programs[p].needs)
       IN  /\ blocks' = m.blocks
           /\ generation' = m.generation
    /\ UNCHANGED <<mix, fp8, device, cache, attention>>

\* A call that cannot have its scratch throws before it enqueues anything.
AllocationFails(p) ==
    /\ call = Idle
    /\ generation < MaxGeneration
    /\ \E k \in DOMAIN Programs[p].needs :
         LET m == AllocateFirst(k - 1, Programs[p].needs)
         IN  /\ Grows(k, Programs[p].needs)
             /\ blocks' = Lose(m, k).blocks
             /\ generation' = Lose(m, k).generation
    /\ UNCHANGED <<host, device, cache, attention>>

\* The host writes a pinned buffer itself, at once.
Stage ==
    /\ Step("stage")
    /\ version' = Over([b \in {Now.buffer} |-> Count(version, b) + 1], version)
    /\ memory' = Over([b \in {Now.buffer} |-> <<b, Count(version, b) + 1>>], memory)
    /\ steps' = Tail(steps)
    /\ UNCHANGED <<mix, call, begun, fp8, tails, pending, issued, scale, pool, cache, attention>>

EnqueueOps ==
    /\ Step("enqueue")
    /\ Enqueue(Now.ops)
    /\ steps' = Tail(steps)
    /\ UNCHANGED <<mix, call, begun, pool, cache, attention>>

\* The launch code of a call: as a graph when there is one for it.
LaunchAsGraph ==
    /\ Step("launch")
    /\ Now.graph \in Policies
    /\ \E i \in Hit(Now.graph) :
         LET g == Kept(Now.graph)[i]
         IN  /\ Replay(g)
             /\ graphs' = IF Now.graph = "second"
                          THEN [graphs EXCEPT !["second"] = Append(Without(@, i), g)] ELSE graphs
    /\ steps' = Tail(steps)
    /\ UNCHANGED <<mix, call, begun, pool, seen, attention>>

\* Otherwise it runs once as it is, and may be recorded when that has finished.
\* It looks its plan up at the first layer's attention; at the others it finds it.
Parts(ops) ==
    IF AsksForPlan(ops)
    THEN <<[do |-> "enqueue", ops |-> UpToPlan(ops)], [do |-> "plan"], [do |-> "enqueue", ops |-> AfterPlan(ops)]>>
    ELSE <<[do |-> "enqueue", ops |-> ops]>>
LaunchDirectly ==
    /\ Step("launch")
    /\ Now.graph \in Policies => Hit(Now.graph) = {}
    /\ LET parts == Parts(Now.ops)
       IN  /\ Enqueue(Head(parts).ops)
           /\ steps' = Tail(parts)
                       \o (IF Now.graph \in Policies
                           THEN <<[do |-> "sync"], [do |-> "capture", ops |-> Now.ops, graph |-> Now.graph]>> ELSE <<>>)
                       \o Tail(steps)
    /\ UNCHANGED <<mix, call, begun, pool, cache, attention>>

\* cached_plan(), where GEVVA_CUDNN_EVICT_PLANS is needed for a shape without room:
\* the oldest plan goes with its workspace once the device has finished.
Shape == Programs[call].shape
NeedsEviction == PlansOf(Shape) = {} /\ Full
Lookup ==
    /\ Step("plan")
    /\ IF NeedsEviction
       THEN /\ Evicts
            /\ pending = {}
            /\ evictions' = evictions + 1
            /\ plans' = Append(Tail(plans), [Built(Shape) EXCEPT !.after = @ + 1])
       ELSE /\ plans' = Used(Shape)
            /\ UNCHANGED evictions
    /\ steps' = Tail(steps)
    /\ UNCHANGED <<mix, call, begun, fp8, device, pool, cache>>

\* The build throws.  The device has caught up by then: a build takes far longer
\* than the kernels in front of it.
BuildFails ==
    /\ Step("plan")
    /\ PlansOf(Shape) = {}
    /\ pending = {}
    /\ plans' = IF Full THEN Tail(plans) ELSE plans
    /\ evictions' = IF Full THEN evictions + 1 ELSE evictions
    /\ steps' = <<>>
    /\ UNCHANGED <<mix, call, begun, fp8, device, pool, cache>>

\* should_capture_graph(): not yet, the first time a shape is seen.
Remember ==
    /\ Step("capture")
    /\ Now.graph = "second"
    /\ SeenAt = {}
    /\ seen' = Append(IF Len(seen) >= MaxSeen THEN Tail(seen) ELSE seen, Key)
    /\ steps' = Tail(steps)
    /\ UNCHANGED <<mix, call, begun, fp8, device, pool, graphs, attention>>

\* capture_graph(): the launch code runs again, into a graph.
Capture ==
    /\ Step("capture")
    /\ Now.graph = "second" => SeenAt # {}
    /\ LET r == Resolve(fp8, Now.ops)
           old == Kept(Now.graph)
       IN  \E victim \in (IF Now.graph = "second" THEN {1} ELSE DOMAIN old) \cup {0} :
             /\ victim = 0 <=> Len(old) < MaxGraphs
             /\ graphs' = [graphs EXCEPT ![Store(Now.graph)] =
                   Append(IF victim = 0 THEN old ELSE Without(old, victim),
                          [key |-> Key, out |-> r.out, at |-> Addresses,
                           whole |-> r.past[Main] = 0 .. Len(r.out),
                           uses |-> IF AsksForPlan(Now.ops) THEN {PlanFor(Shape)} ELSE {}])]
             /\ fp8' = r.fp8
    /\ plans' = IF AsksForPlan(Now.ops) THEN Used(Shape) ELSE plans
    /\ seen' = SelectSeq(seen, LAMBDA k : Now.graph # "second" \/ k # Key)
    /\ steps' = Tail(steps)
    /\ UNCHANGED <<mix, call, begun, device, pool, evictions>>

\* Mutant: the wait is for the second stream.
AwaitAuxiliary ==
    /\ Step("sync")
    /\ \A e \in pending : e.id \notin tails[Auxiliary]
    /\ steps' = Tail(steps)
    /\ UNCHANGED <<mix, call, begun, fp8, device, pool, cache, attention>>
\* cudaStreamSynchronize(), or the wait for an event recorded on main.
Synchronize ==
    /\ Step("sync")
    /\ \A e \in pending : e.id \notin tails[Main]
    /\ steps' = Tail(steps)
    /\ UNCHANGED <<mix, call, begun, fp8, device, pool, cache, attention>>

\* The host reads what a copy brought to it, and returns.
Read ==
    /\ Step("read")
    /\ steps' = Tail(steps)
    /\ UNCHANGED <<mix, call, begun, fp8, device, pool, cache, attention>>

Return ==
    /\ call # Idle
    /\ steps = <<>>
    /\ call' = Idle
    /\ UNCHANGED <<mix, steps, begun, fp8, device, pool, cache, attention>>

\* The device executes a kernel all of whose predecessors have finished.  It
\* need run only while the host waits: no step of the host depends on how far
\* it is but waits and what it reads after them.  Between calls the host either
\* goes on at once or lets the device finish.
Ready(e) == \A x \in pending : x.id \notin e.after
Execute(e) ==
    /\ call = Idle \/ Step("sync") \/ (Step("plan") /\ PlansOf(Shape) = {})
    /\ Ready(e)
    /\ pending' = pending \ {e}
    /\ memory' = Over([b \in {x[1] : x \in e.gives} |-> (CHOOSE x \in e.gives : x[1] = b)[2]], memory)
    /\ begun' = IF call = Idle THEN MaxCalls ELSE begun
    /\ UNCHANGED <<mix, call, steps, fp8, tails, issued, version, scale, pool, cache, attention>>

\* Between calls, with nothing to execute: what the buffers hold is left-overs.
Settle ==
    /\ call = Idle
    /\ begun > 0
    /\ pending = {}
    /\ begun' = 0
    /\ tails' = [s \in AllStreams |-> {}]
    /\ issued' = 0
    /\ memory' = <<>> /\ version' = <<>> /\ scale' = <<>>
    /\ UNCHANGED <<mix, call, steps, fp8, pending, pool, cache, attention>>

HostStep ==
    \/ \E p \in mix : BeginCall(p) \/ AllocationFails(p)
    \/ Stage \/ EnqueueOps \/ LaunchAsGraph \/ LaunchDirectly
    \/ Lookup \/ BuildFails \/ Remember \/ Capture \/ Synchronize \/ Read \/ Return \/ Settle
Next == HostStep \/ \E e \in pending : Execute(e)

Spec == Init /\ [][Next]_vars

-----------------------------------------------------------------------------
Touched(e) == {x[1] : x \in e.expects \cup e.gives}
Written(e) == {x[1] : x \in e.gives}

\* Two kernels that may run at the same time never touch a buffer one of them
\* writes, and the host touches a pinned buffer only when no kernel may.
ConcurrentKernelsAreDisjoint ==
    /\ \A e, f \in {e \in pending : Ready(e)} : e = f \/ Written(e) \cap Touched(f) = {}
    /\ Step("stage") => \A e \in pending : Now.buffer \notin Touched(e)
    /\ Step("read") => \A e \in pending : Now.buffer \notin Written(e)

\* A kernel finds in every buffer what the host's order of calls put there:
\* in an FP8 activation the quantised form of the current source, under its scales.
ReadsAreCurrent ==
    /\ \A e \in pending : Ready(e) => \A x \in e.expects : Holds(x[1]) = x[2]
    /\ Step("read") => Holds(Now.buffer) = <<Now.buffer, Count(version, Now.buffer)>>

\* DeviceScratchPool::allocate(): "Invalidate captured addresses even if the new
\* allocation fails."  A graph that is found has the addresses of now in it.
GrowthInvalidatesGraphs ==
    Step("launch") /\ Now.graph \in Policies =>
        \A i \in Hit(Now.graph) : Kept(Now.graph)[i].at = Addresses

\* A graph is recorded when nothing runs, covers all its kernels, and is
\* replayed only over the addresses and the plan it was recorded with; recording
\* it builds no plan, which a capture does not allow.
GraphsStayValid ==
    /\ Step("capture") => pending = {} /\ (AsksForPlan(Now.ops) => PlansOf(Shape) # {})
    /\ \A store \in Stores : \A g \in ToSet(graphs[store]) : g.whole
    /\ GrowthInvalidatesGraphs
    /\ Step("launch") /\ Now.graph \in Policies =>
         \A i \in Hit(Now.graph) : Kept(Now.graph)[i].uses \subseteq ToSet(plans)
=============================================================================
