# Verification of gevva

gevva answers multiple-choice questions ("decisions") about a state, with text
and images, from a Gemma model on one GPU. A Python front end accepts HTTP
requests, queues them and hands them one at a time to an engine, a C++/CUDA
child process. This directory holds TLA+ models of the parts of that system,
configurations that check them with TLC on small instances, and proofs, checked
by TLAPS, of what matters most for instances of any size. Source paths below are
relative to the repository's root.

    HTTP clients ──> server.py ──> api.py (LocalEvaluator) ──> scheduler.py
                     one thread     compile / format             bounded FIFO,
                     per connection                              one thread
                                                                   │
                                         worker.py  <──────────────┘
                                         pipes, deadline, stop
                                            │ one JSON line each way
                                         src/decisions.cpp (DecisionWorker)
                                            │ prefix cache, branches, waves
                                         src/runtime.cpp (KvCache, scratch)
                                            │
                                         src/cuda/... prefill, vision, FP8, experts


## 1. Inventory

For each part: the state it keeps, its operations, what makes it hard, and what
makes it correct. PROJECT.json lists the same parts with their files, and under
"hazards" the places where the code is hard to test, with the properties aimed
at them.

**Request scheduler** (`gevva/scheduler.py`). State: a list of pending jobs, the
flag `closed`, a condition variable, and the futures handed out. Operations:
`submit` (FIFO, or replace an older frame of the same stream), the dispatcher
thread `_run`, `close`. Hard: futures are cancelled by their holders without the
lock, while `submit`, `_run` and `close` settle them after releasing it. Correct
when: nothing accepted is lost or answered twice, no operation on a future meets
a state in which it raises, requests run in the order of their places, the queue
stays bounded, everything accepted is answered in the end.

**Engine transport** (`gevva/worker.py`). State: a child process, its two pipes,
a transport lock, a stop lock, a deadline, `starting`, `closed`. Operations:
`run`, `close`, the property `healthy`. Hard: a deadline may pass with half a
message written or read; `close` comes from another thread and must interrupt an
exchange; two locks. Correct when: a line that is parsed answers the request just
written, after a failure no engine is left, the pipes are never closed under a
`select`, and every call ends.

**Evaluator** (`gevva/api.py`). Puts the scheduler in front of the transport;
validates and formats. `close` stops the queue, then the engine, then joins the
dispatcher. Correct when: a result belongs to its request, `close` interrupts and
leaves nothing behind, and `execute` ends, which the scheduler takes for granted.

**HTTP server** (`gevva/server.py`). State: two semaphores, one handler thread
per connection, `close_connection`. Operations: accept, GET, POST, reply. Hard:
the reply sits inside the `try` whose clauses reply; slots are taken in one
thread and given back in another; an unread body would be parsed as the next
request. Correct when: slots come back, one response per request, a connection is
reused only after a whole answer and, after a POST, with nothing of it left, a status
says what happened.

**Decision worker** (`src/decisions.cpp`). State: the cached prefix and its
tokens, the image features and their revision, branches, each with their K/V
caches; kept from one request to the next. Operations: decode and encode images,
plan the common prefix, hit or miss, prefill, batch questions into waves, copy or
fork the prefix into branches. Hard: any call may throw in the middle, and the
next request starts from what is left. Correct when: every question attends to
exactly its own prompt.

**KV cache** (`src/runtime.cpp`). State: for each region a reservation and its
committed pages, `resident_context`, `shared_tokens`, the seal. Operations:
construct, `ensure_context`, fork (share whole pages read-only, copy the page at
the boundary), destroy. Hard: pages are mapped in several caches at once, and
each driver call may fail between any two. Correct when: no cache sees what
another writes, nothing mapped is released, no legal write faults.

**Images** (`src/image_gpu.cu`). State: resize tables on the device, kept from one
image to the next under the size they were made for. Hard: a failure between the
upload of a table and the end of the image. Correct when: tables and name agree
whenever an image is resized.

**Prefill, verifier, assistant, vision, readout** (`src/cuda/runtime/*.cuh`): host
code that queues kernels on three streams over scratch memory, and reads results
back through pinned buffers. No state of its own; what it drives has:

- **Execution context** (`src/gpu/execution_context.cpp`): three streams with
  their events, two caches of graphs, a table of shapes seen once.
- **FP8 runner** (`fp8_linear.cuh`, `fp8_preparation.cuh`): one named activation in
  two buffers that swap, and an event per buffer.
- **Scratch pool** (`src/runtime.cpp`): blocks that grow, a generation, one pinned
  buffer.
- **Plans of cuDNN** (`src/cudnn_attention.cpp`): a bounded table, each plan with a
  workspace.

Hard: buffers shared by streams that only events order; an activation reused by the
address of its source; graphs that replay addresses of memory freed since; a plan
evicted under a graph. Correct when: every kernel reads what the program order says
and nothing runs beside what writes its data.

**K/V rows and sliding rings** (`kv_append.cuh`, `kv_commit.cuh`, attention kernels
and their launchers). State: rings of 1024 slots kept three times over with a short
fourth copy, global rows, candidate rows. Hard: wrap-around, copies that must agree,
direct paths that borrow rows of the copies and give them back. Correct when: a query
attends to exactly its window.

**Speculative decoding** (`verifier.cuh`, `assistant.cuh`, `resolve_greedy_mtp`).
Drafts are accepted up to the first that differs. Correct when: the text is that of
greedy decoding. Only library entry points and diagnostics decode; the service never
does.

**Kernels** (`src/cuda/kernels/*.cuh`, `src/nvfp4_cutlass.cu`). State: registers,
shared memory, barriers. Hard: warps run ahead of one another; cells are used for two
reductions in a row; counts that are not multiples of anything. Correct when: no two
threads touch a cell without a barrier between them, every thread meets every
barrier, and the outputs are what one thread alone would compute.

**The rest** keeps no state that the service uses after start-up: configuration,
warm-up and client, tokenizer, weight files and their one upload, command line,
diagnostics, offline tools. PROJECT.json gives the reason for each.


## 2. Modules

| module | models | built on |
|---|---|---|
| `RequestLedger` | what a caller of the evaluator is promised (the exceptions of `gevva/scheduler.py`, the policies of `submit` in `gevva/api.py`) | |
| `Scheduler` | `gevva/scheduler.py`; refines `RequestLedger` | `RequestLedger` |
| `SchedulerProofs` | theorems about `Scheduler`, and its refinement | `Scheduler` |
| `Worker` | `gevva/worker.py` and the engine's end of the pipes | |
| `WorkerProofs` | theorems about `Worker` | `Worker` |
| `WorkerHealth` | the threads that evaluate `Worker.healthy` | `Worker` |
| `Evaluator` | `gevva/api.py`: instances of both, joined at `_execute` and `close` | `Scheduler`, `Worker` |
| `EvaluatorProofs` | theorems about `Evaluator`, from those about its parts | `Evaluator`, `SchedulerProofs`, `WorkerProofs` |
| `Server` | `gevva/server.py`, in front of any evaluator | |
| `ServerProofs` | theorems about `Server` | `Server` |
| `DecisionCache` | `src/decisions.cpp`, `src/image_gpu.cu`: what is reused from request to request | |
| `DecisionCacheProofs` | theorems about `DecisionCache` | `DecisionCache` |
| `KvFork` | `src/runtime.cpp`: pages of the global layers | |
| `KvForkProofs` | theorems about `KvFork` | `KvFork` |
| `GreedyText` | what decoding promises: the text a model would choose token by token | |
| `KvRing` | rows of a session's K/V cache, all that writes and reads them; refines `GreedyText` | `GreedyText` |
| `KvRingProofs` | theorems about `KvRing`: the rows of the ring, what queries read and what is said | `KvRing` |
| `StreamOps` | the vocabulary of launch code: kernels, stream forks, FP8 launches | |
| `ExpertProgram`, `PrefillProgram`, `VerifierProgram`, `DraftProgram`, `VisionProgram` | the launch code of `src/cuda/runtime`, of the experts and of the vocabulary, one operator per function or part of a layer | each on the one before, `StreamOps` first |
| `Streams` | the context, the FP8 runner, the scratch pool and the cuDNN plans that run them | `StreamOps` |
| `StreamsProofs` | theorems about `Streams`, for any programs whose launch code orders its own kernels and finds what its call has for it | `Streams` |
| `BlockOps` | instructions of a thread block, symbolic values | |
| `AttentionKernels`, `NormKernels`, `RouteKernels`, `SelectKernels` | the kernels: softmax and rotation, norms and quantisers, routes of the experts, choice of tokens | `BlockOps` |
| `Block` | one thread block that executes them | the four |
| `MCScheduler`, `MCEvaluator`, `MCServer`, `MCDecisionCache`, `MCKvRing`, `MCStreams`, `MCStreamsGrowing`, `MCBlock` | instances for TLC | |

PROJECT.json maps every definition to the lines it stands for. The names of the
code are kept where TLA+ allows it. Next to a definition there is sometimes a
variant of it marked as a mutant: a plausible mistake in the same lines, which
nothing uses, and which breaks the property it is listed with.

**Scheduler.** A step is what one thread does while it holds the condition's lock,
or one call on a future outside it. `self.pending` is a set of requests and a slot
number for each, since a replacement takes its predecessor's place: the number
never changes, so it is the order of execution as well. `submit` is one of
`RejectClosed`, `Replace`, `RejectFull`, `Enqueue`; a replaced job is settled
afterwards by `ClaimReplaced` and `FailReplaced`, and cancelled ones are pruned in
`Live`. `_run` is `Wait`, `Exit`, `Pop`, `Claim`, `Expire`, `Execute`, `Finish`;
`close` is `BeginClose`, `CancelDrained`, `EndClose`. Time is abstract: a request
with a limit may be found expired. `LedgerStatus` is what a holder of the future
can tell, and maps the scheduler to `RequestLedger`.

**Worker.** A request and a response are `Parts` pieces on pipes with room for
`Room`. One turn of `_exchange`'s loop is `Check` (deadline, `closed`) and then one
`Write` or `Read`. `_stop` is shared by a failing `run` and `close` (`Kill`,
`Stopped`, `Fail`). The engine reads, writes anything, stalls or exits whenever it
likes; a killed process exits.

**Evaluator.** `Execute` is a step of both parts: the dispatcher calls `run`;
`Finish` returns from it. `close` is three calls in a row: `CloseQueue`,
`CloseWorker`, `JoinQueue`.

**Server.** A connection goes through `Accept`, `Start`, and then for each request
`Receive` (headers, with the early answers), `ReadBody`, `Evaluate`, `Write`;
`Break` is an I/O error anywhere, `Hangup` the end of a connection. A GET may have a
body, which `do_GET` neither reads nor closes on: what it left is parsed as the next
request, any that `Receive` admits or no HTTP at all (`Hangup`; the 400 that
`http.server` answers closes the connection). No document promises otherwise, so
`PostsLeaveNothing` is about POSTs, and PROJECT.json lists the GET as a hazard. A
body is what `Content-Length` says, chunked bodies are not modelled; the evaluator returns any outcome; Ctrl-C is `Interrupt`.

**DecisionCache.** The rows of a K/V cache are the tokens they were computed from,
which is all that a row depends on besides the rows before it; image tokens are
the same for every image, their rows differ. Global and sliding rows are apart,
since "shared" mode treats them differently. Every call may throw (`Throw`,
`ForkFails`). Each image of a list is a `Resize` (the tables are dropped with their
name when the size differs) and an `Encoded`; a picture resized by tables of another
size shows "garbled". The path with GEVVA_CPU_IMAGE_PREPROCESS has no tables. After a
failure half a table is like none, since the next image uploads both. `RowsAfter` is
what a pass appends to a cache: the rows of its tokens after those that are there.
`DecisionCacheAssumption` says that a list of questions is not empty, a question is a
sequence of words and "image" is no text token, so that `Prompt` is the text it
stands for.

**KvFork.** Pages are handles that may be mapped in several caches; `pages` is what a
cache maps and `access` what each mapping allows; a row carries the name of the cache
that wrote it. Growth is page by page and region by region
in one step whose failure may leave any part of it; a fork takes one step per page,
and may fail at each. `MaxRows` is the longest context of a cache, which need not fill
the last page that is reserved for it.

**KvRing.** One session; a row is `[pos, tok]`, the K and V of a token at its
position, heads and planes left out. `Prefill`, `AskReadOnly`, `Decode` and the
steps of a verification (`BeginVerify`, `Draft`, `Attend`, `Unpack`, `Commit`) are
whole calls; what each attention path reads is an operator of its own
(`RaggedView`, `DecodeView`, `BatchView`, `PrefillView`, `UniformView`,
`SegmentedView`, `VerifyView`), with partitions, tiles and paddings as the kernels
compute them. The single verifier, the batch and its packed, direct and scalar paths
are the constant `Paths`. `Predict` is the model, a function of what the last query
read. The image block of a multimodal prompt, which attends both ways, never holds
the last row of a chunk, so no view of a last query differs by it. A masked column
multiplied by zero is not read, whatever it holds.

**Streams.** A program is a sequence of host steps (`stage`, `enqueue`, `launch`,
`sync`, `read`), each with the operations of `StreamOps` that the code makes there.
`Enqueue` resolves them into kernels with the physical FP8 buffers they touch and the
kernels they come after; the device executes any kernel whose predecessors have
finished. A buffer holds the number of its last write, so a kernel that reads too
early, too late or from the wrong buffer finds the wrong number. Graphs are recorded
and replayed (`Capture`, `LaunchAsGraph`) from the two caches of the context, under the
three policies of the code: after the first launch of a shape ("first"), at the second
use of one ("second"), both under keys that have the generation of the scratch pool,
and after the first launch under a key without it ("bare"): the single verifier's
(`verifier.cuh:350`) and the seeded assistant's (`assistant.cuh:229`). Buffers that a call allocates in the same
order have the same address in every call. `Execute` is enabled only while the host
waits or is between calls: no step of the host but those depends on the progress of
the device, so nothing is lost by letting it start late.

**Block.** A kernel is a program in SPMD form: each instruction names the threads
that take it. Floating-point values are symbolic (a sum is the tree of its additions,
a maximum the set of what was compared, a selection the better pair), so an output is
right when it was computed from the right data in the right order, and two kernels
that must agree to the bit have the same tree. Threads run at their own pace between
barriers. A step that conflicts with nothing that another thread may still do before
the next barrier is taken first; until two threads race, its effect is the same at any
time, so races are found and outputs of race-free kernels are exact. The atomics of
the counting sort conflict, and are explored in every order.


## 3. Runs

Numbers are distinct states. Every run is exhaustive within its constants.

| run | instance | states | result |
|---|---|---|---|
| `scheduler` | two frames of a stream, two FIFO requests, queue of two, one joining close | 200 thousand | holds |
| `worker` | two callers, three calls of `run`, two of `close`, two pieces, room for one | 167 thousand | holds |
| `worker_health` | one exchange, one health check | 742 when found | violated |
| `evaluator` | two requests of one stream, queue of one, one close | 41 thousand | holds |
| `server` | three connections, two slots, one admission, two requests on one of them | 417 thousand | holds |
| `decision_cache` | two states, two image lists of one and of two sizes, four modes and both layouts | 1.9 million | holds |
| `decision_cache_shared` | all modes and layouts, no images | 120 thousand when found | violated |
| `kv_fork` | a prefix and a branch, two regions, five rows on three pages of two | 563 thousand | holds |
| `ring` | a window of four, three candidates, twelve tokens, six pairs of paths | 129 thousand | holds |
| `streams` | sixteen calls in seven mixes, two deep, two layers each | 36 thousand | holds |
| `streams_growing` | the single verifier with few tokens and with more | 1.9 thousand when found | violated |
| `kernels` | every kernel, blocks of 8 and 16 threads in warps of four | 12 thousand | holds |

What each shows:

- `scheduler`: the queue keeps its shape (`QueueShape`), futures are used so that no
  call on them raises (`FutureProtocol`), requests run in order (`ServedInOrder`),
  each unanswered request is in exactly one thread's hands (`InOneHand`), callers
  see what the ledger promises (`ImplementsLedger`), and everything accepted is
  settled (`EveryRequestSettles`). One call of `close` in that run, for two of them
  are beyond TLC here: that a second `close` takes nothing the first still holds rests
  on the theorems of section 4, which allow any number.
- `worker`: `AnswersMatch`, `DeadlineCoversExchange`, `NoUseOfClosedPipes`,
  `StoppedForGood`, and `EveryCallEnds`, whatever the engine does.
- `evaluator`: a result was computed from its own request (`ResultIsItsOwn`), a close
  leaves nothing behind (`ClosedIsQuiet`) and ends without help from engine or clock
  (`ShutdownInterrupts`), and `QueueIsFair`: when time passes the composition has the
  fairness that `Scheduler` assumes of `execute`.
- `server`: `PostsLeaveNothing`, `OneResponse`, `StatusTellsOutcome`, `SlotsComeBack`.
- `decision_cache`: every question attends to its own prompt
  (`AnswersFromOwnPrompt`), because a cached prefix holds what its key says
  (`CacheEntryHolds`) and branches follow it (`SharedBranchesFollowPrefix`); a
  failed request does not make the next one fail (`NoRequestInheritsFailure`).
- `kv_fork`: pages live exactly as long as they are mapped (`MappedPagesExist`), no
  cache sees another's writes (`BranchesAreIsolated`), a shared prefix never changes
  (`SharedPrefixIsFixed`), `resident_context` is true of every region
  (`ResidentRowsAreCommitted`), and no legal write faults (`NeverFaults`). A second
  branch of the same prefix is left to the theorems.
- `ring`: every query attends to its window and nothing else, and reads the same
  rows for scores and for values (`QueriesSeeTheirWindow`); between calls the copies
  of a slot agree (`CopiesAgree`); the text is one that greedy decoding would yield
  (`SpeculationIsGreedy`, the refinement of `GreedyText`).
- `streams`: kernels that may run at once share no buffer that one of them writes,
  nor does the host touch a pinned buffer in use (`ConcurrentKernelsAreDisjoint`);
  every kernel finds what the program order put there, every activation under its own
  scales (`ReadsAreCurrent`); a graph is recorded when nothing runs, is whole, and is
  replayed only over the addresses and plans it was recorded with (`GraphsStayValid`).
  The last is so where the scratch under a "bare" graph does not grow (`FixedGeometry`:
  "scratch reuse for generation stages whose temporary geometry is identical from one
  speculative cycle to the next", `include/gevva/runtime.hpp:229`).
- `streams_growing`: what happens where it does; see Findings.
- `kernels`: no two threads touch a cell between barriers unless both read or both
  are atomic (`NoDataRace`), each output is written as the reference says
  (`OutputsAreRight`), every route of a batch reaches its token through the tables of
  its expert (`RoutesReachTheirTokens`), and no thread waits at a barrier for one that
  will not come (`BarriersAreMet`).

**Why the bounds are enough to meet the cases.** Queue of two and four submissions: a
full queue, a pruned one, a replacement in first and in second place. Three runs of
two pieces through room for one: a request left half written, an answer left half
read, and a request after each. One admission slot and three connections: a refused
POST while another is answered, a slot reused, and a second request on a connection.
Two states, two image lists, batches of two and a question longer than a pass, also
past the common prefix, which takes a branch in "readonly" mode: a miss after a hit, a
failure half way, a wave of one and of two, growth of the number of branches; two
encoded image lists make one stale. Pages of two rows: prefixes that end on a page and
inside one, and a last page that the longest context fills by half. Two regions of
three pages: growth that fails between regions and is retried, and regions that differ
in size when a later growth succeeds. One branch: pages that outlive the prefix, which
is made anew and sealed again beside it. The evaluator has one stream and a queue of
one because the order of requests is `scheduler`'s question. A ring of four slots and
twelve tokens: three turns of the ring, prompts shorter than the window, equal to it
and longer, a neighbour of the batch ahead by more than an alignment. Two layers,
since a kernel of one can only meet the leftovers of the layer before or of the call
before; one graph and one plan, so that each is evicted. Blocks of two warps and of
four, rows that do not fill a block and rows that overrun it, maxima that are tied in
a thread, a warp, a block and across tiles, experts with no route, one, a whole tile
and more.

Named bounds: `MaxRuns` (Worker), `MaxRequests` (Server), `MaxRevisions`
(DecisionCache), `MaxContext` (KvRing), `MaxCalls`, `MaxGeneration`, `MaxEvictions`
(Streams). The other finite sets stand for requests, calls, clients and
caches. No run uses symmetry.

**Fairness.** Weak fairness of each thread that is able to step: callers inside
`submit`, the dispatcher, `close`, handlers. Not of what a client, a holder of a
future or an engine may do. `Scheduler` assumes that `execute` returns, and
`QueueIsFair` shows that `Evaluator` provides it. `Worker` adds that time passes
(`Tick`) and that a killed process exits (the code waits for it with `wait()`).
`ShutdownInterrupts` needs no clock, and the run assumes none. In `Server` a
handler does not wait for ever: the socket's timeout of 30 seconds ends a read, so
`Hangup` and `Break` are always possible; receiving another request is not
required. No lock is assumed strongly fair. `KvRing`, `Streams` and `Block` state no
fairness: their properties are safety, and that kernels end is the driver's part; a
block that hangs at a barrier is `BarriersAreMet`.

**Findings.** Three runs end in a violation of what the repository says.

- `worker_health`: `healthy` reads `self.deadline` twice without a lock; when the
  exchange ends between, `GET /health` raises `TypeError` and answers nothing.
- `decision_cache_shared`: in "shared" mode, a single question with layout
  "user_state" has no common prefix and makes branches that share nothing; the next
  request that hits the cached prefix keeps them and copies only their sliding rows,
  so its global rows are those of another prompt. The HTTP front end does not let a
  client choose the layout; the engine's line protocol does. The run
  `decision_cache` therefore has "shared" with "system_state" only.
- `streams_growing`: the key of the single verifier's graph is the number of tokens and
  the length of the context, without the generation that `DeviceScratchPool::allocate`
  counts up to "invalidate captured addresses". A call with few tokens, one with more,
  whose scratch is larger, and one with few at the same length replays the first graph
  over blocks that were freed. The seeded assistant's key is the length alone. No code in
  the repository makes such calls; `benchmark_target_verifier` is open to callers of the
  library (`include/gevva/gpu.hpp`).


## 4. Proofs

Eight modules prove theorems `Spec => []P`, for all constants that satisfy the
assumption of the module they are about. Each names the parts of an inductive
invariant, proves for each part that every action keeps it with the help of the
parts before it, and draws the theorems from their conjunction.

**Scheduler.** `SchedulerAssumption`: `NoRequest` is no request, `Latest` and
`Limited` are sets of requests, the capacity is positive, joining calls are calls
of `close`. No set need be finite: that the pending ones are is part of the
invariant (`FiniteQueue`), for `Cardinality` to mean anything. The invariant is a
conjunction of parts, each preserved with the help of those before it:

1. `TypeOK`, which also says where a thread has a job in hand;
2. `Hands`: a job is pending, replaced, carried or drained in one place only, a
   future in hand is in a state that the next call on it accepts, and what is still
   in the queue was never claimed. Without the last part `Claim` could meet a
   running future;
3. `Held`: an accepted request without an answer is in some hand;
4. `FiniteQueue` and `Places`: the bound, one frame per stream, slots distinct and
   below `arrivals`, and what was served has smaller slots than what is pending;
5. `Answers` and `Superseding`: what a future says was brought about by the step
   that may say it.

From it follow `QueueKeepsShape`, `FuturesAreUsedRightly`, `RequestsRunInOrder`,
`EveryRequestInOneHand`, `OnlyOpenRequestsRun`, `SupersededRightly`, and
`SchedulerImplementsLedger`: initial states map to initial states and every step
to a step of `RequestLedger` or a stutter.

**Server.** `ServerAssumption`: both capacities positive, `MaxRequests` a number for each connection.
`Local` is an invariant of each connection by itself: where the handler is
determines what it holds and how much it has read, written and been told (`Wire`,
`Clean`, `Told`, `Holds`). It gives `KeptPostsAreClean`, `AnsweredOnce` and
`StatusIsTrue`. `Slots` counts: free slots and the connections that hold one add up
to the capacity, for both semaphores; with it, `TypeCorrect`.

**Worker.** `WorkerAssumption`: callers and closers are different threads, an answer
has a piece and a pipe has room for one. `Typed` says where a thread holds which lock,
which `TypeOK` does not; `Ends` ties deadline, pipes and process to the threads that
end them. `Exchange` is the heart of it: while a thread exchanges, each piece
in either pipe, in the engine's hands or in the caller's is of that thread's request,
none is lost or made (`Answering`, `Answered`), and the last piece is the one that
tells. `Rest`: between exchanges nothing is on the way, as long as there is an engine;
this is why a failed exchange must end in a dead engine. They give
`AnswersAreOwn`, `DeadlineIsThere`, `PipesOutliveExchanges`, `StoppingIsFinal`.

**Evaluator.** `EvaluatorAssumption`: what the two parts assume, as the composition
gives them their constants, and that the submissions of a behaviour are finitely many,
for their number to bound the calls of `run`. `PartsKeepTheirSpecs`: a step of the
composition is a step or a stutter of the scheduler and one of the transport, so its
behaviours are behaviours of both. `SchedulerProofs` and `WorkerProofs` are
instantiated with the same substitutions, and `ConstantsFit` discharges their
assumptions; `Alone` is what their theorems then give, and `EvaluatorImplementsLedger`
carries the refinement over. To it the composition adds two inductive parts. `Calls`:
`run` is in progress only for the job that was popped last, the numbers on the pipes
are places in the order of service, and after an answer was accepted it stays whole
until `execute` returns. `ClosedDown`: a `close` joins only after the transport is
shut, returns only after the dispatcher, and a dispatcher that has ended leaves an
empty queue that stays closed. They give `TypeCorrect`, `ResultsAreOwn` (an action
property, with `Exchange` of the transport behind it) and `ClosingIsComplete` (with
`NothingLost` of the scheduler and `Ends` of the transport).

**DecisionCache.** The invariant `Base` says what a request finds of the earlier ones,
in any mode and layout: `Pictures` ties `previous` to the tables and `cachedImages` to
the features, with revisions that no prefix was filled with before; `Entry` makes the
cached rows those of the cached tokens, through `Rows`, the tokens as an image list
shows them; `Ready` is the same of the request that runs, `Sealing` of the flag the
worker keeps beside the seal of the prefix. They give `EntryIsThere` without further
hypotheses. What the branches hold (`Branching`) and what a wave has read (`Wave`) is
proved under `StateLeads`, that "shared" mode does not come with the layout
"user_state". Without it the statements are false, as `decision_cache_shared` shows;
with it hold `QuestionsSeeTheirPrompt`, `SharingIsOfThePrefix`, `NothingIsInherited`,
for any questions, image lists, batch sizes and lengths of a pass. Common prefixes are
the greatest number of a bounded set, which exists since numbers are well-founded.

**KvFork.** `KvForkAssumption`: there are finitely many caches, at least one region, a
page has rows, the first growth fits the reservation, and so does the longest context. Growth is by least numbers and
by division: `PagesHold` says that `PagesFor(n)` pages hold n rows and no fewer do.
`Placed` puts each page at its own place, so that two caches can only share a page at
the same index; `MappedPagesExist`, which is inductive with it; `Sharing`: what two
caches map, neither may write; `ReadOnly` and `OwnRows`: what an unsealed cache may not
write is of its prefix, and past the prefix it has its own rows; `Copied` is how far a
fork has come, page by page. A spare page is found by counting: for each place
there is one page more than there are caches to map it (`SparePage`). They give `PagesLiveWithTheirMappings`,
`ResidentIsThere`, `WritesAreAllowed`, `Isolation`, and as an action property
`PrefixesAreFixed`.

**KvRing.** `RingAssumption`: the candidates fit in the window, which is four
blocks, a chunk has a row, and a verification goes by paths that the verifier has.
`Written` is the lemma about residues:
writing the rows of consecutive positions, at most a window of them, leaves in each
slot the newest token of its residue. `Ring` says that the first copy of every slot
holds it, and that the other copies agree but for the rows that a direct verification
has borrowed (`Borrowed`), none of which is in the first copy (`TailIsBehind`). With
`Staged`, what the candidate cache holds, and `Session`, it gives `RingIsWhole`.

The rest builds on it, in three layers:

1. Each kernel, for any cache and text: if the rows it is given hold the tokens of the
   window (`Has`, `Seen`, `Supplied`, `Past`, `Pooled`), then what it attends to is
   those tokens, once each, in both passes (`DecodeRight`, `BatchRight`, `RaggedRight`,
   `DraftRight`, `PackRight`, `DirectRingRight`, `DirectGlobalRight`, `AssistRingRight`,
   `AssistGlobalRight`, `PrefillRight`, `UniformRight`, `SegmentedRight`). Here are the
   facts that are hard to test: the chunks of any number of partitions cover what is
   attended (`ChunksCover`), the softmax variants cover the pool (`ColumnsCover`), the
   interval of the second copy is the ring once more (`SecondCopy`), and the borrowed
   rows lie right behind the history (`TailIs`).
2. The invariant `Holds`: the global rows have the text (`Keeps`), the views last seen
   are of their windows (`Sights`), both candidate caches and, until they are read, the
   live ones hold what is being verified (`GlobalStaged`, `Lives`), a verification fits
   its span (`Verifying`), each target is what the model chooses after the candidates
   before it (`Targeted`), and the first token will be chosen from the whole prompt
   (`Prompted`). It is inductive together with that of the ring, one lemma per
   action, and gives `WindowsAreSeen`.
3. The refinement: prompts map to `Prompt` of `GreedyText`, first tokens, decode steps
   and commits to `Generate`, all else to stutters. For a commit this is `Targeted` and
   `Matched`: an accepted draft equals the target before it. `DraftsChangeNothing`
   says it for any model (`Predict`), any ring and any drafts.

**Streams.** Programs are data, so the theorems are about all programs of which three
assumptions hold, and TLC evaluates them for every one of `MCStreams`. They ask only
what can be seen in one launch code, or in the host code of one call, by itself.
`ProgramsAreHostCode`, for all three properties:

- Launch code (`Sound`) joins to main what it launches on a side stream, through the
  second stream at times (`Joined`), already where a plan is looked up. Its kernels come
  after what main held before it, and after each other where they share a buffer one of
  them writes (`RaceFree`); scales are those of an earlier launch. That holds whatever
  activation the runner was left with (`Runners`).
- Host code (`HostCode`) waits between a launch and the next use of a pinned buffer, and
  at some time after a launch that may be a graph. What a call launches after its last
  wait leaves alone what the calls of the same context use before their first
  (`Lingers`). Only code whose graphs have the evictions in their key uses a plan.

`RunnersAreLeft` and `CallsAreSupplied`, for `ReadsAreCurrent` only, are about what
launch code finds when it is run one kernel after the other on an idle device:

- `Leftover` has what the runner may hold between launches: a new runner, and what every
  launch code makes of a member of it.
- Each step of a call has a set of buffers that are current before it and one after
  (`Supplied`). Every kernel of a launch finds what it reads in the first set or in what
  an earlier kernel of the launch wrote, activations under the scales they were given
  (`Supports`), whatever member of `Leftover` the runner holds; and the second set is
  current when all of it has run. The same is asked of all code that a graph of this
  place may have been recorded from (`Recorded`). The first set of a call is what all
  calls find given (`Persistent`).

The theorems are about what no such look shows: several calls deep, kernels of one
launch beside those of another or of a graph recorded calls ago, in every order the
device may choose.

1. `Resolve` is the last of a chain of results, one per operation (`ResolveRuns`: the
   recursive function exists, shown by the least prefix that has no chain), and `Good`
   says of each what the host knows: what a stream comes after, as a set, is covered by
   its tail and by what those kernels come after in turn. `JoinedIsWhole`: joined code
   leaves main after all of it.
2. The inductive invariant `IInv`. What is pending is numbered in the order of the host
   (`Numbered`) and covered by main (`Covered`), so a wait for main is a wait for all
   (`MainIsLast`). Of two pending kernels that clash the earlier precedes the later
   (`Ordered`): `Precedes` says that every set of pending kernels which is closed under
   what its members wait for, and has the later, has the earlier; as the device removes
   kernels that nothing holds back, this stays so without a word about paths. A launch
   adds kernels that all come after main, hence after all that is pending, and among
   themselves as `RaceFree` says, for what it takes a kernel to come after (`past`) is
   in every closed set that has it. The host waits for what is pending before it uses
   a pinned buffer that a kernel may touch (`WaitsFirst`), and for what it has still to
   launch likewise (`WaitsLater`). The steps left are in order
   (`StepsInOrder`: a capture comes right after a wait, and after the plan was looked
   up), there is one plan per shape, and `GraphsFit`: a graph is of launch code that is
   sound (`SafeOut`); if its key has the present generation it holds the present
   addresses, and if the present evictions a plan that is there; other keys are of the
   past, since both numbers only grow.
3. `IInv` gives `KernelsAreDisjoint`, and with `BareInv` `GraphsAreValid`. That one
   assumes `FixedGeometry`: a call that keeps "bare" graphs asks at least as much of each
   block as any call it is mixed with. `BareInv` then says that the blocks under such a
   graph stay as they were when it was recorded, so it holds the present addresses though
   its key does not say so. Without the assumption the statement is false, as
   `streams_growing` shows. `KernelsAreDisjoint`: two kernels that are ready
   wait for nothing, so neither precedes the other, so they do not clash (`ReadyApart`).
4. A second invariant, `VInv`, is inductive together with `IInv` and gives
   `KernelsReadCurrent`. `Finds(b, n, v)` says that buffer b will hold v when it is the
   turn of kernel n: the last pending kernel before n that writes b gives it v, or there
   is none and b holds v now. `Valued`: every pending kernel finds so what it expects.
   `Current`: so will the next one find the present version of b. A launch or replay adds
   kernels that find what `Supports` says, because the writers of b that are pending come
   before those that enter (`EarlierEntered`, `KeptIsFound`, `EnterCurrent`). That a
   kernel executes changes nothing of it (`ExecutionFinds`): it gives what it was to give,
   and by `Ordered` no kernel that is ready writes what an earlier one has still to read
   or write. `CallFed`: the steps left find what they use (`Feeds`), also where a launch
   is taken apart at its plan and has its recording behind it (`PartsFed`).
   `GraphsKnown`: a graph is what some launch code of the call in its key launched from
   some member of `Leftover`, not from what the runner holds when it is replayed. A kernel
   that is ready has no pending writer before it (`ReadyFirst`), so what it is to find is
   there.

**Model-checked only.**

- Liveness (`EveryRequestSettles`, `EveryCallEnds`, `ShutdownInterrupts`,
  `QueueIsFair`, `SlotsComeBack`), which the provers do not handle under fairness.
- The four properties of `Block`: they say of each kernel what its threads compute, and
  kernels are data.


## 5. Not modelled, and what was left out of what is

PROJECT.json gives the status and the reason for every part. Of the parts that are
modelled:

- **Environment settings.** The models take the defaults and the settings that the
  README and SETUP.md name; of the others, those that change the buffers or streams
  of a call are settings of `MCStreams` where the code keeps them working. Left out
  are GEVVA_CUDNN_TEXT_PREFILL, GEVVA_STAGED_ATTENTION, and three combinations that
  reading shows to be wrong and no document offers: scalar attention
  (GEVVA_SCALAR_SLIDING_ATTENTION, GEVVA_SCALAR_GLOBAL_ATTENTION) with the fused
  direct QKV transform stages K and V that were not transformed; a vision FP8 mask
  without "o" may reuse an activation of the layer before; and
  GEVVA_NVFP4_VOCAB_SINGLE_PROBLEM with four candidates per tile, or with the grouped
  reduction disabled, reads row-major logits in the grouped layout.
- **Graph keys.** The graphs of the single verifier and of the seeded assistant are
  modelled, and the generation their keys lack is the finding above. The keys also lack
  the addresses of the K/V cache, the candidates, the continuation state and the drafts,
  and the assistant's the number of drafts; the models have one session, whose caches
  stay, so these are not varied. In the repository `benchmark_assistant_step` is called
  by one diagnostic, without a context, and `benchmark_target_verifier` by none. The batch
  key (GEVVA_DECODE_GRAPHS) omits the pointers of contexts and drafts that a caller may
  pass from the device.
- **Throws.** Missing K or V, or a failed launch, leaves streams forked and borrowed
  rows of a ring unrestored; the decision worker, which goes on, forgets the caches of
  the request (`DecisionCache`), diagnostics end. A throw of `capture_graph` is not modelled, for nothing says what is promised afterwards.
  `BuildFails` takes the device to have caught up with what was queued.
- **Staging.** The assistant's batch ends without a wait, so a caller must follow it by
  the verifier on the same stream before it uses the pinned buffer again; the mixes of
  `MCStreams` do.
- **Cohort views.** `prepare_verifier_views` and `prepare_assistant_views`
  (`src/runtime.cpp`) rebuild device views when the address of a cache changes. A new
  cache at the address of an old one would go unnoticed; addresses are abstract here.
- **Kernels.** Per-element kernels share nothing; tensor-core kernels
  (`tiled_attention.cu`, CUTLASS, cuDNN) work on fragments whose layout the hardware
  defines. Rounding is not modelled: values are symbolic.
- **Pure functions**: tokenizer, resize plan, prompt expansion, JSON, file formats.


## 6. Plan

The state of the system is modelled and the safety of its parts proved, the text that
is said included, and so is that of the composition of scheduler and transport. What is
left to TLC is liveness, and the properties of `Block`, which are about what each kernel
computes; kernels are data.
