------------------------------- MODULE KvRing -------------------------------
(***************************************************************************)
(* The device side of one session's KV cache, and every kernel that writes *)
(* or reads it: prefill appends, read-only question prefills, the decode   *)
(* step, the assistant's reads, and the verifier's staged candidates with  *)
(* their commit (kv_append.cuh, kv_commit.cuh, the ragged, decode and      *)
(* decision attention kernels and their launchers).                        *)
(*                                                                         *)
(* A sliding layer keeps the last Window tokens in a ring stored three     *)
(* times, plus a short fourth copy, so that a batched GEMM can read any    *)
(* window, and the candidates behind it, as one contiguous interval.  Each *)
(* append must refresh every copy, and each direct verification borrows    *)
(* rows of the copies and must give them back.  A global layer keeps every *)
(* token at its own row.                                                   *)
(*                                                                         *)
(* A row of the cache is [pos, tok]: the K/V of token tok at position pos. *)
(* A query's view maps each position it attends to the row it found there; *)
(* "scored" is what the score kernels read, "summed" what the value kernels*)
(* accumulate, and the two differ where the split into partitions is wrong.*)
(***************************************************************************)
EXTENDS Integers, Sequences, FiniteSets

CONSTANTS
  Window,          \* 1024 slots
  MaxTokens,       \* CandidateKvCache::kMaximumTokens, 5
  Block,           \* 256 threads of a softmax block, tokens of a partition
  MaxPartitions,   \* 16
  Align,           \* 8 keys
  MaxContext,      \* bound: tokens the session reserved
  Slack,           \* bound: how far a neighbour of the batch may be ahead
  ChunkSizes,      \* bound: tokens of one prefill
  Tokens,          \* what drafts may hold
  PromptTokens,    \* bound: what prompts may hold
  Paths,           \* the pairs of paths, ring and global, to verify by
  Predict(_)       \* the model's choice from the last query's view

VerifierPaths == {"single", "scalar", "packed", "direct"}

ASSUME RingAssumption ==
  /\ Window \in Nat \ {0} /\ MaxTokens \in 1..Window
  /\ Block \in Nat \ {0} /\ Window = 4 * Block
  /\ MaxPartitions \in Nat \ {0} /\ Align \in Nat \ {0}
  /\ MaxContext \in Nat /\ Slack \in Nat /\ ChunkSizes \subseteq Nat \ {0}
  /\ Paths \subseteq VerifierPaths \X VerifierPaths

VARIABLES
  text,       \* tokens whose K/V is committed: positions 0..Len(text)-1
  pending,    \* the token chosen last, not yet in the cache (<< >> in a prompt)
  sliding,    \* rows of a sliding layer
  global,     \* rows of a global layer
  candidate,  \* the candidate caches: [sliding, global]
  verify,     \* the verification under way
  seen        \* the views of the last queries

vars == <<text, pending, sliding, global, candidate, verify, seen>>

Min2(a, b) == IF a < b THEN a ELSE b
CeilDiv(a, b) == (a + b - 1) \div b
RoundUp(a) == Align * CeilDiv(a, Align)
Row(p, t) == [pos |-> p, tok |-> t]
Junk == [pos |-> -1, tok |-> 0]
SlidingRows == 0 .. 3 * Window + MaxTokens - 2
View(scored, summed) == [scored |-> scored, summed |-> summed]
Same(f) == View(f, f)

-----------------------------------------------------------------------------
(* Writers                                                                  *)

\* The copies of a position's slot.
Copies(p) ==
  LET slot == p % Window
  IN  {slot, slot + Window, slot + 2 * Window}
        \union (IF slot < MaxTokens - 1 THEN {slot + 3 * Window} ELSE {})

\* append_sliding_duplicated_kv_kernel, from append_qkv_batch's source_begin.
AppendSliding(cache, position, rows) ==
  LET begin == IF Len(rows) > Window THEN Len(rows) - Window ELSE 0
      Source(r) == {i \in begin + 1 .. Len(rows) : r \in Copies(position + i - 1)}
  IN  [r \in DOMAIN cache |->
         IF Source(r) = {} THEN cache[r] ELSE rows[CHOOSE i \in Source(r) : TRUE]]

AppendGlobal(cache, position, rows) ==
  [r \in DOMAIN cache |->
     IF r \in position .. position + Len(rows) - 1 THEN rows[r - position + 1] ELSE cache[r]]

\* The commit kernels: the first `count' candidates, to every copy.
CommitSliding(cache, staged, position, count) ==
  LET Source(r) == {i \in 0 .. count - 1 : r \in Copies(position + i)}
  IN  [r \in DOMAIN cache |->
         IF Source(r) = {} THEN cache[r] ELSE staged[CHOOSE i \in Source(r) : TRUE]]

CommitGlobal(cache, staged, position, count) ==
  [r \in DOMAIN cache |->
     IF r \in position .. position + count - 1 THEN staged[r - position] ELSE cache[r]]

\* stage_candidate_kv and the batch kernel: the rows of one verification.
StageCandidates(staged, rows) ==
  [i \in DOMAIN staged |-> IF i < Len(rows) THEN rows[i + 1] ELSE staged[i]]

\* Mutant: counts every agreement instead of the agreeing prefix.
MatchedAnywhere(drafts, targets) == Cardinality({i \in 1 .. Len(drafts) : drafts[i] = targets[i]})

\* The longest prefix of drafts the target model agrees with.
Matched(drafts, targets) ==
  CHOOSE n \in 0 .. Len(drafts) :
    /\ \A i \in 1..n : drafts[i] = targets[i]
    /\ n < Len(drafts) => drafts[n + 1] # targets[n + 1]

-----------------------------------------------------------------------------
(* Prefill attention                                                        *)

\* The chronological copy of the ring that a suffix is appended to.
CopyPast(cache, prefix) ==
  LET past == Min2(prefix, Window)
      slot == (prefix - past) % Window
      first == Min2(past, Window - slot)
  IN  [i \in 0 .. past - 1 |-> IF i < first THEN cache[slot + i] ELSE cache[i - first]]

\* pack_decision_keys_kernel: the prefix the read-only prefill materialises.
PackPast(cache, prefix, isGlobal) ==
  LET past == IF isGlobal THEN prefix ELSE Min2(prefix, Window)
  IN  [i \in 0 .. past - 1 |-> cache[IF isGlobal THEN i ELSE (prefix - past + i) % Window]]

\* The segmented path reads the prefix in place, across the seam of the copies.
SegmentPast(cache, prefix, isGlobal) ==
  LET past == IF isGlobal THEN prefix ELSE Min2(prefix, Window)
      slot == IF isGlobal THEN 0 ELSE (prefix - past) % Window
  IN  [i \in 0 .. past - 1 |-> cache[slot + i]]

\* Keys: the past, then the new rows, then zeros.
KeysOf(past, rows, count) ==
  LET n == Cardinality(DOMAIN past)
  IN  [i \in 0 .. count - 1 |->
         IF i < n THEN past[i] ELSE IF i < n + Len(rows) THEN rows[i - n + 1] ELSE Junk]

\* prefill_softmax_kernel's `allowed': causal within the window, or the same
\* image block of the rows being prefilled.
PrefillView(keys, base, query, prefix, tokens, block, isSliding) ==
  LET Allowed(p) == \/ /\ p <= query
                       /\ isSliding => p > query - Window
                    \/ /\ p - prefix \in 0 .. tokens - 1
                       /\ p - prefix \in block /\ query - prefix \in block
      positions == {p \in base .. base + Cardinality(DOMAIN keys) - 1 : Allowed(p)}
  IN  Same([p \in positions |-> keys[p - base]])

\* uniform_batch_prefill_softmax_kernel derives the base from the key count.
UniformView(keys, query, prefix, tokens, block, isSliding) ==
  LET count == Cardinality(DOMAIN keys)
      base == IF isSliding THEN prefix - (count - tokens) ELSE 0
  IN  PrefillView(keys, base, query, prefix, tokens, block, isSliding)

\* decision_segmented_softmax_kernel over prefix columns, a gap that aligns the
\* suffix, and suffix columns.
SegmentedView(past, rows, tokens, index, prefix, isSliding) ==
  LET n == Cardinality(DOMAIN past)
      stored == RoundUp(n)
      Position(key) == IF key < n THEN key ELSE n + key - stored
      Allowed(key) == /\ ~(key >= n /\ key < stored)
                      /\ Position(key) <= n + index
                      /\ isSliding => Position(key) > n + index - Window
      Held(key) == IF key < n THEN past[key]
                   ELSE IF key - stored < Len(rows) THEN rows[key - stored + 1] ELSE Junk
      keys == {key \in 0 .. stored + RoundUp(tokens) - 1 : Allowed(key)}
      At(p) == CHOOSE key \in keys : Position(key) = p
  IN  Same([p \in {prefix - n + Position(key) : key \in keys} |-> Held(At(p - (prefix - n)))])

-----------------------------------------------------------------------------
(* Decode attention                                                         *)

\* The value kernels' chunks: partition k sums [k*chunk, (k+1)*chunk).
Chunks(attended, partitions) ==
  LET chunk == CeilDiv(attended, partitions)
  IN  UNION {k * chunk .. Min2((k + 1) * chunk, attended) - 1 : k \in 0 .. partitions - 1}

\* First attended position of a query whose context ends before `end'.
First(end, isRing) == IF isRing /\ end > Window THEN end - Window ELSE 0
Slot(p, isRing) == IF isRing THEN p % Window ELSE p

\* launch_decode_attention: one warp for up to four tokens, else scores over all
\* tokens and values over one or several partitions.
DecodeView(cache, context, isRing) ==
  LET first == First(context, isRing)
      attended == context - first
      partitions == IF attended <= 4 THEN 1 ELSE Min2(MaxPartitions, CeilDiv(attended, Block))
      Held(p) == cache[Slot(p, isRing)]
  IN  View([p \in first .. context - 1 |-> Held(p)],
           [p \in {first + l : l \in Chunks(attended, partitions)} |-> Held(p)])

\* The batch kernels: `base' is the context of the first row, itself included.
BatchScores(cache, staged, base, row, isRing) ==
  LET context == base + row
  IN  [p \in First(context, isRing) .. context - 1 |->
         IF p >= base - 1 THEN staged[p - (base - 1)] ELSE cache[Slot(p, isRing)]]

BatchValues(cache, staged, base, row, isRing, partitions) ==
  LET context == base + row
      first == First(context, isRing)
  IN  [p \in {first + l : l \in Chunks(context - first, partitions)} |->
         IF p >= base - 1 THEN staged[p - (base - 1)] ELSE cache[Slot(p, isRing)]]

\* launch_decode_attention_batch: partitions follow the longest row.
BatchView(cache, staged, base, tokens, row, isRing) ==
  LET longest == base + tokens - 1
      stride == IF isRing THEN Min2(longest, Window) ELSE longest
  IN  View(BatchScores(cache, staged, base, row, isRing),
           BatchValues(cache, staged, base, row, isRing,
                       Min2(MaxPartitions, CeilDiv(stride, Block))))

\* The ragged kernels.  The assistant reads no candidates (staged = << >>).
RaggedContext(cached, staged, step) == IF staged = << >> THEN cached ELSE cached + step + 1

RaggedScores(cache, staged, cached, step, isRing) ==
  LET context == RaggedContext(cached, staged, step)
  IN  [p \in First(context, isRing) .. context - 1 |->
         IF staged # << >> /\ p >= cached THEN staged[p - cached] ELSE cache[Slot(p, isRing)]]

RaggedValues(cache, staged, cached, step, isRing, partitions) ==
  LET context == RaggedContext(cached, staged, step)
      first == First(context, isRing)
  IN  [p \in {first + l : l \in Chunks(context - first, partitions)} |->
         IF staged # << >> /\ p >= cached THEN staged[p - cached] ELSE cache[Slot(p, isRing)]]

\* global_gqa_attention_scores_kernel: tiles of eight keys shared by eight heads.
GroupedScores(cache, cached, stride) ==
  LET Tile(b) == b * Align .. b * Align + Min2(Align, cached - b * Align) - 1
  IN  [p \in UNION {Tile(b) : b \in 0 .. CeilDiv(stride, Align) - 1} |-> cache[p]]

\* launch_ragged_attention: strides and partitions follow the batch's longest
\* context `span'.
RaggedView(cache, staged, cached, step, span, isRing, grouped) ==
  LET stride == IF isRing THEN Min2(span, Window) ELSE span
      partitions == Min2(MaxPartitions, CeilDiv(stride, Block))
  IN  View(IF grouped THEN GroupedScores(cache, cached, stride)
                      ELSE RaggedScores(cache, staged, cached, step, isRing),
           RaggedValues(cache, staged, cached, step, isRing, partitions))

-----------------------------------------------------------------------------
(* GEMM attention: a contiguous pool of keys, then a softmax that masks     *)

\* launch_gemm_softmax: how many columns the chosen variant covers.
SoftmaxColumns(keys, fast) ==
  IF ~fast \/ keys > 5 * Block THEN keys
  ELSE IF keys <= Block THEN Block
  ELSE IF keys <= 2 * Block THEN 2 * Block
  ELSE IF keys <= 4 * Block THEN 4 * Block ELSE 5 * Block

\* The softmax kernels' mask over the pool, whose first key is at pool_first.
\* `own' is 1 when a row attends to its own candidate, 0 for the assistant.
GemmSoftmax(keys, cached, step, own, isRing, fast) ==
  LET count == Cardinality(DOMAIN keys)
      end == cached + step + own
      history == Window - own
      poolFirst == IF isRing /\ cached > history THEN cached - history ELSE 0
      covered == {l \in 0 .. count - 1 : l < SoftmaxColumns(count, fast)}
      visible == {poolFirst + l : l \in covered} \cap (First(end, isRing) .. end - 1)
  IN  Same([p \in visible |-> keys[p - poolFirst]])

\* pack_ragged_gemm_attention_kernel: history from the ring, new rows, zeros.
PackKeys(cache, rows, cached, count, isRing) ==
  LET poolFirst == IF isRing /\ cached > Window - 1 THEN cached - (Window - 1) ELSE 0
      Held(p) == IF p >= cached + Len(rows) THEN Junk
                 ELSE IF p >= cached THEN rows[p - cached + 1] ELSE cache[Slot(p, isRing)]
  IN  [l \in 0 .. count - 1 |-> Held(poolFirst + l)]

\* launch_ragged_gemm_attention and the verifier's call of the direct path.
KeyTokens(span, tokens, isRing) == IF isRing THEN Min2(span, Window + tokens - 1) ELSE span

\* Mutant: the assistant's start, whose history is one token longer.
TailStartOfAssistant(cached) == IF cached > Window THEN (cached - Window) % Window ELSE 0

\* prepare_direct_attention_kernel: where the history starts in the second copy.
TailStart(cached) == IF cached > Window - 1 THEN (cached - (Window - 1)) % Window ELSE 0

TailRow(cached, step) == Window + TailStart(cached) + Min2(cached, Window - 1) + step

\* prepare_direct_attention_kernel and transform_qkv_direct_attention_kernel put
\* the new rows behind the history, in the copies (ring) or in place (global).
StageLive(cache, rows, cached, isRing) ==
  LET Live(step) == IF isRing THEN TailRow(cached, step) ELSE cached + step
      Source(r) == {i \in 1 .. Len(rows) : r = Live(i - 1)}
  IN  [r \in DOMAIN cache |->
         IF Source(r) = {} THEN cache[r] ELSE rows[CHOOSE i \in Source(r) : TRUE]]

\* The interval the batched GEMM reads through key_pointers.
DirectKeys(cache, cached, count, isRing) ==
  [l \in 0 .. count - 1 |-> cache[IF isRing THEN Window + TailStart(cached) + l ELSE l]]

\* Mutant: restores a row per draft and forgets the token before them.
RestoreTailDrafts(cache, cached, tokens) ==
  [r \in DOMAIN cache |->
     IF r \in {TailRow(cached, step) : step \in 0 .. tokens - 2}
     THEN cache[r % Window] ELSE cache[r]]

\* unpack_ragged_gemm_attention_kernel gives the borrowed rows back.
RestoreTail(cache, cached, tokens) ==
  [r \in DOMAIN cache |->
     IF r \in {TailRow(cached, step) : step \in 0 .. tokens - 1}
     THEN cache[r % Window] ELSE cache[r]]

\* prepare_assistant_direct_attention_kernel: the last Window tokens.
AssistantKeys(cache, cached, span, isRing) ==
  LET start == IF isRing /\ cached > Window THEN (cached - Window) % Window ELSE 0
      count == IF isRing THEN Min2(span, Window) ELSE span
  IN  [l \in 0 .. count - 1 |-> cache[IF isRing THEN Window + start + l ELSE l]]

-----------------------------------------------------------------------------
(* The session                                                              *)

Cached == Len(text)
RowsOf(tokens) == [i \in 1 .. Len(tokens) |-> Row(Cached + i - 1, tokens[i])]
Repeat(t, n) == [i \in 1..n |-> t]

\* What one query saw: it stands after `base' committed tokens, in a call whose
\* new tokens are `tokens', its context ends before `end', and `block' are the
\* rows of the call's image.
Query(tokens, block, end, ring, all) ==
  [base |-> Cached, tokens |-> tokens, block |-> block, end |-> end,
   sliding |-> ring, global |-> all]

Init ==
  /\ text = << >> /\ pending = << >>
  /\ sliding = [r \in SlidingRows |-> Junk]
  /\ global = [r \in 0 .. MaxContext - 1 |-> Junk]
  /\ candidate = [layer \in {"sliding", "global"} |-> [i \in 0 .. MaxTokens - 1 |-> Junk]]
  /\ verify = << >>
  /\ seen = << >>

\* A prompt chunk, alone (uniform = FALSE) or in a uniform batch.  An image
\* block never holds the chunk's last row.
Prefill(n, t, block, uniform) ==
  LET rows == RowsOf(Repeat(t, n))
      past == CopyPast(sliding, Cached)
      ringKeys == KeysOf(past, rows, Cardinality(DOMAIN past) + n)
      appended == AppendGlobal(global, Cached, rows)
      allKeys == [i \in 0 .. Cached + n - 1 |-> appended[i]]
      Saw(keys, base, query, isSliding) ==
        IF uniform THEN UniformView(keys, query, Cached, n, block, isSliding)
        ELSE PrefillView(keys, base, query, Cached, n, block, isSliding)
      At(i) == LET query == Cached + i - 1
               IN  Query(Repeat(t, n), IF i - 1 \in block THEN block ELSE {}, query + 1,
                         Saw(ringKeys, Cached - Cardinality(DOMAIN past), query, TRUE),
                         Saw(allKeys, 0, query, FALSE))
  IN  /\ pending = << >> /\ Cached + n <= MaxContext
      /\ sliding' = AppendSliding(sliding, Cached, rows)
      /\ global' = appended
      /\ text' = text \o Repeat(t, n)
      /\ seen' = [i \in 1..n |-> At(i)]
      /\ UNCHANGED <<pending, candidate, verify>>

\* Questions asked of a shared prefix: nothing is written to the cache.  `longest'
\* is the row count the batch pads this question to.
AskReadOnly(n, t, longest, segmented) ==
  LET rows == RowsOf(Repeat(t, n))
      past(isGlobal) == PackPast(IF isGlobal THEN global ELSE sliding, Cached, isGlobal)
      count(isGlobal) == IF isGlobal THEN RoundUp(Cached) + RoundUp(longest)
                         ELSE Min2(Cached, Window) + longest
      Saw(i, isGlobal) ==
        IF segmented
        THEN SegmentedView(SegmentPast(IF isGlobal THEN global ELSE sliding, Cached, isGlobal),
                           rows, longest, i - 1, Cached, ~isGlobal)
        ELSE UniformView(KeysOf(past(isGlobal), rows, count(isGlobal)),
                         Cached + i - 1, Cached, longest, {}, ~isGlobal)
  IN  /\ pending = << >> /\ text # << >> /\ Cached + longest <= MaxContext
      /\ seen' = [i \in 1..n |->
                    Query(Repeat(t, n), {}, Cached + i, Saw(i, FALSE), Saw(i, TRUE))]
      /\ UNCHANGED <<text, pending, sliding, global, candidate, verify>>

Choose(query) == Predict([sliding |-> query.sliding, global |-> query.global])

\* The prompt's last hidden row picks the first token.
FirstToken ==
  /\ pending = << >> /\ seen # << >> /\ seen[Len(seen)].end = Cached
  /\ pending' = <<Choose(seen[Len(seen)])>>
  /\ UNCHANGED <<text, sliding, global, candidate, verify, seen>>

\* launch_qkv_transform appends the token, launch_decode_attention reads it back.
Decode ==
  LET rows == RowsOf(pending)
      ring == AppendSliding(sliding, Cached, rows)
      all == AppendGlobal(global, Cached, rows)
      query == Query(pending, {}, Cached + 1,
                     DecodeView(ring, Cached + 1, TRUE), DecodeView(all, Cached + 1, FALSE))
  IN  /\ pending # << >> /\ verify = << >> /\ Cached < MaxContext
      /\ sliding' = ring /\ global' = all
      /\ text' = text \o pending
      /\ pending' = <<Choose(query)>>
      /\ seen' = <<query>>
      /\ UNCHANGED <<candidate, verify>>

\* The assistant drafts from the target's cache, which it never writes.
Draft(path, span) ==
  LET Saw(cache, isRing) ==
        CASE path = "decode" -> DecodeView(cache, Cached, isRing)
          [] path = "direct" -> GemmSoftmax(AssistantKeys(cache, Cached, span, isRing),
                                            Cached, 0, 0, isRing, FALSE)
          [] OTHER -> RaggedView(cache, << >>, Cached, 0, span, isRing,
                                 path = "grouped" /\ ~isRing)
  IN  /\ pending # << >> /\ verify = << >>
      /\ seen' = <<Query(<< >>, {}, Cached, Saw(sliding, TRUE), Saw(global, FALSE))>>
      /\ UNCHANGED <<text, pending, sliding, global, candidate, verify>>

\* A verification of `drafts', by a path for each kind of layer (path[1] sliding,
\* path[2] global); `span' is the longest context of its batch.  Direct paths
\* stage into the live cache.
BeginVerify(drafts, path, span, fast) ==
  LET tokens == pending \o drafts
      rows == RowsOf(tokens)
  IN  /\ pending # << >> /\ verify = << >>
      /\ Cached + Len(tokens) <= span /\ span <= MaxContext
      /\ path[1] = "single" => drafts # << >> /\ span = Cached + Len(tokens)
      /\ fast => path[1] \in {"packed", "direct"}
      /\ verify' = [drafts |-> drafts, ring |-> path[1], all |-> path[2], span |-> span,
                    fast |-> fast, stage |-> "staged", targets |-> << >>]
      /\ sliding' = IF path[1] = "direct" THEN StageLive(sliding, rows, Cached, TRUE)
                                           ELSE sliding
      /\ global' = IF path[2] = "direct" THEN StageLive(global, rows, Cached, FALSE) ELSE global
      /\ candidate' = [layer \in DOMAIN candidate |-> StageCandidates(candidate[layer], rows)]
      /\ seen' = << >>
      /\ UNCHANGED <<text, pending>>

InFlight(stage) == verify # << >> /\ verify.stage = stage

VerifyView(path, cache, staged, step, isRing) ==
  LET rows == RowsOf(pending \o verify.drafts)
      count == KeyTokens(verify.span, Len(rows), isRing)
  IN  CASE path = "single" -> BatchView(cache, staged, Cached + 1, Len(rows), step, isRing)
        [] path = "scalar" -> RaggedView(cache, staged, Cached, step, verify.span, isRing, FALSE)
        [] path = "packed" -> GemmSoftmax(PackKeys(cache, rows, Cached, count, isRing),
                                          Cached, step, 1, isRing, verify.fast)
        [] path = "direct" -> GemmSoftmax(DirectKeys(cache, Cached, count, isRing),
                                          Cached, step, 1, isRing, verify.fast)

Attend ==
  LET tokens == pending \o verify.drafts
      At(i) == Query(tokens, {}, Cached + i,
                     VerifyView(verify.ring, sliding, candidate["sliding"], i - 1, TRUE),
                     VerifyView(verify.all, global, candidate["global"], i - 1, FALSE))
  IN  /\ InFlight("staged")
      /\ seen' = [i \in 1 .. Len(tokens) |-> At(i)]
      /\ verify' = [verify EXCEPT !.stage = "attended",
                                  !.targets = [i \in 1 .. Len(tokens) |-> Choose(At(i))]]
      /\ UNCHANGED <<text, pending, sliding, global, candidate>>

\* The unpack kernel of a direct sliding layer, fused with FP8 quantisation or not.
Unpack ==
  /\ InFlight("attended")
  /\ sliding' = IF verify.ring = "direct"
                THEN RestoreTail(sliding, Cached, Len(verify.drafts) + 1) ELSE sliding
  /\ verify' = [verify EXCEPT !.stage = "unpacked"]
  /\ UNCHANGED <<text, pending, global, candidate, seen>>

\* The commit kernel compares, reports and copies the accepted rows.
Commit ==
  LET matched == Matched(verify.drafts, verify.targets)
  IN  /\ InFlight("unpacked")
      /\ sliding' = CommitSliding(sliding, candidate["sliding"], Cached, matched + 1)
      /\ global' = CommitGlobal(global, candidate["global"], Cached, matched + 1)
      /\ text' = text \o pending \o SubSeq(verify.drafts, 1, matched)
      /\ pending' = <<verify.targets[matched + 1]>>
      /\ verify' = << >>
      /\ UNCHANGED <<candidate, seen>>

Drafts == UNION {[1..n -> Tokens] : n \in 0 .. MaxTokens - 1}
Spans(least) == {least, least + Slack} \cap 1 .. MaxContext

Next ==
  \/ \E n \in ChunkSizes, t \in PromptTokens, uniform \in BOOLEAN :
       \E block \in {{}, 1 .. n - 2} : Prefill(n, t, block, uniform)
  \/ \E n \in 1..2, t \in PromptTokens, longest \in 2..3, segmented \in BOOLEAN :
       AskReadOnly(n, t, longest, segmented)
  \/ FirstToken
  \/ Decode
  \/ \E path \in {"decode", "ragged", "grouped", "direct"}, span \in Spans(Cached) :
       Draft(path, span)
  \/ \E drafts \in Drafts, path \in Paths, fast \in BOOLEAN :
       \E span \in Spans(Cached + Len(drafts) + 1) : BeginVerify(drafts, path, span, fast)
  \/ Attend \/ Unpack \/ Commit

Spec == Init /\ [][Next]_vars

-----------------------------------------------------------------------------
(* Properties                                                               *)

\* The rows a query ending at `end' of `line' must attend to.
Due(line, positions) == [p \in positions |-> Row(p, line[p + 1])]
WindowOf(end) == First(end, TRUE) .. end - 1

\* Every query, whatever kernel served it, reads exactly the last Window tokens
\* of its own text on a sliding layer and all of them on a global one (and its
\* image block), each once, its scores and its values alike: no stale, borrowed
\* or missing row, wherever the ring stands (hazard kv_append.cuh:42).
QueriesSeeTheirWindow ==
  \A i \in 1 .. Len(seen) :
    LET query == seen[i]
        line == SubSeq(text, 1, query.base) \o query.tokens
        block == {query.base + b : b \in query.block}
    IN  /\ query.sliding = Same(Due(line, WindowOf(query.end) \union block))
        /\ query.global = Same(Due(line, (0 .. query.end - 1) \union block))

\* Between verifications every copy of a slot equals the first, and the ring
\* holds the newest token of each slot: what the borrowed rows were is restored
\* and what was accepted reached all copies.
CopiesAgree ==
  verify = << >> =>
    /\ \A r \in SlidingRows : sliding[r] = sliding[r % Window]
    /\ \A p \in WindowOf(Cached) : sliding[p % Window] = Row(p, text[p + 1])

\* The abstract text: a token after `line' is what the model picks from it.
Foresee(line) ==
  Predict([sliding |-> Same(Due(line, WindowOf(Len(line)))),
           global |-> Same(Due(line, 0 .. Len(line) - 1))])

Promise == INSTANCE GreedyText
             WITH NextToken <- Foresee, line <- text \o pending, generating <- pending # << >>

\* Drafting, staging, rejection and the paths change nothing in what is said:
\* the text is the one plain greedy decoding would have produced.
SpeculationIsGreedy == Promise!Spec
=============================================================================
