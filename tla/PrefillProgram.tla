--------------------------- MODULE PrefillProgram ---------------------------
(***************************************************************************)
(* src/src/cuda/runtime/prefill.cuh: the kernels of one prompt chunk       *)
(* (o.batch FALSE) or of one chunk each of several sessions, in the        *)
(* order the host enqueues them.  `o' holds the settings the code tests:   *)
(*   concurrent  prefill_concurrency      combined  combined QKV transform *)
(*   direct      direct_outputs           finalize  fused_expert_finalize  *)
(*   prefix      prefix_tokens > 0        bucket    bucket_text_prefix     *)
(*   kvOnly, images, uniform (uniform_attention), readOnly, segmented,     *)
(*   decision (decision_only), nvfp4 (nvfp4_vocab), retain, sessions.      *)
(* `global' says whether the layer attends to the whole context.           *)
(***************************************************************************)
EXTENDS ExpertProgram, SequencesExt

Side(o, s) == IF o.concurrent THEN s ELSE Main
\* The workspace of a product is that of its stream.
Space(o, i) == IF o.concurrent THEN i ELSE 0
Cache(global, i) == IF global THEN <<"pages1", "pages2">>[i] ELSE <<"ring1", "ring2">>[i]
Sequence(n, Op(_)) == FlattenSeq([i \in 1 .. n |-> Op(i)])
Scales(global) == {"q_scale", "k_scale"} \cup (IF global THEN {} ELSE {"v_scale"})
Projected(global) == {"q", "k"} \cup (IF global THEN {} ELSE {"v"})

\* Q, K and V of a layer, each on its own stream; V of a global layer is K.
PrefillQkv(o, global, current) ==
    PrepareNorm(Main, current, "normalized")
    \o When(o.concurrent, Begin(Auxiliary) \o When(~global, Begin(Tertiary)))
    \o Unscaled(Main, "normalized", "q", "q_scale", 0, o.direct)
    \o Unscaled(Side(o, Auxiliary), "normalized", "k", "k_scale", Space(o, 1), o.direct)
    \o When(~global, Unscaled(Side(o, Tertiary), "normalized", "v", "v_scale", Space(o, 2), o.direct))
    \o When(o.concurrent, End(Auxiliary) \o When(~global, End(Tertiary)))

\* Norms, rotary positions and the scales of the FP8 products.
PrefillTransform(o, global) ==
    IF o.combined
    THEN Scaled(Main, Projected(global), {"q", "k", "v"}, Scales(global))
    ELSE Scaled(Main, Projected(global), Projected(global), Scales(global))
         \o Kernel(Main, Projected(global), {"q", "k", "v"})
-----------------------------------------------------------------------------
(* One prompt chunk: benchmark_target_prefill().                           *)

Attend(keys) == Kernel(Main, {"q", "metadata"} \cup keys, {"scores", "pointers", "attended"})

\* The ring in the order of time and the chunk after it; then the ring moves on.
SingleSliding(o) ==
    When(o.prefix, Kernel(Main, {Cache(FALSE, 1)}, {"combined"}) \o Kernel(Main, {"k", "v", "combined"}, {"combined"}))
    \o Kernel(Main, {"k", "v"}, {Cache(FALSE, 1)})
    \o (IF o.bucket THEN Kernel(Main, {}, {"q_tail", "k_tail", "v_tail"})
                          \o Kernel(Main, {"q", "k", "v", "q_tail", "k_tail", "v_tail"}, {"attended"})
        ELSE Attend(IF o.prefix THEN {"combined"} ELSE {"k", "v"}))

\* Global rows are appended first, and attended to where they are.
SingleGlobal(o) ==
    Kernel(Main, {"k", "v"}, {Cache(TRUE, 1)}) \o Attend({Cache(TRUE, 1)})

SingleAttention(o, global) == IF global THEN SingleGlobal(o) ELSE SingleSliding(o)

-----------------------------------------------------------------------------
(* Several sessions: benchmark_target_prefill_batch().                     *)

\* Sessions whose geometry differs follow one another, and share `combined'.
SessionAttention(o, global, i) ==
    IF global
    THEN Kernel(Main, {"k", "v"}, {Cache(TRUE, i)}) \o Attend({Cache(TRUE, i)})
    ELSE When(o.prefix, Kernel(Main, {Cache(FALSE, i)}, {"combined"})
                        \o Kernel(Main, {"k", "v", "combined"}, {"combined"}))
         \o Kernel(Main, {"k", "v"}, {Cache(FALSE, i)})
         \o Attend(IF o.prefix THEN {"combined"} ELSE {"k", "v"})

\* Sessions alike: the copies one by one, then one append and one attention.
UniformAttention(o, global) ==
    LET all == {Cache(global, i) : i \in 1 .. o.sessions}
        copy(i) == Kernel(Main, {Cache(FALSE, i)} \cup IF i = 1 THEN {} ELSE {"combined"}, {"combined"})
                   \o Kernel(Main, {"k", "v", "combined"}, {"combined"})
    IN  When(~global /\ o.prefix, Sequence(o.sessions, copy))
        \o Kernel(Main, {"k", "v", "metadata"}, all)
        \o Attend(CASE global -> all [] ~global /\ o.prefix -> {"combined"} [] OTHER -> {"k", "v"})

\* The questions of a decision share one prefix that nobody writes.
ReadOnlyAttention(o, global) ==
    LET prefix == {Cache(global, 1)}
    IN  Kernel(Main, {"q", "metadata"}, {"padded_q"})
        \o Kernel(Main, {"k", "v", "metadata"} \cup prefix, {"combined", "views"})
        \o (IF o.segmented
            THEN Kernel(Main, {"padded_q", "combined"} \cup prefix,
                        {"scores", "accumulation", "pointers", "padded_attended"})
            ELSE Kernel(Main, {"padded_q", "combined", "views", "padded_blocks"},
                        {"scores", "pointers", "padded_attended"}))
        \o Kernel(Main, {"padded_attended", "metadata"}, {"attended"})

BatchAttention(o, global) ==
    CASE o.readOnly -> ReadOnlyAttention(o, global)
      [] ~o.readOnly /\ o.uniform -> UniformAttention(o, global)
      [] OTHER -> LET one(i) == SessionAttention(o, global, i) IN Sequence(o.sessions, one)

-----------------------------------------------------------------------------
(* The rest of a layer: both functions enqueue the same kernels.           *)

\* Output projection and residual; then the norms of router, dense and experts.
PrefillOutput(o, current) ==
    Unscaled(Main, "attended", "attention", "attention_scale", 0, o.direct)
    \o Scaled(Main, {"attention", current}, {"residual"}, {"attention_scale"})
    \o PrepareDual(Main, {"residual"}, {"dense_pre", "expert_pre"}, {}, "router_input", "dense_pre")
    \o Unscaled(Main, "router_input", "router_logits", "router_scale", 0, o.direct)
    \o Scaled(Main, {"router_logits"}, {"top"}, {"router_scale"})

\* The dense branch beside the routed experts.
PrefillDense(o) ==
    LET s == Side(o, Auxiliary)
        ws == Space(o, 1)
    IN  When(o.concurrent, Begin(Auxiliary))
        \o UseSecondary(s, "dense_pre")
        \o Unscaled(s, "dense_pre", "dense_gate", "gate_scale", ws, o.direct)
        \o Unscaled(s, "dense_pre", "dense_up", "up_scale", ws, o.direct)
        \o PrepareGelu(s, {"dense_gate", "dense_up"}, {"gate_scale", "up_scale"}, "dense_product")
        \o Unscaled(s, "dense_product", "dense_output", "down_scale", ws, o.direct)

Finalize(o, next) ==
    Scaled(Main, {"dense_output", "residual"} \cup
                 (IF o.finalize THEN {"w2_output", "top", "inverse_routes"} ELSE {"expert_output"}),
           {next}, {"down_scale"})

PrefillFeedForward(o, next) ==
    PrefillDense(o) \o ExpertLaunch(Main, o, ~o.finalize) \o When(o.concurrent, End(Auxiliary))
    \o Finalize(o, next)

PrefillLayer(o, global, current, next) ==
    PrefillQkv(o, global, current)
    \o PrefillTransform(o, global)
    \o (IF o.batch THEN BatchAttention(o, global) ELSE SingleAttention(o, global))
    \o PrefillOutput(o, current)
    \o PrefillFeedForward(o, next)

\* A sliding and a global layer stand for the thirty; current and next swap.
PrefillLayers(o) ==
    Kernel(Main, {"metadata"} \cup (IF o.images THEN {"images"} ELSE {}), {"hidden_a"})
    \o PrefillLayer(o, FALSE, "hidden_a", "hidden_b")
    \o PrefillLayer(o, TRUE, "hidden_b", "hidden_a")

SingleTail(o) ==
    When(~o.kvOnly, Kernel(Main, {"hidden_a"}, {"final_normalized"})
                    \o CompressedVocab(Main, "final_normalized", "selected"))

BatchTail(o) ==
    Kernel(Main, {"hidden_a", "metadata"}, {"final_rows"} \cup (IF o.retain THEN {"retained"} ELSE {}))
    \o When(~o.decision, Kernel(Main, {"final_rows"}, {"final_normalized"})
                         \o (IF o.nvfp4 THEN Nvfp4Vocab(Main, "final_normalized", "selected")
                             ELSE CompressedVocab(Main, "final_normalized", "selected")))

-----------------------------------------------------------------------------
(* The calls.  Timing the launch ends with a wait for main.                *)

Do(step) == <<[do |-> step]>>
HostWrites(b) == <<[do |-> "stage", buffer |-> b]>>
HostReads(b) == <<[do |-> "read", buffer |-> b]>>
Enqueues(ops) == <<[do |-> "enqueue", ops |-> ops]>>
Launches(ops, graph) == <<[do |-> "launch", ops |-> ops, graph |-> graph]>>

SinglePrefill(o) ==
    HostWrites("staging")
    \o Enqueues(Kernel(Main, {"staging"}, {"metadata"}))
    \o Launches(PrefillLayers(o) \o SingleTail(o), "none")
    \o Do("sync")
    \o When(o.retain, Enqueues(Kernel(Main, {"hidden_a"}, {"retained"})))
    \o When(~o.kvOnly, Enqueues(Kernel(Main, {"selected"}, {"staging"})) \o Do("sync") \o HostReads("staging"))

BatchPrefill(o) ==
    HostWrites("staging")
    \o Enqueues(When(o.readOnly, Kernel(Main, {}, {"padded_blocks"}))
                \o When(o.decision, Kernel(Main, {}, {"selected"}))
                \o Kernel(Main, {"staging"}, {"metadata"})
                \o When(o.images, Kernel(Main, {"projected"}, {"images"})))
    \o Launches(PrefillLayers(o) \o BatchTail(o), "none")
    \o Do("sync")
    \o When(~o.decision, Enqueues(Kernel(Main, {"selected"}, {"staging"})))
    \o Do("sync")
    \o When(~o.decision, HostReads("staging"))

-----------------------------------------------------------------------------
(* decision_logits.cuh: the rows of the options, gathered once and for all; *)
(* and a readout of hidden rows against them, or against the vocabulary.    *)

prepare_decision_head ==
    Enqueues(Kernel(Main, {}, {"head_aliases"}) \o Kernel(Main, {"head_aliases"}, {"head_rows"}))
    \o Do("sync")

\* The rows a batch retained, or rows of the host; one pinned buffer brings
\* those in and the result out.
decision_scores(o) ==
    LET input == IF o.retained THEN "retained" ELSE "readout_rows"
        aliases == IF o.prepared THEN "head_aliases" ELSE "aliases"
        selected == IF o.prepared THEN "head_rows" ELSE "selected_rows"
    IN  When(~o.retained, HostWrites("readout_staging")
                          \o Enqueues(Kernel(Main, {"readout_staging"}, {input})))
        \o Enqueues(Kernel(Main, {input}, {"readout_normalized"})
                    \o When(~o.prepared, Kernel(Main, {}, {aliases}))
                    \o When(o.options /\ ~o.prepared, Kernel(Main, {aliases}, {selected}))
                    \o Kernel(Main, {"readout_normalized"} \cup (IF o.options THEN {selected} ELSE {}), {"logits"})
                    \o Kernel(Main, {"logits"} \cup (IF o.options THEN {} ELSE {aliases}), {"summary"})
                    \o Kernel(Main, {"summary"}, {"readout_staging"}))
        \o Do("sync")
        \o HostReads("readout_staging")
=============================================================================
