-------------------------- MODULE VerifierProgram --------------------------
(***************************************************************************)
(* src/src/cuda/runtime/verifier.cuh: the target model checks drafted      *)
(* tokens, of one session (benchmark_target_verifier) or of several        *)
(* (launch_target_verifier_batch).  `o' holds the settings the batch tests:*)
(*   fusedNorm (fused_qkv_norm), combined, direct (direct_*_attention),    *)
(*   fusedDirect (fused_direct_qkv), packed (layer_gemm_attention), unpack *)
(*   (fused_attention_unpack), norms (fused_projection_norms), fuseRouter, *)
(*   fusedGateUp, parallel (parallel_dense_gate_up), finalize, nvfp4,      *)
(*   graphs (graph_decode), shared (shared_inputs).                        *)
(***************************************************************************)
EXTENDS PrefillProgram

\* Q, K and V on a stream each; `packed' only in the batch.
VerifierQkv(global, packed) ==
    PrepareNorm(Main, "current", "normalized")
    \o Begin(Auxiliary) \o When(~global, Begin(Tertiary))
    \o Unscaled(Main, "normalized", "q", "q_scale", 0, packed)
    \o Unscaled(Auxiliary, "normalized", "k", "k_scale", 1, packed)
    \o When(~global, Unscaled(Tertiary, "normalized", "v", "v_scale", 2, packed))
    \o End(Auxiliary) \o When(~global, End(Tertiary))

\* scale_fp8_qkv_output_kernel, in place.
ScaleQkv(global) == Scaled(Main, Projected(global), Projected(global), Scales(global))
TransformQkv(global, more, scales) ==
    When(global, Kernel(Main, {"k"}, {"v"}))
    \o Scaled(Main, {"q", "k", "v"} \cup more, {"q", "k", "v"}, scales)

-----------------------------------------------------------------------------
(* One session.                                                            *)

SingleVerifierAttention(global) ==
    ScaleQkv(global)
    \o TransformQkv(global, {}, {})
    \o Kernel(Main, {"k", "v"}, {"candidates"})
    \o Kernel(Main, {"q", "candidates", Cache(global, 1)}, {"scores", "partials", "attended"})
    \o Launch(Main, "attended", "attention", 0, FALSE)
    \o Kernel(Main, {"attention", "current"}, {"residual"})
    \o PrepareDual(Main, {"residual"}, {"dense_pre", "expert_pre"}, {}, "router_input", "dense_pre")

SingleVerifierFeedForward ==
    Unscaled(Main, "router_input", "router_logits", "router_scale", 0, FALSE)
    \o Scaled(Main, {"router_logits"}, {"top"}, {"router_scale"})
    \o Begin(Auxiliary)
    \o UseSecondary(Auxiliary, "dense_pre")
    \o Unscaled(Auxiliary, "dense_pre", "dense_gate", "gate_scale", 1, FALSE)
    \o Unscaled(Auxiliary, "dense_pre", "dense_up", "up_scale", 1, FALSE)
    \o PrepareGelu(Auxiliary, {"dense_gate", "dense_up"}, {"gate_scale", "up_scale"}, "dense_product")
    \o Launch(Auxiliary, "dense_product", "dense_output", 1, FALSE)
    \o ExpertLaunch(Main, [radix |-> FALSE, initialized |-> TRUE], TRUE)
    \o End(Auxiliary)
    \o Kernel(Main, {"dense_output", "expert_output", "residual"}, {"current"})

\* The layers of a device generation cycle and its commit.
SingleVerifierLayers ==
    FlattenSeq([i \in 1 .. 2 |-> VerifierQkv(i = 2, FALSE) \o SingleVerifierAttention(i = 2)
                                 \o SingleVerifierFeedForward])
    \o Kernel(Main, {"current"}, {"normalized"})
    \o CompressedVocab(Main, "normalized", "selected")
    \o Kernel(Main, {"candidates", "drafts", "selected", "current"},
              {Cache(FALSE, 1), Cache(TRUE, 1), "continuation", "result"})

\* A generation cycle with a context keeps a graph for each number of tokens.
SingleVerifier ==
    Enqueues(Kernel(Main, {"drafts"}, {"ids"}) \o Kernel(Main, {"ids"}, {"current"}))
    \o Launches(SingleVerifierLayers, "bare")
    \o Do("sync")
    \o Enqueues(Kernel(Main, {"result"}, {"host_result"})) \o Do("sync") \o HostReads("host_result")

-----------------------------------------------------------------------------
(* Several sessions: their caches are one buffer here.                     *)

\* Lengths and last tokens: its own, or those the drafting uploaded.
Contexts(o) == IF o.shared THEN "a_contexts" ELSE "contexts"
Previous(o) == IF o.shared THEN "a_previous" ELSE "previous"

\* Transformed into place: queries packed, new rows behind the live ring and
\* among the candidates; or in place, for a kernel that packs them later.
BatchTransform(o, global) ==
    LET scales == IF o.fusedNorm THEN Scales(global) ELSE {}
    IN  When(~o.fusedNorm, ScaleQkv(global))
        \o (CASE o.combined /\ o.direct /\ o.fusedDirect ->
                   Scaled(Main, Projected(global) \cup {Contexts(o), "views"},
                          {"packed_q", "pointers", Cache(global, 1), "candidates"}, scales)
              [] o.combined /\ ~(o.direct /\ o.fusedDirect) ->
                   Scaled(Main, Projected(global) \cup {Contexts(o)}, {"q", "k", "v"}, scales)
              [] OTHER -> TransformQkv(global, {Contexts(o)}, scales))

\* QK, softmax and PV over matrices that are packed or pointed to.
Products(o, keys) ==
    Kernel(Main, {"packed_q", Contexts(o)} \cup keys, {"scores"})
    \o Kernel(Main, {"scores", Contexts(o)}, {"probabilities"})
    \o Kernel(Main, {"probabilities"} \cup keys, {"packed_attention"})

\* A sliding layer takes the rows behind the ring back when it is done.
Restored(o, global) == IF o.direct /\ ~global THEN {Cache(global, 1)} ELSE {}
Unpack(o, global) ==
    IF o.unpack
    THEN PrepareAttention(Main, {"packed_attention", Contexts(o)} \cup Restored(o, global),
                          Restored(o, global), "attended")
    ELSE Kernel(Main, {"packed_attention", Contexts(o)} \cup Restored(o, global),
                {"attended"} \cup Restored(o, global))

BatchVerifierAttention(o, global) ==
    CASE o.packed /\ o.direct ->
           When(~(o.combined /\ o.fusedDirect),
                Kernel(Main, {"q", "k", "v", Contexts(o), "views"},
                       {"packed_q", "pointers", Cache(global, 1), "candidates"}))
           \o Products(o, {Cache(global, 1), "pointers"}) \o Unpack(o, global)
      [] o.packed /\ ~o.direct ->
           Kernel(Main, {"q", "k", "v", Contexts(o), "views", Cache(global, 1)},
                  {"packed_q", "packed_k", "packed_v", "candidates"})
           \o Products(o, {"packed_k", "packed_v"}) \o Unpack(o, global)
      [] OTHER ->
           Kernel(Main, {"k", "v", "views"}, {"candidates"})
           \o Kernel(Main, {"q", Contexts(o), "candidates", Cache(global, 1)},
                     {"scores", "partials", "attended"})

\* launch_unscaled(), or launch() which rescales what it computed.
BatchProduct(o, s, from, to, scale, ws) ==
    IF o.norms THEN Unscaled(s, from, to, scale, ws, TRUE) ELSE Launch(s, from, to, ws, TRUE)
BatchScale(o, scale) == IF o.norms THEN {scale} ELSE {}

BatchVerifierRouter(o) ==
    BatchProduct(o, Main, "attended", "attention", "attention_scale", 0)
    \o When(~o.fuseRouter, Scaled(Main, {"attention", "current"}, {"residual"}, BatchScale(o, "attention_scale")))
    \o (IF o.fuseRouter
        THEN PrepareDual(Main, {"current", "attention"}, {"residual", "dense_pre", "expert_pre"},
                         BatchScale(o, "attention_scale"), "router_input", "dense_pre")
        ELSE PrepareDual(Main, {"residual"}, {"dense_pre", "expert_pre"}, {}, "router_input", "dense_pre"))
    \o Unscaled(Main, "router_input", "router_logits", "router_scale", 0, TRUE)
    \o Scaled(Main, {"router_logits"}, {"top"}, {"router_scale"})

\* Gate and up one after the other, side by side, or as one product.
GateAndUp(o) ==
    LET up == IF o.parallel THEN Tertiary ELSE Auxiliary
    IN  IF o.fusedGateUp
        THEN FusedGateUp(Auxiliary, "dense_pre", "dense_gate_up", "gate_scale")
             \o PrepareGelu(Auxiliary, {"dense_gate_up"}, {"gate_scale"}, "dense_product")
        ELSE Unscaled(Auxiliary, "dense_pre", "dense_gate", "gate_scale", 1, TRUE)
             \o When(o.parallel, AssumeReady(Tertiary))
             \o Unscaled(up, "dense_pre", "dense_up", "up_scale", IF o.parallel THEN 2 ELSE 1, TRUE)
             \o When(o.parallel, JoinTertiaryToAuxiliary)
             \o PrepareGelu(Auxiliary, {"dense_gate", "dense_up"}, {"gate_scale", "up_scale"}, "dense_product")

BatchVerifierFeedForward(o) ==
    Begin(Auxiliary) \o When(o.parallel, Begin(Tertiary))
    \o UseSecondary(Auxiliary, "dense_pre")
    \o GateAndUp(o)
    \o BatchProduct(o, Auxiliary, "dense_product", "dense_output", "down_scale", 1)
    \o ExpertLaunch(Main, [radix |-> FALSE, initialized |-> TRUE], ~o.finalize)
    \o End(Auxiliary)
    \o Scaled(Main, {"dense_output", "residual"} \cup
                    (IF o.finalize THEN {"w2_output", "top", "inverse_routes"} ELSE {"expert_output"}),
              {"current"}, BatchScale(o, "down_scale"))

\* enqueue_compute: two of the thirty layers.
BatchVerifierLayers(o) ==
    Kernel(Main, {Previous(o), "drafts"}, {"ids"})
    \o Kernel(Main, {"ids"}, {"current"})
    \o FlattenSeq([i \in 1 .. 2 |-> VerifierQkv(i = 2, TRUE) \o BatchTransform(o, i = 2)
                                    \o BatchVerifierAttention(o, i = 2)
                                    \o BatchVerifierRouter(o) \o BatchVerifierFeedForward(o)])
    \o Kernel(Main, {"current"}, {"normalized"})
    \o (IF o.nvfp4 THEN Nvfp4Vocab(Main, "normalized", "selected") ELSE CompressedVocab(Main, "normalized", "selected"))
    \o Kernel(Main, {"candidates", Contexts(o), "drafts", "selected", "current", "views"},
              {Cache(FALSE, 1), Cache(TRUE, 1), "continuation", "results"})

\* Inputs and results have parts of the staging buffer of their own.
BatchVerifier(o) ==
    When(~o.shared, HostWrites("staged_inputs")
                    \o Enqueues(Kernel(Main, {"staged_inputs"}, {"contexts", "previous"})))
    \o Launches(BatchVerifierLayers(o), IF o.graphs THEN "first" ELSE "none")
    \o Enqueues(Kernel(Main, {"results"}, {"staged_results"}))
    \o Do("sync")
    \o HostReads("staged_results")
=============================================================================
