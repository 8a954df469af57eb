---------------------------- MODULE DraftProgram ----------------------------
(***************************************************************************)
(* src/src/cuda/runtime/assistant.cuh: the assistant model drafts tokens   *)
(* for the target model, from the keys and values the target left in its   *)
(* last layers and from the hidden state of its last token.                *)
(***************************************************************************)
EXTENDS VerifierProgram

\* A layer names its activations anew: `normalized' is written twice.
DraftNorm(from) == Kernel(Main, {from}, {"a_normalized"}) \o Invalidate
Project(from, to) == Launch(Main, from, to, 0, FALSE)

DraftAttention(keys, gemm) ==
    IF gemm
    THEN Kernel(Main, {"a_q", "a_contexts"}, {"a_packed_q", "a_pointers"})
         \o Kernel(Main, {"a_packed_q", "a_pointers", keys}, {"a_scores"})
         \o Kernel(Main, {"a_scores", "a_contexts"}, {"a_probabilities"})
         \o Kernel(Main, {"a_probabilities", "a_pointers", keys}, {"a_packed"})
         \o Kernel(Main, {"a_packed"}, {"a_attended"})
    ELSE Kernel(Main, {"a_q", "a_contexts"}, {"a_q"})
         \o Kernel(Main, {"a_q", "a_contexts", keys}, {"a_scores", "a_partials", "a_attended"})

DraftLayer(keys, gemm) ==
    DraftNorm("a_hidden")
    \o Project("a_normalized", "a_q")
    \o DraftAttention(keys, gemm)
    \o Project("a_attended", "a_attention")
    \o Kernel(Main, {"a_attention", "a_hidden"}, {"a_residual"})
    \o DraftNorm("a_residual")
    \o Project("a_normalized", "a_gate")
    \o Project("a_normalized", "a_up")
    \o Kernel(Main, {"a_gate", "a_up"}, {"a_product"})
    \o Project("a_product", "a_feedforward")
    \o Kernel(Main, {"a_feedforward", "a_residual"}, {"a_hidden"})

\* One drafted token; the last one has no successor to prepare for.
Draft(gemm, token, last) ==
    Project("combined", "a_hidden")
    \o DraftLayer(Cache(FALSE, 1), gemm) \o DraftLayer(Cache(TRUE, 1), gemm)
    \o DraftNorm("a_hidden")
    \o When(~last, Project("a_normalized", "projected_state"))
    \o CompressedVocab(Main, "a_normalized", token)
    \o When(~last, Kernel(Main, {token, "projected_state"}, {"combined"}))

\* launch_assistant_batch(): nothing waits for it.
DraftBatch(o) ==
    When(o.shared, HostWrites("draft_staging"))
    \o Enqueues(Kernel(Main, IF o.shared THEN {"draft_staging"} ELSE {}, {"a_contexts", "a_previous"})
                \o Kernel(Main, {"a_previous", "continuation"}, {"combined"}))
    \o Enqueues(Draft(o.gemm, "token1", FALSE) \o Draft(o.gemm, "token2", TRUE)
                \o Kernel(Main, {"token1", "token2"}, {"drafts"}))

\* The drafts of one session, from a seed that stays on the device, with a graph
\* for each context length.  Drafts that stay there too are waited for only when
\* the graph is recorded.
DraftSingle(onDevice) ==
    Enqueues(Kernel(Main, {"continuation"}, {"projected_state"})
             \o Kernel(Main, {}, {"token1"}) \o Kernel(Main, {}, {"a_contexts"})
             \o Kernel(Main, {"token1", "projected_state"}, {"combined"}))
    \o Launches(Draft(FALSE, "token1", FALSE) \o Draft(FALSE, "token2", FALSE), "bare")
    \o (IF onDevice
        THEN Enqueues(Kernel(Main, {"token1", "token2"}, {"drafts"}))
        ELSE Do("sync") \o Enqueues(Kernel(Main, {"token1", "token2"}, {"host_drafts"}))
             \o Do("sync") \o HostReads("host_drafts"))

\* Drafting and checking, as one cycle of generation.
Cycle(o) == DraftBatch(o) \o BatchVerifier(o)
=============================================================================
