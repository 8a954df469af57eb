--------------------------- MODULE ExpertProgram ---------------------------
(***************************************************************************)
(* The kernels of the two kinds of runner every launch code calls:         *)
(* Nvfp4ExpertRunner (src/src/nvfp4_cutlass.cu) for the routed experts of  *)
(* a layer, and CompressedVocabRunner or Nvfp4VocabRunner for the next     *)
(* token.  All run on one stream; the expert scratch is shared by the      *)
(* runners of all layers.                                                  *)
(***************************************************************************)
EXTENDS StreamOps

\* Expert of every route, routes sorted by expert, and where each landed.
Sorted == {"sorted_expert_ids", "sorted_route_indices", "inverse_routes"}
Grouping == {"expert_offsets", "scale_row_offsets", "w13_shapes"}

\* sort_and_configure(): one kernel that sorts and places the groups.
SortAndConfigure(s) == Kernel(s, {"top"}, Sorted \cup Grouping)

\* CUB's radix sort, then configure(); inverse_routes comes with the quantiser.
RadixSort(s) ==
    Kernel(s, {"top", "route_indices"}, {"sorted_expert_ids", "sorted_route_indices", "sort_workspace"})
    \o Kernel(s, {"sorted_expert_ids"}, Grouping)

\* geglu_quantize_sorted_moe also places the groups of the second product.
ConfigureAndQuantizeGeglu(s) ==
    Kernel(s, {"w13_output", "sorted_expert_ids", "expert_offsets", "scale_row_offsets"},
           {"intermediate", "intermediate_scales", "w2_shapes"})

\* Impl::launch().  o.radix: the routes are too many for the fused sorts;
\* o.initialized: route_indices was filled by an earlier launch.
ExpertLaunch(s, o, reduce) ==
    When(~o.initialized, Kernel(s, {}, {"route_indices"}))
    \o (IF o.radix THEN RadixSort(s) ELSE SortAndConfigure(s))
    \o Kernel(s, {"expert_pre", "sorted_expert_ids", "sorted_route_indices", "expert_offsets", "scale_row_offsets"},
              {"input", "input_scales"} \cup (IF o.radix THEN {"inverse_routes"} ELSE {}))
    \o Kernel(s, {"input", "input_scales", "w13_shapes", "expert_offsets"}, {"w13_output"})
    \o ConfigureAndQuantizeGeglu(s)
    \o Kernel(s, {"intermediate", "intermediate_scales", "w2_shapes", "expert_offsets"}, {"w2_output"})
    \o When(reduce, Kernel(s, {"w2_output", "top", "inverse_routes"}, {"expert_output"}))

\* launch(): a runner made for one token has a fixed group for every route.
SingleExpertLaunch(s) ==
    Kernel(s, {"expert_pre", "top"}, {"input", "input_scales", "w13_shapes"})
    \o Kernel(s, {"input", "input_scales", "w13_shapes"}, {"w13_output"})
    \o Kernel(s, {"w13_output", "top"}, {"intermediate", "intermediate_scales", "w2_shapes"})
    \o Kernel(s, {"intermediate", "intermediate_scales", "w2_shapes"}, {"w2_output"})
    \o Kernel(s, {"w2_output", "top"}, {"expert_output"})

\* Both vocabularies: quantise the rows, multiply by the compressed table,
\* keep the best of every tile, recompute those exactly, pick the best.
Candidates(s, rows, exact, to) ==
    Kernel(s, {rows}, {"vocab_input", "vocab_scales"})
    \o Kernel(s, {"vocab_input", "vocab_scales"}, {"logits"})
    \o Kernel(s, {"logits"} \cup exact, {"candidate_ids"})
    \o Kernel(s, {rows, "candidate_ids"}, {"corrected"})
    \o Kernel(s, {"corrected", "candidate_ids"}, {to})

CompressedVocab(s, rows, to) == Candidates(s, rows, {"vocab_scales"}, to)
Nvfp4Vocab(s, rows, to) == Candidates(s, rows, {}, to)
=============================================================================
