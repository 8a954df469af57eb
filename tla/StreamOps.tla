----------------------------- MODULE StreamOps -----------------------------
(***************************************************************************)
(* The vocabulary in which the launch code of src/src/cuda/runtime is      *)
(* written down: one record per call that code makes of CUDA, of           *)
(* GpuExecutionContext or of Fp8LinearRunner.  A kernel is the set of      *)
(* buffers it reads and the set it writes; what it computes is left out.   *)
(***************************************************************************)
EXTENDS Naturals, Sequences

Main == "main"
Auxiliary == "auxiliary"
Tertiary == "tertiary"
AllStreams == {Main, Auxiliary, Tertiary}

\* A kernel, copy or BLAS call; `scales' are Fp8OutputScale variables it is given.
Scaled(s, r, w, sc) ==
    <<[do |-> "kernel", on |-> s, reads |-> r, writes |-> w, scales |-> sc]>>
Kernel(s, r, w) == Scaled(s, r, w, {})

Begin(s) == <<[do |-> "begin", on |-> s]>>              \* begin_auxiliary(), begin_tertiary()
End(s) == <<[do |-> "end", on |-> s]>>                  \* end_auxiliary(), end_tertiary()
JoinTertiaryToAuxiliary == <<[do |-> "join"]>>

\* Fp8LinearRunner::launch_unscaled(): `scale' receives the scales of the
\* activation.  `packed' is the destination padded to whole tiles
\* (output_has_padded_capacity), ws the workspace_index.
Unscaled(s, from, to, scale, ws, packed) ==
    <<[do |-> "launch", on |-> s, source |-> from, dest |-> to, scale |-> scale,
       ws |-> ws, packed |-> packed, rescale |-> FALSE]>>
\* Fp8LinearRunner::launch() with rescale_output.
Launch(s, from, to, ws, packed) ==
    <<[do |-> "launch", on |-> s, source |-> from, dest |-> to, scale |-> "",
       ws |-> ws, packed |-> packed, rescale |-> TRUE]>>
\* launch_fused_gate_up(): one product of the packed pair, always workspace 1.
FusedGateUp(s, from, to, scale) == Unscaled(s, from, to, scale, 1, TRUE)

\* The kernels that quantise what they compute, for the source named `key'.
PrepareNorm(s, from, key) ==
    <<[do |-> "prepare", on |-> s, reads |-> {from}, writes |-> {}, scales |-> {}, key |-> key]>>
PrepareAttention(s, from, more, out) ==
    <<[do |-> "prepare", on |-> s, reads |-> from, writes |-> {out} \cup more, scales |-> {}, key |-> out]>>
PrepareDual(s, r, w, sc, key, dense) ==
    <<[do |-> "dual", on |-> s, reads |-> r, writes |-> w, scales |-> sc, key |-> key, dense |-> dense]>>
UseSecondary(s, key) == <<[do |-> "secondary", on |-> s, key |-> key]>>
PrepareGelu(s, r, sc, key) ==
    <<[do |-> "gelu", on |-> s, reads |-> r, scales |-> sc, key |-> key]>>
AssumeReady(s) == <<[do |-> "assume", on |-> s]>>
Invalidate == <<[do |-> "invalidate"]>>
Plan == <<[do |-> "plan"]>>                             \* cached_plan(), for the shape of the call

\* Either branch of a condition of the launch code.
When(condition, ops) == IF condition THEN ops ELSE <<>>
=============================================================================
