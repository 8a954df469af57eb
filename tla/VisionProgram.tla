---------------------------- MODULE VisionProgram ----------------------------
(***************************************************************************)
(* src/src/cuda/runtime/vision_encoder.cuh: images to rows of the text     *)
(* model, with or without cuDNN attention (o.fused, o.native), with packed *)
(* projections (o.packed) or FP8 ones (o.eight), for one image or several  *)
(* (o.many).  A layer forgets the activations of the one before it.        *)
(***************************************************************************)
EXTENDS DraftProgram

\* Fp8LinearRunner::launch(), or cuBLAS, which has no state of its own.
VisionProject(o, from, to) ==
    IF o.eight THEN Project(from, to) ELSE Kernel(Main, {from}, {to})

VisionQkv(o) ==
    Kernel(Main, {"v_current"}, {"v_normalized"})
    \o (IF o.packed THEN Kernel(Main, {"v_normalized"}, {"v_q", "v_k", "v_v"})
        ELSE VisionProject(o, "v_normalized", "v_q") \o VisionProject(o, "v_normalized", "v_k")
             \o VisionProject(o, "v_normalized", "v_v"))
    \o Kernel(Main, {"v_q", "v_k", "v_v", "positions"}, {"v_q", "v_k", "v_v"})

\* The attention of a layer ends in v_packed or back in v_q.
VisionAttention(o) ==
    CASE o.fused /\ o.native -> Plan \o Kernel(Main, {"v_q", "v_k", "v_v"}, {"v_packed"})
      [] o.fused /\ ~o.native ->
           Kernel(Main, {"v_q", "v_k", "v_v"}, {"v_pq", "v_pk", "v_pv"})
           \o Plan \o Kernel(Main, {"v_pq", "v_pk", "v_pv"}, {"v_packed"})
           \o Kernel(Main, {"v_packed"}, {"v_q"})
      [] OTHER ->
           When(o.many, Kernel(Main, {}, {"v_pointers"}))
           \o Kernel(Main, {"v_q", "v_k"} \cup (IF o.many THEN {"v_pointers"} ELSE {}), {"v_scores"})
           \o Kernel(Main, {"v_scores"}, {"v_scores"})
           \o Kernel(Main, {"v_v", "v_scores"} \cup (IF o.many THEN {"v_pointers"} ELSE {}), {"v_q"})

VisionMlp(o) ==
    Kernel(Main, {"v_residual"}, {"v_normalized"})
    \o (IF o.packed
        THEN Kernel(Main, {"v_normalized"}, {"v_gate_up"}) \o Kernel(Main, {"v_gate_up"}, {"v_product"})
        ELSE VisionProject(o, "v_normalized", "v_gate") \o VisionProject(o, "v_normalized", "v_up")
             \o Kernel(Main, {"v_gate", "v_up"}, {"v_product"}))
    \o VisionProject(o, "v_product", "v_mlp")
    \o Kernel(Main, {"v_mlp", "v_residual"}, {"v_current"})

VisionLayer(o) ==
    Invalidate
    \o VisionQkv(o)
    \o VisionAttention(o)
    \o VisionProject(o, IF o.native THEN "v_packed" ELSE "v_q", "v_attention")
    \o Kernel(Main, {"v_attention", "v_current"}, {"v_residual"})
    \o VisionMlp(o)

\* Patches in, two of the 27 layers, pooled and projected rows out.
VisionLayers(o) ==
    Kernel(Main, {"pixels"}, {"patches"})
    \o Kernel(Main, {"patches"}, {"v_current"})
    \o Kernel(Main, {"v_current", "positions"}, {"v_current"})
    \o VisionLayer(o) \o VisionLayer(o)
    \o Kernel(Main, {"v_current"}, {"soft"})
    \o Kernel(Main, {"soft"}, {"soft_norm"})
    \o Kernel(Main, {"soft_norm"}, {"projected"})

\* Pixels through the pinned buffer unless the device has them already; the
\* timing of a launch waits for main before and after.
VisionEncoder(o) ==
    When(~o.onDevice, HostWrites("vision_staging")
                      \o Enqueues(Kernel(Main, {"vision_staging"}, {"pixels", "positions"})))
    \o Launches(VisionLayers(o), IF o.graphs THEN "second" ELSE "none")
    \o Do("sync")
=============================================================================
