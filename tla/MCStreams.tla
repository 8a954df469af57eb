------------------------------ MODULE MCStreams ------------------------------
(***************************************************************************)
(* Every launch code of the runtime over two layers, one sliding and one   *)
(* global, under settings that between them take every branch.             *)
(***************************************************************************)
EXTENDS VisionProgram, Streams

\* What calls find in memory: caches, continuation state and drafts of others.
Given == {"ring1", "ring2", "pages1", "pages2", "route_indices", "projected", "images", "views",
          "head_aliases", "head_rows", "drafts", "continuation", "pixels", "positions"}
Call(s, needs) == [steps |-> s, given |-> Given, needs |-> needs, shape |-> NoShape, fallback |-> s]
\* An image call: its shape has a plan, or it goes without cuDNN.
Encode(o, needs, shape) ==
    [Call(VisionEncoder(o), needs) EXCEPT
        !.shape = shape,
        !.fallback = VisionEncoder([o EXCEPT !.fused = FALSE, !.native = FALSE, !.packed = FALSE])]

\* decisions.cpp: one prompt or a chunk of it, and the questions about it.
Chunk == [batch |-> FALSE, concurrent |-> TRUE, combined |-> TRUE, direct |-> TRUE, finalize |-> TRUE,
          prefix |-> TRUE, bucket |-> FALSE, kvOnly |-> TRUE, images |-> FALSE, uniform |-> FALSE,
          readOnly |-> FALSE, segmented |-> FALSE, decision |-> FALSE, nvfp4 |-> FALSE, retain |-> TRUE,
          sessions |-> 2, radix |-> FALSE, initialized |-> TRUE]
Text == [Chunk EXCEPT !.prefix = FALSE, !.bucket = TRUE, !.kvOnly = FALSE, !.combined = FALSE,
                      !.direct = FALSE, !.finalize = FALSE, !.radix = TRUE, !.initialized = FALSE]
Questions == [Chunk EXCEPT !.batch = TRUE, !.readOnly = TRUE, !.segmented = TRUE, !.decision = TRUE,
                           !.images = TRUE]
Ragged == [Questions EXCEPT !.readOnly = FALSE, !.decision = FALSE, !.images = FALSE, !.concurrent = FALSE,
                            !.retain = FALSE]
Alike == [Ragged EXCEPT !.uniform = TRUE, !.nvfp4 = TRUE, !.concurrent = TRUE]

Readout == [retained |-> TRUE, options |-> FALSE, prepared |-> TRUE]
Chosen == [retained |-> FALSE, options |-> TRUE, prepared |-> TRUE]
FromHost == [Chosen EXCEPT !.prepared = FALSE]

\* The verifier's settings: those of the release, and the ones that turn them off.
Release == [fusedNorm |-> TRUE, combined |-> TRUE, direct |-> TRUE, fusedDirect |-> TRUE, packed |-> TRUE,
            unpack |-> TRUE, norms |-> TRUE, fuseRouter |-> TRUE, fusedGateUp |-> FALSE, parallel |-> TRUE,
            finalize |-> TRUE, nvfp4 |-> FALSE, graphs |-> TRUE, shared |-> FALSE, gemm |-> TRUE]
Split == [Release EXCEPT !.fusedNorm = FALSE, !.combined = FALSE, !.fusedDirect = FALSE, !.unpack = FALSE,
                         !.norms = FALSE, !.fuseRouter = FALSE, !.parallel = FALSE, !.finalize = FALSE,
                         !.graphs = FALSE, !.nvfp4 = TRUE]
Copied == [Release EXCEPT !.direct = FALSE, !.fusedDirect = FALSE, !.fusedGateUp = TRUE, !.parallel = FALSE,
                          !.shared = TRUE, !.graphs = FALSE]
Scalar == [Copied EXCEPT !.packed = FALSE, !.fusedGateUp = FALSE, !.shared = FALSE, !.gemm = FALSE]

Image == [fused |-> TRUE, native |-> TRUE, packed |-> TRUE, eight |-> FALSE, many |-> FALSE, onDevice |-> TRUE,
          graphs |-> TRUE]
Upload == [Image EXCEPT !.native = FALSE, !.packed = FALSE, !.eight = TRUE, !.onDevice = FALSE]
Legacy == [Upload EXCEPT !.fused = FALSE, !.many = TRUE, !.graphs = FALSE, !.eight = FALSE]

MCPrograms ==
    [chunk |-> Call(SinglePrefill(Chunk), <<1>>),
     text |-> Call(SinglePrefill(Text), <<2>>),
     questions |-> Call(BatchPrefill(Questions) \o decision_scores(Readout), <<1, 1>>),
     ragged |-> Call(BatchPrefill(Ragged) \o decision_scores(FromHost), <<1>>),
     alike |-> Call(BatchPrefill(Alike) \o prepare_decision_head \o decision_scores(Chosen), <<1>>),
     verify |-> Call(SingleVerifier, <<2>>),
     cycle |-> Call(BatchVerifier(Release), <<1>>),
     split |-> Call(BatchVerifier(Split), <<1>>),
     generate |-> Call(Cycle(Copied), <<1>>),
     scalar |-> Call(BatchVerifier(Scalar), <<1>>),
     draft |-> Call(DraftBatch(Scalar), <<1>>),
     seeded |-> Call(DraftSingle(TRUE), <<2>>),
     proposed |-> Call(DraftSingle(FALSE), <<2>>),
     image |-> Encode(Image, <<1>>, "square"),
     upload |-> Encode(Upload, <<2>>, "wide"),
     legacy |-> Call(VisionEncoder(Legacy), <<1>>)]

\* Calls that return when the device is done; calls with graphs over scratch
\* that grows, and over plans; and what follows calls that return earlier.
MCMixes == {{"text", "questions", "ragged", "alike", "split", "generate", "scalar", "legacy"},
            {"cycle", "upload"}, {"image", "upload", "legacy"}, {"image", "upload"},
            {"chunk", "verify", "seeded"}, {"cycle", "proposed"}, {"draft", "legacy"}}
\* The activations that launch code of the assistant, of the image encoder and of
\* the other two ends with.
MCLeftover ==
    [active : {"A", "B"}, source : {"a_normalized", "v_normalized", "v_product"}, stream : {Main}]
    \cup [active : {"A", "B"}, source : {"dense_product"}, stream : {Main, Auxiliary}]
    \cup [active : {"A", "B"}, source : {""}, stream : AllStreams]
MCEvicting == {{"image", "upload"}}

\* verify, seeded and proposed ask most of their block; MCStreamsGrowing has a
\* verifier that asks more later.
ASSUME SettledGeometry == FixedGeometry
==============================================================================
