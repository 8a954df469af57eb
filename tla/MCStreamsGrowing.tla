--------------------------- MODULE MCStreamsGrowing ---------------------------
(***************************************************************************)
(* One session whose verifier is called with few tokens, then with more:   *)
(* scratch grows under graphs whose key has no generation in it.           *)
(***************************************************************************)
EXTENDS VerifierProgram, Streams

MCVerify(needs) ==
    [steps |-> SingleVerifier, given |-> {"ring1", "pages1", "drafts"}, needs |-> needs,
     shape |-> NoShape, fallback |-> SingleVerifier]
MCPrograms == [few |-> MCVerify(<<1>>), many |-> MCVerify(<<2>>)]
MCMixes == {{"few", "many"}}

\* What the runner is left with between launches.
MCLeftover ==
    [active : {"A", "B"}, source : {"", "dense_product"}, stream : {Main, Auxiliary}]
=============================================================================
