--------------------------- MODULE DecisionCache ---------------------------
(***************************************************************************)
(* src/decisions.cpp, class DecisionWorker: how the requests of one engine *)
(* process reuse what earlier requests left on the GPU.  A request asks    *)
(* Questions about one State; the K/V rows of the prompt prefix they have  *)
(* in common are computed once, kept in prefix_ for the next request, and  *)
(* read in place ("readonly"), copied to a branch per question ("copy"),   *)
(* or mapped into it ("shared").  Storage is never freed between requests, *)
(* so what matters is whose rows a question attends to.                    *)
(*                                                                         *)
(* A KvCache is abstracted to the tokens its rows were computed from, once *)
(* for the global layers and once for the sliding ones (their rings are    *)
(* another matter); the token "image" stands for the soft tokens of the    *)
(* request's images, and the rows of such a token for what the images      *)
(* show.  Any call may throw: run() ends there and keeps what it has done. *)
(***************************************************************************)
EXTENDS Naturals, SequencesExt

CONSTANTS
    Settings,       \* the pairs of prefix_mode and prompt_layout in use
    States,         \* values of "state"
    Images,         \* values of "images" with "image_soft_tokens"
    ShapesOf,       \* of each, its images' sizes, in which the resize tables differ
    NoShape,        \* no tables
    NoImages,       \* a request without images
    NoRequest,      \* run() is not running
    QuestionLists,  \* values of "questions", each question its tokens
    Batches,        \* values of "batch_size"
    Chunk,          \* kChunk: the tokens of one pass through the model
    MaxRevisions    \* bound: image lists encoded in one behaviour

Modes == {"readonly", "copy", "shared", "none"}
Layouts == {"system_state", "user_state"}

\* The tokens of questions.
Words == UNION {UNION {Range(qs[i]) : i \in DOMAIN qs} : qs \in QuestionLists}

\* "questions must contain 1..256 entries"; "image" is no token of a text.
ASSUME DecisionCacheAssumption ==
    /\ Settings \subseteq Modes \X Layouts
    /\ NoImages \notin Images
    /\ \A i \in Images : ShapesOf[i] # <<>> /\ NoShape \notin Range(ShapesOf[i])
    /\ QuestionLists \subseteq Seq(Seq(Words)) \ {<<>>}
    /\ "image" \notin States \cup Words
    /\ Batches \subseteq Nat \ {0}
    /\ Chunk \in Nat \ {0}
    /\ MaxRevisions \in Nat

Requests ==
    {r \in [mode : Modes, layout : Layouts, state : States,
            images : Images \cup {NoImages}, questions : QuestionLists,
            batch : Batches, reset : BOOLEAN] :
        <<r.mode, r.layout>> \in Settings}

VARIABLES
    pc,             \* where run() is; "idle" between requests
    request,        \* its argument
    common,         \* tokens of the prefix its questions share
    first,          \* questions answered so far
    count,          \* questions in the present wave
    attended,       \* the rows each question of the wave attended to
    failure,        \* what the last request that failed by itself ran into
    prefix,         \* *prefix_, or NoCache
    prefixSealed,   \* prefix_sealed_
    cachedIds,      \* cached_ids_
    cachedRevision, \* cached_prefix_image_revision_
    branches,       \* branches_
    branchMode,     \* branch_mode_
    cachedImages,   \* cached_images_ and image_soft_limit_
    imageRevision,  \* image_revision_
    projected,      \* what *projected_images_ shows
    previous,       \* GpuImagePreprocessor: the shape its tables were left for
    tables,         \* the shape of the resize tables on the device
    done            \* images of the list encoded so far

pictures == <<cachedImages, imageRevision, projected, previous, tables>>
images == <<pictures, done>>
storage == <<prefix, prefixSealed, cachedIds, cachedRevision, branches, branchMode>>
plan == <<request, common, first, count>>
vars == <<pc, plan, attended, failure, storage, images>>

-----------------------------------------------------------------------------
(* Prompts and rows *)

StateIds(r) ==
    IF r.layout = "user_state" THEN <<>>
    ELSE <<"system", r.state>> \o (IF r.images = NoImages THEN <<>> ELSE <<"image">>)
Prompt(r, q) ==
    IF r.layout = "user_state" THEN <<"user", r.state, "ask">> \o q
    ELSE StateIds(r) \o <<"ask">> \o q

\* The rows computed from ids while projected_images_ shows shown.
Rows(ids, shown) == [i \in DOMAIN ids |-> IF ids[i] = "image" THEN shown ELSE ids[i]]

\* The first n rows of a cache, or what there is of them.
Upto(rows, n) == SubSeq(rows, 1, IF n < Len(rows) THEN n ELSE Len(rows))

NoCache == [global |-> <<>>, sliding |-> <<>>, shared |-> 0, sealed |-> FALSE, exists |-> FALSE]
FreshCache == [global |-> <<>>, sliding |-> <<>>, shared |-> 0, sealed |-> FALSE, exists |-> TRUE]

\* Every row past the first n is computed anew from ids.
Extend(cache, n, ids, shown) ==
    [cache EXCEPT !.global = Upto(@, n) \o Rows(ids, shown),
                  !.sliding = Upto(@, n) \o Rows(ids, shown)]

\* The prefix of all prompts, each of which keeps one token at least for itself.
Common(r) ==
    LET prompts == {Prompt(r, r.questions[i]) : i \in DOMAIN r.questions}
        p == Prompt(r, r.questions[1])
        agree == {n \in 0 .. Len(p) :
            \A o \in prompts : n < Len(o) /\ SubSeq(o, 1, n) = SubSeq(p, 1, n)}
        longest == CHOOSE n \in agree : \A m \in agree : m <= n
    IN  CASE r.mode = "none" -> 0
          [] r.mode # "none" /\ Len(r.questions) = 1 -> Len(StateIds(r))
          [] OTHER -> IF longest < 2 THEN 0 ELSE longest

PrefixIds == SubSeq(Prompt(request, request.questions[1]), 1, common)
Suffix(i) ==
    LET p == Prompt(request, request.questions[first + i])
    IN  SubSeq(p, common + 1, Len(p))

\* Model rows of n questions after the first f of r: what their prompts do not
\* share.
RowsAfter(r, shared, f, n) ==
    FoldLeft(+, 0, [i \in 1 .. n |-> Len(Prompt(r, r.questions[f + i])) - shared])
WaveRows(n) == RowsAfter(request, common, first, n)
Readonly == request.mode = "readonly" /\ WaveRows(count) <= Chunk

-----------------------------------------------------------------------------
Init ==
    /\ pc = "idle"
    /\ request = NoRequest
    /\ common = 0
    /\ first = 0
    /\ count = 0
    /\ attended = <<>>
    /\ failure = "none"
    /\ prefix = NoCache
    /\ prefixSealed = FALSE
    /\ cachedIds = <<>>
    /\ cachedRevision = 0
    /\ branches = <<>>
    /\ branchMode = "unset"
    /\ cachedImages = NoImages
    /\ imageRevision = 0
    /\ projected = NoImages
    /\ previous = NoShape
    /\ tables = NoShape
    /\ done = 0

-----------------------------------------------------------------------------
(* Receiving a request: prepare_images() *)

\* Back to the loop of run_decision_worker(): an answer or an error goes out.
Leave(why) ==
    /\ pc' = "idle"
    /\ request' = NoRequest
    /\ common' = 0
    /\ first' = 0
    /\ count' = 0
    /\ attended' = <<>>
    /\ failure' = why

\* No images, or those that projected_images_ shows already.
Receive(r) ==
    /\ pc = "idle"
    /\ r.images \in {NoImages, cachedImages}
    /\ request' = r
    /\ failure' = "none"
    /\ pc' = "planning"
    /\ UNCHANGED <<common, first, count, attended, storage, images>>

\* Mutant: the identity of the old images is kept until the new ones are there.
EncodeKeepsIdentity(r) ==
    /\ pc = "idle"
    /\ r.images \notin {NoImages, cachedImages}
    /\ imageRevision < MaxRevisions
    /\ imageRevision' = imageRevision + 1
    /\ projected' = NoImages
    /\ request' = r
    /\ failure' = "none"
    /\ pc' = "encoding"
    /\ UNCHANGED <<common, first, count, attended, storage, cachedImages, previous, tables, done>>

\* Other images, or "reset_images": they are preprocessed and encoded over the
\* old ones, one by one.
Encode(r) ==
    /\ pc = "idle"
    /\ r.images # NoImages
    /\ imageRevision < MaxRevisions
    /\ cachedImages' = NoImages
    /\ imageRevision' = imageRevision + 1
    /\ projected' = NoImages
    /\ request' = r
    /\ failure' = "none"
    /\ pc' = "encoding"
    /\ UNCHANGED <<common, first, count, attended, storage, previous, tables, done>>

Shape == ShapesOf[request.images][done + 1]

\* GpuImagePreprocessor::prepare(): the resize tables stay on the device from
\* image to image; for one of another shape they are computed and uploaded, and
\* what they were is forgotten first.
Resize ==
    /\ pc = "encoding"
    /\ LET keep == Shape = previous
       IN  /\ previous' = IF keep THEN previous ELSE NoShape
           /\ tables' = IF keep THEN tables ELSE NoShape
    /\ pc' = "resizing"
    /\ UNCHANGED <<plan, attended, failure, storage, cachedImages, imageRevision, projected, done>>

\* The tables are there, the image is resized and encoded: the next one, or the
\* identity of the list.  Through tables of another shape it shows nothing.
Encoded ==
    /\ pc = "resizing"
    /\ tables' = IF previous = Shape THEN tables ELSE Shape
    /\ previous' = Shape
    /\ LET shows == IF tables' = Shape THEN projected ELSE "garbled"
       IN  IF done + 1 < Len(ShapesOf[request.images])
           THEN /\ projected' = shows
                /\ done' = done + 1
                /\ pc' = "encoding"
                /\ UNCHANGED cachedImages
           ELSE /\ projected' = IF shows = NoImages THEN request.images ELSE shows
                /\ done' = 0
                /\ cachedImages' = request.images
                /\ pc' = "planning"
    /\ UNCHANGED <<plan, attended, failure, storage, imageRevision>>

-----------------------------------------------------------------------------
(* The prefix *)

\* The request is valid: "reset_prefix", the change of mode, and branches that
\* share a prefix this request does not have.
Plan ==
    /\ pc = "planning"
    /\ ~(request.images # NoImages /\ request.layout = "user_state")
    /\ common' = Common(request)
    /\ cachedIds' = IF request.reset THEN <<>> ELSE cachedIds
    /\ branchMode' = request.mode
    /\ branches' =
        IF \/ request.reset
           \/ branchMode # request.mode
           \/ common' = 0 /\ branches # <<>> /\ branches[1].shared > 0
        THEN <<>> ELSE branches
    /\ pc' = "looking"
    /\ UNCHANGED <<request, first, count, attended, failure, prefix, prefixSealed,
                   cachedRevision, images>>

Revision == IF request.images = NoImages THEN 0 ELSE imageRevision

\* Mutant: the same tokens are the same prefix.
HitsAnyImages == PrefixIds = cachedIds

Hits == PrefixIds = cachedIds /\ cachedRevision = Revision

\* Nothing to compute; "readonly" needs a cache to name all the same.
Reuse ==
    /\ pc = "looking"
    /\ common = 0 \/ Hits
    /\ prefix' = IF request.mode = "readonly" /\ ~prefix.exists THEN FreshCache ELSE prefix
    /\ pc' = "batching"
    /\ UNCHANGED <<plan, attended, failure, prefixSealed, cachedIds, cachedRevision,
                   branches, branchMode, images>>

\* Mutant: branches of the old prefix are not dropped.
MissKeepsBranches ==
    /\ pc = "looking"
    /\ common > 0 /\ ~Hits
    /\ pc' = "allocating"
    /\ UNCHANGED <<plan, attended, failure, storage, images>>

Miss ==
    /\ pc = "looking"
    /\ common > 0 /\ ~Hits
    /\ branches' = <<>>
    /\ pc' = "allocating"
    /\ UNCHANGED <<plan, attended, failure, prefix, prefixSealed, cachedIds,
                   cachedRevision, branchMode, images>>

\* A sealed prefix is replaced, another one overwritten from row one on: its
\* rows are nobody's until prefill() is through.
Allocate ==
    /\ pc = "allocating"
    /\ prefix' = IF ~prefix.exists \/ prefixSealed THEN FreshCache
                 ELSE [prefix EXCEPT !.global = <<>>, !.sliding = <<>>]
    /\ prefixSealed' = FALSE
    /\ cachedIds' = <<>>
    /\ pc' = "filling"
    /\ UNCHANGED <<plan, attended, failure, cachedRevision, branches, branchMode, images>>

\* KvCache::ensure_context() refuses a sealed cache: "shared prefix source is
\* immutable".
Fill ==
    /\ pc = "filling"
    /\ IF prefix.sealed
       THEN Leave("immutable") /\ UNCHANGED storage
       ELSE /\ prefix' = Extend(prefix, 0, PrefixIds, projected)
            /\ cachedRevision' = Revision
            /\ cachedIds' = PrefixIds
            /\ pc' = "batching"
            /\ UNCHANGED <<plan, attended, failure, prefixSealed, branches, branchMode>>
    /\ UNCHANGED images

-----------------------------------------------------------------------------
(* The waves *)

\* As many questions as batch_size, kChunk rows and, for "readonly", the size
\* of the attention matrix allow, but one at least.
Batch ==
    /\ pc = "batching"
    /\ LET left == Len(request.questions) - first
           fit == {n \in 1 .. left : n <= request.batch /\ (n = 1 \/ WaveRows(n) <= Chunk)}
       IN  \E n \in fit :
            /\ request.mode = "readonly" \/ \A m \in fit : m <= n
            /\ count' = n
    /\ pc' = "forking"
    /\ UNCHANGED <<request, common, first, attended, failure, storage, images>>

Shares == common > 0 /\ request.mode = "shared"

\* Mutant: the worker does not note that its prefix is sealed.
ForkUnsealed ==
    /\ pc = "forking"
    /\ ~Readonly /\ Len(branches) < count
    /\ prefix' = IF Shares THEN [prefix EXCEPT !.sealed = TRUE] ELSE prefix
    /\ branches' = Append(branches,
        IF Shares THEN [FreshCache EXCEPT !.shared = common, !.global = Upto(prefix.global, common)]
        ELSE FreshCache)
    /\ UNCHANGED <<pc, plan, attended, failure, prefixSealed, cachedIds, cachedRevision,
                   branchMode, images>>

\* One more branch; in "shared" mode its global rows are the pages of prefix_.
Fork ==
    /\ pc = "forking"
    /\ ~Readonly /\ Len(branches) < count
    /\ prefixSealed' = (prefixSealed \/ Shares)
    /\ prefix' = IF Shares THEN [prefix EXCEPT !.sealed = TRUE] ELSE prefix
    /\ branches' = Append(branches,
        IF Shares THEN [FreshCache EXCEPT !.shared = common, !.global = Upto(prefix.global, common)]
        ELSE FreshCache)
    /\ UNCHANGED <<pc, plan, attended, failure, cachedIds, cachedRevision, branchMode, images>>

\* share_global_prefix_from() throws before or after it sealed the source.
ForkFails ==
    /\ pc = "forking"
    /\ ~Readonly /\ Len(branches) < count /\ Shares
    /\ prefixSealed' = TRUE
    /\ prefix' \in {prefix, [prefix EXCEPT !.sealed = TRUE]}
    /\ Leave("thrown")
    /\ UNCHANGED <<cachedIds, cachedRevision, branches, branchMode, images>>

\* clone(): the sliding rows always, the global ones unless they are shared.
Cloned(branch) ==
    [branch EXCEPT !.sliding = prefix.sliding,
                   !.global = IF request.mode = "shared" THEN @ ELSE Upto(prefix.global, common)]

Clone ==
    /\ pc = "forking"
    /\ Readonly \/ Len(branches) >= count
    /\ branches' =
        IF common = 0 \/ Readonly THEN branches
        ELSE [b \in DOMAIN branches |->
                IF b > count THEN branches[b] ELSE Cloned(branches[b])]
    /\ pc' = "running"
    /\ UNCHANGED <<plan, attended, failure, prefix, prefixSealed, cachedIds,
                   cachedRevision, branchMode, images>>

\* Every question of the wave continues its branch, or reads the prefix in
\* place.  Rows below a shared prefix are not written, some of them are in
\* read-only pages: "invalid target batch prefill item".
Run ==
    /\ pc = "running"
    /\ IF ~Readonly /\ \E i \in 1 .. count : common < branches[i].shared
       THEN Leave("invalid item") /\ UNCHANGED branches
       ELSE LET after(i) == Extend(IF Readonly THEN prefix ELSE branches[i],
                                   common, Suffix(i), projected)
            IN  /\ attended' = [i \in 1 .. count |-> after(i)]
                /\ branches' = IF Readonly THEN branches
                               ELSE [b \in DOMAIN branches |->
                                       IF b > count THEN branches[b] ELSE after(b)]
                /\ pc' = "reading"
                /\ UNCHANGED <<plan, failure>>
    /\ UNCHANGED <<prefix, prefixSealed, cachedIds, cachedRevision, branchMode, images>>

\* The answers of the wave; then the next wave, or the response.
Answer ==
    /\ pc = "reading"
    /\ IF first + count < Len(request.questions)
       THEN /\ first' = first + count
            /\ count' = 0
            /\ attended' = <<>>
            /\ pc' = "batching"
            /\ UNCHANGED <<request, common, failure>>
       ELSE Leave("none")
    /\ UNCHANGED <<storage, images>>

\* A check fails, an allocation does, or CUDA reports an error.
Throw ==
    /\ pc # "idle"
    /\ Leave("thrown")
    /\ done' = 0
    /\ UNCHANGED <<storage, pictures>>

-----------------------------------------------------------------------------
Next ==
    \/ \E r \in Requests : Receive(r) \/ Encode(r)
    \/ Resize \/ Encoded \/ Plan \/ Reuse \/ Miss \/ Allocate \/ Fill
    \/ Batch \/ Fork \/ ForkFails \/ Clone \/ Run \/ Answer
    \/ Throw

Spec == Init /\ [][Next]_vars

-----------------------------------------------------------------------------
(* Correctness *)

Tokens == {"system", "user", "ask", "image", "garbled"} \cup States \cup Images \cup {NoImages}
          \cup Words
Caches == [global : Seq(Tokens), sliding : Seq(Tokens), shared : Nat,
           sealed : BOOLEAN, exists : BOOLEAN]

TypeOK ==
    /\ pc \in {"idle", "encoding", "resizing", "planning", "looking", "allocating", "filling",
               "batching", "forking", "running", "reading"}
    /\ request \in Requests \cup {NoRequest}
    /\ (request = NoRequest) <=> (pc = "idle")
    /\ common \in Nat /\ first \in Nat /\ count \in Nat
    /\ pc # "idle" => first + count <= Len(request.questions)
    /\ pc \in {"forking", "running", "reading"} <=> count > 0
    /\ attended \in Seq(Caches)
    /\ (attended # <<>>) <=> (pc = "reading")
    /\ failure \in {"none", "thrown", "immutable", "invalid item"}
    /\ prefix \in Caches
    /\ prefixSealed \in BOOLEAN
    /\ cachedIds \in Seq(Tokens)
    /\ cachedRevision \in 0 .. MaxRevisions
    /\ branches \in Seq(Caches)
    /\ branchMode \in Modes \cup {"unset"}
    /\ cachedImages \in Images \cup {NoImages}
    /\ imageRevision \in 0 .. MaxRevisions
    /\ projected \in Images \cup {NoImages, "garbled"}
    /\ LET shapes == {NoShape} \cup UNION {Range(ShapesOf[i]) : i \in Images}
       IN  previous \in shapes /\ tables \in shapes
    /\ done \in Nat
    /\ done > 0 => pc \in {"encoding", "resizing"} /\ done < Len(ShapesOf[request.images])

\* tests/test_decision_gpu.py: "Fresh-state allocation reuse must not retain
\* answers or prior-state KV content", "Physical sharing must preserve logits".
\* Every question attends to its own prompt, in every layer and from the first
\* token to the last, as if its request were the first of the process.
AnswersFromOwnPrompt ==
    pc = "reading" => \A i \in 1 .. count :
        LET own == Rows(Prompt(request, request.questions[first + i]), request.images)
        IN  attended[i].global = own /\ attended[i].sliding = own

\* "Failure cannot leave a stale cache entry valid": while an entry can be hit
\* its rows are in the prefix, with the images a request that hits it would show.
CacheEntryHolds ==
    LET imageless == \A i \in DOMAIN cachedIds : cachedIds[i] # "image"
        current == cachedRevision = imageRevision /\ cachedImages # NoImages
    IN  cachedIds # <<>> /\ pc # "filling" /\ (imageless \/ current) =>
            /\ prefix.global = Rows(cachedIds, cachedImages)
            /\ prefix.sliding = Rows(cachedIds, cachedImages)

\* Branches that share pages share those of the present prefix, all of it, and
\* see the rows that are there.
SharedBranchesFollowPrefix ==
    \A b \in DOMAIN branches : branches[b].shared > 0 =>
        /\ prefix.sealed
        /\ Upto(branches[b].global, branches[b].shared) = prefix.global

\* A request that is valid never runs into what an earlier one left behind: a
\* sealed prefix, or a branch whose pages it may not write.
NoRequestInheritsFailure == failure \notin {"immutable", "invalid item"}

=============================================================================
