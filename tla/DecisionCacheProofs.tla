------------------------ MODULE DecisionCacheProofs ------------------------
(* Theorems about DecisionCache, for any settings, states, images, questions *)
(* and batch sizes.                                                          *)
EXTENDS DecisionCache, WellFoundedInduction, TLAPS

-----------------------------------------------------------------------------
(* Sequences of tokens and of rows *)

\* An initial segment is as long as it can be.
LEMMA UptoIs ==
    ASSUME NEW T, NEW s \in Seq(T), NEW n \in Nat
    PROVE  /\ Upto(s, n) \in Seq(T)
           /\ Len(Upto(s, n)) = (IF n < Len(s) THEN n ELSE Len(s))
           /\ \A i \in 1 .. Len(Upto(s, n)) : Upto(s, n)[i] = s[i]
  BY DEF Upto

LEMMA UptoAll ==
    ASSUME NEW T, NEW s \in Seq(T), NEW n \in Nat, n >= Len(s)
    PROVE  Upto(s, n) = s
  BY DEF Upto

LEMMA UptoNone ==
    ASSUME NEW T, NEW s \in Seq(T)
    PROVE  Upto(s, 0) = <<>>
  BY DEF Upto

LEMMA UptoFirst ==
    ASSUME NEW T, NEW s \in Seq(T), NEW t \in Seq(T)
    PROVE  Upto(s \o t, Len(s)) = s
  BY DEF Upto

\* What is written after n rows does not change them.
LEMMA UptoKept ==
    ASSUME NEW T, NEW s \in Seq(T), NEW t \in Seq(T), NEW n \in Nat, n <= Len(s)
    PROVE  Upto(Upto(s, n) \o t, n) = Upto(s, n)
<1>1. Upto(s, n) \in Seq(T) /\ Len(Upto(s, n)) = n
  BY UptoIs
<1> QED
  BY <1>1, UptoFirst

LEMMA RowsAre ==
    ASSUME NEW T, NEW ids \in Seq(T), NEW shown \in T
    PROVE  /\ Rows(ids, shown) \in Seq(T)
           /\ Len(Rows(ids, shown)) = Len(ids)
           /\ \A i \in 1 .. Len(ids) :
                Rows(ids, shown)[i] = IF ids[i] = "image" THEN shown ELSE ids[i]
<1>1. DOMAIN ids = 1 .. Len(ids) /\ Len(ids) \in Nat
  OBVIOUS
<1>2. Rows(ids, shown) \in [1 .. Len(ids) -> T]
  BY <1>1 DEF Rows
<1> QED
  BY <1>1, <1>2 DEF Rows

\* Sequences of one length with the same items are the same.
LEMMA SameItems ==
    ASSUME NEW T, NEW s \in Seq(T), NEW t \in Seq(T), Len(s) = Len(t),
           \A i \in 1 .. Len(s) : s[i] = t[i]
    PROVE  s = t
  OBVIOUS

LEMMA Joined ==
    ASSUME NEW T, NEW s \in Seq(T), NEW t \in Seq(T)
    PROVE  /\ s \o t \in Seq(T)
           /\ Len(s \o t) = Len(s) + Len(t)
           /\ \A i \in 1 .. Len(s) : (s \o t)[i] = s[i]
           /\ \A i \in Len(s) + 1 .. Len(s) + Len(t) :
                i - Len(s) \in 1 .. Len(t) /\ (s \o t)[i] = t[i - Len(s)]
  OBVIOUS

LEMMA RowsOfBoth ==
    ASSUME NEW T, NEW s \in Seq(T), NEW t \in Seq(T), NEW shown \in T
    PROVE  Rows(s \o t, shown) = Rows(s, shown) \o Rows(t, shown)
<1> DEFINE a == Rows(s, shown)
           b == Rows(t, shown)
           whole == Rows(s \o t, shown)
<1>1. s \o t \in Seq(T) /\ Len(s \o t) = Len(s) + Len(t) /\ Len(s) \in Nat /\ Len(t) \in Nat
  BY Joined
<1>2. a \in Seq(T) /\ b \in Seq(T) /\ Len(a) = Len(s) /\ Len(b) = Len(t)
  BY RowsAre
<1>3. whole \in Seq(T) /\ Len(whole) = Len(s) + Len(t)
  BY <1>1, RowsAre
<1>4. \A i \in 1 .. Len(s) + Len(t) :
          whole[i] = IF (s \o t)[i] = "image" THEN shown ELSE (s \o t)[i]
  BY <1>1, RowsAre
<1>5. \A i \in 1 .. Len(s) : a[i] = IF s[i] = "image" THEN shown ELSE s[i]
  BY RowsAre
<1>6. \A i \in 1 .. Len(t) : b[i] = IF t[i] = "image" THEN shown ELSE t[i]
  BY RowsAre
<1> HIDE DEF a, b, whole
<1>7. /\ a \o b \in Seq(T) /\ Len(a \o b) = Len(s) + Len(t)
      /\ \A i \in 1 .. Len(s) : (a \o b)[i] = a[i]
      /\ \A i \in Len(s) + 1 .. Len(s) + Len(t) :
            i - Len(s) \in 1 .. Len(t) /\ (a \o b)[i] = b[i - Len(s)]
  <2>1. /\ a \o b \in Seq(T) /\ Len(a \o b) = Len(a) + Len(b)
        /\ \A i \in 1 .. Len(a) : (a \o b)[i] = a[i]
        /\ \A i \in Len(a) + 1 .. Len(a) + Len(b) :
              i - Len(a) \in 1 .. Len(b) /\ (a \o b)[i] = b[i - Len(a)]
    BY <1>2, Joined, ZenonT(60)
  <2> QED
    BY <1>2, <2>1
<1>8. ASSUME NEW i \in 1 .. Len(s) + Len(t) PROVE whole[i] = (a \o b)[i]
  <2>0. i \in 1 .. Len(s) \/ i \in Len(s) + 1 .. Len(s) + Len(t)
    BY <1>1
  <2>1. CASE i \in 1 .. Len(s)
    <3>1. (s \o t)[i] = s[i]
      BY <2>1, Joined
    <3> QED
      BY <1>4, <1>5, <1>7, <2>1, <3>1
  <2>2. CASE i \in Len(s) + 1 .. Len(s) + Len(t)
    <3>1. i - Len(s) \in 1 .. Len(t) /\ (s \o t)[i] = t[i - Len(s)]
      BY <2>2, Joined
    <3> QED
      BY <1>4, <1>6, <1>7, <2>2, <3>1
  <2> QED
    BY <2>0, <2>1, <2>2
<1>9. whole = a \o b
  BY <1>1, <1>3, <1>7, <1>8, SameItems
<1> QED
  BY <1>9 DEF a, b, whole

\* Without image tokens the rows do not depend on the images.
LEMMA RowsWithoutImages ==
    ASSUME NEW T, NEW ids \in Seq(T), NEW a, NEW b,
           \A i \in DOMAIN ids : ids[i] # "image"
    PROVE  Rows(ids, a) = Rows(ids, b)
  BY DEF Rows

LEMMA TwoParts ==
    ASSUME NEW T, NEW p \in Seq(T), NEW n \in 0 .. Len(p)
    PROVE  /\ SubSeq(p, 1, n) \in Seq(T) /\ SubSeq(p, n + 1, Len(p)) \in Seq(T)
           /\ Len(SubSeq(p, 1, n)) = n
           /\ SubSeq(p, 1, n) \o SubSeq(p, n + 1, Len(p)) = p
<1> DEFINE a == SubSeq(p, 1, n)
           b == SubSeq(p, n + 1, Len(p))
<1>1. /\ a \in Seq(T) /\ Len(a) = n /\ \A i \in 1 .. n : a[i] = p[i]
  OBVIOUS
<1>2. /\ b \in Seq(T) /\ Len(b) = Len(p) - n
      /\ \A i \in 1 .. Len(p) - n : b[i] = p[n + i]
  OBVIOUS
<1> HIDE DEF a, b
<1>3. a \o b \in Seq(T) /\ Len(a \o b) = Len(p) /\ Len(p) \in Nat
  BY <1>1, <1>2, Joined
<1>4. ASSUME NEW i \in 1 .. Len(p) PROVE (a \o b)[i] = p[i]
  <2>1. CASE i \in 1 .. n
    BY <1>1, <1>2, <2>1, Joined
  <2>2. CASE i \in n + 1 .. Len(p)
    <3>1. i - n \in 1 .. Len(p) - n /\ n + (i - n) = i
      BY <1>3, <2>2
    <3>2. (a \o b)[i] = b[i - n]
      BY <1>1, <1>2, <1>3, <2>2, Joined
    <3> QED
      BY <1>2, <3>1, <3>2
  <2> QED
    BY <1>3, <2>1, <2>2
<1>5. a \o b = p
  BY <1>3, <1>4, SameItems
<1> QED
  BY <1>1, <1>2, <1>5 DEF a, b

-----------------------------------------------------------------------------
(* Prompts and what they have in common *)

LEMMA GreatestExists ==
    ASSUME NEW n \in Nat, NEW S \in SUBSET (0 .. n), S # {}
    PROVE  \E m \in S : \A k \in S : k <= m
<1> DEFINE Less == {ss \in Nat \X Nat : ss[1] < ss[2]}
           Left == {n - k : k \in S}
<1>1. IsWellFoundedOn(Less, Nat)
  BY NatLessThanWellFounded, Zenon DEF OpToRel
<1>2. Left \in SUBSET Nat /\ Left # {}
  <2>1. \A k \in S : n - k \in Nat
    OBVIOUS
  <2> QED
    BY <2>1
<1> HIDE DEF Less
<1>3. PICK l \in Left : \A k \in Left : ~ <<k, l>> \in Less
  BY <1>1, <1>2, WFMin
<1>4. \A k \in Left : ~ k < l
  BY <1>2, <1>3 DEF Less
<1>5. PICK m \in S : l = n - m
  BY <1>3
<1>6. ASSUME NEW k \in S PROVE k <= m
  <2>1. ~ n - k < n - m
    BY <1>4, <1>5
  <2> QED
    BY <1>5, <2>1
<1> QED
  BY <1>5, <1>6

LEMMA RequestIs ==
    ASSUME NEW r \in Requests
    PROVE  /\ r.mode \in Modes /\ r.layout \in Layouts /\ r.state \in States
           /\ r.images \in Images \cup {NoImages} /\ r.reset \in BOOLEAN
           /\ <<r.mode, r.layout>> \in Settings
           /\ r.questions \in Seq(Seq(Words)) /\ r.questions # <<>>
           /\ DOMAIN r.questions = 1 .. Len(r.questions) /\ Len(r.questions) \in Nat \ {0}
           /\ r.batch \in Nat \ {0}
<1>1. r \in [mode : Modes, layout : Layouts, state : States,
            images : Images \cup {NoImages}, questions : QuestionLists,
            batch : Batches, reset : BOOLEAN]
  BY DEF Requests
<1>2. r.questions \in Seq(Seq(Words)) /\ r.questions # <<>>
  BY <1>1, DecisionCacheAssumption
<1>3. DOMAIN r.questions = 1 .. Len(r.questions) /\ Len(r.questions) \in Nat \ {0}
  BY <1>2
<1>4. r.batch \in Nat \ {0}
  BY <1>1, DecisionCacheAssumption
<1> QED
  BY <1>1, <1>2, <1>3, <1>4 DEF Requests

LEMMA StateIdsAre ==
    ASSUME NEW r \in Requests
    PROVE  /\ StateIds(r) \in Seq(Tokens)
           /\ r.layout = "user_state" => Len(StateIds(r)) = 0
           /\ r.layout # "user_state" => Len(StateIds(r)) >= 2
           /\ r.images = NoImages => \A i \in 1 .. Len(StateIds(r)) : StateIds(r)[i] # "image"
<1>1. r.state \in States /\ r.state # "image"
  BY RequestIs, DecisionCacheAssumption
<1>2. {"system", "image", r.state} \subseteq Tokens
  BY <1>1 DEF Tokens
<1>3. CASE r.layout = "user_state"
  BY <1>3 DEF StateIds
<1>4. CASE r.layout # "user_state" /\ r.images = NoImages
  <2>1. StateIds(r) = <<"system", r.state>>
    BY <1>4 DEF StateIds
  <2> QED
    BY <1>1, <1>2, <1>4, <2>1
<1>5. CASE r.layout # "user_state" /\ r.images # NoImages
  <2>1. StateIds(r) = <<"system", r.state>> \o <<"image">>
    BY <1>5 DEF StateIds
  <2>2. <<"system", r.state>> \in Seq(Tokens) /\ <<"image">> \in Seq(Tokens)
    BY <1>2
  <2>3. StateIds(r) \in Seq(Tokens) /\ Len(StateIds(r)) = 2 + 1
    BY <2>1, <2>2, Joined
  <2> QED
    BY <1>5, <2>3
<1> QED
  BY <1>3, <1>4, <1>5

\* A prompt begins with what its request's prompts share, has two tokens at
\* least, and an image only if its request has.
LEMMA PromptIs ==
    ASSUME NEW r \in Requests, NEW q \in Seq(Words)
    PROVE  /\ Prompt(r, q) \in Seq(Tokens)
           /\ Len(Prompt(r, q)) > Len(StateIds(r)) /\ Len(Prompt(r, q)) > 2
           /\ SubSeq(Prompt(r, q), 1, Len(StateIds(r))) = StateIds(r)
           /\ r.images = NoImages => \A i \in DOMAIN Prompt(r, q) : Prompt(r, q)[i] # "image"
<1>1. r.state \in States /\ r.state # "image" /\ \A i \in 1 .. Len(q) : q[i] # "image"
  <2>1. r.state \in States
    BY RequestIs
  <2>2. \A i \in 1 .. Len(q) : q[i] \in Words
    OBVIOUS
  <2> QED
    BY <2>1, <2>2, DecisionCacheAssumption
<1>2. /\ {"user", "ask", r.state} \subseteq Tokens /\ Words \subseteq Tokens
      /\ q \in Seq(Tokens)
  BY <1>1 DEF Tokens
<1>3. CASE r.layout = "user_state"
  <2> DEFINE head == <<"user", r.state, "ask">>
  <2>1. Prompt(r, q) = head \o q /\ StateIds(r) = <<>>
    BY <1>3 DEF Prompt, StateIds
  <2>2. head \in Seq(Tokens) /\ Len(head) = 3 /\ \A i \in 1 .. 3 : head[i] # "image"
    BY <1>1, <1>2
  <2> HIDE DEF head
  <2>3. /\ head \o q \in Seq(Tokens) /\ Len(head \o q) = 3 + Len(q) /\ Len(q) \in Nat
        /\ \A i \in 1 .. 3 : (head \o q)[i] = head[i]
        /\ \A i \in 4 .. 3 + Len(q) : i - 3 \in 1 .. Len(q) /\ (head \o q)[i] = q[i - 3]
    <3>1. /\ head \o q \in Seq(Tokens) /\ Len(head \o q) = Len(head) + Len(q)
          /\ \A i \in 1 .. Len(head) : (head \o q)[i] = head[i]
          /\ \A i \in Len(head) + 1 .. Len(head) + Len(q) :
                i - Len(head) \in 1 .. Len(q) /\ (head \o q)[i] = q[i - Len(head)]
      BY <1>2, <2>2, Joined, ZenonT(60)
    <3> QED
      BY <1>2, <2>2, <3>1
  <2>4. \A i \in DOMAIN (head \o q) : (head \o q)[i] # "image"
    BY <1>1, <2>2, <2>3
  <2> QED
    BY <2>1, <2>3, <2>4
<1>4. CASE r.layout # "user_state"
  <2> DEFINE head == StateIds(r) \o <<"ask">>
             n == Len(StateIds(r))
  <2>1. Prompt(r, q) = head \o q
    BY <1>4 DEF Prompt
  <2>2. StateIds(r) \in Seq(Tokens) /\ n \in Nat /\ n >= 2
    BY <1>4, StateIdsAre
  <2>3. head \in Seq(Tokens) /\ Len(head) = n + 1 /\ \A i \in 1 .. n : head[i] = StateIds(r)[i]
    BY <1>2, <2>2
  <2>4. head[n + 1] = "ask"
    BY <2>2
  <2>5. r.images = NoImages => \A i \in 1 .. n + 1 : head[i] # "image"
    BY <2>2, <2>3, <2>4, StateIdsAre
  <2> HIDE DEF head
  <2>6. /\ head \o q \in Seq(Tokens) /\ Len(head \o q) = n + 1 + Len(q)
        /\ \A i \in 1 .. n + 1 : (head \o q)[i] = head[i]
        /\ \A i \in n + 2 .. n + 1 + Len(q) :
                i - (n + 1) \in 1 .. Len(q) /\ (head \o q)[i] = q[i - (n + 1)]
    BY SMTT(30), <1>2, <2>2, <2>3
  <2>7. SubSeq(head \o q, 1, n) = StateIds(r)
    BY <2>2, <2>3, <2>6
  <2>8. r.images = NoImages => \A i \in DOMAIN (head \o q) : (head \o q)[i] # "image"
    BY <1>1, <2>2, <2>5, <2>6
  <2> QED
    BY <2>1, <2>2, <2>6, <2>7, <2>8
<1> QED
  BY <1>3, <1>4

\* What the prompts of a request share ends before each of them does; with the
\* state in front it holds the state.
LEMMA CommonIs ==
    ASSUME NEW r \in Requests
    PROVE  /\ Common(r) \in Nat
           /\ \A i \in 1 .. Len(r.questions) :
                /\ Common(r) < Len(Prompt(r, r.questions[i]))
                /\ SubSeq(Prompt(r, r.questions[i]), 1, Common(r))
                     = SubSeq(Prompt(r, r.questions[1]), 1, Common(r))
           /\ r.layout # "user_state" /\ r.mode # "none" => Common(r) >= 2
<1> DEFINE Asked(i) == Prompt(r, r.questions[i])
           prompts == {Prompt(r, r.questions[i]) : i \in DOMAIN r.questions}
           p == Prompt(r, r.questions[1])
           agree == {n \in 0 .. Len(p) :
               \A o \in prompts : n < Len(o) /\ SubSeq(o, 1, n) = SubSeq(p, 1, n)}
           longest == CHOOSE n \in agree : \A m \in agree : m <= n
           own == Len(StateIds(r))
<1>1. /\ DOMAIN r.questions = 1 .. Len(r.questions) /\ Len(r.questions) \in Nat \ {0}
      /\ r.questions \in Seq(Seq(Words))
  BY RequestIs
<1>2. \A i \in 1 .. Len(r.questions) : r.questions[i] \in Seq(Words)
  BY <1>1
<1>3. \A i \in 1 .. Len(r.questions) :
          /\ Asked(i) \in Seq(Tokens) /\ Len(Asked(i)) > own /\ Len(Asked(i)) > 2
          /\ SubSeq(Asked(i), 1, own) = StateIds(r)
  BY <1>2, PromptIs
<1>4. own \in Nat /\ (r.layout # "user_state" => own >= 2)
  BY StateIdsAre
<1>5. p = Asked(1) /\ p \in Seq(Tokens) /\ Len(p) \in Nat
  BY <1>1, <1>3
<1>6. prompts = {Asked(i) : i \in 1 .. Len(r.questions)}
  BY <1>1
<1>7. /\ Common(r) = CASE r.mode = "none" -> 0
                       [] Len(r.questions) = 1 -> own
                       [] OTHER -> IF longest < 2 THEN 0 ELSE longest
  BY DEF Common
<1> HIDE DEF p, prompts, own, Asked
<1>8. 0 \in agree
  BY <1>1, <1>3, <1>5, <1>6
<1>9. own \in agree
  BY SMTT(30), <1>1, <1>3, <1>4, <1>5, <1>6
<1>10. longest \in agree /\ own <= longest
  BY <1>5, <1>8, <1>9, GreatestExists
<1>11. ASSUME NEW n \in agree
       PROVE  n \in Nat /\ \A i \in 1 .. Len(r.questions) :
                n < Len(Asked(i)) /\ SubSeq(Asked(i), 1, n) = SubSeq(Asked(1), 1, n)
  BY <1>5, <1>6
<1> HIDE DEF agree, longest
<1>12. Common(r) \in agree
  BY <1>7, <1>8, <1>9, <1>10, RequestIs
<1>13. r.layout # "user_state" /\ r.mode # "none" => Common(r) >= 2
  BY <1>4, <1>7, <1>10, <1>11
<1> QED
  BY <1>11, <1>12, <1>13 DEF Asked

-----------------------------------------------------------------------------
(* Caches *)

LEMMA ExtendIs ==
    ASSUME NEW c \in Caches, NEW n \in Nat, NEW ids \in Seq(Tokens), NEW shown \in Tokens
    PROVE  /\ Extend(c, n, ids, shown) \in Caches
           /\ Extend(c, n, ids, shown).global = Upto(c.global, n) \o Rows(ids, shown)
           /\ Extend(c, n, ids, shown).sliding = Upto(c.sliding, n) \o Rows(ids, shown)
           /\ Extend(c, n, ids, shown).shared = c.shared
           /\ Extend(c, n, ids, shown).sealed = c.sealed
           /\ Extend(c, n, ids, shown).exists = c.exists
<1>1. c.global \in Seq(Tokens) /\ c.sliding \in Seq(Tokens)
  BY DEF Caches
<1>2. /\ Upto(c.global, n) \o Rows(ids, shown) \in Seq(Tokens)
      /\ Upto(c.sliding, n) \o Rows(ids, shown) \in Seq(Tokens)
  BY <1>1, UptoIs, RowsAre, Joined
<1> QED
  BY <1>2 DEF Extend, Caches

LEMMA SealedIs ==
    ASSUME NEW c \in Caches, NEW d, d = [c EXCEPT !.sealed = TRUE]
    PROVE  /\ d \in Caches /\ d.sealed
           /\ d.global = c.global /\ d.sliding = c.sliding /\ d.shared = c.shared
           /\ d.exists = c.exists
  BY DEF Caches

LEMMA FreshIs ==
    /\ FreshCache \in Caches
    /\ FreshCache.global = <<>> /\ FreshCache.sliding = <<>> /\ FreshCache.shared = 0
    /\ ~FreshCache.sealed /\ FreshCache.exists
<1>1. FreshCache = [global |-> <<>>, sliding |-> <<>>, shared |-> 0, sealed |-> FALSE,
                    exists |-> TRUE]
  BY DEF FreshCache, NoCache
<1>2. <<>> \in Seq(Tokens)
  OBVIOUS
<1> QED
  BY <1>1, <1>2 DEF Caches

LEMMA EmptiedIs ==
    ASSUME NEW c \in Caches, NEW d, d = [c EXCEPT !.global = <<>>, !.sliding = <<>>]
    PROVE  /\ d \in Caches /\ d.sealed = c.sealed /\ d.exists = c.exists /\ d.shared = c.shared
           /\ d.global = <<>> /\ d.sliding = <<>>
<1>1. <<>> \in Seq(Tokens)
  OBVIOUS
<1> QED
  BY <1>1 DEF Caches

-----------------------------------------------------------------------------
(* What a request finds of the earlier ones *)

Looking == {"looking", "allocating", "filling", "batching", "forking", "running", "reading"}
InWaves == {"batching", "forking", "running", "reading"}

Control ==
    /\ pc \in {"idle", "encoding", "resizing", "planning"} \cup Looking
    /\ pc # "idle" => request \in Requests
    /\ common \in Nat /\ first \in Nat /\ count \in Nat
    /\ pc \notin InWaves => first = 0
    /\ pc \notin InWaves \ {"batching"} => count = 0
    /\ pc \in InWaves => first + count <= Len(request.questions)

Stored ==
    /\ prefix \in Caches
    /\ branches \in Seq(Caches)
    /\ cachedIds \in Seq(Tokens)
    /\ cachedRevision \in Nat /\ imageRevision \in Nat
    /\ projected \in Tokens /\ cachedImages \in Tokens

\* A list of images is known by its identity once all of it is encoded, through
\* the tables of its own shapes, and by a revision no prefix was filled with.
Pictures ==
    /\ previous = tables
    /\ pc \in {"encoding", "resizing"} =>
            /\ projected = NoImages /\ cachedImages = NoImages
            /\ request.images # NoImages /\ imageRevision > 0
    /\ cachedImages # NoImages => projected = cachedImages /\ imageRevision > 0
    /\ cachedRevision <= imageRevision
    /\ cachedImages = NoImages /\ imageRevision > 0 => cachedRevision < imageRevision
    /\ pc \in Looking \cup {"planning"} /\ request.images # NoImages =>
            cachedImages = request.images

Planned == pc \in Looking => common = Common(request) /\ branchMode = request.mode

Imageless(ids) == \A i \in DOMAIN ids : ids[i] # "image"
Holds(ids, shown) ==
    /\ prefix.global = Rows(ids, shown)
    /\ prefix.sliding = Rows(ids, shown)

Entry ==
    /\ /\ cachedIds # <<>>
       /\ \/ Imageless(cachedIds)
          \/ cachedRevision = imageRevision /\ cachedImages # NoImages
       => Holds(cachedIds, cachedImages)
    /\ cachedIds # <<>> => prefix.exists

\* In the waves the prefix is the one of this request.
Ready == pc \in InWaves /\ common > 0 => Holds(PrefixIds, request.images)

\* The worker knows that its prefix is sealed; the one it fills is not.
Sealing ==
    /\ prefix.sealed => prefixSealed = TRUE
    /\ pc = "filling" => prefixSealed = FALSE /\ prefix.exists

Base == Control /\ Stored /\ Pictures /\ Planned /\ Entry /\ Ready /\ Sealing

-----------------------------------------------------------------------------

\* The prefix of a request, and its rows whichever way its images are named.
LEMMA PrefixIs ==
    ASSUME Control, Planned, pc \in Looking
    PROVE  /\ PrefixIds \in Seq(Tokens) /\ Len(PrefixIds) = common
           /\ request.images = NoImages => Imageless(PrefixIds)
<1> DEFINE p == Prompt(request, request.questions[1])
<1>1. request \in Requests /\ common = Common(request) /\ common \in Nat
  BY DEF Control, Planned, Looking
<1>2. request.questions[1] \in Seq(Words) /\ 1 \in 1 .. Len(request.questions)
  <2>1. request.questions \in Seq(Seq(Words)) /\ Len(request.questions) \in Nat \ {0}
    BY <1>1, RequestIs
  <2> QED
    BY <2>1
<1>3. p \in Seq(Tokens) /\ Len(p) \in Nat
  BY <1>1, <1>2, PromptIs
<1>4. request.images = NoImages => \A i \in DOMAIN p : p[i] # "image"
  BY <1>1, <1>2, PromptIs
<1>5. common \in 0 .. Len(p)
  BY <1>1, <1>2, <1>3, CommonIs
<1> HIDE DEF p
<1>6. SubSeq(p, 1, common) \in Seq(Tokens) /\ Len(SubSeq(p, 1, common)) = common
      /\ \A i \in 1 .. common : SubSeq(p, 1, common)[i] = p[i] /\ i \in DOMAIN p
  BY <1>3, <1>5
<1>7. PrefixIds = SubSeq(p, 1, common)
  BY DEF PrefixIds, p
<1> QED
  BY <1>4, <1>6, <1>7 DEF Imageless

LEMMA ImagesShow ==
    ASSUME Control, Stored, Pictures, pc \in Looking, NEW ids \in Seq(Tokens),
           request.images = NoImages => Imageless(ids)
    PROVE  /\ Rows(ids, projected) = Rows(ids, request.images)
           /\ Rows(ids, cachedImages) = Rows(ids, request.images)
<1>1. CASE request.images = NoImages
  BY <1>1, RowsWithoutImages DEF Imageless
<1>2. CASE request.images # NoImages
  BY <1>2 DEF Pictures
<1> QED
  BY <1>1, <1>2

LEMMA StepControl == ASSUME Control, Planned, [Next]_vars PROVE Control'
<1> USE DEF Control, Looking, InWaves, Leave, plan, images, pictures, storage
<1>1. ASSUME NEW r \in Requests, Receive(r) \/ Encode(r) PROVE Control'
  BY <1>1 DEF Receive, Encode
<1>2. CASE Resize \/ Encoded
  BY <1>2 DEF Resize, Encoded
<1>3. CASE Plan
  BY <1>3, CommonIs DEF Plan
<1>4. CASE Reuse \/ Miss \/ Allocate
  <2>1. request \in Requests /\ Len(request.questions) \in Nat
    BY <1>4, RequestIs DEF Reuse, Miss, Allocate
  <2> QED
    BY <1>4, <2>1 DEF Reuse, Miss, Allocate
<1>5. CASE Fill
  <2>1. request \in Requests /\ Len(request.questions) \in Nat
    BY <1>5, RequestIs DEF Fill
  <2> QED
    BY <1>5, <2>1 DEF Fill
<1>6. CASE Batch
  <2>1. request \in Requests /\ Len(request.questions) \in Nat
    BY <1>6, RequestIs DEF Batch
  <2>2. count' \in 1 .. Len(request.questions) - first
    BY <1>6 DEF Batch
  <2> QED
    BY <1>6, <2>1, <2>2 DEF Batch
<1>7. CASE Fork \/ ForkFails \/ Clone
  <2>1. CASE Fork
    BY <2>1 DEF Fork
  <2>2. CASE ForkFails
    BY <2>2 DEF ForkFails
  <2>3. CASE Clone
    BY <2>3 DEF Clone
  <2> QED
    BY <1>7, <2>1, <2>2, <2>3
<1>8. CASE Run
  <2>1. CASE UNCHANGED <<request, common, first, count>> /\ pc = "running" /\ pc' = "reading"
    BY <2>1
  <2>2. CASE first' = 0 /\ count' = 0 /\ common' = 0 /\ pc' = "idle"
    BY <2>2
  <2> QED
    BY <1>8, <2>1, <2>2 DEF Run
<1>9. CASE Answer
  <2>1. request \in Requests /\ Len(request.questions) \in Nat
    BY <1>9, RequestIs DEF Answer
  <2>2. CASE first + count < Len(request.questions)
    <3>1. /\ pc = "reading" /\ pc' = "batching" /\ UNCHANGED <<request, common>>
          /\ first' = first + count /\ count' = 0
      BY <1>9, <2>2 DEF Answer
    <3> QED
      BY <2>1, <2>2, <3>1
  <2>3. CASE ~ first + count < Len(request.questions)
    BY <1>9, <2>3 DEF Answer
  <2> QED
    BY <2>2, <2>3
<1>10. CASE Throw
  BY <1>10 DEF Throw
<1>11. CASE UNCHANGED vars
  BY <1>11 DEF vars
<1> HIDE DEF Control
<1> QED
  BY <1>1, <1>2, <1>3, <1>4, <1>5, <1>6, <1>7, <1>8, <1>9, <1>10, <1>11 DEF Next

LEMMA StepPictures == ASSUME Control, Stored, Pictures, [Next]_vars PROVE Pictures'
<1> USE DEF Pictures, Looking, InWaves, Leave, plan, images, pictures, storage
<1>1. ASSUME NEW r \in Requests, Receive(r) PROVE Pictures'
  BY <1>1 DEF Receive, Control
<1>2. ASSUME NEW r \in Requests, Encode(r) PROVE Pictures'
  BY <1>2 DEF Encode, Stored
<1>3. CASE Resize
  BY <1>3 DEF Resize
<1>4. CASE Encoded
  <2>1. previous' = Shape /\ tables' = Shape
    BY <1>4 DEF Encoded
  <2> QED
    BY <1>4, <2>1 DEF Encoded, Stored
<1>5. CASE Plan \/ Reuse \/ Miss \/ Allocate
  BY <1>5 DEF Plan, Reuse, Miss, Allocate
<1>6. CASE Fill
  BY <1>6 DEF Fill, Revision, Stored
<1>7. CASE Batch \/ Fork \/ Clone
  BY <1>7 DEF Batch, Fork, Clone
<1>8. CASE ForkFails \/ Throw \/ Answer
  BY <1>8 DEF ForkFails, Throw, Answer
<1>9. CASE Run
  BY <1>9 DEF Run
<1>10. CASE UNCHANGED vars
  BY <1>10 DEF vars
<1> HIDE DEF Pictures
<1> QED
  BY <1>1, <1>2, <1>3, <1>4, <1>5, <1>6, <1>7, <1>8, <1>9, <1>10 DEF Next

LEMMA StepPlanned == ASSUME Control, Planned, [Next]_vars PROVE Planned'
<1> USE DEF Planned, Looking, InWaves, Leave, plan, images, pictures, storage
<1>1. ASSUME NEW r \in Requests, Receive(r) \/ Encode(r) PROVE Planned'
  BY <1>1 DEF Receive, Encode
<1>2. CASE Resize \/ Encoded \/ Throw
  BY <1>2 DEF Resize, Encoded, Throw
<1>3. CASE Plan \/ Reuse \/ Miss \/ Allocate
  BY <1>3 DEF Plan, Reuse, Miss, Allocate
<1>4. CASE Fill \/ Batch \/ Fork
  BY <1>4 DEF Fill, Batch, Fork
<1>5. CASE Clone \/ ForkFails \/ Answer
  BY <1>5 DEF Clone, ForkFails, Answer
<1>6. CASE Run
  BY <1>6 DEF Run
<1>7. CASE UNCHANGED vars
  BY <1>7 DEF vars
<1> HIDE DEF Planned
<1> QED
  BY <1>1, <1>2, <1>3, <1>4, <1>5, <1>6, <1>7 DEF Next

\* What a question adds to the prefix.
LEMMA SuffixIs ==
    ASSUME Control, Planned, pc \in Looking, NEW i \in 1 .. count,
           first + count <= Len(request.questions)
    PROVE  /\ Suffix(i) \in Seq(Tokens)
           /\ PrefixIds \o Suffix(i) = Prompt(request, request.questions[first + i])
           /\ request.images = NoImages => Imageless(Suffix(i))
<1> DEFINE n == first + i
           p == Prompt(request, request.questions[n])
<1>1. /\ request \in Requests /\ common = Common(request) /\ common \in Nat
      /\ first \in Nat /\ count \in Nat
  BY DEF Control, Planned, Looking
<1>2. request.questions \in Seq(Seq(Words)) /\ Len(request.questions) \in Nat \ {0}
  BY <1>1, RequestIs
<1>3. n \in 1 .. Len(request.questions) /\ request.questions[n] \in Seq(Words)
  BY <1>1, <1>2
<1>4. p \in Seq(Tokens) /\ Len(p) \in Nat
  BY <1>1, <1>3, PromptIs
<1>5. request.images = NoImages => \A k \in DOMAIN p : p[k] # "image"
  BY <1>1, <1>3, PromptIs
<1>6. common \in 0 .. Len(p) /\ PrefixIds = SubSeq(p, 1, common)
  BY <1>1, <1>3, <1>4, CommonIs DEF PrefixIds
<1>7. Suffix(i) = SubSeq(p, common + 1, Len(p))
  BY DEF Suffix
<1> HIDE DEF p
<1>8. Suffix(i) \in Seq(Tokens) /\ PrefixIds \o Suffix(i) = p
  <2>1. /\ SubSeq(p, common + 1, Len(p)) \in Seq(Tokens)
        /\ SubSeq(p, 1, common) \o SubSeq(p, common + 1, Len(p)) = p
    BY <1>4, <1>6, TwoParts
  <2> QED
    BY <1>6, <1>7, <2>1
<1>9. \A k \in DOMAIN Suffix(i) : Suffix(i)[k] = p[common + k] /\ common + k \in DOMAIN p
  <2>1. /\ Len(Suffix(i)) = Len(p) - common
        /\ \A k \in 1 .. Len(p) - common : Suffix(i)[k] = p[common + k]
    BY <1>4, <1>6, <1>7
  <2>2. DOMAIN Suffix(i) = 1 .. Len(p) - common
    BY <1>8, <2>1
  <2> QED
    BY <1>1, <1>4, <1>6, <2>1, <2>2
<1> QED
  BY <1>5, <1>8, <1>9 DEF Imageless, p

LEMMA StepStored == ASSUME Control, Planned, Stored, Pictures, [Next]_vars PROVE Stored'
<1> USE DEF Stored, Leave, plan, images, pictures, storage
<1>1. ASSUME NEW r \in Requests, Receive(r) \/ Encode(r) PROVE Stored'
  <2>1. NoImages \in Tokens
    BY DEF Tokens
  <2> QED
    BY <1>1, <2>1 DEF Receive, Encode
<1>2. CASE Resize \/ Answer \/ Throw
  BY <1>2 DEF Resize, Answer, Throw
<1>3. CASE Encoded
  <2>1. request.images \in Tokens /\ "garbled" \in Tokens
    BY <1>3, RequestIs DEF Encoded, Control, Tokens
  <2> QED
    BY <1>3, <2>1 DEF Encoded
<1>4. CASE Plan
  <2>1. <<>> \in Seq(Tokens) /\ <<>> \in Seq(Caches)
    OBVIOUS
  <2> QED
    BY <1>4, <2>1 DEF Plan
<1>5. CASE Reuse
  BY <1>5, FreshIs DEF Reuse
<1>6. CASE Miss
  <2>1. <<>> \in Seq(Caches)
    OBVIOUS
  <2> QED
    BY <1>6, <2>1 DEF Miss
<1>7. CASE Allocate
  <2>1. <<>> \in Seq(Tokens)
    OBVIOUS
  <2>2. prefix' \in Caches
    BY <1>7, FreshIs, EmptiedIs DEF Allocate
  <2> QED
    BY <1>7, <2>1, <2>2 DEF Allocate
<1>8. CASE Fill
  <2>1. PrefixIds \in Seq(Tokens)
    BY <1>8, PrefixIs DEF Fill, Looking
  <2>2. Extend(prefix, 0, PrefixIds, projected) \in Caches
    BY <2>1, ExtendIs
  <2>3. Revision \in Nat
    BY DEF Revision
  <2> QED
    BY <1>8, <2>1, <2>2, <2>3 DEF Fill
<1>9. CASE Batch
  BY <1>9 DEF Batch
<1>10. CASE Fork
  <2>1. prefix' \in Caches
    BY <1>10, SealedIs DEF Fork
  <2>2. Upto(prefix.global, common) \in Seq(Tokens)
    BY UptoIs DEF Caches, Control
  <2>3. [FreshCache EXCEPT !.shared = common, !.global = Upto(prefix.global, common)] \in Caches
    BY <2>2, FreshIs DEF Control, Caches
  <2>4. \E c \in Caches : branches' = Append(branches, c)
    BY <1>10, <2>3, FreshIs DEF Fork
  <2>5. branches' \in Seq(Caches)
    BY <2>4
  <2> QED
    BY <1>10, <2>1, <2>5 DEF Fork
<1>11. CASE ForkFails
  <2>1. prefix' \in Caches
    BY <1>11, SealedIs DEF ForkFails
  <2> QED
    BY <1>11, <2>1 DEF ForkFails
<1>12. CASE Clone
  <2>1. \A b \in DOMAIN branches : Cloned(branches[b]) \in Caches
    <3>1. Upto(prefix.global, common) \in Seq(Tokens) /\ prefix.sliding \in Seq(Tokens)
      BY UptoIs DEF Caches, Control
    <3>2. ASSUME NEW c \in Caches PROVE Cloned(c) \in Caches
      BY <3>1 DEF Cloned, Caches
    <3> QED
      BY <3>2
  <2>2. /\ DOMAIN branches' = DOMAIN branches
        /\ \A b \in DOMAIN branches : branches'[b] \in Caches
    BY <1>12, <2>1 DEF Clone
  <2>3. branches' \in [DOMAIN branches -> Caches]
    BY <1>12, <2>2 DEF Clone
  <2>4. branches' \in Seq(Caches)
    BY <2>3
  <2> QED
    BY <1>12, <2>4 DEF Clone
<1>13. CASE Run
  <2>1. CASE branches' = branches
    BY <1>13, <2>1 DEF Run
  <2>2. CASE branches' # branches
    <3> DEFINE after(i) == Extend(branches[i], common, Suffix(i), projected)
    <3>1. branches' = [b \in DOMAIN branches |-> IF b > count THEN branches[b] ELSE after(b)]
      BY <1>13, <2>2 DEF Run
    <3>2. pc \in Looking /\ pc \in InWaves
      BY <1>13 DEF Run, Looking, InWaves
    <3>3. \A b \in DOMAIN branches : b \in Nat \ {0} /\ branches[b] \in Caches
      OBVIOUS
    <3>4. ASSUME NEW b \in DOMAIN branches, ~ b > count PROVE after(b) \in Caches
      <4>1. b \in 1 .. count /\ common \in Nat /\ first + count <= Len(request.questions)
        BY <3>2, <3>3, <3>4 DEF Control
      <4>2. Suffix(b) \in Seq(Tokens)
        BY <3>2, <4>1, SuffixIs
      <4> QED
        BY <3>3, <4>1, <4>2, ExtendIs
    <3>5. branches' \in [DOMAIN branches -> Caches]
      BY <3>1, <3>3, <3>4
    <3>6. branches' \in Seq(Caches)
      BY <3>5
    <3> QED
      BY <1>13, <3>6 DEF Run
  <2> QED
    BY <2>1, <2>2
<1>14. CASE UNCHANGED vars
  BY <1>14 DEF vars
<1> HIDE DEF Stored
<1> QED
  BY <1>1, <1>2, <1>3, <1>4, <1>5, <1>6, <1>7, <1>8, <1>9, <1>10, <1>11, <1>12, <1>13, <1>14
     DEF Next

LEMMA StepSealing == ASSUME Stored, Sealing, [Next]_vars PROVE Sealing'
<1> USE DEF Sealing, Leave, plan, images, pictures, storage
<1>1. ASSUME NEW r \in Requests, Receive(r) \/ Encode(r) PROVE Sealing'
  BY <1>1 DEF Receive, Encode
<1>2. CASE Resize \/ Encoded \/ Plan
  BY <1>2 DEF Resize, Encoded, Plan
<1>3. CASE Reuse \/ Miss
  BY <1>3, FreshIs DEF Reuse, Miss
<1>4. CASE Allocate
  <2>1. ~prefix'.sealed /\ prefix'.exists
    <3>1. CASE prefix' = FreshCache
      BY <3>1, FreshIs
    <3>2. CASE prefix' # FreshCache
      <4>1. /\ prefix.exists /\ ~prefixSealed
            /\ prefix' = [prefix EXCEPT !.global = <<>>, !.sliding = <<>>]
        BY <1>4, <3>2 DEF Allocate
      <4>2. prefix'.sealed = prefix.sealed /\ prefix'.exists = prefix.exists
        BY <4>1, EmptiedIs DEF Stored
      <4> QED
        BY <4>1, <4>2
    <3> QED
      BY <3>1, <3>2
  <2> QED
    BY <1>4, <2>1 DEF Allocate
<1>5. CASE Fill
  <2>1. ~Extend(prefix, 0, PrefixIds, projected).sealed
    BY <1>5 DEF Fill, Extend, Stored, Caches
  <2> QED
    BY <1>5, <2>1 DEF Fill
<1>6. CASE Batch \/ Clone \/ Answer \/ Throw
  BY <1>6 DEF Batch, Clone, Answer, Throw
<1>7. CASE Fork
  <2>1. pc' = "forking"
    BY <1>7 DEF Fork
  <2>2. CASE Shares
    <3>1. prefixSealed' = TRUE
      BY <1>7, <2>2 DEF Fork
    <3> QED
      BY <2>1, <3>1
  <2>3. CASE ~Shares
    <3>1. UNCHANGED prefix
      BY <1>7, <2>3 DEF Fork
    <3>2. prefixSealed = TRUE => prefixSealed' = TRUE
      BY <1>7, <2>3 DEF Fork
    <3> QED
      BY <2>1, <3>1, <3>2
  <2> QED
    BY <2>2, <2>3
<1>8. CASE ForkFails
  BY <1>8 DEF ForkFails
<1>9. CASE Run
  BY <1>9 DEF Run
<1>10. CASE UNCHANGED vars
  BY <1>10 DEF vars
<1> HIDE DEF Sealing
<1> QED
  BY <1>1, <1>2, <1>3, <1>4, <1>5, <1>6, <1>7, <1>8, <1>9, <1>10 DEF Next

\* An entry whose rows, pictures and revisions stay as they are.
LEMMA EntryKept ==
    ASSUME Entry, UNCHANGED <<cachedIds, cachedRevision, cachedImages, imageRevision>>,
           prefix'.global = prefix.global, prefix'.sliding = prefix.sliding,
           prefix'.exists = prefix.exists
    PROVE  Entry'
  BY DEF Entry, Holds

LEMMA StepEntry ==
    ASSUME Control, Stored, Pictures, Planned, Sealing, Entry, [Next]_vars
    PROVE  Entry'
<1> USE DEF Leave, plan, images, pictures, storage
<1>1. ASSUME NEW r \in Requests, Receive(r) PROVE Entry'
  BY <1>1, EntryKept DEF Receive
<1>2. ASSUME NEW r \in Requests, Encode(r) PROVE Entry'
  <2>1. /\ UNCHANGED <<cachedIds, prefix, cachedRevision>> /\ cachedRevision < imageRevision'
        /\ cachedImages' = NoImages
    BY <1>2 DEF Encode, Stored, Pictures
  <2>2. CASE Imageless(cachedIds)
    <3>1. Rows(cachedIds, cachedImages) = Rows(cachedIds, NoImages)
      BY <2>2, RowsWithoutImages DEF Imageless, Stored
    <3> QED
      BY <2>1, <2>2, <3>1 DEF Entry, Holds
  <2>3. CASE ~Imageless(cachedIds)
    BY <2>1, <2>3 DEF Entry, Imageless, Stored
  <2> QED
    BY <2>2, <2>3
<1>3. CASE Resize \/ Batch \/ Clone \/ Answer \/ Throw \/ Miss
  BY <1>3, EntryKept DEF Resize, Batch, Clone, Answer, Throw, Miss
<1>4. CASE Encoded
  <2>1. CASE UNCHANGED cachedImages
    BY <1>4, <2>1, EntryKept DEF Encoded
  <2>2. CASE ~UNCHANGED cachedImages
    <3>1. /\ UNCHANGED <<cachedIds, prefix, cachedRevision, imageRevision>>
          /\ cachedRevision < imageRevision
      BY <1>4 DEF Encoded, Pictures
    <3>2. CASE Imageless(cachedIds)
      <4>1. Rows(cachedIds, cachedImages) = Rows(cachedIds, cachedImages')
        BY <3>2, RowsWithoutImages DEF Imageless, Stored
      <4> QED
        BY <3>1, <3>2, <4>1 DEF Entry, Holds
    <3>3. CASE ~Imageless(cachedIds)
      BY <3>1, <3>3 DEF Entry, Imageless, Stored
    <3> QED
      BY <3>2, <3>3
  <2> QED
    BY <2>1, <2>2
<1>5. CASE Plan
  <2>1. CASE cachedIds' = cachedIds
    BY <1>5, <2>1, EntryKept DEF Plan
  <2>2. CASE cachedIds' = <<>>
    BY <2>2 DEF Entry
  <2> QED
    BY <1>5, <2>1, <2>2 DEF Plan
<1>6. CASE Reuse
  <2>1. CASE UNCHANGED prefix
    BY <1>6, <2>1, EntryKept DEF Reuse
  <2>2. CASE ~UNCHANGED prefix
    BY <1>6, <2>2 DEF Reuse, Entry
  <2> QED
    BY <2>1, <2>2
<1>7. CASE Allocate
  BY <1>7 DEF Allocate, Entry
<1>8. CASE Fill
  <2>1. CASE prefix.sealed
    BY <1>8, <2>1, EntryKept DEF Fill
  <2>2. CASE ~prefix.sealed
    <3>1. PrefixIds \in Seq(Tokens) /\ prefix \in Caches /\ projected \in Tokens
      BY <1>8, PrefixIs DEF Fill, Looking, Stored
    <3>2. prefix.global \in Seq(Tokens) /\ prefix.sliding \in Seq(Tokens)
      BY <3>1 DEF Caches
    <3>3. Rows(PrefixIds, projected) \in Seq(Tokens)
      BY <3>1, RowsAre
    <3>4. /\ prefix' = Extend(prefix, 0, PrefixIds, projected) /\ cachedIds' = PrefixIds
          /\ UNCHANGED <<cachedImages, imageRevision>>
      BY <1>8, <2>2 DEF Fill
    <3>5. /\ prefix'.global = Upto(prefix.global, 0) \o Rows(PrefixIds, projected)
          /\ prefix'.sliding = Upto(prefix.sliding, 0) \o Rows(PrefixIds, projected)
          /\ prefix'.exists = prefix.exists
      BY <3>1, <3>4, ExtendIs
    <3>6. Upto(prefix.global, 0) = <<>> /\ Upto(prefix.sliding, 0) = <<>>
      BY <3>2, UptoNone
    <3>7. <<>> \o Rows(PrefixIds, projected) = Rows(PrefixIds, projected)
      BY <3>3
    <3>8. /\ prefix'.global = Rows(PrefixIds, projected)
          /\ prefix'.sliding = Rows(PrefixIds, projected)
      BY <3>5, <3>6, <3>7
    <3>9. Imageless(PrefixIds) \/ cachedImages # NoImages
            => Rows(PrefixIds, projected) = Rows(PrefixIds, cachedImages)
      <4>1. CASE Imageless(PrefixIds)
        BY <3>1, <4>1, RowsWithoutImages DEF Imageless
      <4>2. CASE cachedImages # NoImages
        BY <4>2 DEF Pictures
      <4> QED
        BY <4>1, <4>2
    <3>10. prefix.exists
      BY <1>8 DEF Fill, Sealing
    <3> QED
      BY <3>4, <3>5, <3>8, <3>9, <3>10 DEF Entry, Holds, Imageless
  <2> QED
    BY <2>1, <2>2
<1>9. CASE Fork
  <2>1. /\ prefix'.global = prefix.global /\ prefix'.sliding = prefix.sliding
        /\ prefix'.exists = prefix.exists
    BY <1>9, SealedIs DEF Fork, Stored
  <2> QED
    BY <1>9, <2>1, EntryKept DEF Fork
<1>10. CASE ForkFails
  <2>1. /\ prefix'.global = prefix.global /\ prefix'.sliding = prefix.sliding
        /\ prefix'.exists = prefix.exists
    BY <1>10, SealedIs DEF ForkFails, Stored
  <2> QED
    BY <1>10, <2>1, EntryKept DEF ForkFails
<1>11. CASE Run
  BY <1>11, EntryKept DEF Run
<1>12. CASE UNCHANGED vars
  BY <1>12, EntryKept DEF vars
<1> QED
  BY <1>1, <1>2, <1>3, <1>4, <1>5, <1>6, <1>7, <1>8, <1>9, <1>10, <1>11, <1>12 DEF Next

LEMMA StepReady ==
    ASSUME Control, Stored, Pictures, Planned, Sealing, Entry, Ready, [Next]_vars
    PROVE  Ready'
<1> USE DEF InWaves, Leave, plan, images, pictures, storage
<1>1. ASSUME NEW r \in Requests, Receive(r) \/ Encode(r) PROVE Ready'
  BY <1>1 DEF Receive, Encode, Ready
<1>2. CASE Resize \/ Encoded \/ Plan \/ Miss \/ Allocate \/ Throw
  BY <1>2 DEF Resize, Encoded, Plan, Miss, Allocate, Throw, Ready
<1>3. CASE Reuse
  <2>1. CASE common = 0
    BY <1>3, <2>1 DEF Reuse, Ready
  <2>2. CASE common # 0
    <3>1. Hits /\ UNCHANGED <<request, common>> /\ pc \in Looking
      BY <1>3, <2>2 DEF Reuse, Looking
    <3>2. /\ PrefixIds \in Seq(Tokens) /\ Len(PrefixIds) = common
          /\ request.images = NoImages => Imageless(PrefixIds)
      BY <3>1, PrefixIs
    <3>3. cachedIds = PrefixIds /\ cachedIds # <<>>
      BY <2>2, <3>1, <3>2 DEF Hits
    <3>4. prefix' = prefix
      BY <1>3, <3>3 DEF Reuse, Entry
    <3>5. request.images # NoImages => cachedRevision = imageRevision /\ cachedImages # NoImages
      BY <3>1 DEF Hits, Revision, Pictures
    <3>6. Holds(cachedIds, cachedImages)
      BY <3>2, <3>3, <3>5 DEF Entry
    <3>7. Rows(PrefixIds, cachedImages) = Rows(PrefixIds, request.images)
      BY <3>1, <3>2, ImagesShow
    <3>8. PrefixIds' = PrefixIds
      BY <3>1 DEF PrefixIds
    <3> QED
      BY <3>1, <3>3, <3>4, <3>6, <3>7, <3>8 DEF Ready, Holds
  <2> QED
    BY <2>1, <2>2
<1>4. CASE Fill
  <2>1. CASE prefix.sealed
    BY <1>4, <2>1 DEF Fill, Ready
  <2>2. CASE ~prefix.sealed
    <3>1. /\ prefix' = Extend(prefix, 0, PrefixIds, projected)
          /\ UNCHANGED <<request, common>> /\ pc \in Looking
      BY <1>4, <2>2 DEF Fill, Looking
    <3>2. /\ PrefixIds \in Seq(Tokens) /\ prefix \in Caches /\ projected \in Tokens
          /\ request.images = NoImages => Imageless(PrefixIds)
      BY <3>1, PrefixIs DEF Stored
    <3>3. prefix.global \in Seq(Tokens) /\ prefix.sliding \in Seq(Tokens)
      BY <3>2 DEF Caches
    <3>4. Rows(PrefixIds, projected) \in Seq(Tokens)
      BY <3>2, RowsAre
    <3>5. /\ prefix'.global = Upto(prefix.global, 0) \o Rows(PrefixIds, projected)
          /\ prefix'.sliding = Upto(prefix.sliding, 0) \o Rows(PrefixIds, projected)
      BY <3>1, <3>2, ExtendIs
    <3>6. Upto(prefix.global, 0) = <<>> /\ Upto(prefix.sliding, 0) = <<>>
      BY <3>3, UptoNone
    <3>7. <<>> \o Rows(PrefixIds, projected) = Rows(PrefixIds, projected)
      BY <3>4
    <3>8. Rows(PrefixIds, projected) = Rows(PrefixIds, request.images)
      BY <3>1, <3>2, ImagesShow
    <3>9. PrefixIds' = PrefixIds
      BY <3>1 DEF PrefixIds
    <3> QED
      BY <3>1, <3>5, <3>6, <3>7, <3>8, <3>9 DEF Ready, Holds
  <2> QED
    BY <2>1, <2>2
<1>5. CASE Batch \/ Clone
  BY <1>5 DEF Batch, Clone, Ready, Holds, PrefixIds
<1>6. CASE Fork
  <2>1. prefix'.global = prefix.global /\ prefix'.sliding = prefix.sliding
    BY <1>6, SealedIs DEF Fork, Stored
  <2> QED
    BY <1>6, <2>1 DEF Fork, Ready, Holds, PrefixIds
<1>7. CASE ForkFails
  BY <1>7 DEF ForkFails, Ready
<1>8. CASE Run
  <2>1. pc = "running" /\ UNCHANGED prefix
    BY <1>8 DEF Run
  <2>2. pc' = "idle" \/ UNCHANGED <<request, common>>
    BY <1>8 DEF Run
  <2> QED
    BY <2>1, <2>2 DEF Ready, Holds, PrefixIds
<1>9. CASE Answer
  <2>1. pc = "reading" /\ UNCHANGED prefix
    BY <1>9 DEF Answer
  <2>2. pc' = "idle" \/ UNCHANGED <<request, common>>
    BY <1>9 DEF Answer
  <2> QED
    BY <2>1, <2>2 DEF Ready, Holds, PrefixIds
<1>10. CASE UNCHANGED vars
  BY <1>10 DEF vars, Ready, Holds, PrefixIds
<1> QED
  BY <1>1, <1>2, <1>3, <1>4, <1>5, <1>6, <1>7, <1>8, <1>9, <1>10 DEF Next

LEMMA InitBase == Init => Base
<1>1. <<>> \in Seq(Tokens) /\ <<>> \in Seq(Caches)
  OBVIOUS
<1>2. NoCache \in Caches /\ ~NoCache.sealed
  BY <1>1 DEF NoCache, Caches
<1>3. NoImages \in Tokens
  BY DEF Tokens
<1> QED
  BY <1>1, <1>2, <1>3
     DEF Init, Base, Control, Stored, Pictures, Planned, Entry, Ready, Sealing, Looking, InWaves

LEMMA StepBase == ASSUME Base, [Next]_vars PROVE Base'
  BY StepControl, StepStored, StepPictures, StepPlanned, StepEntry, StepReady, StepSealing
     DEF Base

LEMMA Invariance == Spec => []Base
<1>1. Base /\ [Next]_vars => Base'
  BY StepBase
<1> QED
  BY <1>1, InitBase, PTL DEF Spec

\* "Failure cannot leave a stale cache entry valid": while a request can hit the
\* entry of cached_ids_, prefix_ holds the rows of these tokens, computed with the
\* images the request would show, whatever failed before.
THEOREM EntryIsThere == Spec => []CacheEntryHolds
<1>1. Base => CacheEntryHolds
  BY DEF Base, Entry, Holds, Imageless, CacheEntryHolds
<1> QED
  BY <1>1, Invariance, PTL

-----------------------------------------------------------------------------
(* The branches *)

\* With the state in front every two prompts share it, so a request for "shared"
\* branches has a prefix to share.  Without this the theorems below are false:
\* see MCDecisionCacheShared.
StateLeads == <<"shared", "user_state">> \notin Settings

\* Branches that share pages are those of one mode, and share all of the prefix.
Branching ==
    /\ branchMode # "shared" => \A b \in DOMAIN branches : branches[b].shared = 0
    /\ branchMode = "shared" => \A b \in DOMAIN branches :
            /\ branches[b].shared = Len(prefix.global) /\ Len(prefix.global) > 0
            /\ prefix.sealed = TRUE
            /\ Upto(branches[b].global, Len(prefix.global)) = prefix.global
    /\ pc \in {"allocating", "filling"} => branches = <<>>

\* The branches of the wave begin with the prefix of its request.
Begins(c) ==
    /\ Upto(c.global, common) = Rows(PrefixIds, request.images)
    /\ Upto(c.sliding, common) = Rows(PrefixIds, request.images)
Wave ==
    pc = "running" /\ ~Readonly =>
        count <= Len(branches) /\ \A b \in 1 .. count : Begins(branches[b])

Inductive == Base /\ Branching /\ Wave /\ AnswersFromOwnPrompt

\* A request for shared branches has something to share, and in the waves the
\* prefix is just that.
LEMMA SharedPrefix ==
    ASSUME StateLeads, Base, pc \in Looking, request.mode = "shared"
    PROVE  /\ common > 0
           /\ pc \in InWaves => Len(prefix.global) = common
<1>1. request \in Requests /\ common = Common(request) /\ common \in Nat
  BY DEF Base, Control, Planned, Looking
<1>2. request.layout # "user_state"
  BY <1>1, RequestIs DEF StateLeads
<1>3. common > 0
  BY <1>1, <1>2, CommonIs
<1>4. PrefixIds \in Seq(Tokens) /\ Len(PrefixIds) = common
  BY PrefixIs DEF Base
<1>5. request.images \in Tokens
  BY <1>1, RequestIs DEF Tokens
<1>6. Len(Rows(PrefixIds, request.images)) = common
  BY <1>4, <1>5, RowsAre
<1> QED
  BY <1>3, <1>6 DEF Base, Ready, Holds

\* Without a prefix everything begins with it.
LEMMA NothingBegins ==
    ASSUME Base, pc \in InWaves, common = 0, NEW c \in Caches
    PROVE  Begins(c)
<1>1. PrefixIds \in Seq(Tokens) /\ Len(PrefixIds) = 0
  BY PrefixIs DEF Base, Looking, InWaves
<1>2. request.images \in Tokens
  BY RequestIs DEF Tokens, Base, Control, InWaves
<1>3. Rows(PrefixIds, request.images) = <<>>
  <2>1. /\ Rows(PrefixIds, request.images) \in Seq(Tokens)
        /\ Len(Rows(PrefixIds, request.images)) = Len(PrefixIds)
    BY <1>1, <1>2, RowsAre
  <2> HIDE DEF Rows
  <2> QED
    BY <1>1, <2>1
<1>4. Upto(c.global, 0) = <<>> /\ Upto(c.sliding, 0) = <<>>
  BY UptoNone DEF Caches
<1> QED
  BY <1>3, <1>4 DEF Begins

\* In the waves the prefix is what its request's prompts share.
LEMMA PrefixBegins ==
    ASSUME Base, pc \in InWaves
    PROVE  /\ Begins(prefix)
           /\ common > 0 =>
                /\ Upto(prefix.global, common) = prefix.global
                /\ prefix.global = Rows(PrefixIds, request.images)
                /\ prefix.sliding = Rows(PrefixIds, request.images)
<1>1. common \in Nat /\ prefix \in Caches
  BY DEF Base, Control, Stored
<1>2. CASE common = 0
  BY <1>1, <1>2, NothingBegins
<1>3. CASE common > 0
  <2>1. PrefixIds \in Seq(Tokens) /\ Len(PrefixIds) = common
    BY PrefixIs DEF Base, Looking, InWaves
  <2>2. request.images \in Tokens
    BY RequestIs DEF Tokens, Base, Control, InWaves
  <2>3. Rows(PrefixIds, request.images) \in Seq(Tokens)
        /\ Len(Rows(PrefixIds, request.images)) = common
    BY <2>1, <2>2, RowsAre
  <2>4. Holds(PrefixIds, request.images)
    BY <1>3 DEF Base, Ready
  <2>5. Upto(Rows(PrefixIds, request.images), common) = Rows(PrefixIds, request.images)
    BY <1>1, <2>3, UptoAll
  <2> QED
    BY <2>4, <2>5 DEF Holds, Begins
<1> QED
  BY <1>1, <1>2, <1>3

\* Branches that stay as they are, of a prefix that does.
LEMMA BranchingKept ==
    ASSUME Branching, UNCHANGED <<branches, branchMode>>, prefix'.global = prefix.global,
           prefix.sealed = TRUE => prefix'.sealed = TRUE,
           pc' \notin {"allocating", "filling"}
    PROVE  Branching'
  BY DEF Branching

LEMMA NoBranches == ASSUME branches' = <<>> PROVE Branching'
  BY DEF Branching

\* Each branch has the pages it had, and what it shows of them stays.
LEMMA BranchingMapped ==
    ASSUME Branching, UNCHANGED <<prefix, branchMode>>, pc' \notin {"allocating", "filling"},
           DOMAIN branches' = DOMAIN branches,
           \A b \in DOMAIN branches :
                /\ branches'[b].shared = branches[b].shared
                /\ branchMode = "shared" =>
                    Upto(branches'[b].global, Len(prefix.global))
                        = Upto(branches[b].global, Len(prefix.global))
    PROVE  Branching'
  BY DEF Branching

LEMMA StepBranching == ASSUME StateLeads, Base, Branching, [Next]_vars PROVE Branching'
<1> USE DEF Leave, plan, images, pictures, storage
<1>1. ASSUME NEW r \in Requests, Receive(r) \/ Encode(r) PROVE Branching'
  BY <1>1, BranchingKept DEF Receive, Encode
<1>2. CASE Resize \/ Encoded \/ Batch \/ Answer \/ Throw
  BY <1>2, BranchingKept DEF Resize, Encoded, Batch, Answer, Throw
<1>3. CASE Plan
  <2>1. CASE branches' = <<>>
    BY <2>1, NoBranches
  <2>2. CASE branches' # <<>>
    <3>1. UNCHANGED <<branches, branchMode>>
      BY <1>3, <2>2 DEF Plan
    <3> QED
      BY <1>3, <3>1, BranchingKept DEF Plan
  <2> QED
    BY <2>1, <2>2
<1>4. CASE Reuse
  <2>1. CASE UNCHANGED prefix
    BY <1>4, <2>1, BranchingKept DEF Reuse
  <2>2. CASE ~UNCHANGED prefix
    <3>1. branchMode # "shared" /\ UNCHANGED <<branches, branchMode>> /\ pc' = "batching"
      BY <1>4, <2>2 DEF Reuse, Base, Planned, Looking
    <3> QED
      BY <3>1 DEF Branching
  <2> QED
    BY <2>1, <2>2
<1>5. CASE Miss \/ Allocate \/ Fill
  <2>1. branches' = <<>>
    BY <1>5 DEF Miss, Allocate, Fill, Branching
  <2> QED
    BY <2>1, NoBranches
<1>6. CASE Fork
  <2>1. /\ pc \in Looking /\ pc \in InWaves /\ pc' = "forking" /\ UNCHANGED branchMode
        /\ branchMode = request.mode
    BY <1>6 DEF Fork, Base, Planned, Looking, InWaves
  <2>2. /\ prefix'.global = prefix.global /\ branches \in Seq(Caches)
        /\ prefix.sealed = TRUE => prefix'.sealed = TRUE
        /\ prefix.global \in Seq(Tokens)
    BY <1>6, SealedIs DEF Fork, Base, Stored, Caches
  <2>3. CASE Shares
    <3> DEFINE new == [FreshCache EXCEPT !.shared = common, !.global = Upto(prefix.global, common)]
    <3>1. branchMode = "shared" /\ common > 0 /\ Len(prefix.global) = common
      BY <2>1, <2>3, SharedPrefix DEF Shares
    <3>2. Upto(prefix.global, common) = prefix.global
      BY <2>1, <3>1, PrefixBegins
    <3>3. new \in Caches /\ new.shared = common /\ new.global = prefix.global
      <4>1. common \in Nat /\ Upto(prefix.global, common) \in Seq(Tokens)
        BY <2>2, <3>2 DEF Base, Control
      <4>2. new \in Caches /\ new.shared = common /\ new.global = Upto(prefix.global, common)
        BY <4>1, FreshIs DEF Caches
      <4> QED
        BY <3>2, <4>2
    <3>4. branches' = Append(branches, new) /\ prefix'.sealed = TRUE
      BY <1>6, <2>3, SealedIs DEF Fork, Base, Stored
    <3> HIDE DEF new
    <3>5. \A b \in DOMAIN branches' : branches'[b] = new \/ (b \in DOMAIN branches /\ branches'[b] = branches[b])
      BY <2>2, <3>3, <3>4
    <3> QED
      BY <2>1, <2>2, <3>1, <3>2, <3>3, <3>4, <3>5 DEF Branching
  <2>4. CASE ~Shares
    <3>1. branchMode # "shared"
      BY <2>1, <2>4, SharedPrefix DEF Shares
    <3>2. branches' = Append(branches, FreshCache)
      BY <1>6, <2>4 DEF Fork
    <3>3. \A b \in DOMAIN branches' :
            branches'[b] = FreshCache \/ (b \in DOMAIN branches /\ branches'[b] = branches[b])
      BY <2>2, <3>2, FreshIs
    <3> QED
      BY <2>1, <3>1, <3>3, FreshIs DEF Branching
  <2> QED
    BY <2>3, <2>4
<1>7. CASE ForkFails
  <2>1. prefix'.global = prefix.global /\ (prefix.sealed = TRUE => prefix'.sealed = TRUE)
    BY <1>7, SealedIs DEF ForkFails, Base, Stored
  <2> QED
    BY <1>7, <2>1, BranchingKept DEF ForkFails
<1>8. CASE Clone
  <2>1. pc' = "running" /\ UNCHANGED <<prefix, branchMode>> /\ branchMode = request.mode
    BY <1>8 DEF Clone, Base, Planned, Looking
  <2>2. ASSUME NEW c \in Caches
        PROVE  /\ Cloned(c).shared = c.shared
               /\ request.mode = "shared" => Cloned(c).global = c.global
    BY DEF Cloned, Caches
  <2>3. branches \in Seq(Caches)
    BY DEF Base, Stored
  <2>4. CASE branches' = branches
    BY <2>1, <2>4, BranchingKept
  <2>5. CASE branches' # branches
    <3>1. branches' = [b \in DOMAIN branches |->
                IF b > count THEN branches[b] ELSE Cloned(branches[b])]
      BY <1>8, <2>5 DEF Clone
    <3>2. \A b \in DOMAIN branches : branches[b] \in Caches
      BY <2>3
    <3> QED
      BY <2>1, <2>2, <3>1, <3>2, BranchingMapped
  <2> QED
    BY <2>4, <2>5
<1>9. CASE Run
  <2>1. /\ UNCHANGED <<prefix, branchMode>> /\ branchMode = request.mode
        /\ pc' \notin {"allocating", "filling"} /\ pc \in Looking /\ pc \in InWaves
    BY <1>9 DEF Run, Base, Planned, Looking, InWaves
  <2>2. CASE branches' = branches
    BY <2>1, <2>2, BranchingKept
  <2>3. CASE branches' # branches
    <3> DEFINE after(i) == Extend(branches[i], common, Suffix(i), projected)
    <3>1. branches' = [b \in DOMAIN branches |-> IF b > count THEN branches[b] ELSE after(b)]
      BY <1>9, <2>3 DEF Run
    <3>2. \A b \in DOMAIN branches : b \in Nat \ {0} /\ branches[b] \in Caches
      BY DEF Base, Stored
    <3>3. ASSUME NEW b \in DOMAIN branches, ~ b > count
          PROVE  /\ after(b).shared = branches[b].shared
                 /\ branchMode = "shared" =>
                        Upto(after(b).global, Len(prefix.global))
                            = Upto(branches[b].global, Len(prefix.global))
      <4>1. /\ b \in 1 .. count /\ common \in Nat /\ first + count <= Len(request.questions)
            /\ projected \in Tokens /\ branches[b].global \in Seq(Tokens)
        <5>1. common \in Nat /\ count \in Nat /\ first + count <= Len(request.questions)
          BY <2>1 DEF Base, Control
        <5>2. branches[b].global \in Seq(Tokens)
          BY <3>2 DEF Caches
        <5> QED
          BY <3>2, <3>3, <5>1, <5>2 DEF Base, Stored
      <4>2. Suffix(b) \in Seq(Tokens)
        BY <2>1, <4>1, SuffixIs DEF Base
      <4>3. /\ after(b).shared = branches[b].shared
            /\ after(b).global = Upto(branches[b].global, common) \o Rows(Suffix(b), projected)
        <5>1. branches[b] \in Caches /\ common \in Nat /\ projected \in Tokens
          BY <3>2, <4>1
        <5> QED
          BY <4>2, <5>1, ExtendIs
      <4>4. Rows(Suffix(b), projected) \in Seq(Tokens)
        BY <4>1, <4>2, RowsAre
      <4> HIDE DEF after
      <4>5. CASE branchMode = "shared"
        <5>1. Len(prefix.global) = common /\ Upto(branches[b].global, common) = prefix.global
          BY <2>1, <4>5, SharedPrefix DEF Branching
        <5>2. common <= Len(branches[b].global)
          BY <4>1, <5>1, UptoIs
        <5> QED
          BY <4>1, <4>3, <4>4, <5>1, <5>2, UptoKept
      <4> QED
        BY <4>3, <4>5
    <3>4. DOMAIN branches' = DOMAIN branches
      BY <3>1
    <3>5. ASSUME NEW b \in DOMAIN branches
          PROVE  /\ branches'[b].shared = branches[b].shared
                 /\ branchMode = "shared" =>
                        Upto(branches'[b].global, Len(prefix.global))
                            = Upto(branches[b].global, Len(prefix.global))
      <4>1. CASE b > count
        BY <3>1, <4>1
      <4>2. CASE ~ b > count
        <5>1. branches'[b] = after(b)
          BY <3>1, <4>2
        <5> HIDE DEF after
        <5> QED
          BY <3>3, <4>2, <5>1
      <4> QED
        BY <4>1, <4>2
    <3> QED
      BY <2>1, <3>4, <3>5, BranchingMapped
  <2> QED
    BY <2>2, <2>3
<1>10. CASE UNCHANGED vars
  BY <1>10 DEF vars, Branching
<1> QED
  BY <1>1, <1>2, <1>3, <1>4, <1>5, <1>6, <1>7, <1>8, <1>9, <1>10 DEF Next

LEMMA StepWave == ASSUME StateLeads, Base, Branching, Wave, [Next]_vars PROVE Wave'
<1> USE DEF Leave, plan, images, pictures, storage
<1>1. ASSUME NEW r \in Requests, Receive(r) \/ Encode(r) PROVE Wave'
  BY <1>1 DEF Receive, Encode, Wave
<1>2. CASE Resize \/ Encoded \/ Plan \/ Reuse \/ Miss \/ Allocate
  BY <1>2 DEF Resize, Encoded, Plan, Reuse, Miss, Allocate, Wave
<1>3. CASE Fill \/ Batch \/ Fork \/ ForkFails \/ Answer \/ Throw
  BY <1>3 DEF Fill, Batch, Fork, ForkFails, Answer, Throw, Wave
<1>4. CASE Clone
  <2>1. /\ pc \in Looking /\ pc \in InWaves /\ UNCHANGED <<request, common, first, count>>
        /\ branchMode = request.mode
    BY <1>4 DEF Clone, Base, Planned, Looking, InWaves
  <2>2. UNCHANGED <<Readonly, PrefixIds>>
    BY <2>1 DEF Readonly, WaveRows, PrefixIds
  <2>3. SUFFICES ASSUME ~Readonly
                 PROVE  count <= Len(branches') /\ \A b \in 1 .. count : Begins(branches'[b])
    BY <2>1, <2>2 DEF Wave, Begins
  <2>4. count <= Len(branches) /\ count \in Nat /\ common \in Nat /\ branches \in Seq(Caches)
    BY <1>4, <2>3 DEF Clone, Base, Control, Stored
  <2>5. \A b \in 1 .. count : b \in DOMAIN branches /\ branches[b] \in Caches
    BY <2>4
  <2>6. CASE common = 0
    <3>1. branches' = branches
      BY <1>4, <2>6 DEF Clone
    <3> QED
      BY <2>1, <2>4, <2>5, <2>6, <3>1, NothingBegins
  <2>7. CASE common > 0
    <3>1. branches' = [b \in DOMAIN branches |->
                IF b > count THEN branches[b] ELSE Cloned(branches[b])]
      BY <1>4, <2>3, <2>7 DEF Clone
    <3>2. Len(branches') = Len(branches) /\ \A b \in 1 .. count : branches'[b] = Cloned(branches[b])
      BY <2>4, <2>5, <3>1
    <3>3. /\ Upto(prefix.global, common) = prefix.global
          /\ prefix.global = Rows(PrefixIds, request.images)
          /\ prefix.sliding = Rows(PrefixIds, request.images)
          /\ Begins(prefix)
      BY <2>1, <2>7, PrefixBegins
    <3>4. ASSUME NEW b \in 1 .. count PROVE Begins(Cloned(branches[b]))
      <4>1. /\ Cloned(branches[b]).sliding = prefix.sliding
            /\ Cloned(branches[b]).global = IF request.mode = "shared" THEN branches[b].global
                                            ELSE Upto(prefix.global, common)
        BY <2>5 DEF Cloned, Caches
      <4>2. CASE request.mode = "shared"
        <5>1. Len(prefix.global) = common
          BY <2>1, <4>2, SharedPrefix
        <5>2. Upto(branches[b].global, common) = prefix.global
          BY <2>1, <2>5, <4>2, <5>1 DEF Branching
        <5> QED
          BY <3>3, <4>1, <4>2, <5>2 DEF Begins
      <4>3. CASE request.mode # "shared"
        BY <3>3, <4>1, <4>3 DEF Begins
      <4> QED
        BY <4>2, <4>3
    <3> QED
      BY <2>4, <3>2, <3>4
  <2> QED
    BY <2>4, <2>6, <2>7
<1>5. CASE Run
  BY <1>5 DEF Run, Wave
<1>6. CASE UNCHANGED vars
  BY <1>6 DEF vars, Wave, Begins, Readonly, WaveRows, PrefixIds
<1> QED
  BY <1>1, <1>2, <1>3, <1>4, <1>5, <1>6 DEF Next

\* What continues the beginning of its prompt is the whole of it.
LEMMA WholePrompt ==
    ASSUME Base, pc = "running", NEW i \in 1 .. count, NEW c \in Caches, Begins(c)
    PROVE  LET a == Extend(c, common, Suffix(i), projected)
               own == Rows(Prompt(request, request.questions[first + i]), request.images)
           IN  a.global = own /\ a.sliding = own
<1> DEFINE a == Extend(c, common, Suffix(i), projected)
           own == Rows(Prompt(request, request.questions[first + i]), request.images)
<1>1. /\ pc \in Looking /\ common \in Nat /\ first + count <= Len(request.questions)
      /\ projected \in Tokens /\ Control /\ Planned /\ Stored /\ Pictures
  BY DEF Base, Control, Stored, Looking, InWaves
<1>2. request.images \in Tokens
  BY RequestIs DEF Base, Control, Tokens
<1>3. /\ Suffix(i) \in Seq(Tokens)
      /\ PrefixIds \o Suffix(i) = Prompt(request, request.questions[first + i])
      /\ request.images = NoImages => Imageless(Suffix(i))
  BY <1>1, SuffixIs
<1>4. PrefixIds \in Seq(Tokens)
  BY <1>1, PrefixIs
<1>5. Rows(Suffix(i), projected) = Rows(Suffix(i), request.images)
  BY <1>1, <1>3, ImagesShow
<1>6. Rows(PrefixIds, request.images) \o Rows(Suffix(i), request.images) = own
  <2>1. Rows(PrefixIds \o Suffix(i), request.images)
            = Rows(PrefixIds, request.images) \o Rows(Suffix(i), request.images)
    <3>1. \A s, t \in Seq(Tokens) : \A shown \in Tokens :
            Rows(s \o t, shown) = Rows(s, shown) \o Rows(t, shown)
      BY RowsOfBoth
    <3> QED
      BY <1>2, <1>3, <1>4, <3>1
  <2> QED
    BY <1>3, <2>1
<1>7. /\ a.global = Upto(c.global, common) \o Rows(Suffix(i), projected)
      /\ a.sliding = Upto(c.sliding, common) \o Rows(Suffix(i), projected)
  BY <1>1, <1>3, ExtendIs
<1> QED
  BY <1>5, <1>6, <1>7 DEF Begins

LEMMA StepAnswers ==
    ASSUME Base, Wave, AnswersFromOwnPrompt, [Next]_vars
    PROVE  AnswersFromOwnPrompt'
<1> USE DEF Leave, plan, images, pictures, storage
<1>1. ASSUME NEW r \in Requests, Receive(r) \/ Encode(r) PROVE AnswersFromOwnPrompt'
  BY <1>1 DEF Receive, Encode, AnswersFromOwnPrompt
<1>2. CASE Resize \/ Encoded \/ Plan \/ Reuse \/ Miss \/ Allocate
  BY <1>2 DEF Resize, Encoded, Plan, Reuse, Miss, Allocate, AnswersFromOwnPrompt
<1>3. CASE Fill \/ Batch \/ Fork \/ ForkFails \/ Answer \/ Throw
  BY <1>3 DEF Fill, Batch, Fork, ForkFails, Answer, Throw, AnswersFromOwnPrompt
<1>4. CASE Clone
  BY <1>4 DEF Clone, AnswersFromOwnPrompt
<1>5. CASE Run
  <2>1. SUFFICES ASSUME pc' = "reading" PROVE AnswersFromOwnPrompt'
    BY DEF AnswersFromOwnPrompt
  <2> DEFINE from(i) == IF Readonly THEN prefix ELSE branches[i]
             after(i) == Extend(from(i), common, Suffix(i), projected)
  <2>2. /\ attended' = [i \in 1 .. count |-> after(i)] /\ pc = "running"
        /\ UNCHANGED <<request, common, first, count>>
    BY <1>5, <2>1 DEF Run
  <2>3. ASSUME NEW i \in 1 .. count
        PROVE  LET own == Rows(Prompt(request, request.questions[first + i]), request.images)
               IN  after(i).global = own /\ after(i).sliding = own
    <3>1. from(i) \in Caches /\ Begins(from(i))
      <4>1. CASE Readonly
        BY <2>2, <4>1, PrefixBegins DEF InWaves, Base, Stored
      <4>2. CASE ~Readonly
        <5>1. count <= Len(branches) /\ Begins(branches[i]) /\ count \in Nat
              /\ branches \in Seq(Caches)
          BY <2>2, <4>2 DEF Wave, Base, Control, Stored
        <5>2. branches[i] \in Caches
          BY <5>1
        <5> QED
          BY <4>2, <5>1, <5>2
      <4> QED
        BY <4>1, <4>2
    <3> HIDE DEF from
    <3> QED
      BY <2>2, <3>1, WholePrompt
  <2> HIDE DEF after
  <2> QED
    BY <2>2, <2>3 DEF AnswersFromOwnPrompt
<1>6. CASE UNCHANGED vars
  BY <1>6 DEF vars, AnswersFromOwnPrompt
<1> QED
  BY <1>1, <1>2, <1>3, <1>4, <1>5, <1>6 DEF Next

LEMMA InvarianceOfBranches == ASSUME StateLeads PROVE Spec => []Inductive
<1>1. Init => Inductive
  <2>1. Init => Base
    BY InitBase
  <2>2. Init => Branching /\ Wave /\ AnswersFromOwnPrompt
    BY DEF Init, Branching, Wave, AnswersFromOwnPrompt
  <2> QED
    BY <2>1, <2>2 DEF Inductive
<1>2. Inductive /\ [Next]_vars => Inductive'
  BY StepBase, StepBranching, StepWave, StepAnswers DEF Inductive
<1> QED
  BY <1>1, <1>2, PTL DEF Spec

\* tests/test_decision_gpu.py: "Fresh-state allocation reuse must not retain answers
\* or prior-state KV content".  In every mode, whatever requests came and failed
\* before, a question attends to the tokens and images of its own prompt.
THEOREM QuestionsSeeTheirPrompt ==
    ASSUME StateLeads PROVE Spec => []AnswersFromOwnPrompt
<1>1. Inductive => AnswersFromOwnPrompt
  BY DEF Inductive
<1> QED
  BY <1>1, InvarianceOfBranches, PTL

\* A branch that maps pages of a prefix maps those of the present prefix_, which is
\* sealed, and all of them.
THEOREM SharingIsOfThePrefix ==
    ASSUME StateLeads PROVE Spec => []SharedBranchesFollowPrefix
<1>1. Inductive => SharedBranchesFollowPrefix
  BY DEF Inductive, Branching, SharedBranchesFollowPrefix
<1> QED
  BY <1>1, InvarianceOfBranches, PTL

\* A valid request is refused neither by a sealed prefix ("shared prefix source is
\* immutable") nor by a branch whose pages it may not write ("invalid target batch
\* prefill item").
THEOREM NothingIsInherited ==
    ASSUME StateLeads PROVE Spec => []NoRequestInheritsFailure
<1> USE DEF NoRequestInheritsFailure
<1>1. Init => NoRequestInheritsFailure
  BY DEF Init
<1>2. ASSUME Inductive, NoRequestInheritsFailure, [Next]_vars
      PROVE  NoRequestInheritsFailure'
  <2> USE DEF Leave, plan, images, pictures, storage
  <2>1. ASSUME NEW r \in Requests, Receive(r) \/ Encode(r) PROVE NoRequestInheritsFailure'
    BY <2>1 DEF Receive, Encode
  <2>2. CASE Resize \/ Encoded \/ Plan \/ Reuse \/ Miss \/ Allocate
    BY <1>2, <2>2 DEF Resize, Encoded, Plan, Reuse, Miss, Allocate
  <2>3. CASE Batch \/ Fork \/ ForkFails \/ Clone \/ Answer \/ Throw
    BY <1>2, <2>3 DEF Batch, Fork, ForkFails, Clone, Answer, Throw
  <2>4. CASE Fill
    <3>1. ~prefix.sealed
      BY <1>2, <2>4 DEF Fill, Inductive, Base, Sealing
    <3> QED
      BY <1>2, <2>4, <3>1 DEF Fill
  <2>5. CASE Run
    <3>1. ASSUME ~Readonly, NEW i \in 1 .. count PROVE ~ common < branches[i].shared
      <4>1. /\ pc \in Looking /\ pc \in InWaves /\ branchMode = request.mode /\ common \in Nat
            /\ Base /\ Branching /\ count \in Nat /\ count <= Len(branches)
            /\ branches \in Seq(Caches)
        BY <1>2, <2>5, <3>1
           DEF Run, Inductive, Base, Planned, Looking, InWaves, Control, Stored, Wave
      <4>2. i \in DOMAIN branches
        BY <4>1
      <4>3. CASE branchMode = "shared"
        BY <4>1, <4>2, <4>3, SharedPrefix DEF Branching
      <4>4. CASE branchMode # "shared"
        BY <4>1, <4>2, <4>4 DEF Branching
      <4> QED
        BY <4>3, <4>4
    <3> QED
      BY <1>2, <2>5, <3>1 DEF Run
  <2>6. CASE UNCHANGED vars
    BY <1>2, <2>6 DEF vars
  <2> HIDE DEF NoRequestInheritsFailure
  <2> QED
    BY <1>2, <2>1, <2>2, <2>3, <2>4, <2>5, <2>6 DEF Next
<1>3. Inductive /\ NoRequestInheritsFailure /\ [Next]_vars => NoRequestInheritsFailure'
  BY <1>2
<1> HIDE DEF NoRequestInheritsFailure
<1> QED
  BY <1>1, <1>3, InvarianceOfBranches, PTL DEF Spec
=============================================================================
