--------------------------- MODULE StreamsProofs ---------------------------
(***************************************************************************)
(* GraphsStayValid, ConcurrentKernelsAreDisjoint and ReadsAreCurrent for   *)
(* every set of programs whose launch code joins what it forks, orders its *)
(* own kernels and, run kernel by kernel, finds what its call has for it,  *)
(* and whose host code waits for what it uses again.                       *)
(***************************************************************************)
EXTENDS Streams, FiniteSetTheorems, WellFoundedInduction, TLAPS

-----------------------------------------------------------------------------
(* Sequences of anything.                                                  *)

\* Append keeps what is there and adds one element.
LEMMA Appended ==
    ASSUME NEW s, NEW e, IsSequence(s)
    PROVE  /\ IsSequence(Append(s, e))
           /\ Len(Append(s, e)) = Len(s) + 1
           /\ \A i \in 1 .. Len(s) : Append(s, e)[i] = s[i]
           /\ Append(s, e)[Len(s) + 1] = e
           /\ ToSet(Append(s, e)) = ToSet(s) \cup {e}
<1> DEFINE T == ToSet(s) \cup {e}
           a == Append(s, e)
<1>1. s \in Seq(T)
  BY DEF IsSequence, ToSet
<1>2. a \in Seq(T) /\ Len(a) = Len(s) + 1 /\ Len(s) \in Nat
  BY <1>1
<1>3. /\ \A i \in 1 .. Len(s) : a[i] = s[i]
      /\ a[Len(s) + 1] = e
  BY <1>1
<1>4. DOMAIN a = 1 .. Len(s) + 1 /\ DOMAIN s = 1 .. Len(s)
  BY <1>1, <1>2
<1>5. ToSet(a) = T
  BY <1>2, <1>3, <1>4 DEF ToSet
<1> HIDE DEF T, a
<1>6. IsSequence(a)
  BY <1>2, <1>5 DEF IsSequence
<1> QED BY <1>2, <1>3, <1>5, <1>6 DEF T, a

\* What is known of a sequence.
LEMMA Sequence ==
    ASSUME NEW s, IsSequence(s)
    PROVE  Len(s) \in Nat /\ DOMAIN s = 1 .. Len(s) /\ \A i \in 1 .. Len(s) : s[i] \in ToSet(s)
BY DEF IsSequence, ToSet

\* A sequence of elements of a set is one of its own.
LEMMA OwnSequence ==
    ASSUME NEW S, NEW s \in Seq(S)
    PROVE  IsSequence(s)
BY DEF IsSequence, ToSet

-----------------------------------------------------------------------------
(* Resolve is the last of a chain that begins with From(w) and in which    *)
(* every operation takes one to the next.                                  *)

Runs(w, g, ops, N) ==
    /\ DOMAIN g = 0 .. N
    /\ g[0] = From(w)
    /\ \A n \in 1 .. N : g[n] = Issue(g[n - 1], ops[n])

\* A choice from the single result of one operation is that result.
LEMMA OneResult ==
    ASSUME NEW x, NEW o
    PROVE  (CHOOSE s \in {Issue(r, o) : r \in {x}} : TRUE) = Issue(x, o)
<1> DEFINE I(r) == Issue(r, o)
<1> HIDE DEF I
<1>1. (CHOOSE s \in {I(r) : r \in {x}} : TRUE) = I(x)
  <2>1. {I(r) : r \in {x}} = {I(x)}
    OBVIOUS
  <2> QED BY <2>1
<1> QED BY <1>1 DEF I

\* A set of naturals that is not empty has a least element.
LEMMA Least ==
    ASSUME NEW T, T \subseteq Nat, T # {}
    PROVE  \E x \in T : \A y \in T : x <= y
<1> DEFINE Less == {ss \in Nat \X Nat : ss[1] < ss[2]}
<1>1. IsWellFoundedOn(Less, Nat)
  BY NatLessThanWellFounded, Zenon DEF OpToRel
<1> HIDE DEF Less
<1>2. PICK x \in T : \A y \in T : ~ <<y, x>> \in Less
  BY <1>1, WFMin
<1>3. \A y \in T : ~ y < x
  BY <1>2 DEF Less
<1> QED BY <1>3

\* A set of numbers up to n has a greatest.
LEMMA Greatest ==
    ASSUME NEW n \in Nat, NEW T, T \subseteq 1 .. n, T # {}
    PROVE  \E x \in T : \A y \in T : y <= x
<1> DEFINE D == {n - x : x \in T}
<1>1. D \subseteq Nat /\ D # {}
  <2>1. ASSUME NEW x \in T PROVE n - x \in Nat
    BY <2>1
  <2> QED BY <2>1
<1>2. PICK d \in D : \A c \in D : d <= c
  BY <1>1, Least
<1>3. PICK x \in T : d = n - x
  BY <1>2
<1>4. ASSUME NEW y \in T PROVE y <= x
  <2>1. n - x <= n - y
    BY <1>2, <1>3
  <2> QED BY <2>1
<1> QED BY <1>4

\* Every number of operations has its chain.
LEMMA ChainExists ==
    ASSUME NEW w, NEW ops, NEW N \in Nat
    PROVE  \E g : Runs(w, g, ops, N)
<1> DEFINE Bad == {n \in Nat : \A g : ~Runs(w, g, ops, n)}
<1>1. SUFFICES ASSUME Bad # {} PROVE FALSE
  OBVIOUS
<1>2. PICK x \in Bad : \A y \in Bad : x <= y
  BY <1>1, Least
<1>3. x # 0
  <2> DEFINE g == [i \in 0 .. 0 |-> From(w)]
  <2>1. Runs(w, g, ops, 0)
    <3> HIDE DEF From
    <3> QED BY DEF Runs
  <2> HIDE DEF g
  <2> QED BY <2>1
<1>4. x - 1 \in Nat /\ x - 1 \notin Bad
  BY <1>2, <1>3
<1>5. PICK g : Runs(w, g, ops, x - 1)
  BY <1>4
<1> DEFINE I == Issue(g[x - 1], ops[x])
           h == [i \in 0 .. x |-> IF i = x THEN I ELSE g[i]]
<1>6. Runs(w, h, ops, x)
  <2> HIDE DEF I
  <2>1. DOMAIN h = 0 .. x /\ h[0] = From(w)
    BY <1>3, <1>4, <1>5 DEF Runs
  <2>2. ASSUME NEW n \in 1 .. x PROVE h[n] = Issue(h[n - 1], ops[n])
    <3>1. n - 1 \in 0 .. x /\ n - 1 # x /\ h[n - 1] = g[n - 1]
      BY <1>4
    <3>2. CASE n = x
      <4>1. h[n] = I
        BY <3>2
      <4> QED BY <4>1, <3>1, <3>2 DEF I
    <3>3. CASE n # x
      <4>1. h[n] = g[n] /\ n \in 1 .. x - 1
        BY <3>3
      <4>2. g[n] = Issue(g[n - 1], ops[n])
        BY <4>1, <1>5 DEF Runs
      <4> HIDE DEF h
      <4> QED BY <4>1, <4>2, <3>1
    <3> QED BY <3>2, <3>3
  <2> HIDE DEF h
  <2> QED BY <2>1, <2>2 DEF Runs
<1> HIDE DEF h
<1> QED BY <1>6, <1>2

\* Chains agree as far as both go.
LEMMA ChainsAgree ==
    ASSUME NEW w, NEW ops, NEW M \in Nat, NEW N \in Nat, NEW g, NEW h,
           Runs(w, g, ops, M), Runs(w, h, ops, N)
    PROVE  \A n \in Nat : n <= M /\ n <= N => g[n] = h[n]
<1> DEFINE Bad == {n \in Nat : n <= M /\ n <= N /\ g[n] # h[n]}
<1>1. SUFFICES ASSUME Bad # {} PROVE FALSE
  OBVIOUS
<1>2. PICK x \in Bad : \A y \in Bad : x <= y
  BY <1>1, Least
<1>3. x # 0
  BY DEF Runs
<1>4. x - 1 \in Nat /\ g[x - 1] = h[x - 1]
  BY <1>2, <1>3
<1>5. g[x] = Issue(g[x - 1], ops[x]) /\ h[x] = Issue(h[x - 1], ops[x])
  BY <1>2, <1>3 DEF Runs
<1>6. g[x] = h[x]
  BY <1>4, <1>5, Zenon
<1> QED BY <1>6

\* What Resolve returns.
LEMMA ResolveRuns ==
    ASSUME NEW w, NEW ops, IsSequence(ops)
    PROVE  \E g : Runs(w, g, ops, Len(ops)) /\ Resolve(w, ops) = g[Len(ops)]
<1> DEFINE Body(f, n) == IF n = 0 THEN From(w)
                         ELSE CHOOSE s \in {Issue(r, ops[n]) : r \in {f[n - 1]}} : TRUE
           Chain(n) == CHOOSE g : Runs(w, g, ops, n)
           F == [n \in Nat |-> Chain(n)[n]]
           f == CHOOSE x : x = [n \in Nat |-> Body(x, n)]
<1>1. ASSUME NEW n \in Nat PROVE Runs(w, Chain(n), ops, n)
  BY ChainExists
<1>2. ASSUME NEW n \in Nat \ {0} PROVE F[n] = Issue(F[n - 1], ops[n])
  <2>1. Runs(w, Chain(n), ops, n) /\ Runs(w, Chain(n - 1), ops, n - 1) /\ n - 1 \in Nat
    BY <1>1
  <2>2. Chain(n)[n] = Issue(Chain(n)[n - 1], ops[n])
    <3> HIDE DEF Chain
    <3> QED BY <2>1 DEF Runs
  <2>3. Chain(n)[n - 1] = Chain(n - 1)[n - 1]
    <3> HIDE DEF Chain
    <3> QED BY <2>1, ChainsAgree
  <2>4. F[n] = Chain(n)[n] /\ F[n - 1] = Chain(n - 1)[n - 1]
    <3> HIDE DEF Chain
    <3> QED BY <2>1
  <2> HIDE DEF Chain, F
  <2> QED BY <2>2, <2>3, <2>4, Zenon
<1>3. F[0] = From(w)
  <2>1. Runs(w, Chain(0), ops, 0)
    BY <1>1
  <2>2. F[0] = Chain(0)[0]
    OBVIOUS
  <2> HIDE DEF Chain, F, From
  <2> QED BY <2>1, <2>2 DEF Runs
<1>4. F = [n \in Nat |-> Body(F, n)]
  <2>1. ASSUME NEW n \in Nat PROVE F[n] = Body(F, n)
    <3>1. CASE n = 0
      BY <1>3, <3>1
    <3>2. CASE n # 0
      <4>1. F[n] = Issue(F[n - 1], ops[n])
        BY <1>2, <3>2
      <4>2. Body(F, n) = Issue(F[n - 1], ops[n])
        <5> HIDE DEF F
        <5>1. Body(F, n) = CHOOSE s \in {Issue(r, ops[n]) : r \in {F[n - 1]}} : TRUE
          BY <3>2, Zenon
        <5> QED BY <5>1, OneResult, Zenon
      <4> HIDE DEF F, Body
      <4> QED BY <4>1, <4>2
    <3> HIDE DEF F, Body
    <3> QED BY <3>1, <3>2
  <2>2. F = [n \in Nat |-> F[n]]
    <3> HIDE DEF Chain
    <3> QED OBVIOUS
  <2> HIDE DEF F, Body
  <2>3. [n \in Nat |-> F[n]] = [n \in Nat |-> Body(F, n)]
    BY <2>1
  <2> QED BY <2>2, <2>3
<1>5. f = [n \in Nat |-> Body(f, n)]
  <2> HIDE DEF F, Body
  <2> QED BY <1>4, Zenon
<1>6. Resolve(w, ops) = f[Len(ops)]
  BY Zenon DEF Resolve
<1>7. Len(ops) \in Nat
  BY Sequence
<1>8. f[0] = From(w)
  <2>1. f[0] = Body(f, 0)
    <3> HIDE DEF Body, f
    <3> QED BY <1>5
  <2> HIDE DEF f
  <2> QED BY <2>1, Zenon
<1>9. ASSUME NEW n \in 1 .. Len(ops) PROVE f[n] = Issue(f[n - 1], ops[n])
  <2>1. n \in Nat /\ n # 0
    BY <1>7
  <2>2. f[n] = Body(f, n)
    <3> HIDE DEF Body, f
    <3> QED BY <1>5, <2>1
  <2> HIDE DEF f
  <2>3. Body(f, n) = CHOOSE s \in {Issue(r, ops[n]) : r \in {f[n - 1]}} : TRUE
    BY <2>1, Zenon
  <2> HIDE DEF Body
  <2> QED BY <2>2, <2>3, OneResult, Zenon
<1> DEFINE g == [n \in 0 .. Len(ops) |-> f[n]]
<1> HIDE DEF f, F, Body, Chain
<1>10. Runs(w, g, ops, Len(ops))
  <2>1. DOMAIN g = 0 .. Len(ops) /\ g[0] = From(w)
    BY <1>7, <1>8
  <2>2. ASSUME NEW n \in 1 .. Len(ops) PROVE g[n] = Issue(g[n - 1], ops[n])
    <3>1. g[n] = f[n] /\ g[n - 1] = f[n - 1]
      BY <1>7
    <3> HIDE DEF g
    <3> QED BY <3>1, <1>9, Zenon
  <2> HIDE DEF g
  <2> QED BY <2>1, <2>2 DEF Runs
<1>11. g[Len(ops)] = Resolve(w, ops)
  BY <1>6, <1>7
<1> QED BY <1>10, <1>11

-----------------------------------------------------------------------------
(* What an operation does to the streams.                                  *)

\* What comes after the kernels of `after' directly: every kernel of `past' is one
\* of them, or another one of `past' comes after it.
Linked(out, past, after) ==
    \A j \in past : j \in after \/ \E k \in past : j < k /\ j \in out[k].after
Remembers(out, k) == out[k].past \subseteq 0 .. k - 1 /\ Linked(out, out[k].past, out[k].after)

\* The state of an enqueue.
Good(r) ==
    /\ r = [fp8 |-> r.fp8, out |-> r.out, tail |-> r.tail, past |-> r.past, ready |-> r.ready]
    /\ IsSequence(r.out)
    /\ r.tail = [s \in AllStreams |-> r.tail[s]]
    /\ r.past \in [AllStreams -> SUBSET (0 .. Len(r.out))]
    /\ 0 \in r.past[Main]
    /\ \A s \in AllStreams : Linked(r.out, r.past[s], r.tail[s])
    /\ \A k \in 1 .. Len(r.out) : Remembers(r.out, k)
    /\ r.fp8 \in Runners

\* Between r and q kernels are launched on stream s alone and nothing is lost.
Advances(r, q, s) ==
    /\ Len(r.out) <= Len(q.out)
    /\ \A t \in AllStreams : r.past[t] \subseteq q.past[t]
    /\ \A k \in Len(r.out) + 1 .. Len(q.out) : k \in q.past[s]

\* Advancing twice is advancing.
LEMMA AdvancesOnwards ==
    ASSUME NEW r, NEW q, NEW p, NEW s \in AllStreams, Good(r), Good(q), Good(p),
           Advances(r, q, s), Advances(q, p, s)
    PROVE  Advances(r, p, s)
<1>1. Len(r.out) \in Nat /\ Len(q.out) \in Nat /\ Len(p.out) \in Nat
  BY Sequence DEF Good
<1>2. \A t \in AllStreams : r.past[t] \subseteq p.past[t]
  BY DEF Advances
<1>3. \A k \in Len(r.out) + 1 .. Len(p.out) : k \in p.past[s]
  BY <1>1 DEF Advances
<1> QED BY <1>1, <1>2, <1>3 DEF Advances

\* The host objects may change and a tail may grow.
LEMMA KeepsGood ==
    ASSUME NEW r, NEW q, Good(r), q.out = r.out, q.past = r.past, q.fp8 \in Runners,
           q = [fp8 |-> q.fp8, out |-> q.out, tail |-> q.tail, past |-> q.past, ready |-> q.ready],
           q.tail = [s \in AllStreams |-> q.tail[s]],
           \A s \in AllStreams : r.tail[s] \subseteq q.tail[s]
    PROVE  Good(q) /\ \A s \in AllStreams : Advances(r, q, s)
<1>1. Len(r.out) \in Nat
  BY Sequence DEF Good
<1>2. \A s \in AllStreams : Linked(q.out, q.past[s], q.tail[s])
  BY DEF Good, Linked
<1>3. Good(q)
  BY <1>2 DEF Good
<1> QED BY <1>1, <1>3 DEF Advances

\* A launch keeps the result well formed and adds one kernel to its stream.
LEMMA EmitGood ==
    ASSUME NEW r, NEW s \in AllStreams, NEW reads, NEW writes, NEW fresh, NEW scales, NEW keeps, Good(r)
    PROVE  LET q == Emit(r, s, reads, writes, fresh, scales, keeps)
           IN  Good(q) /\ Advances(r, q, s)
<1> DEFINE i == Len(r.out) + 1
           x == [on |-> s, after |-> r.tail[s], reads |-> reads, writes |-> writes,
                 fresh |-> fresh, scales |-> scales, keeps |-> keeps, past |-> r.past[s]]
           q == Emit(r, s, reads, writes, fresh, scales, keeps)
<1>1. /\ IsSequence(Append(r.out, x)) /\ Len(Append(r.out, x)) = i
      /\ \A k \in 1 .. Len(r.out) : Append(r.out, x)[k] = r.out[k]
      /\ Append(r.out, x)[i] = x
  <2> HIDE DEF x
  <2> QED BY Appended DEF Good
<1>2. Len(r.out) \in Nat /\ i \in Nat
  BY Sequence DEF Good
<1>3. q = [fp8 |-> r.fp8, out |-> Append(r.out, x), tail |-> [r.tail EXCEPT ![s] = {i}],
           past |-> [r.past EXCEPT ![s] = @ \cup {i}], ready |-> r.ready]
  <2>1. r = [fp8 |-> r.fp8, out |-> r.out, tail |-> r.tail, past |-> r.past, ready |-> r.ready]
    BY DEF Good
  <2> HIDE DEF x
  <2>2. q = [r EXCEPT !.out = Append(@, x), !.tail[s] = {i}, !.past[s] = @ \cup {i}]
    BY Zenon DEF Emit, x
  <2> HIDE DEF q, i
  <2> QED BY <2>1, <2>2
<1>4. x.after = r.tail[s] /\ x.past = r.past[s]
  OBVIOUS
<1> HIDE DEF x, q
<1>5. /\ q = [fp8 |-> q.fp8, out |-> q.out, tail |-> q.tail, past |-> q.past, ready |-> q.ready]
      /\ q.out = Append(r.out, x)
      /\ q.tail = [r.tail EXCEPT ![s] = {i}]
      /\ q.past = [r.past EXCEPT ![s] = @ \cup {i}]
      /\ q.fp8 = r.fp8
  BY <1>3
<1>6. /\ q.tail = [t \in AllStreams |-> q.tail[t]]
      /\ q.tail[s] = {i}
      /\ \A t \in AllStreams \ {s} : q.tail[t] = r.tail[t]
  BY <1>5 DEF Good
<1>7. /\ q.past[s] = r.past[s] \cup {i}
      /\ \A t \in AllStreams \ {s} : q.past[t] = r.past[t]
      /\ q.past \in [AllStreams -> SUBSET (0 .. i)]
  BY <1>5, <1>2 DEF Good
<1>8. /\ IsSequence(q.out) /\ Len(q.out) = i
      /\ \A k \in 1 .. Len(r.out) : q.out[k] = r.out[k]
      /\ q.out[i].after = r.tail[s]
      /\ q.out[i].past = r.past[s]
  BY <1>1, <1>4, <1>5
<1>9. ASSUME NEW t \in AllStreams, NEW j \in q.past[t]
      PROVE  j \in q.tail[t] \/ \E k \in q.past[t] : j < k /\ j \in q.out[k].after
  <2>1. CASE j \in r.past[t]
    <3>1. j \in 0 .. Len(r.out)
      BY <2>1 DEF Good
    <3>2. CASE j \in r.tail[t]
      <4>1. CASE t = s
        <5>1. i \in q.past[t] /\ j < i /\ j \in q.out[i].after
          BY <3>1, <3>2, <4>1, <1>2, <1>7, <1>8
        <5> HIDE DEF i
        <5> QED BY <5>1
      <4>2. CASE t # s
        BY <3>2, <4>2, <1>6
      <4> QED BY <4>1, <4>2
    <3>3. CASE j \notin r.tail[t]
      <4>1. PICK k \in r.past[t] : j < k /\ j \in r.out[k].after
        BY <2>1, <3>3 DEF Good, Linked
      <4>2. k \in 1 .. Len(r.out)
        <5>1. k \in 0 .. Len(r.out)
          BY DEF Good
        <5> QED BY <5>1, <3>1, <4>1, <1>2
      <4>3. q.out[k] = r.out[k] /\ k \in q.past[t]
        BY <4>2, <1>7, <1>8
      <4> QED BY <4>1, <4>3
    <3> QED BY <3>2, <3>3
  <2>2. CASE j \notin r.past[t]
    BY <2>2, <1>6, <1>7
  <2> QED BY <2>1, <2>2
<1>10. 0 \in q.past[Main]
  BY <1>7 DEF Good, AllStreams
<1>13. ASSUME NEW k \in 1 .. Len(q.out) PROVE Remembers(q.out, k)
  <2>1. ASSUME NEW past, past \subseteq 0 .. k - 1, NEW after, Linked(r.out, past, after)
        PROVE  Linked(q.out, past, after)
    <3>1. ASSUME NEW j \in past, NEW m \in past, j < m, j \in r.out[m].after PROVE j \in q.out[m].after
      <4>1. m \in 1 .. Len(r.out)
        BY <2>1, <3>1, <1>2, <1>8
      <4> QED BY <4>1, <3>1, <1>8
    <3> QED BY <2>1, <3>1 DEF Linked
  <2>2. CASE k = i
    <3>1. r.past[s] \subseteq 0 .. k - 1 /\ Linked(r.out, r.past[s], r.tail[s])
      BY <2>2, <1>2 DEF Good
    <3> QED BY <2>1, <2>2, <3>1, <1>8 DEF Remembers
  <2>3. CASE k # i
    <3>1. k \in 1 .. Len(r.out)
      BY <2>3, <1>2, <1>8
    <3>2. Remembers(r.out, k) /\ q.out[k] = r.out[k]
      BY <3>1, <1>8 DEF Good
    <3> QED BY <2>1, <3>2 DEF Remembers
  <2> QED BY <2>2, <2>3
<1>14. \A t \in AllStreams : Linked(q.out, q.past[t], q.tail[t])
  BY <1>9 DEF Linked
<1>11. Good(q)
  BY <1>5, <1>6, <1>7, <1>8, <1>10, <1>13, <1>14 DEF Good
<1>12. Advances(r, q, s)
  <2>1. \A t \in AllStreams : r.past[t] \subseteq q.past[t]
    BY <1>7
  <2>2. \A k \in Len(r.out) + 1 .. Len(q.out) : k \in q.past[s]
    BY <1>2, <1>7, <1>8
  <2> QED BY <2>1, <2>2, <1>2, <1>8 DEF Advances
<1> QED BY <1>11, <1>12 DEF q

\* A wait on another stream keeps the result well formed and launches nothing.
LEMMA FollowGood ==
    ASSUME NEW r, NEW later \in AllStreams, NEW earlier \in AllStreams, Good(r)
    PROVE  LET q == Follow(r, later, earlier)
           IN  /\ Good(q) /\ q.out = r.out
               /\ \A s \in AllStreams : Advances(r, q, s)
               /\ r.past[earlier] \subseteq q.past[later]
<1> DEFINE q == Follow(r, later, earlier)
<1>1. q = [fp8 |-> r.fp8, out |-> r.out, tail |-> [r.tail EXCEPT ![later] = @ \cup r.tail[earlier]],
           past |-> [r.past EXCEPT ![later] = @ \cup r.past[earlier]], ready |-> r.ready]
  <2>1. r = [fp8 |-> r.fp8, out |-> r.out, tail |-> r.tail, past |-> r.past, ready |-> r.ready]
    BY DEF Good
  <2>2. q = [r EXCEPT !.tail[later] = @ \cup r.tail[earlier], !.past[later] = @ \cup r.past[earlier]]
    BY Zenon DEF Follow
  <2> HIDE DEF q
  <2> QED BY <2>1, <2>2
<1> HIDE DEF q
<1>2. /\ q = [fp8 |-> q.fp8, out |-> q.out, tail |-> q.tail, past |-> q.past, ready |-> q.ready]
      /\ q.out = r.out
      /\ q.tail = [r.tail EXCEPT ![later] = @ \cup r.tail[earlier]]
      /\ q.past = [r.past EXCEPT ![later] = @ \cup r.past[earlier]]
      /\ q.fp8 = r.fp8
  BY <1>1
<1>3. /\ q.tail = [t \in AllStreams |-> q.tail[t]]
      /\ q.tail[later] = r.tail[later] \cup r.tail[earlier]
      /\ \A t \in AllStreams \ {later} : q.tail[t] = r.tail[t]
  BY <1>2 DEF Good
<1>4. /\ q.past[later] = r.past[later] \cup r.past[earlier]
      /\ \A t \in AllStreams \ {later} : q.past[t] = r.past[t]
      /\ q.past \in [AllStreams -> SUBSET (0 .. Len(q.out))]
      /\ \A t \in AllStreams : r.past[t] \subseteq q.past[t]
  BY <1>2 DEF Good
<1>5. ASSUME NEW t \in AllStreams, NEW u \in AllStreams, NEW j \in r.past[u],
             r.tail[u] \subseteq q.tail[t], r.past[u] \subseteq q.past[t]
      PROVE  j \in q.tail[t] \/ \E k \in q.past[t] : j < k /\ j \in q.out[k].after
  BY <1>5, <1>2 DEF Good, Linked
<1>6. ASSUME NEW t \in AllStreams, NEW j \in q.past[t]
      PROVE  j \in q.tail[t] \/ \E k \in q.past[t] : j < k /\ j \in q.out[k].after
  <2>1. CASE t # later
    BY <2>1, <1>3, <1>4, <1>5
  <2>2. CASE t = later /\ j \in r.past[later]
    BY <2>2, <1>3, <1>4, <1>5
  <2>3. CASE t = later /\ j \in r.past[earlier]
    BY <2>3, <1>3, <1>4, <1>5
  <2> QED BY <2>1, <2>2, <2>3, <1>4
<1>7. 0 \in q.past[Main]
  BY <1>4 DEF Good, AllStreams
<1>8. Good(q)
  <2>1. \A t \in AllStreams : Linked(q.out, q.past[t], q.tail[t])
    BY <1>6 DEF Linked
  <2> QED BY <2>1, <1>2, <1>3, <1>4, <1>7 DEF Good
<1>9. Len(r.out) \in Nat
  BY Sequence DEF Good
<1>10. \A s \in AllStreams : Advances(r, q, s)
  BY <1>9, <1>4, <1>2 DEF Advances
<1> QED BY <1>2, <1>4, <1>8, <1>10 DEF q

\* Recording where an activation is ready touches no stream.
LEMMA RecordsGood ==
    ASSUME NEW r, NEW s, Good(r)
    PROVE  Good(Records(r, s)) /\ \A t \in AllStreams : Advances(r, Records(r, s), t)
<1> DEFINE q == Records(r, s)
           ready == [r.ready EXCEPT ![r.fp8.active] = r.tail[s]]
<1>1. r = [fp8 |-> r.fp8, out |-> r.out, tail |-> r.tail, past |-> r.past, ready |-> r.ready]
  BY DEF Good
<1>2. q = [r EXCEPT !.ready[r.fp8.active] = r.tail[s]]
  BY Zenon DEF Records
<1> HIDE DEF q
<1>3. q = [fp8 |-> r.fp8, out |-> r.out, tail |-> r.tail, past |-> r.past, ready |-> ready]
  BY <1>1, <1>2
<1> HIDE DEF ready
<1>4. /\ q.out = r.out /\ q.past = r.past /\ q.tail = r.tail /\ q.fp8 = r.fp8
      /\ q = [fp8 |-> q.fp8, out |-> q.out, tail |-> q.tail, past |-> q.past, ready |-> q.ready]
  BY <1>3
<1>5. q.tail = [t \in AllStreams |-> q.tail[t]]
  BY <1>4 DEF Good
<1>6. \A t \in AllStreams : r.tail[t] \subseteq q.tail[t]
  BY <1>4
<1>7. q.fp8 \in Runners
  BY <1>4 DEF Good
<1> QED BY <1>4, <1>5, <1>6, <1>7, KeepsGood DEF q

\* What changes in the host object alone leaves the streams as they are.
LEMMA HostGood ==
    ASSUME NEW r, NEW f \in Runners, Good(r)
    PROVE  LET q == [r EXCEPT !.fp8 = f]
           IN  Good(q) /\ \A t \in AllStreams : Advances(r, q, t)
<1> DEFINE q == [r EXCEPT !.fp8 = f]
<1>1. r = [fp8 |-> r.fp8, out |-> r.out, tail |-> r.tail, past |-> r.past, ready |-> r.ready]
  BY DEF Good
<1>2. q = [fp8 |-> f, out |-> r.out, tail |-> r.tail, past |-> r.past, ready |-> r.ready]
  BY <1>1
<1> HIDE DEF q
<1>4. /\ q.out = r.out /\ q.past = r.past /\ q.tail = r.tail /\ q.fp8 = f
      /\ q = [fp8 |-> q.fp8, out |-> q.out, tail |-> q.tail, past |-> q.past, ready |-> q.ready]
  BY <1>2
<1>5. q.tail = [t \in AllStreams |-> q.tail[t]]
  BY <1>4 DEF Good
<1>6. \A t \in AllStreams : r.tail[t] \subseteq q.tail[t]
  BY <1>4
<1> QED BY <1>4, <1>5, <1>6, KeepsGood DEF q

\* A stream also waits for what another one recorded.
LEMMA WaitGood ==
    ASSUME NEW r, NEW s \in AllStreams, NEW X, Good(r)
    PROVE  LET q == [r EXCEPT !.tail[s] = @ \cup X, !.past[s] = @ \cup Behind(r.out, X)]
           IN  Good(q) /\ \A t \in AllStreams : Advances(r, q, t)
<1> DEFINE B == Behind(r.out, X)
           q == [r EXCEPT !.tail[s] = @ \cup X, !.past[s] = @ \cup B]
           tail == [r.tail EXCEPT ![s] = @ \cup X]
           past == [r.past EXCEPT ![s] = @ \cup B]
           n == Len(r.out)
<1>0. n \in Nat
  BY Sequence DEF Good
<1>1. B \subseteq 0 .. n /\ Linked(r.out, B, X)
  <2> DEFINE K == X \cap (0 .. n)
  <2>1. B = K \cup UNION {r.out[k].past : k \in K \ {0}}
    BY Zenon DEF Behind
  <2> HIDE DEF B
  <2>2. ASSUME NEW k \in K \ {0} PROVE r.out[k].past \subseteq 0 .. n /\ Remembers(r.out, k) /\ k \in 1 .. n
    <3>1. k \in 1 .. n
      BY <1>0
    <3>2. Remembers(r.out, k)
      BY <3>1 DEF Good
    <3> QED BY <3>1, <3>2, <1>0 DEF Remembers
  <2>3. B \subseteq 0 .. n
    BY <2>1, <2>2
  <2>4. ASSUME NEW j \in B PROVE j \in X \/ \E k \in B : j < k /\ j \in r.out[k].after
    <3>1. CASE j \in K
      BY <3>1
    <3>2. CASE \E k \in K \ {0} : j \in r.out[k].past
      <4>1. PICK k \in K \ {0} : j \in r.out[k].past
        BY <3>2
      <4>2. r.out[k].past \subseteq B /\ k \in B
        BY <2>1
      <4>3. k \in 1 .. n /\ j < k
        <5>1. j \in 0 .. k - 1 /\ k \in 1 .. n
          BY <4>1, <2>2 DEF Remembers
        <5> QED BY <5>1
      <4>4. j \in r.out[k].after \/ \E m \in r.out[k].past : j < m /\ j \in r.out[m].after
        BY <4>1, <2>2 DEF Remembers, Linked
      <4> HIDE DEF K
      <4> QED BY <4>2, <4>3, <4>4
    <3> QED BY <2>1, <3>1, <3>2
  <2> QED BY <2>3, <2>4 DEF Linked
<1> HIDE DEF B
<1>2. r = [fp8 |-> r.fp8, out |-> r.out, tail |-> r.tail, past |-> r.past, ready |-> r.ready]
  BY DEF Good
<1>3. q = [fp8 |-> r.fp8, out |-> r.out, tail |-> tail, past |-> past, ready |-> r.ready]
  <2>1. q = [r EXCEPT !.tail = tail, !.past = past]
    BY Zenon
  <2> HIDE DEF q, tail, past
  <2> QED BY <1>2, <2>1
<1>4. /\ tail = [t \in AllStreams |-> tail[t]]
      /\ tail[s] = r.tail[s] \cup X /\ \A t \in AllStreams \ {s} : tail[t] = r.tail[t]
  BY DEF Good
<1>5. /\ past \in [AllStreams -> SUBSET (0 .. n)]
      /\ past[s] = r.past[s] \cup B /\ \A t \in AllStreams \ {s} : past[t] = r.past[t]
  BY <1>1 DEF Good
<1> HIDE DEF q, tail, past
<1>6. /\ q.out = r.out /\ q.past = past /\ q.tail = tail /\ q.fp8 = r.fp8
      /\ q = [fp8 |-> q.fp8, out |-> q.out, tail |-> q.tail, past |-> q.past, ready |-> q.ready]
  BY <1>3
<1>7. ASSUME NEW t \in AllStreams PROVE Linked(q.out, q.past[t], q.tail[t])
  <2>1. Linked(r.out, r.past[t], r.tail[t])
    BY DEF Good
  <2> QED BY <2>1, <1>1, <1>4, <1>5, <1>6 DEF Linked
<1>8. 0 \in q.past[Main]
  BY <1>5, <1>6 DEF Good, AllStreams
<1>9. Good(q)
  BY <1>4, <1>5, <1>6, <1>7, <1>8 DEF Good
<1>10. \A t \in AllStreams : r.past[t] \subseteq q.past[t]
  BY <1>5, <1>6
<1>11. \A t \in AllStreams : Advances(r, q, t)
  BY <1>0, <1>6, <1>10 DEF Advances
<1> QED BY <1>9, <1>11 DEF q, B

\* The host objects take another name, on the other buffer or not.
LEMMA NamesGood ==
    ASSUME NEW r, NEW s \in AllStreams, NEW key \in Sources, Good(r)
    PROVE  Good(Names(r, s, key)) /\ \A t \in AllStreams : Advances(r, Names(r, s, key), t)
<1> DEFINE f == [r.fp8 EXCEPT !.source = key, !.stream = s]
<1>1. f \in Runners
  BY DEF Good, Runners
<1>2. Names(r, s, key) = [r EXCEPT !.fp8 = f]
  BY Zenon DEF Names
<1> HIDE DEF f
<1> QED BY <1>1, <1>2, HostGood

\* Swapping the two activations touches no stream.
LEMMA SwapGood ==
    ASSUME NEW r, Good(r)
    PROVE  Good(Swap(r)) /\ \A t \in AllStreams : Advances(r, Swap(r), t)
<1> DEFINE f == [r.fp8 EXCEPT !.active = Other(r.fp8.active)]
<1>1. f \in Runners
  BY DEF Good, Runners, Other
<1>2. Swap(r) = [r EXCEPT !.fp8 = f]
  BY Zenon DEF Swap
<1> HIDE DEF f
<1> QED BY <1>1, <1>2, HostGood

\* Quantizing an activation launches on the stream of its product.
LEMMA QuantizeGood ==
    ASSUME NEW r, NEW o, o.on \in AllStreams, o.source \in Sources, Good(r)
    PROVE  Good(Quantize(r, o)) /\ Advances(r, Quantize(r, o), o.on)
<1>1. CASE o.source # r.fp8.source
  <2> DEFINE q == Emit(r, o.on, Itself({o.source}), {<<r.fp8.active, o.source>>}, {}, {}, <<>>)
             p == Records(q, o.on)
  <2>1. Good(q) /\ Advances(r, q, o.on)
    BY EmitGood
  <2> HIDE DEF q
  <2>2. Good(p) /\ Advances(q, p, o.on)
    BY <2>1, RecordsGood
  <2> HIDE DEF p
  <2>3. Good(Names(p, o.on, o.source)) /\ Advances(p, Names(p, o.on, o.source), o.on)
    BY <2>2, NamesGood
  <2>4. Quantize(r, o) = Names(p, o.on, o.source)
    BY <1>1, Zenon DEF Quantize, p, q
  <2>5. Advances(r, p, o.on)
    BY <2>1, <2>2, AdvancesOnwards
  <2>6. Advances(r, Names(p, o.on, o.source), o.on)
    BY <2>2, <2>3, <2>5, AdvancesOnwards
  <2> QED BY <2>3, <2>4, <2>6
<1>2. CASE o.source = r.fp8.source /\ o.on # r.fp8.stream
  <2> DEFINE X == r.ready[r.fp8.active]
  <2>1. Quantize(r, o) = [r EXCEPT !.tail[o.on] = @ \cup X, !.past[o.on] = @ \cup Behind(r.out, X)]
    BY <1>2, Zenon DEF Quantize
  <2> HIDE DEF X
  <2>2. LET q == [r EXCEPT !.tail[o.on] = @ \cup X, !.past[o.on] = @ \cup Behind(r.out, X)]
        IN  Good(q) /\ \A t \in AllStreams : Advances(r, q, t)
    BY WaitGood
  <2> QED BY <2>1, <2>2, Zenon
<1>3. CASE o.source = r.fp8.source /\ o.on = r.fp8.stream
  <2>1. Quantize(r, o) = r
    BY <1>3, Zenon DEF Quantize
  <2>2. Len(r.out) \in Nat
    BY Sequence DEF Good
  <2>3. Advances(r, r, o.on)
    BY <2>2 DEF Advances
  <2> QED BY <2>1, <2>3
<1> QED BY <1>1, <1>2, <1>3

\* A product launches on its own stream.
LEMMA MultiplyGood ==
    ASSUME NEW r, NEW o, o.on \in AllStreams, Good(r)
    PROVE  Good(Multiply(r, o)) /\ Advances(r, Multiply(r, o), o.on)
<1> DEFINE target == IF o.packed THEN o.dest ELSE Padding(o.ws)
           reads == {<<r.fp8.active, o.source>>}
           keeps == IF o.scale = "" THEN <<>> ELSE <<o.scale, r.fp8.active, o.source>>
           gemm == Emit(r, o.on, reads, Itself({target, Workspace(o.ws)}), {target, Workspace(o.ws)}, {}, keeps)
           copy == Emit(gemm, o.on, Itself({target}), Itself({o.dest}), {o.dest}, {}, <<>>)
           copied == IF o.packed THEN gemm ELSE copy
           rescaled == Emit(copied, o.on, reads \cup Itself({o.dest}), Itself({o.dest}), {o.dest}, {}, <<>>)
<1>1. Multiply(r, o) = IF o.rescale THEN rescaled ELSE copied
  BY Zenon DEF Multiply
<1> HIDE DEF target, reads, keeps
<1>2. Good(gemm) /\ Advances(r, gemm, o.on)
  BY EmitGood
<1> HIDE DEF gemm
<1>3. Good(copy) /\ Advances(gemm, copy, o.on)
  BY <1>2, EmitGood
<1> HIDE DEF copy
<1>4. Advances(r, copy, o.on)
  BY <1>2, <1>3, AdvancesOnwards
<1>5. Good(copied) /\ Advances(r, copied, o.on)
  BY <1>2, <1>3, <1>4
<1> HIDE DEF copied
<1>6. Good(rescaled) /\ Advances(copied, rescaled, o.on)
  BY <1>5, EmitGood
<1> HIDE DEF rescaled
<1>7. Advances(r, rescaled, o.on)
  BY <1>5, <1>6, AdvancesOnwards
<1> QED BY <1>1, <1>5, <1>6, <1>7

-----------------------------------------------------------------------------
(* One operation.                                                          *)

Allowed(o) ==
    /\ o.do \in Operations
    /\ o.do \in Launching \cup {"begin", "end", "secondary", "assume"} => o.on \in AllStreams
    /\ o.do = "launch" => o.source \in Sources
    /\ o.do \in {"prepare", "dual", "secondary", "gelu"} => o.key \in Sources

\* Operation o takes r to q: kernels are launched by what launches, on its stream.
Issued(r, q, o) ==
    /\ Good(q)
    /\ Len(r.out) <= Len(q.out)
    /\ \A t \in AllStreams : r.past[t] \subseteq q.past[t]
    /\ \A k \in Len(r.out) + 1 .. Len(q.out) : o.do \in Launching /\ k \in q.past[o.on]
    /\ o.do = "end" => r.past[o.on] \subseteq q.past[Main]
    /\ o.do = "join" => r.past[Tertiary] \subseteq q.past[Auxiliary]

\* What advances the stream of an operation that launches is such a step.
LEMMA LaunchingIssued ==
    ASSUME NEW r, NEW q, NEW o, o.do \in Launching, Good(q), Advances(r, q, o.on)
    PROVE  Issued(r, q, o)
<1>1. o.do # "end" /\ o.do # "join"
  BY DEF Launching
<1> QED BY <1>1 DEF Issued, Advances

\* What launches nothing is one too.
LEMMA OrderingIssued ==
    ASSUME NEW r, NEW q, NEW o, Good(r), Good(q), q.out = r.out, \A t \in AllStreams : Advances(r, q, t),
           o.do = "end" => r.past[o.on] \subseteq q.past[Main],
           o.do = "join" => r.past[Tertiary] \subseteq q.past[Auxiliary]
    PROVE  Issued(r, q, o)
<1>1. Len(r.out) \in Nat
  BY Sequence DEF Good
<1>2. \A t \in AllStreams : r.past[t] \subseteq q.past[t]
  BY DEF Advances
<1> QED BY <1>1, <1>2 DEF Issued

\* Every operation of launch code is such a step.
LEMMA IssueIssued ==
    ASSUME NEW r, NEW o, Good(r), Allowed(o)
    PROVE  Issued(r, Issue(r, o), o)
<1> DEFINE q == Issue(r, o)
<1> SUFFICES Issued(r, q, o)
  OBVIOUS
<1>0. Main \in AllStreams /\ Auxiliary \in AllStreams /\ Tertiary \in AllStreams
  BY DEF AllStreams
<1>1. CASE o.do = "kernel"
  <2>1. q = Emit(r, o.on, Itself(o.reads), Itself(o.writes), o.writes, o.scales, <<>>)
    BY <1>1 DEF Issue
  <2>2. o.do \in Launching /\ o.on \in AllStreams
    BY <1>1 DEF Launching, Allowed
  <2> QED BY <2>1, <2>2, EmitGood, LaunchingIssued
<1>2. CASE o.do = "begin"
  <2>1. q = Follow(r, o.on, Main)
    BY <1>2 DEF Issue
  <2>2. o.on \in AllStreams
    BY <1>2 DEF Allowed
  <2>3. Good(q) /\ q.out = r.out /\ \A t \in AllStreams : Advances(r, q, t)
    BY <2>1, <2>2, <1>0, FollowGood
  <2> HIDE DEF q
  <2> QED BY <2>3, <1>2, OrderingIssued
<1>3. CASE o.do = "end"
  <2>1. q = Follow(r, Main, o.on)
    BY <1>3 DEF Issue
  <2>2. o.on \in AllStreams
    BY <1>3 DEF Allowed
  <2>3. /\ Good(q) /\ q.out = r.out /\ \A t \in AllStreams : Advances(r, q, t)
        /\ r.past[o.on] \subseteq q.past[Main]
    BY <2>1, <2>2, <1>0, FollowGood
  <2> HIDE DEF q
  <2> QED BY <2>3, <1>3, OrderingIssued
<1>4. CASE o.do = "join"
  <2>1. q = Follow(r, Auxiliary, Tertiary)
    BY <1>4 DEF Issue
  <2>3. /\ Good(q) /\ q.out = r.out /\ \A t \in AllStreams : Advances(r, q, t)
        /\ r.past[Tertiary] \subseteq q.past[Auxiliary]
    BY <2>1, <1>0, FollowGood
  <2> HIDE DEF q
  <2> QED BY <2>3, <1>4, OrderingIssued
<1>5. CASE o.do = "launch"
  <2>1. q = Multiply(Quantize(r, o), o)
    BY <1>5 DEF Issue, LaunchProduct
  <2>2. o.do \in Launching /\ o.on \in AllStreams
    BY <1>5 DEF Launching, Allowed
  <2>3. Good(Quantize(r, o)) /\ Advances(r, Quantize(r, o), o.on)
    BY <2>2, <1>5, QuantizeGood DEF Allowed
  <2>4. Good(q) /\ Advances(Quantize(r, o), q, o.on)
    BY <2>1, <2>2, <2>3, MultiplyGood, Zenon
  <2> HIDE DEF q
  <2>5. Advances(r, q, o.on)
    BY <2>2, <2>3, <2>4, AdvancesOnwards
  <2> QED BY <2>2, <2>4, <2>5, LaunchingIssued
<1>6. CASE o.do = "prepare"
  <2> DEFINE e == Emit(r, o.on, Itself(o.reads), Itself(o.writes) \cup {<<r.fp8.active, o.key>>},
                       o.writes \cup {o.key}, o.scales, <<>>)
             m == Records(e, o.on)
  <2>1. q = Names(m, o.on, o.key)
    <3>1. q = Prepare(r, o)
      BY <1>6 DEF Issue
    <3> HIDE DEF q
    <3> QED BY <3>1, Zenon DEF Prepare
  <2>2. o.do \in Launching /\ o.on \in AllStreams /\ o.key \in Sources
    BY <1>6 DEF Launching, Allowed
  <2>3. Good(e) /\ Advances(r, e, o.on)
    BY <2>2, EmitGood
  <2> HIDE DEF e
  <2>4. Good(m) /\ Advances(e, m, o.on)
    BY <2>2, <2>3, RecordsGood
  <2> HIDE DEF m, q
  <2>5. Good(q) /\ Advances(m, q, o.on)
    BY <2>1, <2>2, <2>4, NamesGood
  <2>6. Advances(r, m, o.on)
    BY <2>2, <2>3, <2>4, AdvancesOnwards
  <2>7. Advances(r, q, o.on)
    BY <2>2, <2>4, <2>5, <2>6, AdvancesOnwards
  <2> QED BY <2>2, <2>5, <2>7, LaunchingIssued
<1>7. CASE o.do = "dual"
  <2> DEFINE e == Emit(r, o.on, Itself(o.reads),
                  Itself(o.writes) \cup {<<r.fp8.active, o.key>>, <<Other(r.fp8.active), o.dense>>},
                  o.writes \cup {o.key}, o.scales, <<>>)
             m == Records(e, o.on)
  <2>1. q = Names(m, o.on, o.key)
    <3>1. q = PrepareBoth(r, o)
      BY <1>7 DEF Issue
    <3> HIDE DEF q
    <3> QED BY <3>1, Zenon DEF PrepareBoth
  <2>2. o.do \in Launching /\ o.on \in AllStreams /\ o.key \in Sources
    BY <1>7 DEF Launching, Allowed
  <2>3. Good(e) /\ Advances(r, e, o.on)
    BY <2>2, EmitGood
  <2> HIDE DEF e
  <2>4. Good(m) /\ Advances(e, m, o.on)
    BY <2>2, <2>3, RecordsGood
  <2> HIDE DEF m, q
  <2>5. Good(q) /\ Advances(m, q, o.on)
    BY <2>1, <2>2, <2>4, NamesGood
  <2>6. Advances(r, m, o.on)
    BY <2>2, <2>3, <2>4, AdvancesOnwards
  <2>7. Advances(r, q, o.on)
    BY <2>2, <2>4, <2>5, <2>6, AdvancesOnwards
  <2> QED BY <2>2, <2>5, <2>7, LaunchingIssued
<1>8. CASE o.do = "gelu"
  <2> DEFINE e == Emit(r, o.on, Itself(o.reads), {<<Other(r.fp8.active), o.key>>}, {o.key}, o.scales, <<>>)
             m == Swap(e)
  <2>1. q = Names(m, o.on, o.key)
    <3>1. q = PrepareProduct(r, o)
      BY <1>8 DEF Issue
    <3> HIDE DEF q
    <3> QED BY <3>1, Zenon DEF PrepareProduct
  <2>2. o.do \in Launching /\ o.on \in AllStreams /\ o.key \in Sources
    BY <1>8 DEF Launching, Allowed
  <2>3. Good(e) /\ Advances(r, e, o.on)
    BY <2>2, EmitGood
  <2> HIDE DEF e
  <2>4. Good(m) /\ Advances(e, m, o.on)
    BY <2>2, <2>3, SwapGood
  <2> HIDE DEF m, q
  <2>5. Good(q) /\ Advances(m, q, o.on)
    BY <2>1, <2>2, <2>4, NamesGood
  <2>6. Advances(r, m, o.on)
    BY <2>2, <2>3, <2>4, AdvancesOnwards
  <2>7. Advances(r, q, o.on)
    BY <2>2, <2>4, <2>5, <2>6, AdvancesOnwards
  <2> QED BY <2>2, <2>5, <2>7, LaunchingIssued
<1>9. CASE o.do = "secondary"
  <2>1. q = Names(Swap(r), o.on, o.key)
    <3>1. q = UseSecond(r, o)
      BY <1>9 DEF Issue
    <3> HIDE DEF q
    <3> QED BY <3>1, Zenon DEF UseSecond
  <2>2. Good(Swap(r)) /\ \A t \in AllStreams : Advances(r, Swap(r), t)
    BY SwapGood
  <2>6. o.on \in AllStreams /\ o.key \in Sources
    BY <1>9 DEF Allowed
  <2>3. Good(q) /\ \A t \in AllStreams : Advances(Swap(r), q, t)
    BY <2>1, <2>2, <2>6, NamesGood
  <2>4. q.out = r.out
    <3>1. r = [fp8 |-> r.fp8, out |-> r.out, tail |-> r.tail, past |-> r.past, ready |-> r.ready]
      BY DEF Good
    <3>2. Swap(r).out = r.out
      BY <3>1 DEF Swap
    <3>3. Names(Swap(r), o.on, o.key).out = Swap(r).out
      <4>1. Swap(r) = [fp8 |-> Swap(r).fp8, out |-> Swap(r).out, tail |-> Swap(r).tail,
                       past |-> Swap(r).past, ready |-> Swap(r).ready]
        BY <2>2 DEF Good
      <4> QED BY <4>1 DEF Names
    <3> QED BY <2>1, <3>2, <3>3, Zenon
  <2> HIDE DEF q
  <2>5. \A t \in AllStreams : Advances(r, q, t)
    BY <2>2, <2>3, AdvancesOnwards
  <2> QED BY <2>3, <2>4, <2>5, <1>9, OrderingIssued
<1>10. CASE o.do \in {"assume", "invalidate"}
  <2>1. \E f \in Runners : q = [r EXCEPT !.fp8 = f]
    <3>1. CASE o.do = "assume"
      <4>1. q = [r EXCEPT !.fp8.stream = o.on]
        BY <3>1 DEF Issue
      <4>2. q = [r EXCEPT !.fp8 = [r.fp8 EXCEPT !.stream = o.on]]
        BY <4>1, Zenon
      <4>3. [r.fp8 EXCEPT !.stream = o.on] \in Runners
        BY <3>1 DEF Good, Runners, Allowed
      <4> HIDE DEF q
      <4> QED BY <4>2, <4>3, Zenon
    <3>2. CASE o.do = "invalidate"
      <4>1. q = [r EXCEPT !.fp8.source = ""]
        BY <3>2 DEF Issue
      <4>2. q = [r EXCEPT !.fp8 = [r.fp8 EXCEPT !.source = ""]]
        BY <4>1, Zenon
      <4>3. [r.fp8 EXCEPT !.source = ""] \in Runners
        BY DEF Good, Runners, Sources
      <4> HIDE DEF q
      <4> QED BY <4>2, <4>3, Zenon
    <3> QED BY <1>10, <3>1, <3>2
  <2>2. PICK f \in Runners : q = [r EXCEPT !.fp8 = f]
    BY <2>1
  <2> HIDE DEF q
  <2>3. Good(q) /\ \A t \in AllStreams : Advances(r, q, t)
    BY <2>2, HostGood
  <2>4. q.out = r.out
    <3>1. r = [fp8 |-> r.fp8, out |-> r.out, tail |-> r.tail, past |-> r.past, ready |-> r.ready]
      BY DEF Good
    <3> QED BY <3>1, <2>2
  <2> QED BY <2>3, <2>4, <1>10, OrderingIssued
<1>11. CASE o.do = "plan"
  <2>1. q = r
    BY <1>11 DEF Issue
  <2>2. Len(r.out) \in Nat
    BY Sequence DEF Good
  <2>3. \A t \in AllStreams : Advances(r, r, t)
    BY <2>2 DEF Advances
  <2> HIDE DEF q
  <2> QED BY <2>1, <2>3, <1>11, OrderingIssued
<1>12. o.do \in Operations
  BY DEF Allowed
<1> HIDE DEF q
<1>13. Issued(r, q, o)
  BY <1>1, <1>2, <1>3, <1>4, <1>5, <1>6, <1>7, <1>8, <1>9, <1>10, <1>11, <1>12 DEF Operations
<1> QED BY <1>13 DEF q

\* Nothing has been launched yet.
LEMMA FromGood ==
    ASSUME NEW w \in Runners
    PROVE  Good(From(w)) /\ Len(From(w).out) = 0
<1>1. From(w).out = <<>> /\ IsSequence(From(w).out) /\ Len(From(w).out) = 0
  BY DEF From, IsSequence, ToSet
<1>2. From(w).tail = [s \in AllStreams |-> From(w).tail[s]]
  BY DEF From, Start, AllStreams, Main, Auxiliary, Tertiary
<1>3. /\ DOMAIN From(w).past = AllStreams /\ From(w).past[Main] = {0}
      /\ From(w).past[Auxiliary] = {} /\ From(w).past[Tertiary] = {} /\ From(w).tail[Main] = {0}
  BY DEF From, Start, AllStreams, Main, Auxiliary, Tertiary
<1>4. From(w).past = [s \in AllStreams |-> From(w).past[s]]
  BY DEF From, Start, AllStreams, Main, Auxiliary, Tertiary
<1>5. From(w) = [fp8 |-> From(w).fp8, out |-> From(w).out, tail |-> From(w).tail, past |-> From(w).past,
               ready |-> From(w).ready]
  BY DEF From
<1>6. From(w).past \in [AllStreams -> SUBSET (0 .. Len(From(w).out))]
  BY <1>1, <1>3, <1>4 DEF AllStreams
<1>7. \A s \in AllStreams : Linked(From(w).out, From(w).past[s], From(w).tail[s])
  BY <1>3 DEF AllStreams, Linked
<1>8. From(w).fp8 \in Runners
  BY DEF From
<1> QED BY <1>1, <1>2, <1>3, <1>5, <1>6, <1>7, <1>8 DEF Good

-----------------------------------------------------------------------------
(* A whole sequence of operations.                                         *)

\* Along the chain every state is good and every step an operation's.
LEMMA ChainGood ==
    ASSUME NEW w \in Runners, NEW ops, LaunchCode(ops), NEW g, Runs(w, g, ops, Len(ops))
    PROVE  \A n \in 0 .. Len(ops) : Good(g[n]) /\ (n > 0 => Issued(g[n - 1], g[n], ops[n]))
<1>0. Len(ops) \in Nat /\ DOMAIN ops = 1 .. Len(ops)
  BY Sequence DEF LaunchCode
<1>1. ASSUME NEW n \in 1 .. Len(ops), Good(g[n - 1]) PROVE Issued(g[n - 1], g[n], ops[n])
  <2>1. Allowed(ops[n])
    <3>1. Keys(ops) \subseteq Sources
      BY DEF LaunchCode
    <3>2. ops[n].do = "launch" => ops[n].source \in Keys(ops)
      BY <1>0 DEF Keys
    <3>3. ops[n].do \in {"prepare", "dual", "secondary", "gelu"} => ops[n].key \in Keys(ops)
      BY <1>0 DEF Keys
    <3> QED BY <1>0, <3>1, <3>2, <3>3 DEF LaunchCode, Allowed
  <2>2. g[n] = Issue(g[n - 1], ops[n])
    BY DEF Runs
  <2> QED BY <1>1, <2>1, <2>2, IssueIssued
<1> DEFINE Bad == {n \in 0 .. Len(ops) : ~Good(g[n])}
<1>2. Bad = {}
  <2>1. SUFFICES ASSUME Bad # {} PROVE FALSE
    OBVIOUS
  <2>2. PICK x \in Bad : \A y \in Bad : x <= y
    <3>1. Bad \subseteq Nat
      BY <1>0
    <3> QED BY <2>1, <3>1, Least
  <2>3. x # 0
    BY FromGood DEF Runs
  <2>4. x \in 1 .. Len(ops) /\ Good(g[x - 1])
    BY <1>0, <2>2, <2>3
  <2>5. Good(g[x])
    BY <1>1, <2>4 DEF Issued
  <2> QED BY <2>5
<1>3. ASSUME NEW n \in 0 .. Len(ops), n > 0 PROVE Issued(g[n - 1], g[n], ops[n])
  <2>1. n \in 1 .. Len(ops) /\ n - 1 \in 0 .. Len(ops)
    BY <1>0, <1>3
  <2> QED BY <2>1, <1>1, <1>2
<1> QED BY <1>2, <1>3

\* The past of a stream only grows.
LEMMA PastGrows ==
    ASSUME NEW w \in Runners, NEW ops, LaunchCode(ops), NEW g, Runs(w, g, ops, Len(ops)), NEW m \in 0 .. Len(ops), NEW s \in AllStreams
    PROVE  \A n \in m .. Len(ops) : g[m].past[s] \subseteq g[n].past[s]
<1>0. Len(ops) \in Nat
  BY Sequence DEF LaunchCode
<1> DEFINE Bad == {n \in m .. Len(ops) : ~(g[m].past[s] \subseteq g[n].past[s])}
<1>1. SUFFICES ASSUME Bad # {} PROVE FALSE
  OBVIOUS
<1>2. PICK x \in Bad : \A y \in Bad : x <= y
  <2>1. Bad \subseteq Nat
    BY <1>0
  <2> QED BY <1>1, <2>1, Least
<1>3. x # m
  BY <1>2
<1>4. x - 1 \in m .. Len(ops) /\ x \in 0 .. Len(ops) /\ x > 0
  BY <1>0, <1>2, <1>3
<1>5. g[m].past[s] \subseteq g[x - 1].past[s]
  BY <1>2, <1>4
<1>6. g[x - 1].past[s] \subseteq g[x].past[s]
  BY <1>4, ChainGood DEF Issued
<1> QED BY <1>2, <1>5, <1>6

\* Every kernel was launched by an operation, on its stream.
LEMMA LaunchedBySome ==
    ASSUME NEW w \in Runners, NEW ops, LaunchCode(ops), NEW g, Runs(w, g, ops, Len(ops))
    PROVE  \A n \in 0 .. Len(ops) : \A k \in 1 .. Len(g[n].out) :
             \E i \in 1 .. n : ops[i].do \in Launching /\ k \in g[i].past[ops[i].on]
<1>0. Len(ops) \in Nat
  BY Sequence DEF LaunchCode
<1> DEFINE By(n, k) == \E i \in 1 .. n : ops[i].do \in Launching /\ k \in g[i].past[ops[i].on]
           Bad == {n \in 0 .. Len(ops) : \E k \in 1 .. Len(g[n].out) : ~By(n, k)}
<1>1. SUFFICES ASSUME Bad # {} PROVE FALSE
  OBVIOUS
<1>2. PICK x \in Bad : \A y \in Bad : x <= y
  <2>1. Bad \subseteq Nat
    BY <1>0
  <2> QED BY <1>1, <2>1, Least
<1>3. PICK k \in 1 .. Len(g[x].out) : ~By(x, k)
  BY <1>2
<1>4. x # 0
  BY <1>3, FromGood DEF Runs
<1>5. x - 1 \in 0 .. Len(ops) /\ x \in 1 .. Len(ops) /\ x \in 0 .. Len(ops) /\ x > 0
  BY <1>0, <1>2, <1>4
<1>6. /\ Len(g[x - 1].out) \in Nat /\ Len(g[x].out) \in Nat
      /\ \A j \in Len(g[x - 1].out) + 1 .. Len(g[x].out) :
           ops[x].do \in Launching /\ j \in g[x].past[ops[x].on]
  <2>1. Good(g[x - 1]) /\ Good(g[x]) /\ Issued(g[x - 1], g[x], ops[x])
    BY <1>5, ChainGood
  <2> QED BY <2>1, Sequence DEF Issued, Good
<1>7. CASE k \in 1 .. Len(g[x - 1].out)
  <2>1. By(x - 1, k)
    <3>1. x - 1 \notin Bad
      BY <1>2, <1>5
    <3> QED BY <3>1, <1>5, <1>7
  <2>2. PICK i \in 1 .. x - 1 : ops[i].do \in Launching /\ k \in g[i].past[ops[i].on]
    BY <2>1
  <2>3. i \in 1 .. x
    BY <1>5
  <2> QED BY <2>2, <2>3, <1>3
<1>8. CASE k \notin 1 .. Len(g[x - 1].out)
  <2>1. k \in Len(g[x - 1].out) + 1 .. Len(g[x].out)
    BY <1>6, <1>8
  <2>2. x \in 1 .. x
    BY <1>5
  <2> QED BY <2>1, <2>2, <1>3, <1>6
<1> QED BY <1>7, <1>8

\* Where main has waited for a stream, or for another that had, its past is that of both.
LEMMA EndReaches ==
    ASSUME NEW w \in Runners, NEW ops, LaunchCode(ops), NEW g, Runs(w, g, ops, Len(ops)), NEW i \in 1 .. Len(ops),
           NEW s \in AllStreams, EndsAfter(ops, i, s)
    PROVE  g[i].past[s] \subseteq g[Len(ops)].past[Main]
<1>0. Len(ops) \in Nat /\ DOMAIN ops = 1 .. Len(ops)
  BY Sequence DEF LaunchCode
<1>1. PICK j \in 1 .. Len(ops) : i < j /\ ops[j].do = "end" /\ ops[j].on = s
  BY <1>0 DEF EndsAfter
<1>2. i \in 0 .. Len(ops) /\ j - 1 \in i .. Len(ops) /\ j \in 0 .. Len(ops) /\ j > 0 /\ Len(ops) \in j .. Len(ops)
  BY <1>0, <1>1
<1>3. g[i].past[s] \subseteq g[j - 1].past[s]
  BY <1>2, PastGrows
<1>4. g[j - 1].past[s] \subseteq g[j].past[Main]
  BY <1>1, <1>2, ChainGood DEF Issued
<1>5. g[j].past[Main] \subseteq g[Len(ops)].past[Main]
  <2>1. Main \in AllStreams
    BY DEF AllStreams
  <2> QED BY <1>2, <2>1, PastGrows
<1> QED BY <1>3, <1>4, <1>5

\* Joining the tertiary stream puts what it did before the auxiliary one.
LEMMA JoinReaches ==
    ASSUME NEW w \in Runners, NEW ops, LaunchCode(ops), NEW g, Runs(w, g, ops, Len(ops)), NEW i \in 1 .. Len(ops), JoinsAfter(ops, i)
    PROVE  g[i].past[Tertiary] \subseteq g[Len(ops)].past[Main]
<1>0. Len(ops) \in Nat /\ DOMAIN ops = 1 .. Len(ops) /\ Tertiary \in AllStreams /\ Auxiliary \in AllStreams
  BY Sequence DEF LaunchCode, AllStreams
<1>1. PICK j \in 1 .. Len(ops) : i < j /\ ops[j].do = "join" /\ EndsAfter(ops, j, Auxiliary)
  BY <1>0 DEF JoinsAfter
<1>2. i \in 0 .. Len(ops) /\ j - 1 \in i .. Len(ops) /\ j \in 0 .. Len(ops) /\ j > 0
  BY <1>0, <1>1
<1>3. g[i].past[Tertiary] \subseteq g[j - 1].past[Tertiary]
  BY <1>0, <1>2, PastGrows
<1>4. g[j - 1].past[Tertiary] \subseteq g[j].past[Auxiliary]
  BY <1>1, <1>2, ChainGood DEF Issued
<1>5. g[j].past[Auxiliary] \subseteq g[Len(ops)].past[Main]
  BY <1>0, <1>1, EndReaches
<1> QED BY <1>3, <1>4, <1>5

\* Launch code that joins what it forks leaves main after every kernel it launched.
THEOREM JoinedIsWhole ==
    ASSUME NEW w \in Runners, NEW ops, LaunchCode(ops), Joined(ops)
    PROVE  Good(Resolve(w, ops)) /\ Resolve(w, ops).past[Main] = 0 .. Len(Resolve(w, ops).out)
<1>0. Len(ops) \in Nat /\ DOMAIN ops = 1 .. Len(ops) /\ Main \in AllStreams
  BY Sequence DEF LaunchCode, AllStreams
<1>1. PICK g : Runs(w, g, ops, Len(ops)) /\ Resolve(w, ops) = g[Len(ops)]
  BY ResolveRuns DEF LaunchCode
<1> DEFINE r == g[Len(ops)]
<1>2. Len(ops) \in 0 .. Len(ops)
  BY <1>0
<1>3. Good(r)
  BY <1>1, <1>2, ChainGood
<1>4. r.past[Main] \subseteq 0 .. Len(r.out) /\ 0 \in r.past[Main]
  BY <1>0, <1>3 DEF Good
<1>5. ASSUME NEW k \in 1 .. Len(r.out) PROVE k \in r.past[Main]
  <2>1. PICK i \in 1 .. Len(ops) : ops[i].do \in Launching /\ k \in g[i].past[ops[i].on]
    BY <1>1, <1>2, LaunchedBySome
  <2>2. CASE ops[i].on = Main
    <3>1. i \in 0 .. Len(ops) /\ Len(ops) \in i .. Len(ops)
      BY <1>0
    <3> QED BY <1>0, <1>1, <2>1, <2>2, <3>1, PastGrows
  <2>3. CASE ops[i].on = Auxiliary
    <3>1. EndsAfter(ops, i, Auxiliary)
      BY <1>0, <2>1, <2>3 DEF Joined, Main, Auxiliary, Tertiary
    <3>2. Auxiliary \in AllStreams
      BY DEF AllStreams
    <3> QED BY <1>1, <2>1, <2>3, <3>1, <3>2, EndReaches
  <2>4. CASE ops[i].on = Tertiary
    <3>1. EndsAfter(ops, i, Tertiary) \/ JoinsAfter(ops, i)
      BY <1>0, <2>1, <2>4 DEF Joined, Main, Auxiliary, Tertiary
    <3>2. Tertiary \in AllStreams
      BY DEF AllStreams
    <3> QED BY <1>1, <2>1, <2>4, <3>1, <3>2, EndReaches, JoinReaches
  <2>5. ops[i].on \in AllStreams
    BY <1>0, <2>1 DEF LaunchCode
  <2> QED BY <2>2, <2>3, <2>4, <2>5 DEF AllStreams
<1>6. Len(r.out) \in Nat
  BY <1>3, Sequence DEF Good
<1> HIDE DEF r
<1>7. r.past[Main] = 0 .. Len(r.out)
  <2>1. ASSUME NEW k \in 0 .. Len(r.out) PROVE k \in r.past[Main]
    <3>1. k = 0 \/ k \in 1 .. Len(r.out)
      BY <1>6
    <3> QED BY <3>1, <1>4, <1>5
  <2> QED BY <2>1, <1>4
<1> QED BY <1>1, <1>3, <1>7 DEF r

-----------------------------------------------------------------------------
(* Kernels that have not finished.                                         *)

\* The kernels still pending are numbered up to the last one issued, and what
\* main waits for next comes after each of them, directly or through another.
Numbered ==
    /\ issued \in Nat
    /\ \A e \in pending : e.id \in 1 .. issued
    /\ \A e, f \in pending : e.id = f.id => e = f
Covered ==
    \A e \in pending : e.id \in tails[Main] \/ \E f \in pending : e.id < f.id /\ e.id \in f.after

\* Of two that share a buffer one of them writes the later one comes after the
\* earlier, directly or through others.
Clash(e, f) == Written(e) \cap Touched(f) # {} \/ Written(f) \cap Touched(e) # {}
Closed(S) == \A x \in S, y \in pending : y.id \in x.after => y \in S
Precedes(e, f) == \A S \in SUBSET pending : Closed(S) /\ f \in S => e \in S
Ordered == \A e, f \in pending : e.id < f.id /\ Clash(e, f) => Precedes(e, f)

InOrder == Numbered /\ Covered /\ Ordered

\* Main, when it has nothing more to wait for, waits for nothing at all.
LEMMA MainIsLast ==
    ASSUME Numbered, Covered, \A e \in pending : e.id \notin tails[Main]
    PROVE  pending = {}
<1> DEFINE Left == {issued - e.id : e \in pending}
<1>1. SUFFICES ASSUME pending # {} PROVE FALSE
  OBVIOUS
<1>2. Left \subseteq Nat /\ Left # {}
  BY <1>1 DEF Numbered
<1>3. PICK x \in Left : \A y \in Left : x <= y
  BY <1>2, Least
<1>4. PICK e \in pending : x = issued - e.id
  BY <1>3
<1>5. PICK f \in pending : e.id < f.id
  BY <1>4 DEF Covered
<1>6. issued - f.id \in Left /\ issued - f.id < issued - e.id
  BY <1>5 DEF Numbered
<1> QED BY <1>3, <1>4, <1>6, <1>2

\* What has all that main waits for has all that is pending.
LEMMA CoverReaches ==
    ASSUME Numbered, Covered, NEW S, Closed(S), \A y \in pending : y.id \in tails[Main] => y \in S
    PROVE  pending \subseteq S
<1> DEFINE Bad == {y \in pending : y \notin S}
           Left == {issued - e.id : e \in Bad}
<1>1. SUFFICES ASSUME Bad # {} PROVE FALSE
  OBVIOUS
<1>2. Left \subseteq Nat /\ Left # {}
  BY <1>1 DEF Numbered
<1>3. PICK x \in Left : \A y \in Left : x <= y
  BY <1>2, Least
<1>4. PICK e \in Bad : x = issued - e.id
  BY <1>3
<1>5. PICK f \in pending : e.id < f.id /\ e.id \in f.after
  BY <1>4 DEF Covered
<1>6. f \notin Bad
  <2>1. issued - f.id < issued - e.id
    BY <1>5 DEF Numbered
  <2>2. SUFFICES ASSUME f \in Bad PROVE FALSE
    OBVIOUS
  <2>3. issued - f.id \in Left
    BY <2>2
  <2>4. issued - e.id <= issued - f.id
    BY <2>3, <1>3, <1>4
  <2> QED BY <2>1, <2>4, <1>5 DEF Numbered
<1>7. e \in S
  BY <1>5, <1>6 DEF Closed
<1> QED BY <1>4, <1>7

\* Kernels none of which waits for another do not clash.
LEMMA ReadyApart ==
    ASSUME Numbered, Ordered, NEW e \in pending, NEW f \in pending, Ready(e), Ready(f), Clash(e, f)
    PROVE  e = f
<1>1. ASSUME NEW x \in pending, NEW y \in pending, Ready(y), x.id < y.id, Clash(x, y) PROVE FALSE
  <2>1. Closed({y})
    BY <1>1 DEF Closed, Ready
  <2>2. x \in {y}
    BY <1>1, <2>1 DEF Ordered, Precedes
  <2> QED BY <2>2, <1>1 DEF Numbered
<1>2. e.id < f.id \/ f.id < e.id \/ e.id = f.id
  BY DEF Numbered
<1>3. Clash(f, e)
  BY DEF Clash
<1> QED BY <1>1, <1>2, <1>3 DEF Numbered

\* The numbers of kernels that come after j.
LEMMA AtPoint ==
    ASSUME NEW S, NEW replay, NEW j \in S, NEW x, j \in Nat, j > 0 => x = issued + j, j = 0 => x \in tails[Main]
    PROVE  x \in At(S, replay)
<1>1. x \in Before(j, replay)
  <2>1. CASE j > 0
    <3>1. Before(j, replay) = {issued + j}
      BY <2>1 DEF Before
    <3> QED BY <3>1, <2>1
  <2>2. CASE j = 0
    <3>1. Before(j, replay) = tails[Main]
      BY <2>2 DEF Before
    <3> QED BY <3>1, <2>2
  <2> QED BY <2>1, <2>2
<1> QED BY <1>1, Zenon DEF At

\* What is known of code that is launched: its kernels are in order.
SafeOut(out) == IsSequence(out) /\ RaceFree(out) /\ \A k \in 1 .. Len(out) : Remembers(out, k)

\* The kernels that enter, and what they touch.
LEMMA Entered ==
    ASSUME NEW out, NEW replay, NEW last, EnterAll(out, replay, last), SafeOut(out)
    PROVE  /\ issued' = issued + Len(out) /\ Len(out) \in Nat
           /\ pending' = pending \cup {Enter(out, i, replay) : i \in 1 .. Len(out)}
           /\ tails'[Main] = At(last[Main], replay)
           /\ \A i \in 1 .. Len(out) :
                /\ Enter(out, i, replay).id = issued + i
                /\ Enter(out, i, replay).after = At(out[i].after, replay)
                /\ Written(Enter(out, i, replay)) = WritesOf(out, i)
                /\ Touched(Enter(out, i, replay)) = TouchesOf(out, i)
<1> DEFINE n == Len(out)
<1>0. DOMAIN out = 1 .. n /\ n \in Nat
  BY Sequence DEF SafeOut
<1>1. issued' = issued + n /\ pending' = pending \cup {Enter(out, i, replay) : i \in 1 .. n}
  <2>1. issued' = issued + n /\ pending' = pending \cup {Enter(out, i, replay) : i \in DOMAIN out}
    BY Zenon DEF EnterAll
  <2> QED BY <2>1, <1>0
<1>2. tails'[Main] = At(last[Main], replay)
  <2>2. tails' = [s \in AllStreams |-> At(last[s], replay)]
    BY Zenon DEF EnterAll
  <2>3. Main \in AllStreams
    BY DEF AllStreams
  <2> QED BY <2>2, <2>3
<1>3. ASSUME NEW i \in 1 .. n
      PROVE  /\ Enter(out, i, replay).id = issued + i
             /\ Enter(out, i, replay).after = At(out[i].after, replay)
             /\ Written(Enter(out, i, replay)) = WritesOf(out, i)
             /\ Touched(Enter(out, i, replay)) = TouchesOf(out, i)
  <2> DEFINE E == Enter(out, i, replay)
             Expects == {<<x[1], <<x[2], CountAfter(out, i - 1, x[2])>>>> : x \in out[i].reads}
                        \cup {ScaleAfter(out, i - 1, x) : x \in out[i].scales}
             Gives == {<<x[1], <<x[2], CountAfter(out, i, x[2])>>>> : x \in out[i].writes}
  <2>1. E.id = issued + i /\ E.after = At(out[i].after, replay) /\ E.expects = Expects /\ E.gives = Gives
    BY DEF Enter
  <2>2. {x[1] : x \in Gives} = WritesOf(out, i)
    <3> DEFINE G(x) == <<x[1], <<x[2], CountAfter(out, i, x[2])>>>>
               W == out[i].writes
    <3>1. \A x : G(x)[1] = x[1]
      OBVIOUS
    <3> HIDE DEF G, W
    <3>2. {y[1] : y \in {G(x) : x \in W}} = {x[1] : x \in W}
      BY <3>1
    <3> QED BY <3>2 DEF WritesOf, G, W
  <2>3. ASSUME NEW x \in out[i].scales
        PROVE  ScaleAfter(out, i - 1, x)[1] = out[LastKeeping(out, i - 1, x)].keeps[2]
    <3>1. Keeping(out, i - 1, x) # {}
      BY <1>0 DEF SafeOut, RaceFree
    <3> DEFINE l == LastKeeping(out, i - 1, x)
    <3>2. ScaleAfter(out, i - 1, x) = <<out[l].keeps[2], <<out[l].keeps[3], CountAfter(out, l, out[l].keeps[3])>>>>
      BY <3>1, Zenon DEF ScaleAfter
    <3> HIDE DEF l
    <3>3. ScaleAfter(out, i - 1, x)[1] = out[l].keeps[2]
      BY <3>2
    <3> QED BY <3>3 DEF l
  <2>4. {x[1] : x \in Expects} = {x[1] : x \in out[i].reads}
                                 \cup {out[LastKeeping(out, i - 1, x)].keeps[2] : x \in out[i].scales}
    <3> DEFINE A == {<<x[1], <<x[2], CountAfter(out, i - 1, x[2])>>>> : x \in out[i].reads}
               B == {ScaleAfter(out, i - 1, x) : x \in out[i].scales}
    <3>1. {x[1] : x \in A} = {x[1] : x \in out[i].reads}
      <4> DEFINE G(x) == <<x[1], <<x[2], CountAfter(out, i - 1, x[2])>>>>
                 R == out[i].reads
      <4>1. \A x : G(x)[1] = x[1]
        OBVIOUS
      <4> HIDE DEF G, R
      <4>2. {y[1] : y \in {G(x) : x \in R}} = {x[1] : x \in R}
        BY <4>1
      <4> QED BY <4>2 DEF G, R
    <3>2. {x[1] : x \in B} = {out[LastKeeping(out, i - 1, x)].keeps[2] : x \in out[i].scales}
      BY <2>3
    <3> HIDE DEF A, B
    <3>3. {x[1] : x \in A \cup B} = {x[1] : x \in A} \cup {x[1] : x \in B}
      OBVIOUS
    <3> QED BY <3>1, <3>2, <3>3 DEF A, B
  <2> HIDE DEF E, Expects, Gives
  <2>5. Written(E) = WritesOf(out, i)
    BY <2>1, <2>2 DEF Written
  <2>6. Touched(E) = {x[1] : x \in Expects} \cup {x[1] : x \in Gives}
    BY <2>1 DEF Touched
  <2>7. TouchesOf(out, i) = {x[1] : x \in out[i].reads}
                            \cup {out[LastKeeping(out, i - 1, x)].keeps[2] : x \in out[i].scales} \cup WritesOf(out, i)
    <3>1. {x[1] : x \in out[i].reads \cup out[i].writes} = {x[1] : x \in out[i].reads} \cup {x[1] : x \in out[i].writes}
      OBVIOUS
    <3> DEFINE L == {out[LastKeeping(out, i - 1, x)].keeps[2] : x \in out[i].scales}
    <3>2. TouchesOf(out, i) = {x[1] : x \in out[i].reads \cup out[i].writes} \cup L
      BY Zenon DEF TouchesOf
    <3> HIDE DEF L
    <3>3. TouchesOf(out, i) = {x[1] : x \in out[i].reads} \cup L \cup WritesOf(out, i)
      BY <3>1, <3>2 DEF WritesOf
    <3> QED BY <3>3 DEF L
  <2>8. Touched(E) = TouchesOf(out, i)
    BY <2>2, <2>4, <2>6, <2>7
  <2> QED BY <2>1, <2>5, <2>8 DEF E
<1> QED BY <1>0, <1>1, <1>2, <1>3

\* What a kernel comes after, in the code that launched it or before that, is in
\* every set that has it and what its members wait for.
LEMMA PastReaches ==
    ASSUME NEW out, NEW replay, NEW last, EnterAll(out, replay, last), SafeOut(out), Numbered,
           NEW j \in 1 .. Len(out), NEW S \in SUBSET pending', Closed(S)', Enter(out, j, replay) \in S
    PROVE  \A k \in out[j].past : /\ k > 0 => k \in 1 .. j - 1 /\ Enter(out, k, replay) \in S
                                  /\ k = 0 => \A y \in pending : y.id \in tails[Main] => y \in S
<1> DEFINE n == Len(out)
           E(i) == Enter(out, i, replay)
           Past == out[j].past
           In(k) == /\ k > 0 => k \in 1 .. j - 1 /\ E(k) \in S
                    /\ k = 0 => \A y \in pending : y.id \in tails[Main] => y \in S
<1>1. /\ n \in Nat /\ pending' = pending \cup {E(i) : i \in 1 .. n}
      /\ \A i \in 1 .. n : E(i).id = issued + i /\ E(i).after = At(out[i].after, replay)
  BY Entered
<1>2. Past \subseteq 0 .. j - 1 /\ \A k \in Past : k \in out[j].after \/ \E m \in Past : k < m /\ k \in out[m].after
  BY DEF SafeOut, Remembers, Linked
<1> HIDE DEF E, n
<1>3. ASSUME NEW m \in 1 .. n, E(m) \in S, NEW k \in Past, k \in out[m].after PROVE In(k)
  <2>1. ASSUME k > 0 PROVE k \in 1 .. j - 1 /\ E(k) \in S
    <3>1. k \in 1 .. j - 1 /\ k \in 1 .. n
      BY <1>1, <1>2, <2>1 DEF n
    <3>2. issued + k \in At(out[m].after, replay)
      BY <1>3, <2>1, <3>1, AtPoint
    <3>3. E(k) \in pending' /\ E(k).id \in E(m).after
      BY <1>1, <3>1, <3>2
    <3> QED BY <3>1, <3>3, <1>3 DEF Closed
  <2>2. ASSUME k = 0, NEW y \in pending, y.id \in tails[Main] PROVE y \in S
    <3>1. y.id \in At(out[m].after, replay)
      BY <1>3, <2>2, AtPoint
    <3>2. y \in pending' /\ y.id \in E(m).after
      BY <1>1, <3>1
    <3> QED BY <3>2, <1>3 DEF Closed
  <2> QED BY <2>1, <2>2
<1>4. j \in 1 .. n /\ E(j) \in S
  BY DEF E, n
<1> DEFINE Bad == {k \in Past : ~In(k)}
           Left == {j - k : k \in Bad}
<1>5. Bad = {}
  <2>1. SUFFICES ASSUME Bad # {} PROVE FALSE
    OBVIOUS
  <2> HIDE DEF In
  <2>2. Left \subseteq Nat /\ Left # {}
    BY <2>1, <1>2, <1>4, <1>1
  <2>3. PICK x \in Left : \A y \in Left : x <= y
    BY <2>2, Least
  <2>4. PICK k \in Bad : x = j - k
    BY <2>3
  <2>5. k \in out[j].after \/ \E m \in Past : k < m /\ k \in out[m].after
    BY <1>2, <2>4
  <2>6. CASE k \in out[j].after
    BY <2>4, <2>6, <1>3, <1>4
  <2>7. CASE \E m \in Past : k < m /\ k \in out[m].after
    <3>1. PICK m \in Past : k < m /\ k \in out[m].after
      BY <2>7
    <3>2. m \in 1 .. j - 1 /\ k \in 0 .. j - 1
      BY <1>2, <2>4, <3>1
    <3>3. m \notin Bad
      <4>1. j - m < j - k
        BY <3>1, <3>2, <1>1, <1>4
      <4>2. SUFFICES ASSUME m \in Bad PROVE FALSE
        OBVIOUS
      <4>3. j - k <= j - m
        BY <4>2, <2>3, <2>4
      <4> QED BY <4>1, <4>3, <3>2, <1>1, <1>4
    <3>4. In(m)
      BY <3>1, <3>3
    <3>5. m \in 1 .. n /\ E(m) \in S
      BY <3>2, <3>4, <1>1, <1>4 DEF In
    <3> QED BY <3>1, <3>5, <2>4, <1>3
  <2> QED BY <2>5, <2>6, <2>7
<1>6. \A k \in Past : In(k)
  BY <1>5
<1> QED BY <1>6 DEF E

\* Kernels that enter leave everything numbered and covered, and in order.
LEMMA EnterInOrder ==
    ASSUME InOrder, NEW out, NEW replay, NEW last, EnterAll(out, replay, last), SafeOut(out),
           \A j \in 0 .. Len(out) : j \in last[Main] \/ \E k \in 1 .. Len(out) : j < k /\ j \in out[k].after
    PROVE  InOrder'
<1> DEFINE n == Len(out)
           E(i) == Enter(out, i, replay)
<1>1. /\ issued' = issued + n /\ n \in Nat
      /\ pending' = pending \cup {E(i) : i \in 1 .. n}
      /\ tails'[Main] = At(last[Main], replay)
  BY Entered
<1>2. ASSUME NEW i \in 1 .. n PROVE /\ E(i).id = issued + i /\ E(i).after = At(out[i].after, replay)
                                     /\ Written(E(i)) = WritesOf(out, i) /\ Touched(E(i)) = TouchesOf(out, i)
  BY Entered
<1>0. ASSUME NEW j \in 1 .. n, NEW S \in SUBSET pending', Closed(S)', E(j) \in S
      PROVE  \A k \in out[j].past : /\ k > 0 => k \in 1 .. j - 1 /\ E(k) \in S
                                    /\ k = 0 => \A y \in pending : y.id \in tails[Main] => y \in S
  BY <1>0, PastReaches DEF InOrder
<1> HIDE DEF E
<1>3. issued \in Nat /\ Numbered /\ Covered /\ Ordered
  BY DEF Numbered, InOrder
<1>4. Numbered'
  <2>1. issued' \in Nat
    BY <1>1, <1>3
  <2>2. ASSUME NEW e \in pending' PROVE e.id \in 1 .. issued'
    <3>1. CASE e \in pending
      <4>1. e.id \in 1 .. issued
        BY <3>1, <1>3 DEF Numbered
      <4> QED BY <4>1, <1>1, <1>3
    <3>2. CASE \E i \in 1 .. n : e = E(i)
      <4>1. PICK i \in 1 .. n : e = E(i)
        BY <3>2
      <4>2. e.id = issued + i
        BY <4>1, <1>2
      <4> QED BY <4>2, <1>1, <1>3
    <3> QED BY <3>1, <3>2, <1>1
  <2>3. ASSUME NEW e \in pending', NEW f \in pending', e.id = f.id PROVE e = f
    <3>1. CASE e \in pending /\ f \in pending
      BY <2>3, <3>1, <1>3 DEF Numbered
    <3>2. ASSUME NEW x \in pending, NEW i \in 1 .. n PROVE x.id # E(i).id
      <4>1. x.id \in 1 .. issued /\ E(i).id = issued + i
        BY <1>2, <1>3 DEF Numbered
      <4> QED BY <4>1, <1>1, <1>3
    <3>3. CASE \E i, j \in 1 .. n : e = E(i) /\ f = E(j)
      <4>1. PICK i \in 1 .. n, j \in 1 .. n : e = E(i) /\ f = E(j)
        BY <3>3
      <4>2. issued + i = issued + j
        BY <4>1, <2>3, <1>2
      <4>3. i = j
        BY <4>2, <1>1, <1>3
      <4> QED BY <4>1, <4>3
    <3> QED BY <3>1, <3>2, <3>3, <2>3, <1>1
  <2> QED BY <2>1, <2>2, <2>3 DEF Numbered
<1> DEFINE Safe(id) == id \in tails'[Main] \/ \E f \in pending' : id < f.id /\ id \in f.after
<1>5. ASSUME NEW j \in 0 .. n, NEW id, j > 0 => id = issued + j, j = 0 => id \in tails[Main] /\ id \in 1 .. issued
      PROVE  Safe(id)
  <2>1. CASE j \in last[Main]
    <3>1. id \in At(last[Main], replay)
      BY <1>5, <2>1, AtPoint
    <3> QED BY <3>1, <1>1
  <2>2. CASE \E k \in 1 .. n : j < k /\ j \in out[k].after
    <3>1. PICK k \in 1 .. n : j < k /\ j \in out[k].after
      BY <2>2
    <3>2. id \in At(out[k].after, replay)
      BY <1>5, <3>1, AtPoint
    <3>3. E(k) \in pending' /\ E(k).id = issued + k /\ E(k).after = At(out[k].after, replay)
      BY <1>1, <1>2
    <3>4. id < issued + k
      BY <1>3, <1>5, <3>1
    <3> QED BY <3>2, <3>3, <3>4
  <2> QED BY <2>1, <2>2
<1>6. ASSUME NEW e \in pending' PROVE Safe(e.id)
  <2>1. CASE e \in pending
    <3>1. CASE e.id \in tails[Main]
      <4>1. e.id \in 1 .. issued /\ 0 \in 0 .. n
        BY <2>1, <1>1, <1>3 DEF Numbered
      <4> QED BY <3>1, <4>1, <1>5
    <3>2. CASE \E f \in pending : e.id < f.id /\ e.id \in f.after
      BY <3>2, <1>1
    <3> QED BY <2>1, <3>1, <3>2, <1>3 DEF Covered
  <2>2. CASE \E i \in 1 .. n : e = E(i)
    <3>1. PICK i \in 1 .. n : e = E(i)
      BY <2>2
    <3>2. e.id = issued + i /\ i \in 0 .. n /\ i > 0
      BY <3>1, <1>2
    <3> QED BY <3>2, <1>5
  <2> QED BY <2>1, <2>2, <1>1
<1>7. Covered'
  BY <1>6 DEF Covered
<1>8. ASSUME NEW e \in pending', NEW f \in pending', e.id < f.id, Clash(e, f) PROVE Precedes(e, f)'
  <2> SUFFICES ASSUME NEW S \in SUBSET pending', Closed(S)', f \in S PROVE e \in S
    BY DEF Precedes
  <2> DEFINE Old == S \cap pending
  <2>1. Old \in SUBSET pending /\ Closed(Old)
    BY <1>1 DEF Closed
  <2>2. CASE e \in pending /\ f \in pending
    <3>1. Precedes(e, f)
      BY <2>2, <1>3, <1>8 DEF Ordered
    <3> QED BY <3>1, <2>1, <2>2 DEF Precedes
  <2>3. CASE e \in pending /\ \E j \in 1 .. n : f = E(j)
    <3>1. PICK j \in 1 .. n : f = E(j)
      BY <2>3
    <3>2. 0 \in out[j].past
      <4>1. DOMAIN out = 1 .. n
        BY Sequence DEF SafeOut
      <4> QED BY <4>1 DEF SafeOut, RaceFree
    <3>3. \A y \in pending : y.id \in tails[Main] => y \in S
      BY <3>1, <3>2, <1>0
    <3>4. pending \subseteq Old
      <4> HIDE DEF n
      <4>1. \A y \in pending : y.id \in tails[Main] => y \in Old
        BY <3>3
      <4> HIDE DEF Old
      <4> QED BY <4>1, <2>1, <1>3, CoverReaches
    <3> QED BY <3>4, <2>3
  <2>4. CASE \E i, j \in 1 .. n : e = E(i) /\ f = E(j)
    <3>1. PICK i \in 1 .. n, j \in 1 .. n : e = E(i) /\ f = E(j)
      BY <2>4
    <3>2. i < j
      <4>1. issued + i < issued + j
        BY <3>1, <1>2, <1>8
      <4> QED BY <4>1, <1>1, <1>3
    <3>3. ~Apart(out, i, j)
      <4>1. WritesOf(out, i) \cap TouchesOf(out, j) # {} \/ WritesOf(out, j) \cap TouchesOf(out, i) # {}
        BY <3>1, <1>2, <1>8 DEF Clash
      <4> QED BY <4>1 DEF Apart
    <3>4. i \in out[j].past
      <4>1. DOMAIN out = 1 .. n
        BY Sequence DEF SafeOut
      <4>2. i \in 1 .. j - 1
        BY <3>2, <1>1
      <4> QED BY <4>1, <4>2, <3>3 DEF SafeOut, RaceFree
    <3>5. i > 0
      BY <1>1
    <3> QED BY <3>1, <3>4, <3>5, <1>0
  <2>5. CASE f \in pending /\ \E i \in 1 .. n : e = E(i)
    <3>1. PICK i \in 1 .. n : e = E(i)
      BY <2>5
    <3>2. f.id \in 1 .. issued /\ e.id = issued + i
      BY <2>5, <3>1, <1>2, <1>3 DEF Numbered
    <3> QED BY <3>2, <1>1, <1>3, <1>8
  <2> QED BY <2>2, <2>3, <2>4, <2>5, <1>1
<1>9. Ordered'
  <2>1. ASSUME NEW e \in pending', NEW f \in pending', (e.id < f.id /\ Clash(e, f))' PROVE Precedes(e, f)'
    <3>1. e.id < f.id /\ Clash(e, f)
      BY <2>1 DEF Clash, Written, Touched
    <3> QED BY <3>1, <1>8
  <2> QED BY <2>1 DEF Ordered
<1> QED BY <1>4, <1>7, <1>9 DEF InOrder

\* Launch code leaves everything in order, whatever the runner was left with; it
\* touches what any run of it does.
LEMMA EnqueueInOrder ==
    ASSUME InOrder, fp8 \in Runners, NEW ops, Sound(ops), Enqueue(ops)
    PROVE  /\ InOrder' /\ fp8' \in Runners
           /\ \A B : Untouched(ops, B) => \A e \in pending' : e \in pending \/ Touched(e) \cap B = {}
<1> DEFINE r == Resolve(fp8, ops)
<1>1. Good(r) /\ r.past[Main] = 0 .. Len(r.out)
  BY JoinedIsWhole DEF Sound
<1>2. EnterAll(r.out, FALSE, r.tail) /\ fp8' = r.fp8
  BY Zenon DEF Enqueue
<1>3. RaceFree(r.out)
  BY DEF Sound
<1>4. ASSUME NEW B, Untouched(ops, B) PROVE \A i \in DOMAIN r.out : TouchesOf(r.out, i) \cap B = {}
  BY <1>4 DEF Untouched
<1> HIDE DEF r
<1>5. SafeOut(r.out)
  BY <1>1, <1>3 DEF SafeOut, Good
<1>6. DOMAIN r.out = 1 .. Len(r.out)
  BY <1>5, Sequence DEF SafeOut
<1>7. ASSUME NEW j \in 0 .. Len(r.out)
      PROVE  j \in r.tail[Main] \/ \E k \in 1 .. Len(r.out) : j < k /\ j \in r.out[k].after
  <2>1. Main \in AllStreams
    BY DEF AllStreams
  <2>2. j \in r.tail[Main] \/ \E k \in r.past[Main] : j < k /\ j \in r.out[k].after
    BY <1>1, <2>1 DEF Good, Linked
  <2>3. \A k \in r.past[Main] : j < k => k \in 1 .. Len(r.out)
    BY <1>1
  <2> QED BY <2>2, <2>3
<1>8. InOrder'
  BY <1>2, <1>5, <1>7, EnterInOrder
<1>9. ASSUME NEW B, Untouched(ops, B), NEW e \in pending' PROVE e \in pending \/ Touched(e) \cap B = {}
  <2>1. CASE e \notin pending
    <3>0. pending' = pending \cup {Enter(r.out, i, FALSE) : i \in 1 .. Len(r.out)}
      BY <1>2, <1>5, Entered
    <3>1. PICK i \in 1 .. Len(r.out) : e = Enter(r.out, i, FALSE)
      BY <2>1, <3>0
    <3>2. Touched(e) = TouchesOf(r.out, i)
      BY <3>1, <1>2, <1>5, Entered
    <3> QED BY <3>2, <1>4, <1>6, <1>9
  <2> QED BY <2>1
<1>10. fp8' \in Runners
  BY <1>1, <1>2 DEF Good
<1> QED BY <1>8, <1>9, <1>10

\* So does a graph.
LEMMA ReplayInOrder ==
    ASSUME InOrder, NEW g, SafeOut(g.out), Replay(g)
    PROVE  /\ InOrder'
           /\ \A B : (\A i \in DOMAIN g.out : TouchesOf(g.out, i) \cap B = {})
                     => \A e \in pending' : e \in pending \/ Touched(e) \cap B = {}
<1> DEFINE last == [Start EXCEPT ![Main] = 0 .. Len(g.out)]
<1>1. EnterAll(g.out, TRUE, last)
  BY Zenon DEF Replay
<1>2. last[Main] = 0 .. Len(g.out)
  BY DEF Start, AllStreams
<1> HIDE DEF last
<1>3. DOMAIN g.out = 1 .. Len(g.out)
  BY Sequence DEF SafeOut
<1>4. ASSUME NEW B, \A i \in DOMAIN g.out : TouchesOf(g.out, i) \cap B = {}, NEW e \in pending'
      PROVE  e \in pending \/ Touched(e) \cap B = {}
  <2>1. pending' = pending \cup {Enter(g.out, i, TRUE) : i \in 1 .. Len(g.out)}
    BY <1>1, Entered
  <2>2. ASSUME NEW i \in 1 .. Len(g.out), e = Enter(g.out, i, TRUE) PROVE Touched(e) = TouchesOf(g.out, i)
    BY <2>2, <1>1, Entered
  <2> QED BY <2>1, <2>2, <1>3, <1>4
<1>5. InOrder'
  BY <1>1, <1>2, EnterInOrder
<1> QED BY <1>4, <1>5

-----------------------------------------------------------------------------
(* The inductive invariant.                                                *)

\* One step that is left to the host.
StepOfHost(s) ==
    /\ s.do \in {"stage", "enqueue", "launch", "sync", "read", "plan", "capture"}
    /\ s.do \in {"enqueue", "launch", "capture"} => Sound(s.ops)
    /\ s.do = "launch" => Launchable(s)
    /\ s.do = "capture" => s.graph \in Policies
    /\ s.do \in {"launch", "capture"} /\ s.graph \in {"first", "bare"} => ~AsksForPlan(s.ops)
    /\ s.do \in {"launch", "capture"} /\ s.graph = "bare" => Untouched(s.ops, Pinned)

\* A capture comes right after a wait, or first when nothing is pending; one that
\* asks for a plan comes after it was looked up, or finds it.
CaptureInPlace(ss, i, empty, planned) ==
    /\ IF i = 1 THEN empty ELSE ss[i - 1].do = "sync"
    /\ AsksForPlan(ss[i].ops) => planned \/ \E j \in 1 .. i - 1 : ss[j].do = "plan"

\* The steps left, when nothing is pending or not, and the call has its plan or not.
StepsInOrder(ss, empty, planned) ==
    /\ IsSequence(ss)
    /\ \A i \in DOMAIN ss : StepOfHost(ss[i]) /\ (ss[i].do = "capture" => CaptureInPlace(ss, i, empty, planned))

\* The host waits for what is pending, or what is pending leaves alone what the
\* host uses next, in this call or in one of those after it; and it waits for
\* what it has still to launch, unless that leaves them alone.
Free(P, B) == \A e \in P : Touched(e) \cap B = {}
WaitsFirst(ss, P, early) ==
    /\ \A j \in HostUses(ss) : SyncIn(ss, 1 .. j - 1) \/ Free(P, {ss[j].buffer})
    /\ SyncIn(ss, DOMAIN ss) \/ Free(P, early)
Lasting(s, early) == (s.do = "enqueue" \/ s.graph = "bare") /\ Untouched(s.ops, early)
WaitsLater(ss, early) ==
    \A i \in Enqueuing(ss) :
      /\ \A j \in HostUses(ss) : i < j => SyncIn(ss, i + 1 .. j - 1)
      /\ SyncIn(ss, i + 1 .. Len(ss)) \/ Lasting(ss[i], early)

\* A plan per shape.
PlansDiffer(ps) ==
    /\ IsSequence(ps)
    /\ \A i, j \in DOMAIN ps : ps[i].shape = ps[j].shape => i = j

\* A graph whose key is of the present is of the present; other keys are of the
\* past.  One whose key has no time in it has no buffer of the host in it.
AddressesOf(p, bs) == [i \in DOMAIN Programs[p].needs |-> bs[i].address]
GraphFits(g, bs, gen, ps, ev) ==
    /\ g.whole
    /\ SafeOut(g.out)
    /\ g.key[2] # "bare" => g.key[3] \in 0 .. gen /\ (g.key[3] = gen => g.at = AddressesOf(g.key[1], bs))
    /\ g.key[2] = "bare" => \A i \in DOMAIN g.out : TouchesOf(g.out, i) \cap Pinned = {}
    /\ g.key[2] # "second" => g.uses = {}
    /\ g.key[2] = "second" => g.key[4] \in 0 .. ev /\ (g.key[4] = ev => g.uses \subseteq ToSet(ps))
GraphsFit(gs, bs, gen, ps, ev) ==
    /\ gs = [store \in Stores |-> gs[store]]
    /\ \A store \in Stores :
         /\ IsSequence(gs[store])
         /\ \A g \in ToSet(gs[store]) : GraphFits(g, bs, gen, ps, ev)

Planned == PlansOf(Shape) # {}
PoolInv ==
    /\ generation \in Nat /\ evictions \in Nat
    /\ blocks = [i \in DOMAIN blocks |-> blocks[i]]
HostInv ==
    /\ fp8 \in Runners
    /\ call = Idle => steps = <<>>
    /\ WaitsFirst(steps, pending, Early(mix))
    /\ WaitsLater(steps, Early(mix))
IInv ==
    /\ mix \in Mixes
    /\ StepsInOrder(steps, pending = {}, Planned)
    /\ HostInv
    /\ InOrder
    /\ PlansDiffer(plans)
    /\ PoolInv
    /\ GraphsFit(graphs, blocks, generation, plans, evictions)

-----------------------------------------------------------------------------
(* Sequences of steps, plans and graphs.                                   *)

\* What is left without its first element.
LEMMA TailOf ==
    ASSUME NEW s, IsSequence(s), s # <<>>
    PROVE  /\ IsSequence(Tail(s)) /\ Len(Tail(s)) = Len(s) - 1 /\ Head(s) = s[1] /\ Len(s) \in Nat \ {0}
           /\ \A i \in 1 .. Len(s) - 1 : Tail(s)[i] = s[i + 1]
           /\ ToSet(s) = ToSet(Tail(s)) \cup {s[1]}
<1> DEFINE T == ToSet(s)
           t == Tail(s)
<1>1. s \in Seq(T)
  BY DEF IsSequence
<1> HIDE DEF T
<1>2. /\ t \in Seq(T) /\ Len(t) = Len(s) - 1 /\ Head(s) = s[1] /\ Len(s) \in Nat \ {0}
      /\ \A i \in 1 .. Len(s) - 1 : t[i] = s[i + 1]
  BY <1>1
<1>3. IsSequence(t)
  BY <1>2, OwnSequence
<1>4. DOMAIN t = 1 .. Len(s) - 1 /\ DOMAIN s = 1 .. Len(s)
  BY <1>1, <1>2
<1> HIDE DEF t
<1>5. ToSet(s) \subseteq ToSet(t) \cup {s[1]}
  <2>1. ASSUME NEW i \in 1 .. Len(s) PROVE s[i] = s[1] \/ s[i] \in ToSet(t)
    <3>1. CASE i = 1
      BY <3>1
    <3>2. CASE i # 1
      <4>1. i - 1 \in 1 .. Len(s) - 1 /\ t[i - 1] = s[i]
        BY <1>2, <3>2
      <4> QED BY <4>1, <1>4 DEF ToSet
    <3> QED BY <3>1, <3>2
  <2> QED BY <2>1, <1>4 DEF ToSet
<1>6. ToSet(t) \cup {s[1]} \subseteq ToSet(s)
  <2>1. ASSUME NEW i \in 1 .. Len(s) - 1 PROVE t[i] \in ToSet(s)
    <3>1. i + 1 \in 1 .. Len(s) /\ t[i] = s[i + 1]
      BY <1>2
    <3> QED BY <3>1, <1>4 DEF ToSet
  <2>2. 1 \in 1 .. Len(s)
    BY <1>2
  <2> QED BY <2>1, <2>2, <1>4 DEF ToSet
<1> QED BY <1>2, <1>3, <1>5, <1>6 DEF t

\* One sequence after another.
LEMMA Concatenated ==
    ASSUME NEW s, NEW t, IsSequence(s), IsSequence(t)
    PROVE  /\ IsSequence(s \o t) /\ Len(s \o t) = Len(s) + Len(t) /\ Len(s) \in Nat /\ Len(t) \in Nat
           /\ \A i \in 1 .. Len(s) : (s \o t)[i] = s[i]
           /\ \A i \in Len(s) + 1 .. Len(s) + Len(t) : (s \o t)[i] = t[i - Len(s)]
<1> DEFINE T == ToSet(s) \cup ToSet(t)
<1>1. s \in Seq(T) /\ t \in Seq(T)
  BY DEF IsSequence, ToSet
<1> HIDE DEF T
<1>2. s \o t \in Seq(T)
  BY <1>1
<1>3. IsSequence(s \o t)
  BY <1>2, OwnSequence
<1> QED BY <1>1, <1>3

\* A sequence without its i-th element.
LEMMA WithoutOne ==
    ASSUME NEW s, IsSequence(s), NEW i \in DOMAIN s
    PROVE  LET w == Without(s, i)
           IN  /\ IsSequence(w) /\ Len(w) = Len(s) - 1 /\ Len(s) \in Nat
               /\ \A k \in 1 .. i - 1 : w[k] = s[k]
               /\ \A k \in i .. Len(s) - 1 : w[k] = s[k + 1]
               /\ ToSet(w) \subseteq ToSet(s)
               /\ ToSet(s) \subseteq ToSet(w) \cup {s[i]}
<1> DEFINE T == ToSet(s)
           a == SubSeq(s, 1, i - 1)
           b == SubSeq(s, i + 1, Len(s))
           w == Without(s, i)
<1>1. s \in Seq(T) /\ Len(s) \in Nat /\ DOMAIN s = 1 .. Len(s)
  BY Sequence DEF IsSequence
<1> HIDE DEF T
<1>2. a \in Seq(T) /\ Len(a) = i - 1 /\ \A k \in 1 .. i - 1 : a[k] = s[k]
  BY <1>1
<1>3. b \in Seq(T) /\ Len(b) = Len(s) - i /\ \A k \in 1 .. Len(s) - i : b[k] = s[k + i]
  BY <1>1
<1>4. w = a \o b
  BY Zenon DEF Without
<1> HIDE DEF a, b, w
<1>5. /\ IsSequence(w) /\ Len(w) = Len(s) - 1
      /\ \A k \in 1 .. i - 1 : w[k] = a[k]
      /\ \A k \in i .. Len(s) - 1 : w[k] = b[k - (i - 1)]
  <2>1. IsSequence(a) /\ IsSequence(b)
    BY <1>2, <1>3, OwnSequence
  <2>2. /\ IsSequence(w) /\ Len(w) = Len(a) + Len(b)
        /\ \A k \in 1 .. Len(a) : w[k] = a[k]
        /\ \A k \in Len(a) + 1 .. Len(a) + Len(b) : w[k] = b[k - Len(a)]
    BY <2>1, <1>4, Concatenated
  <2>3. Len(a) + Len(b) = Len(s) - 1 /\ Len(a) + 1 = i
    BY <1>1, <1>2, <1>3
  <2> QED BY <2>2, <2>3, <1>2
<1>6. \A k \in 1 .. i - 1 : w[k] = s[k]
  BY <1>2, <1>5
<1>7. ASSUME NEW k \in i .. Len(s) - 1 PROVE w[k] = s[k + 1]
  <2>1. k - (i - 1) \in 1 .. Len(s) - i /\ k - (i - 1) + i = k + 1
    BY <1>1
  <2> QED BY <2>1, <1>3, <1>5
<1>8. DOMAIN w = 1 .. Len(s) - 1
  BY <1>5, Sequence
<1>9. ToSet(w) \subseteq ToSet(s)
  <2>1. ASSUME NEW k \in 1 .. Len(s) - 1 PROVE w[k] \in ToSet(s)
    <3>1. CASE k \in 1 .. i - 1
      BY <3>1, <1>1, <1>6 DEF ToSet
    <3>2. CASE k \in i .. Len(s) - 1
      <4>1. k + 1 \in DOMAIN s /\ w[k] = s[k + 1]
        BY <3>2, <1>1, <1>7
      <4> QED BY <4>1 DEF ToSet
    <3> QED BY <3>1, <3>2, <1>1
  <2> QED BY <2>1, <1>8 DEF ToSet
<1>10. ToSet(s) \subseteq ToSet(w) \cup {s[i]}
  <2>1. ASSUME NEW k \in 1 .. Len(s) PROVE s[k] \in ToSet(w) \cup {s[i]}
    <3>1. CASE k < i
      <4>1. k \in 1 .. i - 1 /\ k \in DOMAIN w
        BY <3>1, <1>1, <1>8
      <4> QED BY <4>1, <1>6 DEF ToSet
    <3>2. CASE k = i
      BY <3>2
    <3>3. CASE k > i
      <4>1. k - 1 \in i .. Len(s) - 1 /\ k - 1 \in DOMAIN w /\ k - 1 + 1 = k
        BY <3>3, <1>1, <1>8
      <4>2. w[k - 1] = s[k]
        BY <4>1, <1>7
      <4> QED BY <4>1, <4>2 DEF ToSet
    <3> QED BY <3>1, <3>2, <3>3, <1>1
  <2> QED BY <2>1, <1>1 DEF ToSet
<1> QED BY <1>1, <1>5, <1>6, <1>7, <1>9, <1>10 DEF w

-----------------------------------------------------------------------------
(* The steps left to the host.                                             *)

\* A program as it was written leaves nothing to capture.
LEMMA ProgramInOrder ==
    ASSUME NEW ss, HostCode(ss)
    PROVE  StepsInOrder(ss, FALSE, FALSE)
<1>1. ASSUME NEW i \in DOMAIN ss PROVE StepOfHost(ss[i]) /\ ss[i].do # "capture"
  <2>1. ss[i].do \in {"stage", "enqueue", "launch", "sync", "read"}
    BY DEF HostCode
  <2>2. ss[i].do \in {"enqueue", "launch"} => Launchable(ss[i]) /\ Sound(ss[i].ops)
    BY DEF HostCode, Launchable, Enqueuing
  <2>3. /\ ss[i].do = "launch" /\ ss[i].graph \in {"first", "bare"} => ~AsksForPlan(ss[i].ops)
        /\ ss[i].do = "launch" /\ ss[i].graph = "bare" => Untouched(ss[i].ops, Pinned)
    BY <2>2 DEF Launchable
  <2> QED BY <2>1, <2>2, <2>3 DEF StepOfHost
<1>2. IsSequence(ss)
  BY DEF HostCode
<1> QED BY <1>1, <1>2, Zenon DEF StepsInOrder

\* What is in order stays so when less is pending or more is planned.
LEMMA InOrderStill ==
    ASSUME NEW ss, NEW e \in BOOLEAN, NEW p \in BOOLEAN, NEW f \in BOOLEAN, NEW q \in BOOLEAN,
           StepsInOrder(ss, e, p), e => f, p => q
    PROVE  StepsInOrder(ss, f, q)
BY DEF StepsInOrder, CaptureInPlace

\* The first step is taken: a wait leaves nothing pending, a lookup leaves a plan.
LEMMA FirstTaken ==
    ASSUME NEW ss, ss # <<>>, NEW e \in BOOLEAN, NEW p \in BOOLEAN, NEW f \in BOOLEAN, NEW q \in BOOLEAN,
           StepsInOrder(ss, e, p), ss[1].do = "sync" => f, p \/ ss[1].do = "plan" => q
    PROVE  StepsInOrder(Tail(ss), f, q)
<1> DEFINE t == Tail(ss)
<1>1. /\ IsSequence(t) /\ Len(t) = Len(ss) - 1 /\ Len(ss) \in Nat \ {0}
      /\ \A i \in 1 .. Len(ss) - 1 : t[i] = ss[i + 1]
  BY TailOf DEF StepsInOrder
<1>2. DOMAIN t = 1 .. Len(ss) - 1 /\ DOMAIN ss = 1 .. Len(ss)
  BY <1>1, Sequence DEF StepsInOrder
<1> HIDE DEF t
<1>3. ASSUME NEW i \in DOMAIN t
      PROVE  StepOfHost(t[i]) /\ (t[i].do = "capture" => CaptureInPlace(t, i, f, q))
  <2>1. i \in 1 .. Len(ss) - 1 /\ i + 1 \in DOMAIN ss /\ t[i] = ss[i + 1] /\ i + 1 # 1
    BY <1>1, <1>2
  <2>2. StepOfHost(ss[i + 1]) /\ (ss[i + 1].do = "capture" => CaptureInPlace(ss, i + 1, e, p))
    BY <2>1 DEF StepsInOrder
  <2>3. ASSUME t[i].do = "capture" PROVE CaptureInPlace(t, i, f, q)
    <3>1. CaptureInPlace(ss, i + 1, e, p)
      BY <2>1, <2>2, <2>3
    <3>2. ss[i].do = "sync"
      BY <2>1, <3>1 DEF CaptureInPlace
    <3>3. IF i = 1 THEN f ELSE t[i - 1].do = "sync"
      <4>1. CASE i = 1
        BY <3>2, <4>1
      <4>2. CASE i # 1
        <5>1. i - 1 \in 1 .. Len(ss) - 1 /\ i - 1 + 1 = i
          BY <2>1, <1>1, <4>2
        <5>2. t[i - 1] = ss[i]
          BY <5>1, <1>1
        <5> QED BY <5>2, <3>2, <4>2
      <4> QED BY <4>1, <4>2
    <3>4. ASSUME AsksForPlan(t[i].ops) PROVE q \/ \E j \in 1 .. i - 1 : t[j].do = "plan"
      <4>1. p \/ \E j \in 1 .. i : ss[j].do = "plan"
        <5>1. AsksForPlan(ss[i + 1].ops)
          BY <2>1, <3>4
        <5>2. p \/ \E j \in 1 .. i + 1 - 1 : ss[j].do = "plan"
          BY <3>1, <5>1 DEF CaptureInPlace
        <5> QED BY <5>2, <2>1, <1>1
      <4>2. CASE p
        BY <4>2
      <4>3. CASE \E j \in 1 .. i : ss[j].do = "plan"
        <5>1. PICK j \in 1 .. i : ss[j].do = "plan"
          BY <4>3
        <5>2. CASE j = 1
          BY <5>1, <5>2
        <5>3. CASE j # 1
          <6>1. j - 1 \in 1 .. i - 1 /\ j - 1 \in 1 .. Len(ss) - 1 /\ j - 1 + 1 = j
            BY <2>1, <1>1, <5>3
          <6>2. t[j - 1] = ss[j]
            BY <6>1, <1>1
          <6> QED BY <5>1, <6>1, <6>2
        <5> QED BY <5>2, <5>3
      <4> QED BY <4>1, <4>2, <4>3
    <3> QED BY <3>3, <3>4 DEF CaptureInPlace
  <2> QED BY <2>1, <2>2, <2>3
<1>4. StepsInOrder(t, f, q)
  BY <1>1, <1>3 DEF StepsInOrder
<1> QED BY <1>4 DEF t

\* Steps in order before steps that do not begin with a capture.
LEMMA PutBefore ==
    ASSUME NEW pre, NEW ss, NEW e \in BOOLEAN, NEW p \in BOOLEAN,
           StepsInOrder(pre, e, p), StepsInOrder(ss, FALSE, p)
    PROVE  StepsInOrder(pre \o ss, e, p)
<1> DEFINE t == pre \o ss
           m == Len(pre)
           n == Len(ss)
<1>1. /\ IsSequence(t) /\ Len(t) = m + n /\ m \in Nat /\ n \in Nat
      /\ \A i \in 1 .. m : t[i] = pre[i]
      /\ \A i \in m + 1 .. m + n : t[i] = ss[i - m]
  BY Concatenated DEF StepsInOrder
<1>2. DOMAIN t = 1 .. m + n /\ DOMAIN pre = 1 .. m /\ DOMAIN ss = 1 .. n
  BY <1>1, Sequence DEF StepsInOrder
<1> HIDE DEF t, m, n
<1>3. ASSUME NEW i \in 1 .. m PROVE StepOfHost(t[i]) /\ (t[i].do = "capture" => CaptureInPlace(t, i, e, p))
  <2>1. t[i] = pre[i] /\ \A j \in 1 .. i - 1 : t[j] = pre[j]
    BY <1>1
  <2>2. StepOfHost(pre[i]) /\ (pre[i].do = "capture" => CaptureInPlace(pre, i, e, p))
    BY <1>2 DEF StepsInOrder
  <2>3. i # 1 => i - 1 \in 1 .. i - 1
    BY <1>1
  <2>4. CaptureInPlace(pre, i, e, p) => CaptureInPlace(t, i, e, p)
    BY <2>1, <2>3 DEF CaptureInPlace
  <2> QED BY <2>1, <2>2, <2>4
<1>4. ASSUME NEW i \in m + 1 .. m + n
      PROVE  StepOfHost(t[i]) /\ (t[i].do = "capture" => CaptureInPlace(t, i, e, p))
  <2> DEFINE k == i - m
  <2>1. k \in 1 .. n /\ t[i] = ss[k] /\ \A j \in 1 .. k - 1 : m + j \in 1 .. i - 1 /\ t[m + j] = ss[j]
    <3>1. k \in 1 .. n /\ t[i] = ss[k]
      BY <1>1
    <3>2. ASSUME NEW j \in 1 .. k - 1 PROVE m + j \in 1 .. i - 1 /\ t[m + j] = ss[j]
      <4>1. m + j \in m + 1 .. m + n /\ m + j - m = j /\ m + j \in 1 .. i - 1
        BY <1>1
      <4>2. t[m + j] = ss[m + j - m]
        BY <4>1, <1>1
      <4> QED BY <4>1, <4>2
    <3> QED BY <3>1, <3>2
  <2>2. StepOfHost(ss[k]) /\ (ss[k].do = "capture" => CaptureInPlace(ss, k, FALSE, p))
    BY <1>2, <2>1 DEF StepsInOrder
  <2>3. ASSUME CaptureInPlace(ss, k, FALSE, p) PROVE CaptureInPlace(t, i, e, p)
    <3>1. k # 1 /\ ss[k - 1].do = "sync"
      BY <2>3 DEF CaptureInPlace
    <3>2. k - 1 \in 1 .. k - 1 /\ m + (k - 1) = i - 1 /\ i # 1
      BY <1>1, <2>1, <3>1
    <3>3. t[i - 1] = ss[k - 1]
      BY <2>1, <3>2
    <3>4. AsksForPlan(t[i].ops) => p \/ \E j \in 1 .. i - 1 : t[j].do = "plan"
      <4>1. AsksForPlan(ss[k].ops) => p \/ \E j \in 1 .. k - 1 : ss[j].do = "plan"
        BY <2>3 DEF CaptureInPlace
      <4> HIDE DEF k
      <4> QED BY <4>1, <2>1
    <3> QED BY <3>1, <3>2, <3>3, <3>4 DEF CaptureInPlace
  <2> QED BY <2>1, <2>2, <2>3
<1>5. ASSUME NEW i \in DOMAIN t
      PROVE  StepOfHost(t[i]) /\ (t[i].do = "capture" => CaptureInPlace(t, i, e, p))
  <2>1. i \in 1 .. m \/ i \in m + 1 .. m + n
    BY <1>1, <1>2
  <2> QED BY <2>1, <1>3, <1>4
<1>6. StepsInOrder(t, e, p)
  BY <1>1, <1>5 DEF StepsInOrder
<1> QED BY <1>6 DEF t

-----------------------------------------------------------------------------
(* The parts in which launch code runs.                                    *)

\* The part that runs at once is joined, and what it leaves is in order.
Recording(s) ==
    IF s.graph \in Policies
    THEN <<[do |-> "sync"], [do |-> "capture", ops |-> s.ops, graph |-> s.graph]>> ELSE <<>>

\* What is left of a launch once its first part is enqueued is in order.
LEMMA PartsInOrder ==
    ASSUME NEW s, StepOfHost(s), s.do = "launch", NEW p \in BOOLEAN
    PROVE  /\ Sound(Head(Parts(s.ops)).ops)
           /\ StepsInOrder(Tail(Parts(s.ops)) \o Recording(s), FALSE, p)
<1> DEFINE ops == s.ops
           rec == Recording(s)
           first == UpToPlan(ops)
           second == AfterPlan(ops)
<1> SUFFICES /\ Sound(Head(Parts(ops)).ops)
             /\ StepsInOrder(Tail(Parts(ops)) \o rec, FALSE, p)
  OBVIOUS
<1>1. Sound(ops) /\ Launchable(s)
  BY DEF StepOfHost
<1>2. /\ s.graph \in {"first", "bare"} => ~AsksForPlan(ops)
      /\ s.graph = "bare" => Untouched(ops, Pinned)
  BY DEF StepOfHost
<1>3. ASSUME s.graph \in Policies
      PROVE  /\ rec = <<[do |-> "sync"], [do |-> "capture", ops |-> s.ops, graph |-> s.graph]>>
             /\ StepOfHost(rec[1]) /\ StepOfHost(rec[2])
             /\ IsSequence(rec) /\ DOMAIN rec = {1, 2}
             /\ rec[1].do = "sync" /\ rec[2].do = "capture" /\ rec[2].ops = ops
  <2> DEFINE a == [do |-> "sync"]
             b == [do |-> "capture", ops |-> s.ops, graph |-> s.graph]
  <2>1. rec = <<a, b>>
    BY <1>3, Zenon DEF Recording
  <2>2. a.do = "sync" /\ b.do = "capture" /\ b.ops = ops /\ b.graph = s.graph
    OBVIOUS
  <2>3. StepOfHost(a)
    BY <2>2 DEF StepOfHost
  <2>4. StepOfHost(b)
    <3> HIDE DEF b, a
    <3> QED BY <2>2, <1>1, <1>2, <1>3 DEF StepOfHost
  <2> HIDE DEF a, b
  <2>5. <<a, b>> \in Seq({a, b}) /\ <<a, b>>[1] = a /\ <<a, b>>[2] = b /\ DOMAIN <<a, b>> = {1, 2}
    OBVIOUS
  <2>6. IsSequence(<<a, b>>)
    BY <2>5, OwnSequence
  <2> HIDE DEF rec
  <2> QED BY <2>1, <2>2, <2>3, <2>4, <2>5, <2>6 DEF a, b
<1>4. s.graph \notin Policies => rec = <<>>
  BY DEF Recording
<1> HIDE DEF rec
<1>5. IsSequence(<<>>) /\ StepsInOrder(<<>>, FALSE, p)
  <2>1. IsSequence(<<>>)
    BY DEF IsSequence
  <2> QED BY <2>1 DEF StepsInOrder
<1>6. CASE ~AsksForPlan(ops)
  <2>1. Parts(ops) = <<[do |-> "enqueue", ops |-> ops]>>
    BY <1>6, Zenon DEF Parts
  <2>2. Head(Parts(ops)).ops = ops /\ Tail(Parts(ops)) = <<>>
    BY <2>1
  <2>3. StepsInOrder(rec, FALSE, p)
    <3>1. CASE s.graph \in Policies
      <4>1. CaptureInPlace(rec, 2, FALSE, p)
        BY <3>1, <1>3, <1>6 DEF CaptureInPlace
      <4> QED BY <4>1, <3>1, <1>3 DEF StepsInOrder
    <3>2. CASE s.graph \notin Policies
      BY <3>2, <1>4, <1>5
    <3> QED BY <3>1, <3>2
  <2>4. StepsInOrder(<<>> \o rec, FALSE, p)
    BY <2>3, <1>5, PutBefore
  <2> QED BY <2>2, <2>4, <1>1
<1>7. CASE AsksForPlan(ops)
  <2>2. Sound(first) /\ Sound(second)
    BY <1>1, <1>7 DEF Launchable
  <2> DEFINE x == [do |-> "enqueue", ops |-> first]
             a == [do |-> "plan"]
             b == [do |-> "enqueue", ops |-> second]
  <2>3. Parts(ops) = <<x, a, b>>
    BY <1>7, Zenon DEF Parts
  <2>4. x.ops = first /\ a.do = "plan" /\ b.do = "enqueue" /\ b.ops = second
    OBVIOUS
  <2> HIDE DEF x, first, second
  <2>5. StepOfHost(a)
    BY <2>4 DEF StepOfHost
  <2>6. StepOfHost(b)
    <3> HIDE DEF b, a
    <3> QED BY <2>2, <2>4 DEF StepOfHost
  <2> HIDE DEF a, b
  <2>7. Head(Parts(ops)) = x /\ Tail(Parts(ops)) = <<a, b>>
    BY <2>3
  <2>8. /\ <<a, b>> \in Seq({a, b}) /\ <<a, b>>[1] = a /\ <<a, b>>[2] = b
        /\ DOMAIN <<a, b>> = {1, 2} /\ Len(<<a, b>>) = 2
    OBVIOUS
  <2>9. IsSequence(<<a, b>>)
    BY <2>8, OwnSequence
  <2>10. StepsInOrder(<<a, b>>, FALSE, p)
    BY <2>4, <2>5, <2>6, <2>8, <2>9 DEF StepsInOrder
  <2>11. StepsInOrder(<<a, b>> \o rec, FALSE, p)
    <3>1. CASE s.graph \notin Policies
      BY <3>1, <1>4, <1>5, <2>10, PutBefore
    <3>2. CASE s.graph \in Policies
      <4> DEFINE pre == <<a, b>>
                 t == pre \o rec
      <4>1. IsSequence(rec) /\ Len(rec) = 2
        <5>1. IsSequence(rec) /\ DOMAIN rec = {1, 2}
          BY <3>2, <1>3
        <5>2. DOMAIN rec = 1 .. Len(rec) /\ Len(rec) \in Nat
          BY <5>1, Sequence
        <5>3. Len(rec) \in 1 .. Len(rec) /\ 2 \in 1 .. Len(rec)
          BY <5>1, <5>2
        <5> QED BY <5>1, <5>2, <5>3
      <4>2. IsSequence(pre) /\ Len(pre) = 2 /\ pre[1] = a /\ pre[2] = b
        BY <2>8, <2>9
      <4> HIDE DEF pre
      <4>3. /\ IsSequence(t) /\ Len(t) = 2 + 2
            /\ \A i \in 1 .. 2 : t[i] = pre[i]
            /\ \A i \in 2 + 1 .. 2 + 2 : t[i] = rec[i - 2]
        <5>1. /\ IsSequence(t) /\ Len(t) = Len(pre) + Len(rec)
              /\ \A i \in 1 .. Len(pre) : t[i] = pre[i]
              /\ \A i \in Len(pre) + 1 .. Len(pre) + Len(rec) : t[i] = rec[i - Len(pre)]
          BY <4>1, <4>2, Concatenated
        <5> HIDE DEF t
        <5> QED BY <5>1, <4>1, <4>2
      <4> HIDE DEF t
      <4>4. t[1] = a /\ t[2] = b /\ t[3] = rec[1] /\ t[4] = rec[2] /\ DOMAIN t = 1 .. 4
        <5>1. t[3] = rec[3 - 2] /\ t[4] = rec[4 - 2] /\ t[1] = pre[1] /\ t[2] = pre[2]
          BY <4>3
        <5>2. DOMAIN t = 1 .. 4
          BY <4>3, Sequence
        <5> QED BY <5>1, <5>2, <4>2
      <4>5. CaptureInPlace(t, 4, FALSE, p)
        BY <4>4, <2>4, <1>3, <3>2 DEF CaptureInPlace
      <4>6. ASSUME NEW i \in DOMAIN t
            PROVE  StepOfHost(t[i]) /\ (t[i].do = "capture" => CaptureInPlace(t, i, FALSE, p))
        <5>1. i = 1 \/ i = 2 \/ i = 3 \/ i = 4
          BY <4>4
        <5> QED BY <5>1, <4>4, <4>5, <2>4, <2>5, <2>6, <1>3, <3>2
      <4>7. StepsInOrder(t, FALSE, p)
        BY <4>3, <4>6 DEF StepsInOrder
      <4> QED BY <4>7 DEF t, pre
    <3> QED BY <3>1, <3>2
  <2> QED BY <2>2, <2>4, <2>7, <2>11
<1> QED BY <1>6, <1>7

-----------------------------------------------------------------------------
(* What the host waits for.                                                *)

\* A wait in what is left without its first step, where it was with it.
LEMMA SyncShifts ==
    ASSUME NEW ss, IsSequence(ss), ss # <<>>, NEW a \in Nat, NEW b \in Int, b <= Len(ss)
    PROVE  /\ a >= 2 => (SyncIn(ss, a .. b) => SyncIn(Tail(ss), a - 1 .. b - 1))
           /\ a = 1 /\ ss[1].do # "sync" => (SyncIn(ss, a .. b) => SyncIn(Tail(ss), 1 .. b - 1))
<1> DEFINE t == Tail(ss)
<1>1. /\ Len(t) = Len(ss) - 1 /\ Len(ss) \in Nat \ {0}
      /\ \A i \in 1 .. Len(ss) - 1 : t[i] = ss[i + 1]
  BY TailOf
<1> HIDE DEF t
<1>2. ASSUME NEW k \in a .. b, ss[k].do = "sync", k >= 2
      PROVE  t[k - 1].do = "sync" /\ k - 1 \in 1 .. b - 1 /\ (a >= 2 => k - 1 \in a - 1 .. b - 1)
  <2>1. k - 1 \in 1 .. Len(ss) - 1 /\ k - 1 + 1 = k
    BY <1>1, <1>2
  <2>2. t[k - 1] = ss[k]
    BY <1>1, <2>1
  <2> QED BY <1>2, <2>1, <2>2
<1>3. ASSUME a >= 2, SyncIn(ss, a .. b) PROVE SyncIn(t, a - 1 .. b - 1)
  <2>1. PICK k \in a .. b : ss[k].do = "sync"
    BY <1>3 DEF SyncIn
  <2>2. k >= 2
    BY <1>3
  <2> QED BY <2>1, <2>2, <1>2, <1>3 DEF SyncIn
<1>4. ASSUME a = 1, ss[1].do # "sync", SyncIn(ss, a .. b) PROVE SyncIn(t, 1 .. b - 1)
  <2>1. PICK k \in a .. b : ss[k].do = "sync"
    BY <1>4 DEF SyncIn
  <2>2. k >= 2
    <3>1. k # 1
      BY <2>1, <1>4
    <3> QED BY <3>1, <1>4
  <2> QED BY <2>1, <2>2, <1>2 DEF SyncIn
<1> QED BY <1>3, <1>4 DEF t

\* The first step is taken: what is left still waits for what it launches.
LEMMA LaterShifts ==
    ASSUME NEW ss, IsSequence(ss), ss # <<>>, NEW early, WaitsLater(ss, early)
    PROVE  WaitsLater(Tail(ss), early)
<1> DEFINE t == Tail(ss)
<1>1. /\ IsSequence(t) /\ Len(t) = Len(ss) - 1 /\ Len(ss) \in Nat \ {0}
      /\ \A i \in 1 .. Len(ss) - 1 : t[i] = ss[i + 1]
  BY TailOf
<1>2. DOMAIN t = 1 .. Len(ss) - 1 /\ DOMAIN ss = 1 .. Len(ss)
  BY <1>1, Sequence
<1>3. ASSUME NEW a \in Nat, NEW b \in Int, b <= Len(ss), a >= 2, SyncIn(ss, a .. b),
             NEW c, NEW d, c = a - 1, d = b - 1
      PROVE  SyncIn(t, c .. d)
  BY <1>3, SyncShifts
<1> SUFFICES WaitsLater(t, early)
  OBVIOUS
<1> HIDE DEF t
<1>4. ASSUME NEW i \in DOMAIN t PROVE i + 1 \in DOMAIN ss /\ t[i] = ss[i + 1] /\ i \in Nat /\ i >= 1
  BY <1>1, <1>2
<1>5. SUFFICES ASSUME NEW i \in Enqueuing(t)
      PROVE  /\ \A j \in HostUses(t) : i < j => SyncIn(t, i + 1 .. j - 1)
             /\ SyncIn(t, i + 1 .. Len(t)) \/ Lasting(t[i], early)
  BY DEF WaitsLater
<1>6. i \in DOMAIN t /\ i + 1 \in Enqueuing(ss) /\ t[i] = ss[i + 1] /\ i \in Nat /\ i >= 1
  BY <1>4 DEF Enqueuing
<1>7. ASSUME NEW j \in HostUses(t), i < j PROVE SyncIn(t, i + 1 .. j - 1)
  <2>1. j \in DOMAIN t /\ j + 1 \in HostUses(ss)
    BY <1>4 DEF HostUses
  <2>2. i + 1 < j + 1 /\ i + 1 + 1 = i + 2 /\ j + 1 - 1 = j
    BY <1>2, <1>6, <1>7, <2>1
  <2>0. ASSUME NEW k \in Enqueuing(ss), NEW l \in HostUses(ss), k < l PROVE SyncIn(ss, k + 1 .. l - 1)
    BY <2>0, Zenon DEF WaitsLater
  <2>3. SyncIn(ss, i + 1 + 1 .. j + 1 - 1)
    BY <1>6, <2>0, <2>1, <2>2
  <2>4. SyncIn(ss, i + 2 .. j)
    BY <2>2, <2>3
  <2> DEFINE a == i + 2
             c == i + 1
             d == j - 1
  <2>5. a \in Nat /\ a >= 2 /\ j \in Int /\ j <= Len(ss) /\ c = a - 1 /\ d = j - 1
    BY <1>1, <1>2, <1>6, <2>1
  <2>6. SyncIn(ss, a .. j)
    BY <2>4
  <2> HIDE DEF a, c, d
  <2>7. SyncIn(t, c .. d)
    BY <1>3, <2>5, <2>6
  <2> QED BY <2>7 DEF c, d
<1>8. ASSUME SyncIn(ss, i + 1 + 1 .. Len(ss)) PROVE SyncIn(t, i + 1 .. Len(t))
  <2> DEFINE a == i + 1 + 1
             c == i + 1
  <2>1. /\ a \in Nat /\ a >= 2 /\ Len(ss) \in Int /\ Len(ss) <= Len(ss)
        /\ c = a - 1 /\ Len(t) = Len(ss) - 1
    BY <1>1, <1>6
  <2>2. SyncIn(ss, a .. Len(ss))
    BY <1>8
  <2> HIDE DEF a, c
  <2>3. SyncIn(t, c .. Len(t))
    BY <1>3, <2>1, <2>2
  <2> QED BY <2>3 DEF c
<1>9. SyncIn(ss, i + 1 + 1 .. Len(ss)) \/ Lasting(ss[i + 1], early)
  BY <1>6 DEF WaitsLater
<1> QED BY <1>6, <1>7, <1>8, <1>9

\* Less is pending than there was; nothing, after a wait.
LEMMA FirstShifts ==
    ASSUME NEW ss, IsSequence(ss), ss # <<>>, NEW early, NEW P, NEW Q, WaitsFirst(ss, P, early),
           Q \subseteq P, ss[1].do = "sync" => Q = {}
    PROVE  WaitsFirst(Tail(ss), Q, early)
<1> DEFINE t == Tail(ss)
<1>1. /\ IsSequence(t) /\ Len(t) = Len(ss) - 1 /\ Len(ss) \in Nat \ {0}
      /\ \A i \in 1 .. Len(ss) - 1 : t[i] = ss[i + 1]
  BY TailOf
<1>2. DOMAIN t = 1 .. Len(ss) - 1 /\ DOMAIN ss = 1 .. Len(ss)
  BY <1>1, Sequence
<1>3. ASSUME NEW b \in Int, b <= Len(ss), ss[1].do # "sync", SyncIn(ss, 1 .. b)
      PROVE  SyncIn(t, 1 .. b - 1)
  BY <1>3, SyncShifts
<1> HIDE DEF t
<1>4. CASE ss[1].do = "sync"
  <2>1. WaitsFirst(t, Q, early)
    BY <1>4 DEF WaitsFirst, Free
  <2> QED BY <2>1 DEF t
<1>5. CASE ss[1].do # "sync"
  <2>1. ASSUME NEW j \in HostUses(t) PROVE SyncIn(t, 1 .. j - 1) \/ Free(Q, {t[j].buffer})
    <3>1. j \in 1 .. Len(ss) - 1 /\ j + 1 \in HostUses(ss) /\ t[j] = ss[j + 1]
      BY <1>1, <1>2 DEF HostUses
    <3>0. ASSUME NEW k \in HostUses(ss) PROVE SyncIn(ss, 1 .. k - 1) \/ Free(P, {ss[k].buffer})
      BY <3>0, Zenon DEF WaitsFirst
    <3>2. SyncIn(ss, 1 .. j + 1 - 1) \/ Free(P, {ss[j + 1].buffer})
      BY <3>0, <3>1
    <3>3. CASE SyncIn(ss, 1 .. j + 1 - 1)
      <4>1. j \in Int /\ j <= Len(ss) /\ j + 1 - 1 = j
        BY <1>1, <3>1
      <4>2. SyncIn(ss, 1 .. j)
        BY <3>3, <4>1
      <4> QED BY <1>3, <1>5, <4>1, <4>2
    <3>4. CASE Free(P, {ss[j + 1].buffer})
      BY <3>1, <3>4 DEF Free
    <3> QED BY <3>2, <3>3, <3>4
  <2>2. SyncIn(t, DOMAIN t) \/ Free(Q, early)
    <3>1. CASE SyncIn(ss, DOMAIN ss)
      <4>1. Len(ss) \in Int /\ Len(ss) <= Len(ss)
        BY <1>1
      <4> QED BY <1>2, <1>3, <1>5, <3>1, <4>1
    <3>2. CASE Free(P, early)
      BY <3>2 DEF Free
    <3> QED BY <3>1, <3>2 DEF WaitsFirst
  <2>3. WaitsFirst(t, Q, early)
    BY <2>1, <2>2 DEF WaitsFirst
  <2> QED BY <2>3 DEF t
<1> QED BY <1>4, <1>5

\* A launch: the steps left wait for the kernels it adds.
LEMMA FirstLaunched ==
    ASSUME NEW ss, IsSequence(ss), ss # <<>>, NEW early, NEW P, NEW Q,
           WaitsFirst(ss, P, early), WaitsLater(ss, early),
           ss[1].do \in {"enqueue", "launch"},
           Lasting(ss[1], early) => \A e \in Q : e \in P \/ Touched(e) \cap early = {}
    PROVE  /\ WaitsFirst(Tail(ss), Q, early)
           /\ \A j \in HostUses(Tail(ss)) : SyncIn(Tail(ss), 1 .. j - 1)
           /\ SyncIn(Tail(ss), DOMAIN Tail(ss)) \/ Lasting(ss[1], early)
           /\ SyncIn(Tail(ss), DOMAIN Tail(ss)) \/ Free(Q, early)
<1> DEFINE t == Tail(ss)
<1>1. /\ IsSequence(t) /\ Len(t) = Len(ss) - 1 /\ Len(ss) \in Nat \ {0}
      /\ \A i \in 1 .. Len(ss) - 1 : t[i] = ss[i + 1]
  BY TailOf
<1>2. DOMAIN t = 1 .. Len(ss) - 1 /\ DOMAIN ss = 1 .. Len(ss)
  BY <1>1, Sequence
<1>3. ASSUME NEW b \in Int, b <= Len(ss), SyncIn(ss, 2 .. b)
      PROVE  SyncIn(t, 1 .. b - 1)
  <2>1. 2 \in Nat /\ 2 >= 2 /\ 2 - 1 = 1
    OBVIOUS
  <2>2. SyncIn(t, 2 - 1 .. b - 1)
    BY <1>3, <2>1, SyncShifts
  <2> QED BY <2>1, <2>2
<1>0. ASSUME NEW b \in Int, b <= Len(ss), SyncIn(ss, 1 .. b)
      PROVE  SyncIn(t, 1 .. b - 1)
  BY <1>0, SyncShifts
<1> HIDE DEF t
<1>4. 1 \in Enqueuing(ss)
  BY <1>1, <1>2 DEF Enqueuing
<1>5. ASSUME NEW j \in HostUses(t) PROVE SyncIn(t, 1 .. j - 1)
  <2>1. j \in 1 .. Len(ss) - 1 /\ j + 1 \in HostUses(ss)
    BY <1>1, <1>2 DEF HostUses
  <2>2. 1 < j + 1 /\ 1 + 1 = 2 /\ j + 1 - 1 = j /\ j \in Int /\ j <= Len(ss)
    BY <1>1, <2>1
  <2>3. SyncIn(ss, 1 + 1 .. j + 1 - 1)
    BY <1>4, <2>1, <2>2 DEF WaitsLater
  <2>4. SyncIn(ss, 2 .. j)
    BY <2>2, <2>3
  <2> QED BY <1>3, <2>2, <2>4
<1>6. SyncIn(t, DOMAIN t) \/ Lasting(ss[1], early)
  <2>1. SyncIn(ss, 1 + 1 .. Len(ss)) \/ Lasting(ss[1], early)
    BY <1>4 DEF WaitsLater
  <2>2. Len(ss) \in Int /\ Len(ss) <= Len(ss) /\ 1 + 1 = 2
    BY <1>1
  <2>3. SyncIn(ss, 2 .. Len(ss)) => SyncIn(t, 1 .. Len(ss) - 1)
    BY <1>3, <2>2
  <2> QED BY <2>1, <2>2, <2>3, <1>2
<1>7. SyncIn(t, DOMAIN t) \/ Free(Q, early)
  <2>1. CASE Lasting(ss[1], early)
    <3>1. SyncIn(ss, DOMAIN ss) \/ Free(P, early)
      BY DEF WaitsFirst
    <3>2. CASE SyncIn(ss, DOMAIN ss)
      <4>1. Len(ss) \in Int /\ Len(ss) <= Len(ss)
        BY <1>1
      <4> QED BY <1>0, <1>2, <3>2, <4>1
    <3>3. CASE Free(P, early)
      BY <2>1, <3>3 DEF Free
    <3> QED BY <3>1, <3>2, <3>3
  <2> QED BY <1>6, <2>1
<1>8. WaitsFirst(t, Q, early)
  BY <1>5, <1>7 DEF WaitsFirst
<1> QED BY <1>5, <1>6, <1>7, <1>8 DEF t

\* What a launch puts before the other steps uses no pinned buffer.
Quiet(ss) == \A i \in DOMAIN ss : ss[i].do \notin {"stage", "read", "launch"}

OnlyWaits(ss) == Enqueuing(ss) = {} /\ SyncIn(ss, DOMAIN ss)

\* Steps of that kind before steps that wait, or waits before any.
LEMMA QuietBefore ==
    ASSUME NEW pre, IsSequence(pre), Quiet(pre), NEW ss, IsSequence(ss), NEW early, NEW Q,
           WaitsLater(ss, early), SyncIn(ss, DOMAIN ss) \/ OnlyWaits(pre),
           \A j \in HostUses(ss) : SyncIn(ss, 1 .. j - 1)
    PROVE  WaitsFirst(pre \o ss, Q, early) /\ WaitsLater(pre \o ss, early)
<1> DEFINE t == pre \o ss
           m == Len(pre)
           n == Len(ss)
<1>1. /\ IsSequence(t) /\ Len(t) = m + n /\ m \in Nat /\ n \in Nat
      /\ \A i \in 1 .. m : t[i] = pre[i]
      /\ \A i \in m + 1 .. m + n : t[i] = ss[i - m]
  BY Concatenated
<1>2. DOMAIN t = 1 .. m + n /\ DOMAIN pre = 1 .. m /\ DOMAIN ss = 1 .. n
  BY <1>1, Sequence
<1> HIDE DEF t, m, n
<1>3. ASSUME NEW a \in Nat, NEW b \in Int, NEW c \in Nat, NEW d \in Int, a >= 1, b <= n,
             SyncIn(ss, a .. b), c <= m + a, m + b <= d
      PROVE  SyncIn(t, c .. d)
  <2>1. PICK k \in a .. b : ss[k].do = "sync"
    BY <1>3 DEF SyncIn
  <2>2. m + k \in m + 1 .. m + n /\ m + k - m = k /\ m + k \in c .. d
    BY <1>1, <1>3
  <2>3. t[m + k] = ss[k]
    BY <1>1, <2>2
  <2> QED BY <2>1, <2>2, <2>3 DEF SyncIn
<1>4. ASSUME NEW j \in HostUses(t) PROVE j \in m + 1 .. m + n /\ j - m \in HostUses(ss)
  <2>1. j \in 1 .. m + n /\ t[j].do \in {"stage", "read"}
    BY <1>2 DEF HostUses
  <2>2. j \notin 1 .. m
    BY <2>1, <1>1, <1>2 DEF Quiet
  <2>3. j \in m + 1 .. m + n /\ j - m \in 1 .. n
    BY <2>1, <2>2, <1>1
  <2> QED BY <2>1, <2>3, <1>1, <1>2 DEF HostUses
<1>5. ASSUME NEW j \in HostUses(t), NEW c \in Nat, c <= m + 1 PROVE SyncIn(t, c .. j - 1)
  <2>1. j \in m + 1 .. m + n /\ SyncIn(ss, 1 .. j - m - 1)
    BY <1>4
  <2>2. 1 \in Nat /\ 1 >= 1 /\ j - m - 1 \in Int /\ j - m - 1 <= n /\ j - 1 \in Int /\ m + (j - m - 1) <= j - 1
    BY <1>1, <2>1
  <2> QED BY <1>3, <1>5, <2>1, <2>2
<1>6. ASSUME SyncIn(ss, DOMAIN ss), NEW c \in Nat, c <= m + 1 PROVE SyncIn(t, c .. Len(t))
  <2>1. 1 \in Nat /\ 1 >= 1 /\ n \in Int /\ n <= n /\ Len(t) \in Int /\ m + n <= Len(t) /\ c <= m + 1
    BY <1>1, <1>6
  <2>2. SyncIn(ss, 1 .. n)
    BY <1>2, <1>6
  <2> QED BY <1>3, <2>1, <2>2
<1>7. WaitsFirst(t, Q, early)
  <2>1. 1 \in Nat /\ 1 <= m + 1
    BY <1>1
  <2>2. SyncIn(t, DOMAIN t)
    <3>1. CASE SyncIn(ss, DOMAIN ss)
      BY <3>1, <1>1, <1>2, <1>6, <2>1
    <3>2. CASE OnlyWaits(pre)
      <4>1. PICK k \in 1 .. m : pre[k].do = "sync"
        BY <3>2, <1>2 DEF OnlyWaits, SyncIn
      <4>2. t[k].do = "sync" /\ k \in DOMAIN t
        BY <4>1, <1>1, <1>2
      <4> QED BY <4>2 DEF SyncIn
    <3> QED BY <3>1, <3>2
  <2> QED BY <1>5, <2>1, <2>2 DEF WaitsFirst
<1>8. WaitsLater(t, early)
  <2>1. SUFFICES ASSUME NEW i \in Enqueuing(t)
        PROVE  /\ \A j \in HostUses(t) : i < j => SyncIn(t, i + 1 .. j - 1)
               /\ SyncIn(t, i + 1 .. Len(t)) \/ Lasting(t[i], early)
    BY DEF WaitsLater
  <2>2. i \in 1 .. m + n /\ t[i].do \in {"enqueue", "launch"}
    BY <1>2 DEF Enqueuing
  <2>3. CASE i \in 1 .. m
    <3>1. i + 1 \in Nat /\ i + 1 <= m + 1
      BY <1>1, <2>3
    <3>2. i \in Enqueuing(pre)
      BY <1>1, <1>2, <2>2, <2>3 DEF Enqueuing
    <3>3. SyncIn(ss, DOMAIN ss)
      BY <3>2 DEF OnlyWaits
    <3> QED BY <1>5, <1>6, <3>1, <3>3
  <2>4. CASE i \in m + 1 .. m + n
    <3> DEFINE k == i - m
    <3>1. k \in Enqueuing(ss) /\ t[i] = ss[k] /\ k \in 1 .. n
      BY <1>1, <1>2, <2>2, <2>4 DEF Enqueuing
    <3>2. ASSUME NEW j \in HostUses(t), i < j PROVE SyncIn(t, i + 1 .. j - 1)
      <4>1. j \in m + 1 .. m + n /\ j - m \in HostUses(ss)
        BY <1>4
      <4>2. k < j - m
        BY <1>1, <2>4, <3>2, <4>1
      <4>3. SyncIn(ss, k + 1 .. j - m - 1)
        BY <3>1, <4>1, <4>2 DEF WaitsLater
      <4>4. /\ k + 1 \in Nat /\ k + 1 >= 1 /\ j - m - 1 \in Int /\ j - m - 1 <= n /\ j - 1 \in Int
            /\ m + (j - m - 1) <= j - 1 /\ i + 1 \in Nat /\ i + 1 <= m + (k + 1)
        BY <1>1, <2>4, <3>1, <4>1
      <4> HIDE DEF k
      <4> QED BY <1>3, <4>3, <4>4
    <3>3. SyncIn(ss, k + 1 .. n) => SyncIn(t, i + 1 .. Len(t))
      <4>1. /\ k + 1 \in Nat /\ k + 1 >= 1 /\ n \in Int /\ n <= n /\ Len(t) \in Int
            /\ m + n <= Len(t) /\ i + 1 \in Nat /\ i + 1 <= m + (k + 1)
        BY <1>1, <2>4, <3>1
      <4> HIDE DEF k
      <4> QED BY <1>3, <4>1
    <3>4. SyncIn(ss, k + 1 .. n) \/ Lasting(ss[k], early)
      BY <3>1 DEF WaitsLater, n
    <3> QED BY <3>1, <3>2, <3>3, <3>4
  <2> QED BY <1>1, <2>2, <2>3, <2>4
<1> QED BY <1>7, <1>8 DEF t

\* What is left of a launch is of that kind.
LEMMA PartsQuiet ==
    ASSUME NEW s
    PROVE  IsSequence(Tail(Parts(s.ops)) \o Recording(s)) /\ Quiet(Tail(Parts(s.ops)) \o Recording(s))
<1> DEFINE pre == Tail(Parts(s.ops))
           rec == Recording(s)
           t == pre \o rec
<1>1. IsSequence(<<>>) /\ Quiet(<<>>)
  BY DEF IsSequence, Quiet
<1>2. ASSUME NEW a, NEW b, a.do \notin {"stage", "read", "launch"}, b.do \notin {"stage", "read", "launch"}
      PROVE  IsSequence(<<a, b>>) /\ Quiet(<<a, b>>)
  <2>1. <<a, b>> \in Seq({a, b}) /\ <<a, b>>[1] = a /\ <<a, b>>[2] = b /\ DOMAIN <<a, b>> = {1, 2}
    OBVIOUS
  <2>2. IsSequence(<<a, b>>)
    BY <2>1, OwnSequence
  <2> QED BY <1>2, <2>1, <2>2 DEF Quiet
<1>3. IsSequence(pre) /\ Quiet(pre)
  <2>1. CASE ~AsksForPlan(s.ops)
    <3>1. Parts(s.ops) = <<[do |-> "enqueue", ops |-> s.ops]>>
      BY <2>1, Zenon DEF Parts
    <3>2. pre = <<>>
      BY <3>1
    <3> QED BY <3>2, <1>1
  <2>2. CASE AsksForPlan(s.ops)
    <3> DEFINE x == [do |-> "enqueue", ops |-> UpToPlan(s.ops)]
               a == [do |-> "plan"]
               b == [do |-> "enqueue", ops |-> AfterPlan(s.ops)]
    <3>1. Parts(s.ops) = <<x, a, b>>
      BY <2>2, Zenon DEF Parts
    <3>2. a.do = "plan" /\ b.do = "enqueue"
      OBVIOUS
    <3> HIDE DEF x, a, b
    <3>3. pre = <<a, b>>
      BY <3>1
    <3> QED BY <3>2, <3>3, <1>2
  <2> QED BY <2>1, <2>2
<1>4. IsSequence(rec) /\ Quiet(rec)
  <2>1. CASE s.graph \notin Policies
    BY <2>1, <1>1 DEF Recording
  <2>2. CASE s.graph \in Policies
    <3> DEFINE a == [do |-> "sync"]
               b == [do |-> "capture", ops |-> s.ops, graph |-> s.graph]
    <3>1. rec = <<a, b>>
      BY <2>2, Zenon DEF Recording
    <3>2. a.do = "sync" /\ b.do = "capture"
      OBVIOUS
    <3> HIDE DEF a, b
    <3> QED BY <3>1, <3>2, <1>2
  <2> QED BY <2>1, <2>2
<1> HIDE DEF pre, rec
<1>5. /\ IsSequence(t) /\ Len(t) = Len(pre) + Len(rec) /\ Len(pre) \in Nat /\ Len(rec) \in Nat
      /\ \A i \in 1 .. Len(pre) : t[i] = pre[i]
      /\ \A i \in Len(pre) + 1 .. Len(pre) + Len(rec) : t[i] = rec[i - Len(pre)]
  BY <1>3, <1>4, Concatenated
<1>6. DOMAIN t = 1 .. Len(pre) + Len(rec) /\ DOMAIN pre = 1 .. Len(pre) /\ DOMAIN rec = 1 .. Len(rec)
  BY <1>3, <1>4, <1>5, Sequence
<1> HIDE DEF t
<1>7. ASSUME NEW i \in DOMAIN t PROVE t[i].do \notin {"stage", "read", "launch"}
  <2>1. CASE i \in 1 .. Len(pre)
    BY <2>1, <1>3, <1>5, <1>6 DEF Quiet
  <2>2. CASE i \in Len(pre) + 1 .. Len(pre) + Len(rec)
    <3>1. i - Len(pre) \in DOMAIN rec
      BY <2>2, <1>5, <1>6
    <3> QED BY <2>2, <3>1, <1>4, <1>5 DEF Quiet
  <2> QED BY <2>1, <2>2, <1>5, <1>6
<1> QED BY <1>5, <1>7 DEF Quiet, t, pre, rec

\* Launch code that lasts runs in one part; what is left of it is a wait and what
\* records it.
LEMMA PartsWait ==
    ASSUME NEW s, ~AsksForPlan(s.ops)
    PROVE  /\ Head(Parts(s.ops)).ops = s.ops
           /\ s.graph \in Policies => OnlyWaits(Tail(Parts(s.ops)) \o Recording(s))
<1> DEFINE pre == Tail(Parts(s.ops))
           a == [do |-> "sync"]
           b == [do |-> "capture", ops |-> s.ops, graph |-> s.graph]
           x == [do |-> "enqueue", ops |-> s.ops]
<1>1. Parts(s.ops) = <<x>>
  BY Zenon DEF Parts
<1>2. s.graph \in Policies => Recording(s) = <<a, b>>
  BY Zenon DEF Recording
<1>3. a.do = "sync" /\ b.do = "capture" /\ x.ops = s.ops
  OBVIOUS
<1> HIDE DEF a, b, x
<1>4. Head(Parts(s.ops)) = x /\ pre = <<>>
  BY <1>1
<1>5. ASSUME s.graph \in Policies PROVE OnlyWaits(pre \o Recording(s))
  <2> DEFINE t == <<a, b>>
  <2>1. pre \o Recording(s) = t
    <3>1. t \in Seq({a, b}) /\ <<>> \o t = t
      OBVIOUS
    <3> QED BY <3>1, <1>2, <1>4, <1>5
  <2>2. DOMAIN t = {1, 2} /\ t[1] = a /\ t[2] = b
    OBVIOUS
  <2> HIDE DEF t
  <2>3. OnlyWaits(t)
    BY <2>2, <1>3 DEF OnlyWaits, Enqueuing, SyncIn
  <2> QED BY <2>1, <2>3
<1> QED BY <1>3, <1>4, <1>5

\* A call begins where the last one left nothing to wait for.
LEMMA CallWaits ==
    ASSUME NEW m \in Mixes, NEW ss \in Bodies(m), HostCode(ss), NEW P, Free(P, Early(m))
    PROVE  WaitsFirst(ss, P, Early(m)) /\ WaitsLater(ss, Early(m))
<1>1. ASSUME NEW j \in HostUses(ss), ~SyncIn(ss, 1 .. j - 1) PROVE Free(P, {ss[j].buffer})
  <2>1. ss[j].buffer \in {ss[k].buffer : k \in {k \in HostUses(ss) : ~SyncIn(ss, 1 .. k - 1)}}
    BY <1>1
  <2>2. ss[j].buffer \in Early(m)
    BY <2>1 DEF Early
  <2> QED BY <2>2 DEF Free
<1>2. WaitsFirst(ss, P, Early(m))
  BY <1>1 DEF WaitsFirst
<1>3. Lingers(ss, m)
  BY ProgramsAreHostCode
<1>4. WaitsLater(ss, Early(m))
  <2>1. ASSUME NEW i \in Enqueuing(ss)
        PROVE  /\ \A j \in HostUses(ss) : i < j => SyncIn(ss, i + 1 .. j - 1)
               /\ SyncIn(ss, i + 1 .. Len(ss)) \/ Lasting(ss[i], Early(m))
    <3>1. ss[i].do \in {"enqueue", "launch"}
      BY DEF Enqueuing
    <3>2. SyncIn(ss, i + 1 .. Len(ss)) \/ Untouched(ss[i].ops, Early(m))
      BY <1>3 DEF Lingers
    <3>3. /\ \A j \in HostUses(ss) : i < j => SyncIn(ss, i + 1 .. j - 1)
          /\ ss[i].do = "launch" => SyncIn(ss, i + 1 .. Len(ss)) \/ ss[i].graph = "bare"
      BY DEF HostCode
    <3> QED BY <3>1, <3>2, <3>3 DEF Lasting
  <2> QED BY <2>1 DEF WaitsLater
<1> QED BY <1>2, <1>4

-----------------------------------------------------------------------------
(* Plans, graphs and scratch.                                              *)

\* Plans of different shapes, and one of another shape.
LEMMA AppendDiffers ==
    ASSUME NEW ps, NEW x, PlansDiffer(ps), \A k \in DOMAIN ps : ps[k].shape # x.shape
    PROVE  PlansDiffer(Append(ps, x))
<1> DEFINE a == Append(ps, x)
<1>1. /\ IsSequence(a) /\ Len(a) = Len(ps) + 1
      /\ \A i \in 1 .. Len(ps) : a[i] = ps[i]
      /\ a[Len(ps) + 1] = x
  BY Appended DEF PlansDiffer
<1>2. DOMAIN ps = 1 .. Len(ps) /\ Len(ps) \in Nat
  BY Sequence DEF PlansDiffer
<1>3. DOMAIN a = 1 .. Len(ps) + 1
  BY <1>1, Sequence
<1> HIDE DEF a
<1>4. ASSUME NEW i \in DOMAIN a PROVE (i \in DOMAIN ps /\ a[i] = ps[i]) \/ (i = Len(ps) + 1 /\ a[i] = x)
  BY <1>1, <1>2, <1>3
<1>5. ASSUME NEW i \in DOMAIN a, NEW j \in DOMAIN a, a[i].shape = a[j].shape PROVE i = j
  <2>1. CASE i \in DOMAIN ps /\ a[i] = ps[i] /\ j \in DOMAIN ps /\ a[j] = ps[j]
    BY <1>5, <2>1 DEF PlansDiffer
  <2> QED BY <1>4, <1>5, <2>1
<1>6. PlansDiffer(a)
  BY <1>1, <1>5 DEF PlansDiffer
<1> QED BY <1>6 DEF a

\* Without the oldest plan they still differ.
LEMMA TailDiffers ==
    ASSUME NEW ps, PlansDiffer(ps), ps # <<>>
    PROVE  PlansDiffer(Tail(ps))
<1> DEFINE t == Tail(ps)
<1>1. /\ IsSequence(t) /\ Len(t) = Len(ps) - 1 /\ Len(ps) \in Nat
      /\ \A i \in 1 .. Len(ps) - 1 : t[i] = ps[i + 1]
  BY TailOf DEF PlansDiffer
<1>2. DOMAIN ps = 1 .. Len(ps) /\ DOMAIN t = 1 .. Len(ps) - 1
  BY <1>1, Sequence DEF PlansDiffer
<1> HIDE DEF t
<1>3. ASSUME NEW i \in DOMAIN t PROVE i + 1 \in DOMAIN ps /\ t[i] = ps[i + 1]
  BY <1>1, <1>2
<1>4. ASSUME NEW i \in DOMAIN t, NEW j \in DOMAIN t, t[i].shape = t[j].shape PROVE i = j
  <2>1. i + 1 = j + 1
    BY <1>3, <1>4 DEF PlansDiffer
  <2> QED BY <2>1, <1>1, <1>2
<1>5. PlansDiffer(t)
  BY <1>1, <1>4 DEF PlansDiffer
<1> QED BY <1>5 DEF t

\* A plan that is used is there afterwards, with every other one.
LEMMA UsedPlans ==
    ASSUME PlansDiffer(plans), NEW shape
    PROVE  /\ PlansDiffer(Used(shape))
           /\ ToSet(plans) \subseteq ToSet(Used(shape))
           /\ PlanFor(shape) \in ToSet(Used(shape))
           /\ \E i \in DOMAIN Used(shape) : Used(shape)[i].shape = shape
<1> DEFINE u == Used(shape)
<1>0. DOMAIN plans = 1 .. Len(plans) /\ Len(plans) \in Nat
  BY Sequence DEF PlansDiffer
<1>1. CASE PlansOf(shape) = {}
  <2> DEFINE x == Built(shape)
  <2>1. u = Append(plans, x) /\ PlanFor(shape) = x
    BY <1>1, Zenon DEF Used, PlanFor
  <2>2. x.shape = shape
    BY DEF Built
  <2>3. \A k \in DOMAIN plans : plans[k].shape # x.shape
    BY <1>1, <2>2 DEF PlansOf
  <2> HIDE DEF u, x
  <2>4. PlansDiffer(u)
    BY <2>1, <2>3, AppendDiffers
  <2>5. ToSet(u) = ToSet(plans) \cup {x} /\ u[Len(plans) + 1] = x /\ DOMAIN u = 1 .. Len(plans) + 1
    <3>1. /\ IsSequence(u) /\ Len(u) = Len(plans) + 1
          /\ u[Len(plans) + 1] = x
          /\ ToSet(u) = ToSet(plans) \cup {x}
      BY <2>1, Appended DEF PlansDiffer
    <3> QED BY <3>1, Sequence
  <2>6. Len(plans) + 1 \in DOMAIN u
    BY <1>0, <2>5
  <2> QED BY <2>1, <2>2, <2>4, <2>5, <2>6 DEF u
<1>2. CASE PlansOf(shape) # {}
  <2> DEFINE i == PlanAt(shape)
             w == Without(plans, i)
             x == plans[i]
  <2>1. u = Append(w, x) /\ PlanFor(shape) = x
    BY <1>2, Zenon DEF Used, PlanFor
  <2>2. i \in DOMAIN plans /\ x.shape = shape
    <3>1. i \in PlansOf(shape)
      BY <1>2, Zenon DEF PlanAt
    <3> QED BY <3>1 DEF PlansOf
  <2> HIDE DEF i, u
  <2>3. /\ IsSequence(w) /\ Len(w) = Len(plans) - 1
        /\ \A k \in 1 .. i - 1 : w[k] = plans[k]
        /\ \A k \in i .. Len(plans) - 1 : w[k] = plans[k + 1]
        /\ ToSet(plans) \subseteq ToSet(w) \cup {x}
    BY <2>2, WithoutOne DEF PlansDiffer
  <2>4. DOMAIN w = 1 .. Len(plans) - 1
    BY <2>3, Sequence
  <2> DEFINE M(k) == IF k < i THEN k ELSE k + 1
  <2> HIDE DEF w
  <2>5. ASSUME NEW k \in DOMAIN w PROVE M(k) \in DOMAIN plans /\ M(k) # i /\ w[k] = plans[M(k)]
    BY <1>0, <2>2, <2>3, <2>4
  <2>6. ASSUME NEW k \in DOMAIN w PROVE w[k].shape # x.shape
    <3> HIDE DEF M, x
    <3> QED BY <2>2, <2>5 DEF PlansDiffer, x
  <2>7. PlansDiffer(w)
    <3>1. ASSUME NEW a \in DOMAIN w, NEW b \in DOMAIN w, w[a].shape = w[b].shape PROVE a = b
      <4>1. M(a) = M(b)
        <5> HIDE DEF M
        <5> QED BY <2>5, <3>1 DEF PlansDiffer
      <4> QED BY <4>1, <2>4, <2>2, <1>0
    <3> QED BY <3>1, <2>3 DEF PlansDiffer
  <2> HIDE DEF x
  <2>8. PlansDiffer(u)
    BY <2>1, <2>6, <2>7, AppendDiffers
  <2>9. ToSet(u) = ToSet(w) \cup {x} /\ u[Len(w) + 1] = x /\ DOMAIN u = 1 .. Len(w) + 1 /\ Len(w) \in Nat
    <3>1. /\ IsSequence(u) /\ Len(u) = Len(w) + 1
          /\ u[Len(w) + 1] = x
          /\ ToSet(u) = ToSet(w) \cup {x}
      BY <2>1, <2>3, Appended
    <3> QED BY <3>1, <2>3, Sequence
  <2>10. Len(w) + 1 \in DOMAIN u
    BY <2>9
  <2> QED BY <2>1, <2>2, <2>3, <2>8, <2>9, <2>10 DEF u
<1> QED BY <1>1, <1>2

\* Graphs go on fitting when nothing changes without its counter.
LEMMA GraphsFitLater ==
    ASSUME NEW gs, NEW bs, NEW gen \in Nat, NEW ps, NEW ev \in Nat,
           NEW bs2, NEW gen2 \in Nat, NEW ps2, NEW ev2 \in Nat,
           GraphsFit(gs, bs, gen, ps, ev),
           gen <= gen2, gen2 = gen => bs2 = bs,
           ev <= ev2, ev2 = ev => ToSet(ps) \subseteq ToSet(ps2)
    PROVE  GraphsFit(gs, bs2, gen2, ps2, ev2)
<1>1. ASSUME NEW g, GraphFits(g, bs, gen, ps, ev)
      PROVE  GraphFits(g, bs2, gen2, ps2, ev2)
  <2>1. ASSUME g.key[2] # "bare"
        PROVE  g.key[3] \in 0 .. gen2 /\ (g.key[3] = gen2 => g.at = AddressesOf(g.key[1], bs2))
    <3>1. g.key[3] \in 0 .. gen /\ (g.key[3] = gen => g.at = AddressesOf(g.key[1], bs))
      BY <1>1, <2>1 DEF GraphFits
    <3>2. CASE gen2 = gen
      BY <3>1, <3>2
    <3>3. CASE gen2 # gen
      BY <3>1, <3>3
    <3> QED BY <3>2, <3>3
  <2>2. ASSUME g.key[2] = "second"
        PROVE  g.key[4] \in 0 .. ev2 /\ (g.key[4] = ev2 => g.uses \subseteq ToSet(ps2))
    <3>1. g.key[4] \in 0 .. ev /\ (g.key[4] = ev => g.uses \subseteq ToSet(ps))
      BY <1>1, <2>2 DEF GraphFits
    <3>2. CASE ev2 = ev
      BY <3>1, <3>2
    <3>3. CASE ev2 # ev
      BY <3>1, <3>3
    <3> QED BY <3>2, <3>3
  <2> QED BY <1>1, <2>1, <2>2 DEF GraphFits
<1> QED BY <1>1 DEF GraphsFit

\* Another order of one map's graphs, or one more that fits.
LEMMA GraphsFitWith ==
    ASSUME NEW gs, NEW bs, NEW gen, NEW ps, NEW ev, GraphsFit(gs, bs, gen, ps, ev),
           NEW store \in Stores, NEW g, GraphFits(g, bs, gen, ps, ev),
           NEW list, IsSequence(list), ToSet(list) \subseteq ToSet(gs[store]) \cup {g}
    PROVE  GraphsFit([gs EXCEPT ![store] = list], bs, gen, ps, ev)
<1> DEFINE hs == [gs EXCEPT ![store] = list]
<1>1. /\ hs = [p \in Stores |-> hs[p]]
      /\ hs[store] = list
      /\ \A p \in Stores \ {store} : hs[p] = gs[p]
  BY DEF GraphsFit
<1> HIDE DEF hs
<1>2. ASSUME NEW p \in Stores PROVE IsSequence(hs[p]) /\ \A h \in ToSet(hs[p]) : GraphFits(h, bs, gen, ps, ev)
  <2>1. CASE p = store
    <3>1. \A h \in ToSet(gs[store]) : GraphFits(h, bs, gen, ps, ev)
      BY DEF GraphsFit
    <3> QED BY <2>1, <3>1, <1>1
  <2>2. CASE p # store
    BY <2>2, <1>1 DEF GraphsFit
  <2> QED BY <2>1, <2>2
<1>3. GraphsFit(hs, bs, gen, ps, ev)
  BY <1>1, <1>2 DEF GraphsFit
<1> QED BY <1>3 DEF hs

\* What a call is told apart by is the call; what its graph may be of is in the key.
LEMMA KeyParts ==
    ASSUME Now.graph \in Policies
    PROVE  /\ Key[1] = call /\ Key[2] = Now.graph
           /\ Now.graph # "bare" => Key[3] = generation
           /\ Now.graph = "second" => Key[4] = evictions
<1>1. CASE Now.graph = "first"
  <2>1. Key = <<call, "first", generation>>
    BY <1>1 DEF Key
  <2> QED BY <1>1, <2>1
<1>2. CASE Now.graph = "second"
  <2>1. Key = <<call, "second", generation, evictions>>
    BY <1>2 DEF Key
  <2> QED BY <1>2, <2>1
<1>3. CASE Now.graph = "bare"
  <2>1. Key = <<call, "bare">>
    BY <1>3 DEF Key
  <2> QED BY <1>3, <2>1
<1> QED BY <1>1, <1>2, <1>3 DEF Policies

\* The graphs of a policy are in one of the maps.
LEMMA StoreOf ==
    ASSUME NEW policy
    PROVE  /\ Store(policy) \in Stores
           /\ policy = "second" => Store(policy) = "second"
BY DEF Store, Stores

\* What the host uses before a call's first wait it uses.
LEMMA EarlyPinned == ASSUME NEW m \in Mixes PROVE Early(m) \subseteq Pinned
<1>1. m \subseteq DOMAIN Programs
  BY StreamsAssumption
<1>2. Bodies(m) \subseteq Bodies(DOMAIN Programs)
  BY <1>1 DEF Bodies
<1>3. ASSUME NEW ss \in Bodies(m), NEW j \in HostUses(ss) PROVE ss[j].buffer \in Pinned
  <2> DEFINE U(tt) == {tt[k].buffer : k \in HostUses(tt)}
  <2>1. ss[j].buffer \in U(ss) /\ ss \in Bodies(DOMAIN Programs)
    BY <1>2
  <2>2. Pinned = UNION {U(tt) : tt \in Bodies(DOMAIN Programs)}
    BY Zenon DEF Pinned
  <2> HIDE DEF U
  <2> QED BY <2>1, <2>2
<1>4. ASSUME NEW b \in Early(m) PROVE b \in Pinned
  <2>1. PICK ss \in Bodies(m) : b \in {ss[j].buffer : j \in {j \in HostUses(ss) : ~SyncIn(ss, 1 .. j - 1)}}
    BY <1>4 DEF Early
  <2>2. PICK j \in HostUses(ss) : b = ss[j].buffer
    BY <2>1
  <2> QED BY <2>2, <1>3
<1> QED BY <1>4

\* An allocation that grows nothing changes nothing; each one that grows a block counts.
LEMMA AllocateCounts ==
    ASSUME PoolInv, NEW n \in Nat, NEW needs
    PROVE  LET m == AllocateFirst(n, needs)
           IN  /\ m.generation \in Nat /\ generation <= m.generation
               /\ m.generation = generation => m.blocks = blocks
               /\ m.blocks = [i \in DOMAIN m.blocks |-> m.blocks[i]]
<1> DEFINE m == AllocateFirst(n, needs)
           G == Grown(n, needs)
           bs == [i \in (1 .. n) \cup DOMAIN blocks |-> IF i \in G THEN Allocate(i, needs) ELSE blocks[i]]
<1>1. m.blocks = bs /\ m.generation = generation + Cardinality(G)
  BY DEF AllocateFirst
<1>2. G \subseteq 1 .. n
  BY DEF Grown
<1>3. IsFiniteSet(G)
  <2>1. IsFiniteSet(1 .. n)
    BY FS_Interval
  <2> HIDE DEF G
  <2> QED BY <2>1, <1>2, FS_Subset
<1>4. Cardinality(G) \in Nat
  <2> HIDE DEF G
  <2> QED BY <1>3, FS_CardinalityType
<1>5. ASSUME Cardinality(G) = 0 PROVE bs = blocks
  <2>1. G = {}
    <3> HIDE DEF G
    <3> QED BY <1>3, <1>5, FS_EmptySet
  <2>2. 1 .. n \subseteq DOMAIN blocks
    <3>1. ASSUME NEW i \in 1 .. n PROVE i \in DOMAIN blocks
      <4>1. ~Grows(i, needs)
        BY <2>1 DEF Grown
      <4> QED BY <4>1 DEF Grows
    <3> QED BY <3>1
  <2> HIDE DEF G
  <2>3. bs = [i \in DOMAIN blocks |-> blocks[i]]
    BY <2>1, <2>2
  <2> QED BY <2>3 DEF PoolInv
<1>6. bs = [i \in DOMAIN bs |-> bs[i]]
  OBVIOUS
<1>7. generation \in Nat
  BY DEF PoolInv
<1> HIDE DEF m, bs, G
<1>8. /\ m.generation \in Nat /\ generation <= m.generation
      /\ m.generation = generation => m.blocks = blocks
  BY <1>1, <1>4, <1>5, <1>7
<1>9. m.blocks = [i \in DOMAIN m.blocks |-> m.blocks[i]]
  BY <1>1, <1>6
<1> QED BY <1>8, <1>9 DEF m

-----------------------------------------------------------------------------
(* Each action keeps the invariant.                                        *)

\* The first state satisfies it.
LEMMA InitInv == Init => IInv
<1> SUFFICES ASSUME Init PROVE IInv
  OBVIOUS
<1>1. IsSequence(<<>>) /\ ToSet(<<>>) = {} /\ DOMAIN <<>> = {}
  BY DEF IsSequence, ToSet
<1>2. mix \in Mixes /\ StepsInOrder(steps, pending = {}, Planned)
  BY <1>1 DEF Init, StepsInOrder
<1>3. InOrder
  BY DEF Init, InOrder, Numbered, Covered, Ordered
<1>4. PlansDiffer(plans) /\ PoolInv
  <2>1. PlansDiffer(plans) /\ generation = 0 /\ evictions = 0 /\ blocks = <<>>
    BY <1>1 DEF Init, PlansDiffer
  <2>2. blocks = [i \in DOMAIN blocks |-> blocks[i]]
    BY <2>1
  <2> QED BY <2>1, <2>2 DEF PoolInv
<1>5. GraphsFit(graphs, blocks, generation, plans, evictions)
  <2>1. graphs = [store \in Stores |-> <<>>]
    BY DEF Init
  <2> QED BY <2>1, <1>1 DEF GraphsFit
<1>6. HostInv
  <2>1. steps = <<>> /\ pending = {} /\ fp8 = [active |-> "A", source |-> "", stream |-> Main]
    BY DEF Init, NewRunner
  <2>2. fp8 \in Runners
    BY <2>1 DEF Runners, Sources, AllStreams
  <2>3. WaitsFirst(steps, pending, Early(mix)) /\ WaitsLater(steps, Early(mix))
    BY <1>1, <2>1 DEF WaitsFirst, WaitsLater, Free, HostUses, Enqueuing
  <2> QED BY <2>1, <2>2, <2>3 DEF HostInv
<1> QED BY <1>2, <1>3, <1>4, <1>5, <1>6 DEF IInv

\* A host step that is done, seen from what it waits for.
LEMMA HostTaken ==
    ASSUME IInv, steps # <<>>, steps' = Tail(steps), call' = call, mix' = mix, fp8' \in Runners,
           pending' \subseteq pending, Head(steps).do = "sync" => pending' = {}
    PROVE  HostInv'
<1>1. IsSequence(steps) /\ Head(steps) = steps[1] /\ HostInv
  BY TailOf DEF IInv, StepsInOrder
<1> DEFINE early == Early(mix)
           P == pending
           Q == pending'
<1>2. WaitsFirst(steps, P, early) /\ WaitsLater(steps, early) /\ call # Idle
  BY <1>1 DEF HostInv
<1>3. Q \subseteq P /\ (steps[1].do = "sync" => Q = {})
  BY <1>1
<1>4. early' = early
  BY Zenon DEF Early
<1> HIDE DEF early, P, Q
<1>5. WaitsFirst(Tail(steps), Q, early) /\ WaitsLater(Tail(steps), early)
  BY <1>1, <1>2, <1>3, FirstShifts, LaterShifts
<1> QED BY <1>2, <1>4, <1>5 DEF HostInv, early, Q

\* The host, where its steps do not change, or it has none.
LEMMA SameHost ==
    ASSUME IInv, mix' = mix, fp8' = fp8, pending' \subseteq pending,
           \/ steps' = steps /\ (call' = call \/ steps = <<>>)
           \/ steps' = <<>> /\ pending' = {}
    PROVE  HostInv'
<1> DEFINE early == Early(mix)
           P == pending
           Q == pending'
<1>1. WaitsFirst(steps, P, early) /\ WaitsLater(steps, early) /\ fp8 \in Runners
  BY DEF HostInv, IInv
<1>2. early' = early
  BY Zenon DEF Early
<1>3. Q \subseteq P
  OBVIOUS
<1>4. CASE steps' = steps /\ (call' = call \/ steps = <<>>)
  <2> HIDE DEF early, P, Q
  <2>1. WaitsFirst(steps, Q, early)
    BY <1>1, <1>3 DEF WaitsFirst, Free
  <2>2. call' = Idle => steps' = <<>>
    BY <1>4 DEF HostInv, IInv
  <2> QED BY <1>1, <1>2, <1>4, <2>1, <2>2 DEF HostInv, early, Q
<1>5. CASE steps' = <<>> /\ pending' = {}
  <2>1. DOMAIN <<>> = {}
    OBVIOUS
  <2>2. WaitsFirst(<<>>, {}, early) /\ WaitsLater(<<>>, early)
    BY <2>1 DEF WaitsFirst, WaitsLater, Free, HostUses, Enqueuing
  <2> HIDE DEF early
  <2> QED BY <1>1, <1>2, <1>5, <2>2 DEF HostInv, early
<1> QED BY <1>4, <1>5

\* A host step that is done, seen from the steps left.
LEMMA StepTaken ==
    ASSUME IInv, steps # <<>>, steps' = Tail(steps),
           Head(steps).do = "sync" => pending' = {},
           Planned \/ Head(steps).do = "plan" => Planned'
    PROVE  StepsInOrder(steps', pending' = {}, Planned')
<1>1. StepsInOrder(steps, pending = {}, Planned) /\ Head(steps) = steps[1]
  BY TailOf DEF IInv, StepsInOrder
<1> DEFINE e == pending = {}
           p == Planned
           f == pending' = {}
           q == Planned'
<1>2. e \in BOOLEAN /\ p \in BOOLEAN /\ f \in BOOLEAN /\ q \in BOOLEAN
  BY DEF Planned
<1>3. StepsInOrder(steps, e, p) /\ (steps[1].do = "sync" => f) /\ (p \/ steps[1].do = "plan" => q)
  BY <1>1, Zenon
<1> HIDE DEF e, p, f, q
<1>4. StepsInOrder(Tail(steps), f, q)
  BY <1>2, <1>3, FirstTaken
<1> QED BY <1>4 DEF f, q

\* Where neither the call nor the plans change.
LEMMA SamePlanned ==
    ASSUME call' = call, plans' = plans
    PROVE  Planned' <=> Planned
BY DEF Planned, PlansOf, Shape

\* The numbering and the order of kernels, where the device does nothing.
LEMMA SameDevice ==
    ASSUME IInv, pending' = pending, issued' = issued, tails' = tails
    PROVE  InOrder'
BY DEF IInv, InOrder, Numbered, Covered, Ordered, Precedes, Closed

\* The pool, the plans and the graphs, where none changes.
LEMMA SameCaches ==
    ASSUME IInv, blocks' = blocks, generation' = generation, plans' = plans, evictions' = evictions, mix' = mix
    PROVE  /\ mix' \in Mixes /\ PlansDiffer(plans') /\ PoolInv'
           /\ graphs' = graphs => GraphsFit(graphs', blocks', generation', plans', evictions')
BY DEF IInv, PoolInv

\* A call begins: its buffers are allocated and its launch code is laid out.
LEMMA BeginCallInv ==
    ASSUME IInv, NEW p \in mix, BeginCall(p)
    PROVE  IInv'
<1> DEFINE m == AllocateFirst(Len(Programs[p].needs), Programs[p].needs)
<1>1. p \in DOMAIN Programs
  BY StreamsAssumption DEF IInv
<1>2. /\ steps' = IF PlanAvailable(Programs[p].shape) THEN Programs[p].steps ELSE Programs[p].fallback
      /\ blocks' = m.blocks /\ generation' = m.generation
      /\ mix' = mix /\ plans' = plans /\ evictions' = evictions /\ graphs' = graphs
      /\ pending' = pending /\ issued' = issued /\ tails' = tails
      /\ fp8' = fp8 /\ call = Idle /\ call' = p
  <2> HIDE DEF m
  <2> QED BY DEF BeginCall, device, cache, attention, m
<1>3. HostCode(Programs[p].steps) /\ HostCode(Programs[p].fallback) /\ Len(Programs[p].needs) \in Nat
  <2>1. Programs[p].needs \in Seq(Nat) /\ HostCode(Programs[p].steps) /\ HostCode(Programs[p].fallback)
    <3>1. Programs[p].steps \in Bodies(DOMAIN Programs) /\ Programs[p].fallback \in Bodies(DOMAIN Programs)
      BY <1>1 DEF Bodies
    <3> QED BY <1>1, <3>1, ProgramsAreHostCode
  <2> QED BY <2>1
<1>4. StepsInOrder(steps', FALSE, FALSE)
  <2>1. steps' = Programs[p].steps \/ steps' = Programs[p].fallback
    BY <1>2
  <2> QED BY <2>1, <1>3, ProgramInOrder
<1>5. StepsInOrder(steps', pending' = {}, Planned')
  <2> DEFINE f == pending' = {}
             q == Planned'
  <2>1. f \in BOOLEAN /\ q \in BOOLEAN /\ FALSE \in BOOLEAN
    BY DEF Planned
  <2> HIDE DEF f, q
  <2>2. StepsInOrder(steps', f, q)
    BY <2>1, <1>4, InOrderStill
  <2> QED BY <2>2 DEF f, q
<1>6. PoolInv /\ generation \in Nat /\ evictions \in Nat
  BY DEF IInv, PoolInv
<1>7. /\ m.generation \in Nat /\ generation <= m.generation
      /\ m.generation = generation => m.blocks = blocks
      /\ m.blocks = [i \in DOMAIN m.blocks |-> m.blocks[i]]
  BY <1>3, <1>6, AllocateCounts
<1> HIDE DEF m
<1>8. PoolInv'
  BY <1>2, <1>6, <1>7 DEF PoolInv
<1>9. GraphsFit(graphs', blocks', generation', plans', evictions')
  <2>1. GraphsFit(graphs, blocks, generation, plans, evictions)
    BY DEF IInv
  <2>2. GraphsFit(graphs, m.blocks, m.generation, plans, evictions)
    BY <2>1, <1>6, <1>7, GraphsFitLater
  <2> QED BY <2>2, <1>2
<1>10. mix' \in Mixes /\ PlansDiffer(plans')
  BY <1>2 DEF IInv
<1>11. InOrder'
  BY <1>2, SameDevice
<1>12. HostInv'
  <2> DEFINE early == Early(mix)
             ss == steps'
  <2>1. steps = <<>> /\ fp8 \in Runners /\ WaitsFirst(steps, pending, early) /\ mix \in Mixes
    BY <1>2 DEF IInv, HostInv
  <2>2. Free(pending, early)
    <3>1. ~SyncIn(<<>>, DOMAIN <<>>)
      BY DEF SyncIn
    <3> HIDE DEF early
    <3> QED BY <2>1, <3>1 DEF WaitsFirst
  <2>3. ss \in Bodies(mix) /\ HostCode(ss)
    <3>1. ss = Programs[p].steps \/ ss = Programs[p].fallback
      BY <1>2
    <3> HIDE DEF ss
    <3> QED BY <3>1, <1>3 DEF Bodies
  <2>4. early' = early
    BY <1>2, Zenon DEF Early
  <2>5. WaitsFirst(ss, pending, early) /\ WaitsLater(ss, early)
    <3> HIDE DEF ss
    <3> QED BY <2>1, <2>2, <2>3, CallWaits
  <2>6. p # Idle
    BY <1>1, StreamsAssumption
  <2> HIDE DEF early
  <2> QED BY <1>2, <2>1, <2>4, <2>5, <2>6 DEF HostInv, early
<1> QED BY <1>5, <1>8, <1>9, <1>10, <1>11, <1>12 DEF IInv

\* An allocation that fails loses the pool, and every graph with it.
LEMMA AllocationFailsInv ==
    ASSUME IInv, NEW p \in mix, AllocationFails(p)
    PROVE  IInv'
<1>1. p \in DOMAIN Programs
  BY StreamsAssumption DEF IInv
<1>2. PICK k \in DOMAIN Programs[p].needs :
         /\ blocks' = Lose(AllocateFirst(k - 1, Programs[p].needs), k).blocks
         /\ generation' = Lose(AllocateFirst(k - 1, Programs[p].needs), k).generation
  BY Zenon DEF AllocationFails
<1>3. k - 1 \in Nat
  <2>1. Programs[p].needs \in Seq(Nat)
    BY <1>1, ProgramsAreHostCode
  <2>2. DOMAIN Programs[p].needs = 1 .. Len(Programs[p].needs)
    BY <2>1
  <2> QED BY <2>1, <2>2
<1> DEFINE m == AllocateFirst(k - 1, Programs[p].needs)
<1>4. PoolInv /\ generation \in Nat /\ evictions \in Nat
  BY DEF IInv, PoolInv
<1>5. /\ m.generation \in Nat /\ generation <= m.generation
      /\ m.generation = generation => m.blocks = blocks
      /\ m.blocks = [i \in DOMAIN m.blocks |-> m.blocks[i]]
  BY <1>3, <1>4, AllocateCounts
<1>6. blocks' = Lose(m, k).blocks /\ generation' = Lose(m, k).generation
  BY <1>2
<1> HIDE DEF m
<1>7. /\ generation' \in Nat /\ generation <= generation'
      /\ generation' = generation => blocks' = blocks
      /\ blocks' = [i \in DOMAIN blocks' |-> blocks'[i]]
  <2>1. CASE k \notin DOMAIN m.blocks
    <3>1. Lose(m, k) = m
      BY <2>1, Zenon DEF Lose
    <3> QED BY <3>1, <1>5, <1>6
  <2>2. CASE k \in DOMAIN m.blocks
    <3>1. Lose(m, k).blocks = [m.blocks EXCEPT ![k] = [bytes |-> 0, address |-> <<k, 0>>]]
      BY <2>2 DEF Lose
    <3>2. Lose(m, k).generation = m.generation + 1
      BY <2>2 DEF Lose
    <3>3. generation' \in Nat /\ generation < generation'
      BY <3>2, <1>4, <1>5, <1>6
    <3>4. blocks' = [i \in DOMAIN blocks' |-> blocks'[i]]
      BY <3>1, <1>6
    <3> QED BY <3>3, <3>4, <1>4
  <2> QED BY <2>1, <2>2
<1>8. /\ mix' = mix /\ plans' = plans /\ evictions' = evictions /\ graphs' = graphs
      /\ pending' = pending /\ issued' = issued /\ tails' = tails /\ steps' = steps /\ call' = call /\ fp8' = fp8
  BY DEF AllocationFails, host, device, cache, attention
<1>9. PoolInv'
  BY <1>4, <1>7, <1>8 DEF PoolInv
<1>10. GraphsFit(graphs', blocks', generation', plans', evictions')
  <2>1. GraphsFit(graphs, blocks, generation, plans, evictions)
    BY DEF IInv
  <2>2. GraphsFit(graphs, blocks', generation', plans, evictions)
    BY <2>1, <1>4, <1>7, GraphsFitLater
  <2> QED BY <2>2, <1>8
<1>11. StepsInOrder(steps', pending' = {}, Planned')
  <2>1. Planned' <=> Planned
    BY <1>8, SamePlanned
  <2>2. StepsInOrder(steps, pending = {}, Planned)
    BY DEF IInv
  <2>3. (pending' = {}) = (pending = {}) /\ Planned' = Planned
    BY <1>8, <2>1 DEF Planned
  <2> QED BY <2>2, <2>3, <1>8
<1>12. mix' \in Mixes /\ PlansDiffer(plans')
  BY <1>8 DEF IInv
<1>13. InOrder' /\ HostInv'
  BY <1>8, SameDevice, SameHost
<1> QED BY <1>9, <1>10, <1>11, <1>12, <1>13 DEF IInv

\* A step of the host that changes none of the caches.
LEMMA PlainStep ==
    ASSUME IInv, steps # <<>>, steps' = Tail(steps), Head(steps).do # "plan",
           Head(steps).do = "sync" => pending' = {},
           call' = call, mix' = mix, pool' = pool, attention' = attention,
           InOrder', HostInv'
    PROVE  graphs' = graphs => IInv'
<1>1. blocks' = blocks /\ generation' = generation /\ plans' = plans /\ evictions' = evictions
  BY DEF pool, attention
<1>2. Planned' <=> Planned
  BY <1>1, SamePlanned
<1>3. StepsInOrder(steps', pending' = {}, Planned')
  BY <1>2, StepTaken
<1> QED BY <1>1, <1>3, SameCaches DEF IInv

\* Staging the arguments of a call.
LEMMA StageInv == ASSUME IInv, Stage PROVE IInv'
<1>1. /\ steps # <<>> /\ Head(steps).do = "stage" /\ steps' = Tail(steps)
      /\ call' = call /\ mix' = mix /\ pool' = pool /\ attention' = attention /\ graphs' = graphs
      /\ pending' = pending /\ issued' = issued /\ tails' = tails /\ fp8' = fp8
  BY DEF Stage, Step, cache
<1>2. fp8' \in Runners
  BY <1>1 DEF IInv, HostInv
<1> QED BY <1>1, <1>2, SameDevice, HostTaken, PlainStep

\* Reading the results of a call.
LEMMA ReadInv == ASSUME IInv, Read PROVE IInv'
<1>1. /\ steps # <<>> /\ Head(steps).do = "read" /\ steps' = Tail(steps)
      /\ call' = call /\ mix' = mix /\ pool' = pool /\ attention' = attention /\ graphs' = graphs
      /\ pending' = pending /\ issued' = issued /\ tails' = tails /\ fp8' = fp8
  BY DEF Read, Step, cache, device
<1>2. fp8' \in Runners
  BY <1>1 DEF IInv, HostInv
<1> QED BY <1>1, <1>2, SameDevice, HostTaken, PlainStep

\* Remembering a launch code that was seen once.
LEMMA RememberInv == ASSUME IInv, Remember PROVE IInv'
<1>1. /\ steps # <<>> /\ Head(steps).do = "capture" /\ steps' = Tail(steps)
      /\ call' = call /\ mix' = mix /\ pool' = pool /\ attention' = attention /\ graphs' = graphs
      /\ pending' = pending /\ issued' = issued /\ tails' = tails /\ fp8' = fp8
  BY DEF Remember, Step, device
<1>2. fp8' \in Runners
  BY <1>1 DEF IInv, HostInv
<1> QED BY <1>1, <1>2, SameDevice, HostTaken, PlainStep

\* Main's wait is over: nothing is left at all.
LEMMA SynchronizeInv == ASSUME IInv, Synchronize PROVE IInv'
<1>1. /\ steps # <<>> /\ Head(steps).do = "sync" /\ steps' = Tail(steps)
      /\ call' = call /\ mix' = mix /\ pool' = pool /\ attention' = attention /\ graphs' = graphs
      /\ pending' = pending /\ issued' = issued /\ tails' = tails
      /\ \A e \in pending : e.id \notin tails[Main]
      /\ fp8' = fp8
  BY DEF Synchronize, Step, device, cache
<1>2. pending = {}
  BY <1>1, MainIsLast DEF IInv, InOrder
<1>3. fp8' \in Runners
  BY <1>1 DEF IInv, HostInv
<1> QED BY <1>1, <1>2, <1>3, SameDevice, HostTaken, PlainStep

\* The first of the steps left is one the host may take.
LEMMA HeadOfHost ==
    ASSUME IInv, steps # <<>>
    PROVE  StepOfHost(Now) /\ (Now.do = "capture" => CaptureInPlace(steps, 1, pending = {}, Planned)) /\ Now = steps[1]
<1>1. StepsInOrder(steps, pending = {}, Planned)
  BY DEF IInv
<1>2. Now = steps[1] /\ Len(steps) \in Nat \ {0} /\ DOMAIN steps = 1 .. Len(steps)
  BY <1>1, TailOf, Sequence DEF StepsInOrder, Now
<1>3. 1 \in DOMAIN steps
  BY <1>2
<1> QED BY <1>1, <1>2, <1>3 DEF StepsInOrder

\* Launching kernels one by one.
LEMMA EnqueueOpsInv == ASSUME IInv, EnqueueOps PROVE IInv'
<1>1. /\ steps # <<>> /\ Now.do = "enqueue" /\ Head(steps).do = "enqueue" /\ steps' = Tail(steps)
      /\ call' = call /\ mix' = mix /\ pool' = pool /\ attention' = attention /\ graphs' = graphs
      /\ Enqueue(Now.ops)
  BY DEF EnqueueOps, Step, cache, Now
<1>2. Sound(Now.ops) /\ IsSequence(steps) /\ steps[1] = Now
  BY <1>1, HeadOfHost DEF StepOfHost, IInv, StepsInOrder
<1>3. InOrder' /\ fp8' \in Runners
      /\ \A B : Untouched(Now.ops, B) => \A e \in pending' : e \in pending \/ Touched(e) \cap B = {}
  BY <1>1, <1>2, EnqueueInOrder DEF IInv, HostInv
<1>4. HostInv'
  <2> DEFINE early == Early(mix)
             P == pending
             Q == pending'
  <2>1. WaitsFirst(steps, P, early) /\ WaitsLater(steps, early) /\ call # Idle
    BY <1>1 DEF IInv, HostInv
  <2>2. early' = early
    BY <1>1, Zenon DEF Early
  <2>3. Lasting(steps[1], early) => \A e \in Q : e \in P \/ Touched(e) \cap early = {}
    <3> HIDE DEF early
    <3> QED BY <1>2, <1>3 DEF Lasting
  <2> HIDE DEF early, P, Q
  <2>4. steps[1].do \in {"enqueue", "launch"}
    BY <1>1, <1>2
  <2>5. WaitsFirst(Tail(steps), Q, early) /\ WaitsLater(Tail(steps), early)
    BY <1>1, <1>2, <2>1, <2>3, <2>4, FirstLaunched, LaterShifts
  <2> QED BY <1>1, <1>3, <2>1, <2>2, <2>5 DEF HostInv, early, Q
<1> QED BY <1>1, <1>3, <1>4, PlainStep

\* Launching the graph that was captured for this launch code.
LEMMA LaunchAsGraphInv == ASSUME IInv, LaunchAsGraph PROVE IInv'
<1>1. /\ steps # <<>> /\ Now.do = "launch" /\ Head(steps).do = "launch" /\ steps' = Tail(steps)
      /\ call' = call /\ mix' = mix /\ pool' = pool /\ attention' = attention
      /\ Now.graph \in Policies
  BY DEF LaunchAsGraph, Step, Now
<1>2. PICK i \in Hit(Now.graph) :
         /\ Replay(Kept(Now.graph)[i])
         /\ graphs' = IF Now.graph = "second"
                      THEN [graphs EXCEPT !["second"] = Append(Without(@, i), Kept(Now.graph)[i])] ELSE graphs
  BY Zenon DEF LaunchAsGraph
<1> DEFINE g == Kept(Now.graph)[i]
           gs == Kept(Now.graph)
<1>3. GraphsFit(graphs, blocks, generation, plans, evictions)
  BY DEF IInv
<1>4. i \in DOMAIN gs /\ IsSequence(gs) /\ g \in ToSet(gs) /\ g.key = Key
  <2>1. i \in DOMAIN gs /\ g.key = Key
    BY <1>2 DEF Hit
  <2> QED BY <2>1, <1>3, StoreOf DEF GraphsFit, ToSet, Kept
<1>5. GraphFits(g, blocks, generation, plans, evictions)
  BY <1>3, <1>4, StoreOf DEF GraphsFit, Kept
<1>6. /\ InOrder' /\ fp8' = fp8
      /\ \A B : (\A k \in DOMAIN g.out : TouchesOf(g.out, k) \cap B = {})
                => \A e \in pending' : e \in pending \/ Touched(e) \cap B = {}
  <2>1. SafeOut(g.out) /\ Replay(g)
    BY <1>2, <1>5 DEF GraphFits
  <2>2. fp8' = fp8
    BY <2>1, Zenon DEF Replay
  <2> HIDE DEF g
  <2> QED BY <2>1, <2>2, ReplayInOrder DEF IInv
<1>10. HostInv'
  <2> DEFINE early == Early(mix)
             P == pending
             Q == pending'
             t == Tail(steps)
  <2>1. WaitsFirst(steps, P, early) /\ WaitsLater(steps, early) /\ call # Idle /\ fp8 \in Runners
    BY <1>1 DEF IInv, HostInv
  <2>2. early' = early
    BY <1>1, Zenon DEF Early
  <2>3. IsSequence(steps) /\ steps[1].do = "launch" /\ steps[1] = Now
    BY <1>1, HeadOfHost DEF IInv, StepsInOrder
  <2>4. Lasting(steps[1], early) => \A e \in Q : e \in P \/ Touched(e) \cap early = {}
    <3> SUFFICES ASSUME Lasting(steps[1], early) PROVE \A e \in Q : e \in P \/ Touched(e) \cap early = {}
      OBVIOUS
    <3>1. g.key[2] = "bare"
      <4>1. Now.graph = "bare"
        BY <2>3 DEF Lasting
      <4> HIDE DEF g, gs
      <4> QED BY <4>1, <1>1, <1>4, KeyParts
    <3>2. \A k \in DOMAIN g.out : TouchesOf(g.out, k) \cap Pinned = {}
      <4> HIDE DEF g
      <4> QED BY <3>1, <1>5 DEF GraphFits
    <3>3. early \subseteq Pinned
      BY EarlyPinned DEF IInv
    <3>4. \A k \in DOMAIN g.out : TouchesOf(g.out, k) \cap early = {}
      <4> HIDE DEF g, early
      <4> QED BY <3>2, <3>3
    <3> HIDE DEF g, early
    <3> QED BY <3>4, <1>6
  <2> HIDE DEF early, P, Q
  <2>5. WaitsFirst(t, Q, early) /\ WaitsLater(t, early)
    BY <1>1, <2>1, <2>3, <2>4, FirstLaunched, LaterShifts
  <2> QED BY <1>1, <1>6, <2>1, <2>2, <2>5 DEF HostInv, early, Q
<1>7. blocks' = blocks /\ generation' = generation /\ plans' = plans /\ evictions' = evictions
  BY <1>1 DEF pool, attention
<1>8. GraphsFit(graphs', blocks', generation', plans', evictions')
  <2>1. CASE Now.graph # "second"
    BY <2>1, <1>2, <1>3, <1>7
  <2>2. CASE Now.graph = "second"
    <3> DEFINE list == Append(Without(gs, i), g)
    <3>1. gs = graphs["second"] /\ "second" \in Stores
      BY <2>2 DEF Kept, Store, Stores
    <3>2. graphs' = [graphs EXCEPT !["second"] = list]
      BY <1>2, <2>2, <3>1
    <3>3. IsSequence(Without(gs, i)) /\ ToSet(Without(gs, i)) \subseteq ToSet(gs)
      BY <1>4, WithoutOne
    <3>4. IsSequence(list) /\ ToSet(list) = ToSet(Without(gs, i)) \cup {g}
      BY <3>3, Appended
    <3> HIDE DEF list, g
    <3>5. ToSet(list) \subseteq ToSet(graphs["second"]) \cup {g}
      BY <3>1, <3>3, <3>4
    <3>6. GraphsFit([graphs EXCEPT !["second"] = list], blocks, generation, plans, evictions)
      BY <1>3, <1>5, <3>1, <3>4, <3>5, GraphsFitWith
    <3> QED BY <3>2, <3>6, <1>7
  <2> QED BY <2>1, <2>2
<1>9. StepsInOrder(steps', pending' = {}, Planned')
  <2>1. Planned' <=> Planned
    BY <1>1, <1>7, SamePlanned
  <2> QED BY <2>1, <1>1, StepTaken
<1> QED BY <1>1, <1>6, <1>7, <1>8, <1>9, <1>10, SameCaches DEF IInv

\* Launching without a graph, to be captured later or not at all.
LEMMA LaunchDirectlyInv == ASSUME IInv, LaunchDirectly PROVE IInv'
<1>1. /\ steps # <<>> /\ Now.do = "launch" /\ Head(steps).do = "launch"
      /\ call' = call /\ mix' = mix /\ pool' = pool /\ attention' = attention /\ graphs' = graphs
  BY DEF LaunchDirectly, Step, cache, Now
<1>2. /\ Enqueue(Head(Parts(Now.ops)).ops)
      /\ steps' = Tail(Parts(Now.ops)) \o Recording(Now) \o Tail(steps)
  BY Zenon DEF LaunchDirectly, Recording
<1> DEFINE e == pending = {}
           p == Planned
           f == pending' = {}
           q == Planned'
           pre == Tail(Parts(Now.ops)) \o Recording(Now)
<1>3. e \in BOOLEAN /\ p \in BOOLEAN /\ f \in BOOLEAN /\ q \in BOOLEAN /\ FALSE \in BOOLEAN
  BY DEF Planned
<1>4. StepOfHost(Now) /\ Now = steps[1] /\ StepsInOrder(steps, e, p)
  BY <1>1, HeadOfHost DEF IInv
<1>5. blocks' = blocks /\ generation' = generation /\ plans' = plans /\ evictions' = evictions
  BY <1>1 DEF pool, attention
<1>6. p => q
  BY <1>1, <1>5, SamePlanned
<1>7. steps' = pre \o Tail(steps)
  BY <1>2
<1> HIDE DEF e, p, f, q
<1>8. Sound(Head(Parts(Now.ops)).ops) /\ StepsInOrder(pre, FALSE, p)
  BY <1>1, <1>3, <1>4, PartsInOrder
<1>9. /\ InOrder' /\ fp8' \in Runners
      /\ \A B : Untouched(Head(Parts(Now.ops)).ops, B) => \A x \in pending' : x \in pending \/ Touched(x) \cap B = {}
  BY <1>2, <1>8, EnqueueInOrder DEF IInv, HostInv
<1>14. ASSUME Now.graph = "bare" PROVE Head(Parts(Now.ops)).ops = Now.ops /\ OnlyWaits(pre)
  <2>1. ~AsksForPlan(Now.ops) /\ Now.graph \in Policies
    BY <1>1, <1>4, <1>14 DEF StepOfHost, Policies
  <2> QED BY <2>1, PartsWait
<1>12. IsSequence(pre) /\ Quiet(pre)
  BY PartsQuiet
<1> HIDE DEF pre
<1>13. HostInv'
  <2> DEFINE early == Early(mix)
             P == pending
             Q == pending'
             t == Tail(steps)
  <2>1. WaitsFirst(steps, P, early) /\ WaitsLater(steps, early) /\ call # Idle /\ fp8 \in Runners
    BY <1>1 DEF IInv, HostInv
  <2>2. early' = early
    BY <1>1, Zenon DEF Early
  <2>3. IsSequence(steps) /\ steps[1].do = "launch"
    BY <1>1, <1>4 DEF IInv, StepsInOrder
  <2>4. Lasting(steps[1], early) => Now.graph = "bare" /\ Untouched(Now.ops, early)
    BY <1>4, <2>3 DEF Lasting
  <2>8. /\ \A j \in HostUses(t) : SyncIn(t, 1 .. j - 1)
        /\ SyncIn(t, DOMAIN t) \/ OnlyWaits(pre)
    <3>1. Lasting(steps[1], early) => \A x \in Q : x \in P \/ Touched(x) \cap early = {}
      <4> HIDE DEF early
      <4> QED BY <2>4, <1>9, <1>14
    <3> HIDE DEF early, P, Q
    <3>2. /\ \A j \in HostUses(t) : SyncIn(t, 1 .. j - 1)
          /\ SyncIn(t, DOMAIN t) \/ Lasting(steps[1], early)
      BY <1>1, <2>1, <2>3, <3>1, FirstLaunched
    <3> QED BY <3>2, <2>4, <1>14
  <2>7. IsSequence(t)
    BY <1>1, <2>3, TailOf
  <2> HIDE DEF early, P, Q
  <2>5. WaitsLater(t, early)
    BY <1>1, <2>1, <2>3, LaterShifts
  <2> HIDE DEF t
  <2>6. WaitsFirst(pre \o t, Q, early) /\ WaitsLater(pre \o t, early)
    BY <1>12, <2>5, <2>7, <2>8, QuietBefore
  <2> QED BY <1>1, <1>7, <1>9, <2>1, <2>2, <2>6 DEF HostInv, early, Q, t
<1>10. StepsInOrder(steps', f, q)
  <2>1. steps[1].do # "sync" /\ steps[1].do # "plan"
    BY <1>1, <1>4
  <2>2. StepsInOrder(Tail(steps), FALSE, p)
    BY <1>1, <1>3, <1>4, <2>1, FirstTaken
  <2>3. StepsInOrder(pre \o Tail(steps), FALSE, p)
    BY <1>3, <1>8, <2>2, PutBefore
  <2>4. StepsInOrder(pre \o Tail(steps), f, q)
    BY <1>3, <1>6, <2>3, InOrderStill
  <2> QED BY <2>4, <1>7
<1>11. StepsInOrder(steps', pending' = {}, Planned')
  BY <1>10 DEF f, q
<1> QED BY <1>1, <1>5, <1>9, <1>11, <1>13, SameCaches DEF IInv

\* The plans, the evictions and the graphs when a plan goes or comes.
LEMMA EvictionFits ==
    ASSUME IInv, evictions' = evictions + 1, blocks' = blocks, generation' = generation, graphs' = graphs
    PROVE  PoolInv' /\ GraphsFit(graphs', blocks', generation', plans', evictions')
<1>1. GraphsFit(graphs, blocks, generation, plans, evictions) /\ PoolInv /\ generation \in Nat /\ evictions \in Nat
  BY DEF IInv, PoolInv
<1>2. evictions + 1 \in Nat /\ evictions <= evictions + 1 /\ evictions + 1 # evictions
  BY <1>1
<1> DEFINE ev == evictions + 1
           ps == plans'
<1> HIDE DEF ev, ps
<1>3. ev \in Nat /\ evictions <= ev /\ ev # evictions /\ evictions' = ev
  BY <1>2 DEF ev
<1>4. GraphsFit(graphs, blocks, generation, ps, ev)
  BY <1>1, <1>3, GraphsFitLater
<1>5. PoolInv'
  BY <1>1, <1>3 DEF PoolInv
<1> QED BY <1>3, <1>4, <1>5 DEF ps

\* Graphs that fit go on fitting when a plan is added.
LEMMA MorePlansFit ==
    ASSUME IInv, evictions' = evictions, ToSet(plans) \subseteq ToSet(plans'),
           blocks' = blocks, generation' = generation
    PROVE  PoolInv' /\ GraphsFit(graphs, blocks', generation', plans', evictions')
<1>1. GraphsFit(graphs, blocks, generation, plans, evictions) /\ PoolInv /\ generation \in Nat /\ evictions \in Nat
  BY DEF IInv, PoolInv
<1> DEFINE ps == plans'
<1> HIDE DEF ps
<1>2. ToSet(plans) \subseteq ToSet(ps)
  BY DEF ps
<1>3. GraphsFit(graphs, blocks, generation, ps, evictions)
  BY <1>1, <1>2, GraphsFitLater
<1>4. PoolInv'
  BY <1>1 DEF PoolInv
<1> QED BY <1>3, <1>4 DEF ps

\* Looking up a plan: found, built, or built in the place of the least used.
LEMMA LookupInv == ASSUME IInv, Lookup PROVE IInv'
<1>1. /\ steps # <<>> /\ Head(steps).do = "plan" /\ steps' = Tail(steps)
      /\ call' = call /\ mix' = mix /\ blocks' = blocks /\ generation' = generation /\ graphs' = graphs
      /\ pending' = pending /\ issued' = issued /\ tails' = tails /\ fp8' = fp8
  BY DEF Lookup, Step, device, pool, cache
<1>2. PlansDiffer(plans)
  BY DEF IInv
<1>3. /\ PlansDiffer(plans') /\ PoolInv'
      /\ GraphsFit(graphs', blocks', generation', plans', evictions')
      /\ \E i \in DOMAIN plans' : plans'[i].shape = Shape
  <2>1. CASE NeedsEviction
    <3> DEFINE x == [Built(Shape) EXCEPT !.after = @ + 1]
    <3>1. evictions' = evictions + 1 /\ plans' = Append(Tail(plans), x)
      BY <2>1, Zenon DEF Lookup
    <3>2. x.shape = Shape
      BY DEF Built
    <3>3. plans # <<>> /\ \A k \in DOMAIN plans : plans[k].shape # Shape
      <4>1. Len(plans) >= MaxPlans /\ MaxPlans \in Nat \ {0}
        BY <2>1, StreamsAssumption DEF NeedsEviction, Full
      <4>2. plans # <<>>
        BY <4>1
      <4> QED BY <4>2, <2>1 DEF NeedsEviction, PlansOf
    <3> HIDE DEF x
    <3>4. PlansDiffer(Tail(plans))
      BY <1>2, <3>3, TailDiffers
    <3>5. \A k \in DOMAIN Tail(plans) : Tail(plans)[k].shape # x.shape
      <4>1. /\ IsSequence(Tail(plans)) /\ Len(Tail(plans)) = Len(plans) - 1 /\ Len(plans) \in Nat
            /\ \A i \in 1 .. Len(plans) - 1 : Tail(plans)[i] = plans[i + 1]
        BY <1>2, <3>3, TailOf DEF PlansDiffer
      <4>2. DOMAIN Tail(plans) = 1 .. Len(plans) - 1 /\ DOMAIN plans = 1 .. Len(plans)
        BY <1>2, <4>1, Sequence DEF PlansDiffer
      <4>3. ASSUME NEW k \in DOMAIN Tail(plans) PROVE k + 1 \in DOMAIN plans /\ Tail(plans)[k] = plans[k + 1]
        BY <4>1, <4>2
      <4> QED BY <4>3, <3>2, <3>3
    <3>6. PlansDiffer(plans')
      BY <3>1, <3>4, <3>5, AppendDiffers
    <3>7. \E i \in DOMAIN plans' : plans'[i].shape = Shape
      <4>1. IsSequence(Tail(plans))
        BY <3>4 DEF PlansDiffer
      <4>2. /\ IsSequence(plans') /\ Len(plans') = Len(Tail(plans)) + 1
            /\ plans'[Len(Tail(plans)) + 1] = x /\ Len(Tail(plans)) \in Nat
        BY <3>1, <4>1, Appended, Sequence
      <4>3. DOMAIN plans' = 1 .. Len(plans')
        BY <4>2, Sequence
      <4>4. Len(Tail(plans)) + 1 \in DOMAIN plans'
        BY <4>2, <4>3
      <4> QED BY <4>2, <4>4, <3>2
    <3> QED BY <3>1, <3>6, <3>7, <1>1, EvictionFits
  <2>2. CASE ~NeedsEviction
    <3>1. plans' = Used(Shape) /\ evictions' = evictions
      BY <2>2 DEF Lookup
    <3>2. /\ PlansDiffer(Used(Shape))
          /\ ToSet(plans) \subseteq ToSet(Used(Shape))
          /\ \E i \in DOMAIN Used(Shape) : Used(Shape)[i].shape = Shape
      BY <1>2, UsedPlans
    <3> QED BY <3>1, <3>2, <1>1, MorePlansFit
  <2> QED BY <2>1, <2>2
<1>4. Planned'
  BY <1>1, <1>3 DEF Planned, PlansOf, Shape
<1>5. StepsInOrder(steps', pending' = {}, Planned')
  BY <1>1, <1>4, StepTaken
<1>6. mix' \in Mixes /\ fp8' \in Runners
  BY <1>1 DEF IInv, HostInv
<1>7. InOrder' /\ HostInv'
  BY <1>1, <1>6, SameDevice, HostTaken
<1> QED BY <1>1, <1>3, <1>5, <1>6, <1>7 DEF IInv

\* A call that has nothing left to do.
LEMMA NothingLeft ==
    ASSUME NEW e, NEW p
    PROVE  StepsInOrder(<<>>, e, p)
BY DEF StepsInOrder, IsSequence

\* Building a plan fails after its place was made free.
LEMMA BuildFailsInv == ASSUME IInv, BuildFails PROVE IInv'
<1>1. /\ steps' = <<>>
      /\ mix' = mix /\ blocks' = blocks /\ generation' = generation /\ graphs' = graphs
      /\ pending' = pending /\ issued' = issued /\ tails' = tails /\ fp8' = fp8 /\ pending = {}
      /\ plans' = IF Full THEN Tail(plans) ELSE plans
      /\ evictions' = IF Full THEN evictions + 1 ELSE evictions
  BY DEF BuildFails, device, pool, cache
<1>2. PlansDiffer(plans)
  BY DEF IInv
<1>3. /\ PlansDiffer(plans') /\ PoolInv'
      /\ GraphsFit(graphs', blocks', generation', plans', evictions')
  <2>1. CASE Full
    <3>1. plans # <<>>
      <4>1. Len(plans) >= MaxPlans /\ MaxPlans \in Nat \ {0}
        BY <2>1, StreamsAssumption DEF Full
      <4> QED BY <4>1
    <3>2. plans' = Tail(plans) /\ evictions' = evictions + 1
      BY <1>1, <2>1
    <3>3. PlansDiffer(plans')
      BY <1>2, <3>1, <3>2, TailDiffers
    <3> QED BY <3>2, <3>3, <1>1, EvictionFits
  <2>2. CASE ~Full
    <3>1. plans' = plans /\ evictions' = evictions
      BY <1>1, <2>2
    <3> QED BY <3>1, <1>1, <1>2, MorePlansFit
  <2> QED BY <2>1, <2>2
<1>4. StepsInOrder(steps', pending' = {}, Planned') /\ mix' \in Mixes
  BY <1>1, NothingLeft DEF IInv
<1>5. InOrder' /\ HostInv'
  BY <1>1, SameDevice, SameHost
<1> QED BY <1>1, <1>3, <1>4, <1>5 DEF IInv

\* What a capture records fits the present.
LEMMA CaptureInv == ASSUME IInv, Capture PROVE IInv'
<1> DEFINE r == Resolve(fp8, Now.ops)
           old == Kept(Now.graph)
           g == [key |-> Key, out |-> r.out, at |-> Addresses, whole |-> r.past[Main] = 0 .. Len(r.out),
                 uses |-> IF AsksForPlan(Now.ops) THEN {PlanFor(Shape)} ELSE {}]
<1>1. /\ steps # <<>> /\ Now.do = "capture" /\ Head(steps).do = "capture" /\ steps' = Tail(steps)
      /\ call' = call /\ mix' = mix /\ blocks' = blocks /\ generation' = generation /\ evictions' = evictions
      /\ pending' = pending /\ issued' = issued /\ tails' = tails
      /\ plans' = IF AsksForPlan(Now.ops) THEN Used(Shape) ELSE plans
      /\ fp8' = r.fp8
  <2> HIDE DEF g
  <2> QED BY DEF Capture, Step, Now, device, pool
<1>2. PICK victim \in (IF Now.graph = "second" THEN {1} ELSE DOMAIN old) \cup {0} :
         /\ victim = 0 <=> Len(old) < MaxGraphs
         /\ graphs' = [graphs EXCEPT ![Store(Now.graph)] = Append(IF victim = 0 THEN old ELSE Without(old, victim), g)]
  BY Zenon DEF Capture
<1>3. /\ Now.graph \in Policies /\ Sound(Now.ops)
      /\ Now.graph # "second" => ~AsksForPlan(Now.ops)
      /\ Now.graph = "bare" => Untouched(Now.ops, Pinned)
      /\ fp8 \in Runners /\ Store(Now.graph) \in Stores
  BY StoreOf, <1>1, HeadOfHost DEF StepOfHost, IInv, HostInv, Policies
<1>4. PlansDiffer(plans) /\ GraphsFit(graphs, blocks, generation, plans, evictions)
      /\ PoolInv /\ generation \in Nat /\ evictions \in Nat
  BY DEF IInv, PoolInv
<1>5. PlansDiffer(plans') /\ ToSet(plans) \subseteq ToSet(plans')
      /\ (AsksForPlan(Now.ops) => PlanFor(Shape) \in ToSet(plans'))
      /\ (Planned => Planned')
  <2>1. CASE AsksForPlan(Now.ops)
    <3>1. plans' = Used(Shape)
      BY <1>1, <2>1
    <3>2. /\ PlansDiffer(Used(Shape))
          /\ ToSet(plans) \subseteq ToSet(Used(Shape))
          /\ PlanFor(Shape) \in ToSet(Used(Shape))
          /\ \E i \in DOMAIN Used(Shape) : Used(Shape)[i].shape = Shape
      BY <1>4, UsedPlans
    <3>3. Planned'
      BY <1>1, <3>1, <3>2 DEF Planned, PlansOf, Shape
    <3> QED BY <3>1, <3>2, <3>3
  <2>2. CASE ~AsksForPlan(Now.ops)
    <3>1. plans' = plans
      BY <1>1, <2>2
    <3> QED BY <2>2, <3>1, <1>1, <1>4, SamePlanned
  <2> QED BY <2>1, <2>2
<1>6. PoolInv' /\ GraphsFit(graphs, blocks', generation', plans', evictions')
  BY <1>1, <1>5, MorePlansFit
<1>7. r.past[Main] = 0 .. Len(r.out) /\ SafeOut(r.out) /\ r.fp8 \in Runners
  <2>1. Good(r) /\ r.past[Main] = 0 .. Len(r.out)
    BY <1>3, JoinedIsWhole DEF Sound
  <2>2. RaceFree(r.out)
    BY <1>3 DEF Sound
  <2> HIDE DEF r
  <2> QED BY <2>1, <2>2 DEF Good, SafeOut
<1>16. Now.graph = "bare" => \A i \in DOMAIN r.out : TouchesOf(r.out, i) \cap Pinned = {}
  BY <1>3 DEF Untouched
<1>8. GraphFits(g, blocks', generation', plans', evictions')
  <2>1. g.whole /\ g.out = r.out /\ g.key = Key /\ g.at = Addresses
    <3> HIDE DEF r
    <3> QED BY <1>7
  <2>2. g.uses = IF AsksForPlan(Now.ops) THEN {PlanFor(Shape)} ELSE {}
    OBVIOUS
  <2> HIDE DEF g, r
  <2>3. /\ g.key[1] = call /\ g.key[2] = Now.graph
        /\ Now.graph # "bare" => g.key[3] = generation
        /\ Now.graph = "second" => g.key[4] = evictions
    BY <2>1, <1>3, KeyParts
  <2>4. g.key[2] # "bare" =>
          g.key[3] \in 0 .. generation' /\ (g.key[3] = generation' => g.at = AddressesOf(g.key[1], blocks'))
    BY <2>1, <2>3, <1>1, <1>4 DEF Addresses, AddressesOf
  <2>5. g.key[2] # "second" => g.uses = {}
    BY <2>2, <2>3, <1>3
  <2>6. g.key[2] = "second" =>
          g.key[4] \in 0 .. evictions' /\ (g.key[4] = evictions' => g.uses \subseteq ToSet(plans'))
    BY <2>2, <2>3, <1>1, <1>4, <1>5
  <2>7. SafeOut(g.out)
    BY <2>1, <1>7
  <2>8. g.key[2] = "bare" => \A i \in DOMAIN g.out : TouchesOf(g.out, i) \cap Pinned = {}
    BY <2>1, <2>3, <1>16
  <2> QED BY <2>1, <2>4, <2>5, <2>6, <2>7, <2>8 DEF GraphFits
<1> HIDE DEF g, r
<1> DEFINE kept == IF victim = 0 THEN old ELSE Without(old, victim)
           list == Append(kept, g)
<1>9. IsSequence(kept) /\ ToSet(kept) \subseteq ToSet(old)
  <2>1. IsSequence(old)
    BY <1>3, <1>4 DEF GraphsFit, Kept
  <2>2. CASE victim = 0
    BY <2>1, <2>2
  <2>3. CASE victim # 0
    <3>1. victim \in DOMAIN old
      <4>1. CASE Now.graph # "second"
        BY <4>1, <1>2, <2>3
      <4>2. CASE Now.graph = "second"
        <5>1. victim = 1 /\ ~(Len(old) < MaxGraphs)
          BY <4>2, <1>2, <2>3
        <5>2. Len(old) \in Nat /\ DOMAIN old = 1 .. Len(old) /\ MaxGraphs \in Nat \ {0}
          BY <2>1, Sequence, StreamsAssumption
        <5> HIDE DEF old
        <5> QED BY <5>1, <5>2
      <4> QED BY <4>1, <4>2
    <3> HIDE DEF old
    <3>2. IsSequence(Without(old, victim)) /\ ToSet(Without(old, victim)) \subseteq ToSet(old)
      BY <2>1, <3>1, WithoutOne
    <3> QED BY <3>2, <2>3
  <2> QED BY <2>2, <2>3
<1>10. graphs' = [graphs EXCEPT ![Store(Now.graph)] = list]
  BY <1>2, Zenon
<1> HIDE DEF kept
<1>11. IsSequence(list) /\ ToSet(list) = ToSet(kept) \cup {g}
  BY <1>9, Appended
<1> HIDE DEF list
<1>12. ToSet(list) \subseteq ToSet(graphs[Store(Now.graph)]) \cup {g}
  BY <1>9, <1>11 DEF Kept
<1>13. GraphsFit(graphs', blocks', generation', plans', evictions')
  <2> DEFINE bs == blocks'
             gen == generation'
             ps == plans'
             ev == evictions'
  <2>1. GraphsFit(graphs, bs, gen, ps, ev) /\ GraphFits(g, bs, gen, ps, ev)
    BY <1>6, <1>8
  <2> HIDE DEF bs, gen, ps, ev
  <2>2. GraphsFit([graphs EXCEPT ![Store(Now.graph)] = list], bs, gen, ps, ev)
    BY <2>1, <1>3, <1>11, <1>12, GraphsFitWith
  <2> QED BY <2>2, <1>10 DEF bs, gen, ps, ev
<1>14. StepsInOrder(steps', pending' = {}, Planned')
  BY <1>1, <1>5, StepTaken
<1>15. mix' \in Mixes /\ InOrder' /\ HostInv'
  <2>1. fp8' \in Runners
    BY <1>1, <1>7
  <2> QED BY <1>1, <2>1, SameDevice, HostTaken DEF IInv
<1> QED BY <1>5, <1>6, <1>13, <1>14, <1>15 DEF IInv

\* A call returns.
LEMMA ReturnInv == ASSUME IInv, Return PROVE IInv'
<1>1. /\ steps = <<>> /\ steps' = <<>>
      /\ mix' = mix /\ blocks' = blocks /\ generation' = generation /\ graphs' = graphs
      /\ pending' = pending /\ issued' = issued /\ tails' = tails /\ fp8' = fp8
      /\ plans' = plans /\ evictions' = evictions
  BY DEF Return, device, pool, cache, attention
<1>2. StepsInOrder(steps', pending' = {}, Planned')
  BY <1>1, NothingLeft
<1>3. InOrder' /\ HostInv'
  BY <1>1, SameDevice, SameHost
<1> QED BY <1>1, <1>2, <1>3, SameCaches DEF IInv

\* With the device idle the numbering starts again.
LEMMA SettleInv == ASSUME IInv, Settle PROVE IInv'
<1>1. /\ steps' = steps /\ call' = call /\ fp8' = fp8
      /\ mix' = mix /\ blocks' = blocks /\ generation' = generation /\ graphs' = graphs
      /\ pending = {} /\ pending' = pending /\ issued' = 0
      /\ plans' = plans /\ evictions' = evictions
  BY DEF Settle, pool, cache, attention
<1>2. InOrder' /\ HostInv'
  <2>1. InOrder'
    BY <1>1 DEF InOrder, Numbered, Covered, Ordered
  <2> QED BY <1>1, <2>1, SameHost
<1>3. (pending' = {}) = (pending = {}) /\ Planned' = Planned
  BY <1>1, SamePlanned DEF Planned
<1>4. StepsInOrder(steps', pending' = {}, Planned')
  BY <1>1, <1>3 DEF IInv
<1> QED BY <1>1, <1>2, <1>4, SameCaches DEF IInv

\* A kernel that has run was not what another one comes after.
LEMMA ExecuteInv == ASSUME IInv, NEW e \in pending, Execute(e) PROVE IInv'
<1>1. /\ steps' = steps /\ call' = call /\ fp8' = fp8
      /\ mix' = mix /\ blocks' = blocks /\ generation' = generation /\ graphs' = graphs
      /\ pending' = pending \ {e} /\ issued' = issued /\ tails' = tails
      /\ plans' = plans /\ evictions' = evictions
      /\ \A x \in pending : x.id \notin e.after
  BY DEF Execute, Ready, pool, cache, attention
<1>0. Numbered /\ Covered /\ Ordered
  BY DEF IInv, InOrder
<1>2. InOrder'
  <2>1. Numbered'
    BY <1>0, <1>1 DEF Numbered
  <2>2. ASSUME NEW x \in pending' PROVE x.id \in tails[Main] \/ \E f \in pending' : x.id < f.id /\ x.id \in f.after
    <3>1. x \in pending
      BY <1>1
    <3>2. CASE x.id \in tails[Main]
      BY <3>2
    <3>3. CASE \E f \in pending : x.id < f.id /\ x.id \in f.after
      <4>1. PICK f \in pending : x.id < f.id /\ x.id \in f.after
        BY <3>3
      <4>2. f # e
        BY <3>1, <4>1, <1>1
      <4> QED BY <4>1, <4>2, <1>1
    <3> QED BY <3>1, <3>2, <3>3, <1>0 DEF Covered
  <2>3. Covered'
    BY <2>2, <1>1 DEF Covered
  <2>4. ASSUME NEW x \in pending', NEW y \in pending', x.id < y.id, Clash(x, y) PROVE Precedes(x, y)'
    <3> SUFFICES ASSUME NEW S \in SUBSET pending', Closed(S)', y \in S PROVE x \in S
      BY DEF Precedes
    <3> DEFINE T == S \cup {e}
    <3>1. T \in SUBSET pending /\ y \in T
      BY <1>1
    <3>2. Closed(T)
      BY <1>1 DEF Closed
    <3>3. Precedes(x, y)
      BY <1>0, <1>1, <2>4 DEF Ordered
    <3>4. x \in T
      <4> HIDE DEF T
      <4> QED BY <3>1, <3>2, <3>3 DEF Precedes
    <3> QED BY <3>4, <1>1
  <2>5. Ordered'
    <3>1. ASSUME NEW x \in pending', NEW y \in pending', (x.id < y.id /\ Clash(x, y))' PROVE Precedes(x, y)'
      <4>1. x.id < y.id /\ Clash(x, y)
        BY <3>1 DEF Clash, Written, Touched
      <4> QED BY <4>1, <2>4
    <3> QED BY <3>1 DEF Ordered
  <2> QED BY <2>1, <2>3, <2>5 DEF InOrder
<1>4. HostInv'
  BY <1>1, SameHost
<1>3. StepsInOrder(steps', pending' = {}, Planned')
  <2> DEFINE a == pending = {}
             p == Planned
             f == pending' = {}
             q == Planned'
  <2>1. a \in BOOLEAN /\ p \in BOOLEAN /\ f \in BOOLEAN /\ q \in BOOLEAN /\ (a => f) /\ (p => q)
    BY <1>1, SamePlanned DEF Planned
  <2>2. StepsInOrder(steps, a, p)
    BY DEF IInv
  <2> HIDE DEF a, p, f, q
  <2>3. StepsInOrder(steps, f, q)
    BY <2>1, <2>2, InOrderStill
  <2> QED BY <2>3, <1>1 DEF f, q
<1> QED BY <1>1, <1>2, <1>3, <1>4, SameCaches DEF IInv

\* Every step of the context and of the device keeps the invariant.
LEMMA NextInv == IInv /\ [Next]_vars => IInv'
<1> SUFFICES ASSUME IInv, [Next]_vars PROVE IInv'
  OBVIOUS
<1>1. CASE UNCHANGED vars
  <2>1. /\ mix' = mix /\ steps' = steps /\ call' = call /\ pending' = pending /\ issued' = issued
        /\ tails' = tails /\ blocks' = blocks /\ generation' = generation /\ graphs' = graphs
        /\ plans' = plans /\ evictions' = evictions /\ fp8' = fp8
    BY <1>1 DEF vars, host, device, pool, cache, attention
  <2>2. (pending' = {}) = (pending = {}) /\ Planned' = Planned
    BY <2>1, SamePlanned DEF Planned
  <2>3. StepsInOrder(steps', pending' = {}, Planned')
    BY <2>1, <2>2 DEF IInv
  <2>4. InOrder' /\ HostInv'
    BY <2>1, SameDevice, SameHost
  <2> QED BY <2>1, <2>3, <2>4, SameCaches DEF IInv
<1>2. ASSUME NEW p \in mix, BeginCall(p) \/ AllocationFails(p) PROVE IInv'
  BY <1>2, BeginCallInv, AllocationFailsInv
<1>3. CASE Stage \/ Read \/ Remember \/ Synchronize \/ EnqueueOps
  BY <1>3, StageInv, ReadInv, RememberInv, SynchronizeInv, EnqueueOpsInv
<1>4. CASE LaunchAsGraph \/ LaunchDirectly \/ Lookup \/ BuildFails \/ Capture
  BY <1>4, LaunchAsGraphInv, LaunchDirectlyInv, LookupInv, BuildFailsInv, CaptureInv
<1>5. CASE Return \/ Settle
  BY <1>5, ReturnInv, SettleInv
<1>6. ASSUME NEW e \in pending, Execute(e) PROVE IInv'
  BY <1>6, ExecuteInv
<1> QED BY <1>1, <1>2, <1>3, <1>4, <1>5, <1>6, Zenon DEF Next, HostStep

-----------------------------------------------------------------------------
(* Launch code that is run one kernel after the other.                     *)

\* The last of the kernels that write b is one.
LEMMA LastWrites ==
    ASSUME NEW out, NEW n \in Nat, NEW b, WritersOf(out, n, b) # {}
    PROVE  LET k == LastWriter(out, n, b)
           IN  k \in WritersOf(out, n, b) /\ \A j \in WritersOf(out, n, b) : j <= k
<1>1. WritersOf(out, n, b) \subseteq 1 .. n
  BY DEF WritersOf
<1>2. \E k \in WritersOf(out, n, b) : \A j \in WritersOf(out, n, b) : j <= k
  BY <1>1, Greatest
<1> QED BY <1>2 DEF LastWriter

\* Writes of s are counted in natural numbers, and no others are.
Counted == \A b \in DOMAIN version : version[b] \in Nat
LEMMA CountsWrites ==
    ASSUME Counted, NEW out, NEW n \in Nat, NEW s
    PROVE  /\ Count(version, s) \in Nat
           /\ CountAfter(out, n, s) \in Nat
           /\ ~Renewed(out, 0, n, s) => CountAfter(out, n, s) = Count(version, s)
           /\ \A k \in 0 .. n : ~Renewed(out, k, n, s) => CountAfter(out, k, s) = CountAfter(out, n, s)
<1> DEFINE F(m) == {i \in 1 .. m : s \in out[i].fresh}
           c == Count(version, s)
<1>1. c \in Nat
  BY DEF Count, Counted
<1>2. ASSUME NEW m PROVE CountAfter(out, m, s) = c + Cardinality(F(m))
  BY DEF CountAfter
<1>3. Cardinality(F(n)) \in Nat
  <2>1. IsFiniteSet(1 .. n)
    BY FS_Interval
  <2>2. IsFiniteSet(F(n))
    BY <2>1, FS_Subset
  <2> QED BY <2>2, FS_CardinalityType
<1>4. ASSUME ~Renewed(out, 0, n, s) PROVE Cardinality(F(n)) = 0
  <2>1. F(n) = {}
    BY <1>4 DEF Renewed
  <2> QED BY <2>1, FS_EmptySet
<1>5. ASSUME NEW k \in 0 .. n, ~Renewed(out, k, n, s) PROVE F(k) = F(n)
  BY <1>5 DEF Renewed
<1> HIDE DEF F, c
<1> QED BY <1>1, <1>2, <1>3, <1>4, <1>5 DEF c

-----------------------------------------------------------------------------
(* What a buffer will hold when it is the turn of the n-th kernel.         *)

Earlier(b, n) == {w \in pending : w.id < n /\ b \in Written(w)}
Finds(b, n, v) ==
    \/ Earlier(b, n) = {} /\ Holds(b) = v
    \/ \E w \in Earlier(b, n) : <<b, v>> \in w.gives /\ \A u \in Earlier(b, n) : u.id <= w.id
Current(b) == Finds(b, issued + 1, <<b, Count(version, b)>>)
Valued ==
    /\ \A e \in pending : \A x, y \in e.gives : x[1] = y[1] => x = y
    /\ \A e \in pending : \A x \in e.expects : Finds(x[1], e.id, x[2])

\* What is there once something new is.
LEMMA Override ==
    ASSUME NEW f, NEW g, NEW c
    PROVE  /\ c \in DOMAIN Over(f, g) <=> c \in DOMAIN f \/ c \in DOMAIN g
           /\ c \in DOMAIN f => Over(f, g)[c] = f[c]
           /\ c \notin DOMAIN f /\ c \in DOMAIN g => Over(f, g)[c] = g[c]
BY DEF Over

\* Whatever executes does not change it.
LEMMA ExecutionFinds ==
    ASSUME Numbered, Ordered, NEW e \in pending, Ready(e), \A x, y \in e.gives : x[1] = y[1] => x = y,
           pending' = pending \ {e}, NEW b,
           memory' = Over([c \in {x[1] : x \in e.gives} |-> (CHOOSE x \in e.gives : x[1] = c)[2]], memory),
           NEW n \in Nat, NEW v, Finds(b, n, v),
           e.id >= n => b \notin Written(e)
    PROVE  Finds(b, n, v)'
<1> DEFINE old == Earlier(b, n)
           new == {w \in pending \ {e} : w.id < n /\ b \in Written(w)}
<1> DEFINE given == [c \in {x[1] : x \in e.gives} |-> (CHOOSE x \in e.gives : x[1] = c)[2]]
<1>0. memory' = Over(given, memory) /\ DOMAIN given = {x[1] : x \in e.gives}
  OBVIOUS
<1>8. \A c \in {x[1] : x \in e.gives} : given[c] = (CHOOSE x \in e.gives : x[1] = c)[2]
  OBVIOUS
<1> HIDE DEF given
<1>1. Earlier(b, n)' = new
  BY DEF Earlier, Written
<1>2. new = old \ {e}
  BY DEF Earlier
<1>3. ASSUME b \notin Written(e) PROVE Holds(b)' = Holds(b) /\ e \notin old
  <2>1. b \notin {x[1] : x \in e.gives}
    BY <1>3 DEF Written
  <2>2. /\ b \in DOMAIN memory' <=> b \in DOMAIN memory
        /\ b \in DOMAIN memory => memory'[b] = memory[b]
    BY <2>1, <1>0, Override
  <2> QED BY <1>3, <2>2 DEF Holds, Earlier
<1>4. ASSUME b \in Written(e) PROVE \A w \in old : w.id >= e.id
  <2>1. SUFFICES ASSUME NEW w \in old, w.id < e.id PROVE FALSE
    BY DEF Earlier, Numbered
  <2>2. w \in pending /\ Clash(w, e)
    BY <1>4 DEF Earlier, Clash, Touched, Written
  <2>3. Precedes(w, e)
    BY <2>1, <2>2 DEF Ordered
  <2>4. Closed({e})
    BY DEF Closed, Ready
  <2>5. w \in {e}
    BY <2>3, <2>4 DEF Precedes
  <2> QED BY <2>1, <2>5 DEF Numbered
<1>5. ASSUME NEW x, <<b, x>> \in e.gives PROVE Holds(b)' = x
  <2>1. b \in {y[1] : y \in e.gives}
    BY <1>5
  <2>2. (CHOOSE y \in e.gives : y[1] = b) = <<b, x>>
    BY <1>5
  <2>3. b \in DOMAIN memory' /\ memory'[b] = x
    BY <2>1, <2>2, <1>0, <1>8, Override
  <2> QED BY <2>3 DEF Holds
<1> HIDE DEF old, new
<1>6. CASE old = {}
  <2>1. new = {} /\ Holds(b) = v
    BY <1>2, <1>6 DEF Finds, old
  <2>2. b \notin Written(e)
    <3>1. e.id \in Nat /\ ~(e.id < n /\ b \in Written(e))
      BY <1>6 DEF old, Earlier, Numbered
    <3> QED BY <3>1
  <2> QED BY <2>1, <2>2, <1>1, <1>3 DEF Finds
<1>7. CASE old # {}
  <2>1. PICK w \in old : <<b, v>> \in w.gives /\ \A u \in old : u.id <= w.id
    BY <1>7 DEF Finds, old
  <2>2. CASE w # e
    <3>1. w \in new /\ \A u \in new : u.id <= w.id
      BY <2>1, <2>2, <1>2
    <3> QED BY <3>1, <2>1, <1>1 DEF Finds
  <2>3. CASE w = e
    <3>1. b \in Written(e)
      BY <2>1, <2>3 DEF old, Earlier
    <3>2. old = {e}
      <4>1. ASSUME NEW u \in old PROVE u = e
        <5>1. u.id <= e.id /\ u.id >= e.id /\ u \in pending
          BY <4>1, <2>1, <2>3, <1>4, <3>1 DEF old, Earlier
        <5> QED BY <5>1 DEF Numbered
      <4> QED BY <4>1, <2>1, <2>3
    <3>3. new = {} /\ Holds(b)' = v
      BY <3>2, <1>2, <1>5, <2>1, <2>3
    <3> QED BY <3>3, <1>1 DEF Finds
  <2> QED BY <2>2, <2>3
<1> QED BY <1>6, <1>7

\* The kernels that write b and enter come after those that did before.
LEMMA EarlierEntered ==
    ASSUME Numbered, NEW out, NEW replay, NEW last, EnterAll(out, replay, last), SafeOut(out),
           NEW n \in 0 .. Len(out), NEW b, NEW k, k = issued + n + 1
    PROVE  Earlier(b, k)' = Earlier(b, issued + 1) \cup {Enter(out, i, replay) : i \in WritersOf(out, n, b)}
<1> DEFINE E(i) == Enter(out, i, replay)
           m == Len(out)
<1>1. /\ m \in Nat /\ issued \in Nat /\ pending' = pending \cup {E(i) : i \in 1 .. m}
      /\ \A i \in 1 .. m : E(i).id = issued + i /\ Written(E(i)) = WritesOf(out, i)
  BY Entered DEF Numbered
<1>2. \A e \in pending : e.id \in 1 .. issued
  BY DEF Numbered
<1>3. Earlier(b, k)' = {w \in pending' : w.id < k /\ b \in Written(w)}
  BY DEF Earlier, Written
<1>4. Earlier(b, issued + 1) = {w \in pending : b \in Written(w)}
  BY <1>1, <1>2 DEF Earlier
<1>5. ASSUME NEW i \in 1 .. m PROVE i \in WritersOf(out, n, b) <=> E(i).id < k /\ b \in Written(E(i))
  <2>1. i \in WritersOf(out, n, b) <=> i <= n /\ b \in WritesOf(out, i)
    BY <1>1 DEF WritersOf, WritesOf
  <2> HIDE DEF E, m
  <2> QED BY <2>1, <1>1
<1>6. WritersOf(out, n, b) \subseteq 1 .. m
  BY <1>1 DEF WritersOf
<1> HIDE DEF E, m
<1>7. ASSUME NEW w PROVE w \in Earlier(b, k)' <=> w \in Earlier(b, issued + 1) \/ \E i \in WritersOf(out, n, b) : w = E(i)
  <2>1. CASE w \in pending
    <3>1. w.id < k
      BY <2>1, <1>1, <1>2
    <3>2. w \in Earlier(b, k)' <=> b \in Written(w)
      BY <2>1, <3>1, <1>1, <1>3
    <3>3. (\E i \in WritersOf(out, n, b) : w = E(i)) => b \in Written(w)
      BY <1>5, <1>6
    <3> QED BY <3>2, <3>3, <2>1, <1>4
  <2>2. CASE w \notin pending
    <3>1. w \notin Earlier(b, issued + 1)
      BY <2>2, <1>4
    <3>2. w \in Earlier(b, k)' <=> \E i \in 1 .. m : w = E(i) /\ E(i).id < k /\ b \in Written(E(i))
      BY <2>2, <1>1, <1>3
    <3> QED BY <3>1, <3>2, <1>5, <1>6
  <2> QED BY <2>1, <2>2
<1> QED BY <1>7 DEF E

\* What the first n kernels of a code keep is there when it is the turn of the next.
LEMMA KeptIsFound ==
    ASSUME Numbered, Counted, NEW out, NEW replay, NEW last, EnterAll(out, replay, last), SafeOut(out),
           NEW K, \A c \in K : Current(c),
           NEW n \in 0 .. Len(out), NEW b, NEW s, Keeps(out, K, n, b, s), NEW k, k = issued + n + 1,
           NEW v, v = CountAfter(out, n, s)
    PROVE  Finds(b, k, <<s, v>>)'
<1> DEFINE E(i) == Enter(out, i, replay)
           W == WritersOf(out, n, b)
           old == Earlier(b, issued + 1)
<1>1. n \in Nat /\ issued \in Nat /\ Len(out) \in Nat /\ \A i \in 1 .. Len(out) : E(i).id = issued + i
  BY Entered DEF Numbered
<1>2. Earlier(b, k)' = old \cup {E(i) : i \in W}
  BY EarlierEntered
<1>3. Holds(b)' = Holds(b)
  <2>1. memory' = memory
    BY DEF EnterAll
  <2> QED BY <2>1 DEF Holds
<1>4. /\ ~Renewed(out, 0, n, s) => v = Count(version, s)
      /\ \A i \in 0 .. n : ~Renewed(out, i, n, s) => CountAfter(out, i, s) = v
  BY <1>1, CountsWrites
<1>5. W \subseteq 1 .. n
  BY DEF WritersOf
<1> HIDE DEF W
<1>6. CASE W = {}
  <2>1. b = s /\ Current(b) /\ ~Renewed(out, 0, n, s)
    BY <1>6 DEF Keeps, W
  <2>2. Finds(b, issued + 1, <<s, v>>) /\ Earlier(b, k)' = old
    BY <2>1, <1>4, <1>2, <1>6 DEF Current
  <2> HIDE DEF old, E
  <2>3. CASE old = {} /\ Holds(b) = <<s, v>>
    BY <2>2, <2>3, <1>3 DEF Finds
  <2>4. CASE \E w \in old : <<b, <<s, v>>>> \in w.gives /\ \A u \in old : u.id <= w.id
    BY <2>2, <2>4 DEF Finds
  <2> QED BY <2>2, <2>3, <2>4 DEF Finds, old
<1>7. CASE W # {}
  <2> DEFINE l == LastWriter(out, n, b)
  <2>1. l \in W /\ \A j \in W : j <= l
    BY <1>1, <1>7, LastWrites DEF W
  <2>2. <<b, s>> \in out[l].writes /\ ~Renewed(out, l, n, s)
    BY <1>7 DEF Keeps, W
  <2> HIDE DEF l
  <2>3. l \in 0 .. n /\ l \in 1 .. Len(out)
    BY <2>1, <1>1, <1>5
  <2>4. CountAfter(out, l, s) = v
    BY <2>2, <2>3, <1>4
  <2>5. <<b, <<s, v>>>> \in E(l).gives
    <3>1. E(l).gives = {<<x[1], <<x[2], CountAfter(out, l, x[2])>>>> : x \in out[l].writes}
      BY DEF Enter
    <3> HIDE DEF E
    <3> QED BY <3>1, <2>2, <2>4
  <2> HIDE DEF E, old
  <2>6. ASSUME NEW u \in Earlier(b, k)' PROVE u.id <= E(l).id
    <3>1. CASE u \in old
      <4>1. u.id \in 1 .. issued
        BY <3>1 DEF old, Earlier, Numbered
      <4> QED BY <4>1, <2>3, <1>1
    <3>2. CASE \E i \in W : u = E(i)
      <4>1. PICK i \in W : u = E(i)
        BY <3>2
      <4>2. i <= l /\ i \in 1 .. Len(out)
        BY <2>1, <1>1, <1>5
      <4> QED BY <4>1, <4>2, <2>3, <1>1
    <3> QED BY <2>6, <3>1, <3>2, <1>2
  <2>7. E(l) \in Earlier(b, k)'
    BY <1>2, <2>1
  <2> QED BY <2>5, <2>6, <2>7 DEF Finds
<1> QED BY <1>6, <1>7

\* Code that is supplied finds what it reads, and leaves what it is to leave.
LEMMA EnterCurrent ==
    ASSUME Numbered, Counted, Valued, NEW out, NEW replay, NEW last, EnterAll(out, replay, last), SafeOut(out),
           NEW K, NEW L, Supports(out, K, L), \A b \in K : Current(b)
    PROVE  Counted' /\ Valued' /\ \A b \in L : Current(b)'
<1> DEFINE E(i) == Enter(out, i, replay)
           n == Len(out)
<1>1. /\ n \in Nat /\ issued \in Nat /\ issued' = issued + n
      /\ pending' = pending \cup {E(i) : i \in 1 .. n}
      /\ \A i \in 1 .. n : E(i).id = issued + i
  BY Entered DEF Numbered
<1>2. DOMAIN out = 1 .. n
  BY Sequence DEF SafeOut
<1>3. /\ memory' = memory
      /\ version' = [b \in DOMAIN version \cup UNION {out[i].fresh : i \in DOMAIN out} |-> CountAfter(out, n, b)]
  BY DEF EnterAll
<1>4. ASSUME NEW b PROVE Count(version', b) = CountAfter(out, n, b)
  <2> DEFINE D == DOMAIN version \cup UNION {out[i].fresh : i \in DOMAIN out}
  <2>1. CASE b \in D
    <3>1. b \in DOMAIN version' /\ version'[b] = CountAfter(out, n, b)
      BY <1>3, <2>1
    <3> QED BY <3>1 DEF Count
  <2>2. CASE b \notin D
    <3>1. b \notin DOMAIN version' /\ b \notin DOMAIN version
      BY <1>3, <2>2
    <3>2. ~Renewed(out, 0, n, b)
      BY <2>2, <1>2 DEF Renewed
    <3>3. CountAfter(out, n, b) = Count(version, b)
      BY <1>1, <3>2, CountsWrites
    <3> QED BY <3>1, <3>3 DEF Count
  <2> QED BY <2>1, <2>2
<1>5. Counted'
  <2>1. ASSUME NEW b \in DOMAIN version' PROVE version'[b] \in Nat
    <3>1. version'[b] = Count(version', b)
      BY <2>1 DEF Count
    <3>2. CountAfter(out, n, b) \in Nat
      BY <1>1, CountsWrites
    <3> QED BY <3>1, <3>2, <1>4
  <2> QED BY <2>1 DEF Counted
<1>6. ASSUME NEW m \in 0 .. n, NEW b, NEW s, Keeps(out, K, m, b, s), NEW k, k = issued + m + 1,
             NEW v, v = CountAfter(out, m, s)
      PROVE  Finds(b, k, <<s, v>>)'
  BY <1>6, KeptIsFound
<1>7. ASSUME NEW b \in L PROVE Current(b)'
  <2>1. Keeps(out, K, n, b, b) /\ n \in 0 .. n
    BY <1>1, <1>7 DEF Supports
  <2>2. PICK k : k = issued + n + 1
    OBVIOUS
  <2>3. PICK v : v = CountAfter(out, n, b)
    OBVIOUS
  <2>4. Finds(b, k, <<b, v>>)'
    BY <2>1, <2>2, <2>3, <1>6
  <2>5. issued' + 1 = k /\ Count(version', b) = v
    BY <1>1, <1>4, <2>2, <2>3
  <2>6. Count(version, b)' = v
    BY <2>5 DEF Count
  <2> QED BY <2>4, <2>5, <2>6 DEF Current
<1>8. ASSUME NEW e \in pending, NEW x \in e.expects PROVE Finds(x[1], e.id, x[2])'
  <2>1. Finds(x[1], e.id, x[2]) /\ e.id \in 1 .. issued
    BY <1>8 DEF Valued, Numbered
  <2>2. Holds(x[1])' = Holds(x[1])
    BY <1>3 DEF Holds
  <2>3. Earlier(x[1], e.id)' = Earlier(x[1], e.id)
    <3>1. \A i \in 1 .. n : ~(E(i).id < e.id)
      BY <1>1, <2>1
    <3> HIDE DEF E
    <3> QED BY <3>1, <1>1 DEF Earlier, Written
  <2> QED BY <2>1, <2>2, <2>3 DEF Finds
<1>9. ASSUME NEW j \in 1 .. n, NEW e, e = E(j), NEW x \in e.expects PROVE Finds(x[1], e.id, x[2])'
  <2>1. j \in DOMAIN out /\ j - 1 \in 0 .. n /\ e.id = issued + (j - 1) + 1
    BY <1>1, <1>2, <1>9
  <2>2. PICK k : k = issued + (j - 1) + 1
    OBVIOUS
  <2>3. e.expects = {<<y[1], <<y[2], CountAfter(out, j - 1, y[2])>>>> : y \in out[j].reads}
                       \cup {ScaleAfter(out, j - 1, y) : y \in out[j].scales}
    BY <1>9 DEF Enter
  <2>4. /\ \A y \in out[j].reads : Keeps(out, K, j - 1, y[1], y[2])
        /\ \A y \in out[j].scales : KeepsScales(out, j - 1, y)
    BY <2>1 DEF Supports
  <2>5. ASSUME NEW y \in out[j].reads, x = <<y[1], <<y[2], CountAfter(out, j - 1, y[2])>>>>
        PROVE  Finds(x[1], k, x[2])'
    <3>1. PICK v : v = CountAfter(out, j - 1, y[2])
      OBVIOUS
    <3>2. Finds(y[1], k, <<y[2], v>>)'
      BY <2>1, <2>2, <2>4, <2>5, <3>1, <1>6
    <3>3. x[1] = y[1] /\ x[2] = <<y[2], v>>
      BY <2>5, <3>1
    <3> QED BY <3>2, <3>3
  <2>6. ASSUME NEW y \in out[j].scales, x = ScaleAfter(out, j - 1, y)
        PROVE  Finds(x[1], k, x[2])'
    <3> DEFINE l == LastKeeping(out, j - 1, y)
               b == out[l].keeps[2]
               s == out[l].keeps[3]
               W(m) == WritersOf(out, m, b)
    <3>1. Keeping(out, j - 1, y) # {}
      BY <2>1, <2>6 DEF SafeOut, RaceFree
    <3>2. x = <<b, <<s, CountAfter(out, l, s)>>>>
      BY <2>6, <3>1, Zenon DEF ScaleAfter
    <3>3. Keeps(out, {}, l, b, s) /\ W(j - 1) \subseteq 1 .. l
      BY <2>4, <2>6, Zenon DEF KeepsScales
    <3>4. l \in 1 .. j - 1
      <4> DEFINE h == j - 1
                 T == Keeping(out, h, y)
      <4>1. T \subseteq 1 .. h /\ h \in Nat /\ T # {}
        BY <3>1, <1>1 DEF Keeping
      <4>2. l = CHOOSE i \in T : \A g \in T : g <= i
        BY DEF LastKeeping
      <4> HIDE DEF T, h, l
      <4>3. \E i \in T : \A g \in T : g <= i
        BY <4>1, Greatest
      <4> QED BY <4>1, <4>2, <4>3 DEF h
    <3>5. Keeps(out, K, l, b, s) /\ l \in 0 .. n
      <4>1. Keeps(out, K, l, b, s)
        BY <3>3 DEF Keeps
      <4> HIDE DEF l
      <4> QED BY <4>1, <3>4, <1>1
    <3> HIDE DEF l, b, s
    <3>6. PICK v : v = CountAfter(out, l, s)
      OBVIOUS
    <3>7. PICK k0 : k0 = issued + l + 1
      OBVIOUS
    <3>8. Finds(b, k0, <<s, v>>)'
      BY <3>5, <3>6, <3>7, <1>6
    <3>9. W(j - 1) = W(l)
      BY <3>3, <3>4, <1>1 DEF WritersOf
    <3>10. Earlier(b, k)' = Earlier(b, k0)'
      <4>1. Earlier(b, k)' = Earlier(b, issued + 1) \cup {E(i) : i \in W(j - 1)}
        BY <2>1, <2>2, EarlierEntered
      <4>2. Earlier(b, k0)' = Earlier(b, issued + 1) \cup {E(i) : i \in W(l)}
        BY <3>5, <3>7, EarlierEntered
      <4> QED BY <4>1, <4>2, <3>9
    <3>11. Finds(b, k, <<s, v>>)'
      BY <3>8, <3>10 DEF Finds
    <3>12. x[1] = b /\ x[2] = <<s, v>>
      BY <3>2, <3>6
    <3> QED BY <3>11, <3>12
  <2> HIDE DEF E
  <2>7. Finds(x[1], k, x[2])'
    BY <1>9, <2>3, <2>5, <2>6
  <2> QED BY <2>1, <2>2, <2>7
<1>10. ASSUME NEW j \in 1 .. n, NEW x \in E(j).gives, NEW y \in E(j).gives, x[1] = y[1] PROVE x = y
  <2> DEFINE G(z) == <<z[1], <<z[2], CountAfter(out, j, z[2])>>>>
             W == out[j].writes
  <2>1. E(j).gives = {G(z) : z \in W}
    BY DEF Enter
  <2>2. \A a, b \in W : a[1] = b[1] => a = b
    BY <1>2 DEF Supports
  <2>3. \A z : G(z)[1] = z[1]
    OBVIOUS
  <2> HIDE DEF E, G, W
  <2>4. PICK a \in W, b \in W : x = G(a) /\ y = G(b)
    BY <1>10, <2>1
  <2>5. a = b
    BY <1>10, <2>2, <2>3, <2>4
  <2> QED BY <2>4, <2>5
<1>11. Valued'
  <2> HIDE DEF E
  <2>1. ASSUME NEW e \in pending', NEW x \in e.expects PROVE Finds(x[1], e.id, x[2])'
    <3>1. CASE e \in pending
      BY <2>1, <3>1, <1>8
    <3>2. CASE \E j \in 1 .. n : e = E(j)
      BY <2>1, <3>2, <1>9
    <3> QED BY <3>1, <3>2, <1>1
  <2>2. ASSUME NEW e \in pending', NEW x \in e.gives, NEW y \in e.gives, x[1] = y[1] PROVE x = y
    <3>1. CASE e \in pending
      BY <2>2, <3>1 DEF Valued
    <3>2. CASE e \notin pending
      BY <2>2, <3>2, <1>1, <1>10
    <3> QED BY <3>1, <3>2
  <2> QED BY <2>1, <2>2 DEF Valued
<1> QED BY <1>5, <1>7, <1>11

-----------------------------------------------------------------------------
(* What the steps of a call find and leave.                                *)

\* A step runs launch code of a program; a graph of call p is of its own code.
OwnStep(p, s) ==
    /\ s.do \in {"enqueue", "capture"} => s.ops \in Codes
    /\ s.do = "launch" => CodesOf(s.ops) \subseteq Codes
    /\ s.do \in {"launch", "capture"} /\ s.graph \in Policies => s.ops \in Recorded(p, s.graph)

\* Where the buffers K are current the steps find what they use, and leave L so.
Feeds(p, ss, K, L) ==
    /\ \E S : S[0] = K /\ S[Len(ss)] = L /\ Supplied(p, ss, S)
    /\ \A i \in DOMAIN ss : OwnStep(p, ss[i])

\* One element after another.
LEMMA Pair == ASSUME NEW a, NEW b PROVE <<a>> \o <<b>> = <<a, b>> /\ IsSequence(<<a>>) /\ IsSequence(<<b>>)
<1> DEFINE s == <<a>>
           t == <<b>>
           u == <<a, b>>
           T == {a, b}
<1>1. s \in Seq(T) /\ t \in Seq(T) /\ u \in Seq(T)
  OBVIOUS
<1>2. Len(s) = 1 /\ Len(t) = 1 /\ Len(u) = 2 /\ s[1] = a /\ t[1] = b /\ u[1] = a /\ u[2] = b
  OBVIOUS
<1> HIDE DEF s, t, u, T
<1>3. IsSequence(s) /\ IsSequence(t)
  BY <1>1, OwnSequence
<1>4. s \o t \in Seq(T) /\ Len(s \o t) = 2 /\ (s \o t)[1] = a /\ (s \o t)[2] = b
  <2>1. /\ Len(s \o t) = Len(s) + Len(t)
        /\ \A i \in 1 .. Len(s) : (s \o t)[i] = s[i]
        /\ \A i \in Len(s) + 1 .. Len(s) + Len(t) : (s \o t)[i] = t[i - Len(s)]
    BY <1>3, Concatenated
  <2>2. 1 \in 1 .. Len(s) /\ 2 \in Len(s) + 1 .. Len(s) + Len(t) /\ 2 - Len(s) = 1
    BY <1>2
  <2>3. s \o t \in Seq(T)
    BY <1>1
  <2> QED BY <2>1, <2>2, <2>3, <1>2
<1>5. s \o t = u
  <2>1. \A i \in 1 .. 2 : (s \o t)[i] = u[i]
    <3>1. \A i \in 1 .. 2 : i = 1 \/ i = 2
      OBVIOUS
    <3> QED BY <3>1, <1>2, <1>4
  <2> QED BY <2>1, <1>1, <1>2, <1>4
<1> QED BY <1>3, <1>5 DEF s, t, u

\* One step does what it does.
LEMMA FedOne ==
    ASSUME NEW p, NEW s, NEW K, NEW L, OwnStep(p, s), Carries(p, s, K, L), Persistent \subseteq K, Persistent \subseteq L
    PROVE  Feeds(p, <<s>>, K, L)
<1> DEFINE S == [i \in 0 .. 1 |-> IF i = 0 THEN K ELSE L]
           ss == <<s>>
<1>1. Len(ss) = 1 /\ DOMAIN ss = {1} /\ ss[1] = s
  OBVIOUS
<1>2. S[0] = K /\ S[1] = L
  OBVIOUS
<1> HIDE DEF S, ss
<1>3. \A i \in 0 .. Len(ss) : Persistent \subseteq S[i]
  <2>1. \A i \in 0 .. 1 : i = 0 \/ i = 1
    OBVIOUS
  <2> QED BY <2>1, <1>1, <1>2
<1>4. \A i \in DOMAIN ss : Carries(p, ss[i], S[i - 1], S[i])
  <2>1. 1 - 1 = 0
    OBVIOUS
  <2> QED BY <2>1, <1>1, <1>2
<1>5. Supplied(p, ss, S)
  BY <1>3, <1>4 DEF Supplied
<1>6. Feeds(p, ss, K, L)
  BY <1>1, <1>2, <1>5 DEF Feeds
<1> QED BY <1>6 DEF ss

\* No steps do nothing.
LEMMA FedNothing ==
    ASSUME NEW p, NEW K, Persistent \subseteq K
    PROVE  Feeds(p, <<>>, K, K)
<1> DEFINE S == [i \in {0} |-> K]
           ss == <<>>
<1>1. S[0] = K /\ Len(ss) = 0 /\ DOMAIN ss = {}
  OBVIOUS
<1> HIDE DEF S, ss
<1>2. \A i \in 0 .. Len(ss) : i = 0
  BY <1>1
<1>3. Supplied(p, ss, S)
  BY <1>1, <1>2 DEF Supplied
<1>4. Feeds(p, ss, K, K)
  BY <1>1, <1>3 DEF Feeds
<1> QED BY <1>4 DEF ss

\* The first step, and then the others.
LEMMA FedFirst ==
    ASSUME NEW p, NEW ss, IsSequence(ss), ss # <<>>, NEW K, NEW M, Feeds(p, ss, K, M)
    PROVE  /\ OwnStep(p, ss[1]) /\ Persistent \subseteq K
           /\ \E L : Carries(p, ss[1], K, L) /\ Persistent \subseteq L /\ Feeds(p, Tail(ss), L, M)
<1> DEFINE t == Tail(ss)
           n == Len(ss)
<1>1. /\ IsSequence(t) /\ Len(t) = n - 1 /\ n \in Nat \ {0}
      /\ \A i \in 1 .. n - 1 : t[i] = ss[i + 1]
  BY TailOf
<1>2. DOMAIN t = 1 .. n - 1 /\ DOMAIN ss = 1 .. n
  BY <1>1, Sequence
<1>3. PICK S : S[0] = K /\ S[n] = M /\ Supplied(p, ss, S)
  BY DEF Feeds
<1> DEFINE R == [i \in 0 .. n - 1 |-> S[i + 1]]
<1>4. R[0] = S[1] /\ R[n - 1] = M /\ \A i \in 0 .. n - 1 : R[i] = S[i + 1]
  <2>1. 0 \in 0 .. n - 1 /\ n - 1 \in 0 .. n - 1 /\ n - 1 + 1 = n /\ 0 + 1 = 1
    BY <1>1
  <2> QED BY <2>1, <1>3
<1>5. 1 \in DOMAIN ss /\ 0 \in 0 .. n /\ 1 \in 0 .. n /\ 1 - 1 = 0
  BY <1>1, <1>2
<1> HIDE DEF t, n, R
<1>6. (\A i \in 0 .. n : Persistent \subseteq S[i]) /\ \A i \in DOMAIN ss : Carries(p, ss[i], S[i - 1], S[i])
  BY <1>3 DEF Supplied, n
<1>7. Carries(p, ss[1], K, S[1]) /\ Persistent \subseteq K /\ Persistent \subseteq S[1] /\ OwnStep(p, ss[1])
  BY <1>3, <1>5, <1>6 DEF Feeds
<1>8. Supplied(p, t, R)
  <2>1. ASSUME NEW i \in 0 .. Len(t) PROVE Persistent \subseteq R[i]
    <3>1. i \in 0 .. n - 1 /\ i + 1 \in 0 .. n
      BY <1>1
    <3> QED BY <3>1, <1>4, <1>6
  <2>2. ASSUME NEW i \in DOMAIN t PROVE Carries(p, t[i], R[i - 1], R[i])
    <3>1. i \in 1 .. n - 1 /\ i - 1 \in 0 .. n - 1 /\ i \in 0 .. n - 1 /\ i + 1 \in 1 .. n /\ i + 1 - 1 = i /\ i - 1 + 1 = i
      BY <1>1, <1>2
    <3>2. t[i] = ss[i + 1] /\ R[i - 1] = S[i] /\ R[i] = S[i + 1]
      BY <3>1, <1>1, <1>4
    <3>3. Carries(p, ss[i + 1], S[i + 1 - 1], S[i + 1])
      BY <3>1, <1>2, <1>6
    <3> QED BY <3>1, <3>2, <3>3
  <2> QED BY <2>1, <2>2 DEF Supplied
<1>9. \A i \in DOMAIN t : OwnStep(p, t[i])
  <2>1. ASSUME NEW i \in DOMAIN t PROVE OwnStep(p, t[i])
    <3>1. i + 1 \in DOMAIN ss /\ t[i] = ss[i + 1]
      BY <1>1, <1>2
    <3> QED BY <3>1 DEF Feeds
  <2> QED BY <2>1
<1>10. Feeds(p, t, S[1], M)
  BY <1>1, <1>4, <1>8, <1>9 DEF Feeds
<1> QED BY <1>7, <1>10 DEF t

\* Steps after steps.
LEMMA FedTogether ==
    ASSUME NEW p, NEW ss, NEW tt, IsSequence(ss), IsSequence(tt), NEW K, NEW L, NEW M,
           Feeds(p, ss, K, L), Feeds(p, tt, L, M)
    PROVE  Feeds(p, ss \o tt, K, M)
<1> DEFINE t == ss \o tt
           m == Len(ss)
           n == Len(tt)
<1>1. /\ IsSequence(t) /\ Len(t) = m + n /\ m \in Nat /\ n \in Nat
      /\ \A i \in 1 .. m : t[i] = ss[i]
      /\ \A i \in m + 1 .. m + n : t[i] = tt[i - m]
  BY Concatenated
<1>2. DOMAIN t = 1 .. m + n /\ DOMAIN ss = 1 .. m /\ DOMAIN tt = 1 .. n
  BY <1>1, Sequence
<1>3. PICK A : A[0] = K /\ A[m] = L /\ Supplied(p, ss, A)
  BY DEF Feeds
<1>4. PICK B : B[0] = L /\ B[n] = M /\ Supplied(p, tt, B)
  BY DEF Feeds
<1> DEFINE R == [i \in 0 .. m + n |-> IF i <= m THEN A[i] ELSE B[i - m]]
<1>5. /\ \A i \in 0 .. m : R[i] = A[i]
      /\ \A i \in m .. m + n : R[i] = B[i - m]
  <2>1. ASSUME NEW i \in 0 .. m PROVE R[i] = A[i]
    BY <1>1
  <2>2. ASSUME NEW i \in m .. m + n PROVE R[i] = B[i - m]
    <3>1. i \in 0 .. m + n
      BY <1>1
    <3>2. CASE i = m
      <4>1. i - m = 0 /\ i <= m
        BY <1>1, <3>2
      <4> QED BY <3>1, <3>2, <4>1, <1>3, <1>4
    <3>3. CASE i # m
      <4>1. ~(i <= m)
        BY <1>1, <3>3
      <4> QED BY <3>1, <4>1
    <3> QED BY <3>2, <3>3
  <2> QED BY <2>1, <2>2
<1> HIDE DEF t, m, n, R
<1>6. R[0] = K /\ R[m + n] = M
  <2>1. PICK z : z = m + n
    OBVIOUS
  <2>2. 0 \in 0 .. m /\ z \in m .. m + n /\ z - m = n
    BY <1>1, <2>1
  <2>3. R[0] = A[0]
    BY <2>2, <1>5
  <2>4. R[z] = B[z - m]
    BY <2>2, <1>5
  <2> QED BY <2>1, <2>2, <2>3, <2>4, <1>3, <1>4
<1>7. ASSUME NEW i \in 1 .. m PROVE Carries(p, t[i], R[i - 1], R[i]) /\ OwnStep(p, t[i]) /\ Persistent \subseteq R[i - 1]
  <2>1. i \in 0 .. m /\ i - 1 \in 0 .. m
    BY <1>1
  <2> QED BY <2>1, <1>1, <1>2, <1>3, <1>5 DEF Supplied, Feeds, m
<1>8. ASSUME NEW i \in m + 1 .. m + n
      PROVE  Carries(p, t[i], R[i - 1], R[i]) /\ OwnStep(p, t[i]) /\ Persistent \subseteq R[i - 1] /\ Persistent \subseteq R[i]
  <2> DEFINE k == i - m
  <2>1. k \in 1 .. n /\ k \in 0 .. n /\ k - 1 \in 0 .. n /\ i \in m .. m + n /\ i - 1 \in m .. m + n /\ i - 1 - m = k - 1
    BY <1>1
  <2>2. t[i] = tt[k] /\ R[i] = B[k] /\ R[i - 1] = B[k - 1]
    BY <2>1, <1>1, <1>5
  <2> HIDE DEF k
  <2>3. Carries(p, tt[k], B[k - 1], B[k]) /\ OwnStep(p, tt[k]) /\ Persistent \subseteq B[k - 1] /\ Persistent \subseteq B[k]
    BY <2>1, <1>2, <1>4 DEF Supplied, Feeds, n
  <2> QED BY <2>2, <2>3
<1>9. Persistent \subseteq R[m]
  <2>1. m \in 0 .. m /\ Persistent \subseteq A[m]
    BY <1>1, <1>3 DEF Supplied, m
  <2> QED BY <2>1, <1>5
<1>10. Supplied(p, t, R)
  <2>1. ASSUME NEW i \in 0 .. Len(t) PROVE Persistent \subseteq R[i]
    <3>1. CASE i < m
      <4>1. i + 1 \in 1 .. m /\ i + 1 - 1 = i
        BY <3>1, <1>1
      <4> QED BY <4>1, <1>7
    <3>2. CASE i = m
      BY <3>2, <1>9
    <3>3. CASE i > m
      <4>1. i \in m + 1 .. m + n
        BY <3>3, <1>1
      <4> QED BY <4>1, <1>8
    <3> QED BY <3>1, <3>2, <3>3, <1>1
  <2>2. ASSUME NEW i \in DOMAIN t PROVE Carries(p, t[i], R[i - 1], R[i])
    <3>1. i \in 1 .. m \/ i \in m + 1 .. m + n
      BY <1>1, <1>2
    <3> QED BY <3>1, <1>7, <1>8
  <2> QED BY <2>1, <2>2 DEF Supplied
<1>11. \A i \in DOMAIN t : OwnStep(p, t[i])
  <2>1. ASSUME NEW i \in DOMAIN t PROVE OwnStep(p, t[i])
    <3>1. i \in 1 .. m \/ i \in m + 1 .. m + n
      BY <1>1, <1>2
    <3> QED BY <3>1, <1>7, <1>8
  <2> QED BY <2>1
<1>12. Feeds(p, t, K, M)
  BY <1>1, <1>6, <1>10, <1>11 DEF Feeds
<1> QED BY <1>12 DEF t

\* A program as it was written, where what is given is current.
LEMMA FedProgram ==
    ASSUME NEW p \in DOMAIN Programs, NEW ss \in {Programs[p].steps, Programs[p].fallback}
    PROVE  \E M : Feeds(p, ss, Persistent, M)
<1>1. ss \in Bodies({p}) /\ ss \in Bodies(DOMAIN Programs)
  BY DEF Bodies
<1>2. PICK S : S[0] = Persistent /\ Supplied(p, ss, S)
  BY <1>1, CallsAreSupplied
<1>3. ASSUME NEW i \in DOMAIN ss PROVE OwnStep(p, ss[i])
  <2>1. ss[i].do \in {"stage", "enqueue", "launch", "sync", "read"}
    BY <1>1, ProgramsAreHostCode DEF HostCode
  <2>2. ASSUME ss[i].do \in {"enqueue", "launch"} PROVE CodesOf(ss[i].ops) \subseteq Codes /\ ss[i].ops \in Codes
    <3>1. i \in Enqueuing(ss)
      BY <2>2 DEF Enqueuing
    <3>2. CodesOf(ss[i].ops) \subseteq Codes
      <4> DEFINE U(tt) == UNION {CodesOf(tt[k].ops) : k \in Enqueuing(tt)}
      <4>1. CodesOf(ss[i].ops) \subseteq U(ss)
        BY <3>1
      <4>2. Codes = UNION {U(tt) : tt \in Bodies(DOMAIN Programs)}
        BY Zenon DEF Codes
      <4> HIDE DEF U
      <4> QED BY <4>1, <4>2, <1>1
    <3>3. ss[i].ops \in CodesOf(ss[i].ops)
      BY DEF CodesOf
    <3> QED BY <3>2, <3>3
  <2>3. ASSUME ss[i].do = "launch" PROVE ss[i].ops \in Recorded(p, ss[i].graph)
    <3>1. i \in {k \in Enqueuing(ss) : ss[k].do = "launch" /\ ss[k].graph = ss[i].graph}
      BY <2>3 DEF Enqueuing
    <3> DEFINE U(tt) == {tt[k].ops : k \in {k \in Enqueuing(tt) : tt[k].do = "launch" /\ tt[k].graph = ss[i].graph}}
    <3>2. ss[i].ops \in U(ss)
      BY <3>1
    <3>3. Recorded(p, ss[i].graph) = UNION {U(tt) : tt \in Bodies({p})}
      BY Zenon DEF Recorded
    <3> HIDE DEF U
    <3> QED BY <1>1, <3>2, <3>3
  <2> QED BY <2>1, <2>2, <2>3 DEF OwnStep
<1> QED BY <1>2, <1>3 DEF Feeds

-----------------------------------------------------------------------------
(* What is current stays so.                                               *)

\* A graph holds what a launch code of the call in its key launched.
KnownGraph(g) ==
    \E ops \in Recorded(g.key[1], g.key[2]) : \E f \in Leftover : g.out = Resolve(f, ops).out
GraphsKnown == \A store \in Stores : \A g \in ToSet(graphs[store]) : KnownGraph(g)

\* The steps left to the call find what they use.
CallFed == \E K, M : Feeds(call, steps, K, M) /\ \A b \in K : Current(b)
VInv ==
    /\ fp8 \in Leftover
    /\ Counted
    /\ Valued
    /\ GraphsKnown
    /\ CallFed

\* The host touches a buffer itself only when no kernel left does.
LEMMA HostApart ==
    ASSUME IInv, steps # <<>>, Now.do \in {"stage", "read"}, NEW e \in pending
    PROVE  Now.buffer \notin Touched(e)
<1>1. IsSequence(steps) /\ Now = steps[1] /\ WaitsFirst(steps, pending, Early(mix))
  BY HeadOfHost DEF IInv, HostInv, StepsInOrder
<1>2. 1 \in HostUses(steps)
  <2>1. Len(steps) \in Nat \ {0} /\ DOMAIN steps = 1 .. Len(steps)
    BY <1>1, TailOf, Sequence
  <2>2. 1 \in DOMAIN steps
    BY <2>1
  <2> QED BY <1>1, <2>2 DEF HostUses
<1>3. ~SyncIn(steps, 1 .. 1 - 1)
  BY DEF SyncIn
<1>4. Free(pending, {steps[1].buffer})
  BY <1>1, <1>2, <1>3 DEF WaitsFirst
<1> QED BY <1>1, <1>4 DEF Free

\* A kernel that is ready has nothing left before it that it clashes with.
LEMMA ReadyFirst ==
    ASSUME Numbered, Ordered, NEW e \in pending, Ready(e), NEW w \in pending, w.id < e.id
    PROVE  ~Clash(w, e)
<1>1. SUFFICES ASSUME Clash(w, e) PROVE FALSE
  OBVIOUS
<1>2. Closed({e}) /\ Precedes(w, e)
  BY <1>1 DEF Closed, Ready, Ordered
<1>3. w \in {e}
  BY <1>2 DEF Precedes
<1> QED BY <1>3 DEF Numbered

\* Where the device does nothing.
LEMMA SameValues ==
    ASSUME pending' = pending, issued' = issued, memory' = memory, version' = version, Counted, Valued
    PROVE  Counted' /\ Valued' /\ \A b : Current(b) => Current(b)'
<1>1. ASSUME NEW b, NEW n, NEW v, Finds(b, n, v) PROVE Finds(b, n, v)'
  BY <1>1 DEF Finds, Earlier, Written, Holds
<1>2. Valued'
  BY <1>1 DEF Valued
<1>3. ASSUME NEW b, Current(b) PROVE Current(b)'
  BY <1>3 DEF Current, Count, Finds, Earlier, Written, Holds
<1> QED BY <1>2, <1>3 DEF Counted

\* The first of the steps left finds what it uses.
LEMMA NowFed ==
    ASSUME IInv, CallFed, steps # <<>>
    PROVE  \E K, L, M : /\ OwnStep(call, Now) /\ Carries(call, Now, K, L) /\ Feeds(call, Tail(steps), L, M)
                        /\ Persistent \subseteq K /\ Persistent \subseteq L
                        /\ \A b \in K : Current(b)
<1>1. IsSequence(steps) /\ Now = steps[1]
  BY HeadOfHost DEF IInv, StepsInOrder
<1>2. PICK K, M : Feeds(call, steps, K, M) /\ \A b \in K : Current(b)
  BY DEF CallFed
<1>3. OwnStep(call, Now) /\ Persistent \subseteq K
      /\ \E L : Carries(call, Now, K, L) /\ Persistent \subseteq L /\ Feeds(call, Tail(steps), L, M)
  BY <1>1, <1>2, FedFirst
<1> QED BY <1>2, <1>3

\* A step of the host that gives nothing to the device.
LEMMA PlainFed ==
    ASSUME IInv, VInv, steps # <<>>, Now.do \in {"sync", "read", "plan", "capture"}, call' = call, steps' = Tail(steps),
           pending' = pending, issued' = issued, memory' = memory, version' = version
    PROVE  Counted' /\ Valued' /\ CallFed'
<1>1. PICK K, L, M : /\ Carries(call, Now, K, L) /\ Feeds(call, Tail(steps), L, M) /\ \A b \in K : Current(b)
  BY NowFed DEF VInv
<1>2. L \subseteq K
  BY <1>1 DEF Carries
<1>3. Counted' /\ Valued' /\ \A b : Current(b) => Current(b)'
  BY SameValues DEF VInv
<1>4. Feeds(call', steps', L, M) /\ \A b \in L : Current(b)'
  BY <1>1, <1>2, <1>3
<1> QED BY <1>3, <1>4 DEF CallFed

\* What is given is always current.
LEMMA GivenFed ==
    ASSUME IInv, NEW K, NEW M, Feeds(call, steps, K, M)
    PROVE  Persistent \subseteq K
<1>1. PICK S : S[0] = K /\ Supplied(call, steps, S)
  BY DEF Feeds
<1>2. IsSequence(steps)
  BY DEF IInv, StepsInOrder
<1>3. 0 \in 0 .. Len(steps)
  BY <1>2, Sequence
<1> QED BY <1>1, <1>3 DEF Supplied

\* Launch code that is supplied, run as it is.
LEMMA EnqueueCurrent ==
    ASSUME IInv, fp8 \in Leftover, Counted, Valued, NEW ops \in Codes, Sound(ops), Enqueue(ops),
           NEW K, NEW L, Sustains(ops, K, L), \A b \in K : Current(b)
    PROVE  Counted' /\ Valued' /\ fp8' \in Leftover /\ \A b \in L : Current(b)'
<1> DEFINE r == Resolve(fp8, ops)
<1>1. EnterAll(r.out, FALSE, r.tail) /\ fp8' = r.fp8
  BY Zenon DEF Enqueue
<1>2. SafeOut(r.out)
  <2>1. Good(r) /\ RaceFree(r.out)
    BY JoinedIsWhole DEF Sound, IInv, HostInv
  <2> HIDE DEF r
  <2> QED BY <2>1 DEF Good, SafeOut
<1>3. Supports(r.out, K, L)
  BY DEF Sustains
<1>4. r.fp8 \in Leftover
  BY RunnersAreLeft
<1> HIDE DEF r
<1>5. Counted' /\ Valued' /\ \A b \in L : Current(b)'
  BY <1>1, <1>2, <1>3, EnterCurrent DEF IInv, InOrder
<1> QED BY <1>1, <1>4, <1>5

\* A call begins with what it is given.
LEMMA BeginCallCurrent == ASSUME IInv, VInv, NEW p \in mix, BeginCall(p) PROVE VInv'
<1>1. /\ call = Idle /\ call' = p /\ graphs' = graphs /\ fp8' = fp8
      /\ steps' \in {Programs[p].steps, Programs[p].fallback}
      /\ pending' = pending /\ issued' = issued /\ memory' = memory /\ version' = version
  BY DEF BeginCall, device, cache
<1>2. p \in DOMAIN Programs
  BY StreamsAssumption DEF IInv
<1>3. PICK M : Feeds(p, steps', Persistent, M)
  BY <1>1, <1>2, FedProgram
<1>4. \A b \in Persistent : Current(b)
  BY GivenFed DEF VInv, CallFed
<1>5. Counted' /\ Valued' /\ \A b \in Persistent : Current(b)'
  BY <1>1, <1>4, SameValues DEF VInv
<1>6. CallFed'
  <2>1. Feeds(call', steps', Persistent, M)
    BY <1>1, <1>3
  <2>2. Persistent' = Persistent
    BY DEF Persistent
  <2> QED BY <2>1, <1>5 DEF CallFed
<1> QED BY <1>1, <1>5, <1>6 DEF VInv, GraphsKnown

\* The host writes what no kernel left touches.
LEMMA StageCurrent == ASSUME IInv, VInv, Stage PROVE VInv'
<1>0. PICK b : b = Now.buffer
  OBVIOUS
<1> DEFINE new == [x \in {b} |-> Count(version, x) + 1]
           put == [x \in {b} |-> <<x, Count(version, x) + 1>>]
<1>1. /\ steps # <<>> /\ Now.do = "stage" /\ steps' = Tail(steps)
      /\ call' = call /\ graphs' = graphs /\ fp8' = fp8 /\ pending' = pending /\ issued' = issued
      /\ version' = Over(new, version) /\ memory' = Over(put, memory)
  BY <1>0 DEF Stage, Step, Now, cache
<1>2. PICK K, L, M : /\ Carries(call, Now, K, L) /\ Feeds(call, Tail(steps), L, M) /\ \A x \in K : Current(x)
  BY <1>1, NowFed DEF VInv
<1>3. L \subseteq K \cup {b}
  BY <1>0, <1>1, <1>2 DEF Carries
<1>4. \A e \in pending : b \notin Touched(e)
  BY <1>0, <1>1, HostApart
<1>5. PICK c : c = Count(version, b) + 1
  OBVIOUS
<1>6. new[b] = c /\ put[b] = <<b, c>> /\ DOMAIN new = {b} /\ DOMAIN put = {b}
  BY <1>5
<1>7. c \in Nat
  BY <1>5 DEF VInv, Counted, Count
<1> HIDE DEF new, put
<1>8. ASSUME NEW x, x # b PROVE Count(version, x)' = Count(version, x) /\ Holds(x)' = Holds(x)
  <2>1. x \notin DOMAIN new /\ x \notin DOMAIN put
    BY <1>6, <1>8
  <2>2. Count(version', x) = Count(version, x)
    BY <2>1, <1>1, Override DEF Count
  <2>3. /\ x \in DOMAIN memory' <=> x \in DOMAIN memory
        /\ x \in DOMAIN memory => memory'[x] = memory[x]
    BY <2>1, <1>1, Override
  <2> QED BY <2>2, <2>3 DEF Holds, Count
<1>9. Count(version, b)' = c /\ Holds(b)' = <<b, c>>
  <2>1. b \in DOMAIN new /\ b \in DOMAIN put
    BY <1>6
  <2>2. b \in DOMAIN version' /\ version'[b] = c
    BY <2>1, <1>1, <1>6, Override
  <2>3. b \in DOMAIN memory' /\ memory'[b] = <<b, c>>
    BY <2>1, <1>1, <1>6, Override
  <2> QED BY <2>2, <2>3 DEF Count, Holds
<1>10. Counted'
  <2>1. ASSUME NEW x \in DOMAIN version' PROVE version'[x] \in Nat
    <3>1. version'[x] = Count(version, x)'
      BY <2>1 DEF Count
    <3>2. Count(version, x) \in Nat
      BY DEF VInv, Counted, Count
    <3> QED BY <3>1, <3>2, <1>7, <1>8, <1>9
  <2> QED BY <2>1 DEF Counted
<1>11. ASSUME NEW x, x # b, NEW n, NEW v, Finds(x, n, v) PROVE Finds(x, n, v)'
  BY <1>1, <1>8, <1>11 DEF Finds, Earlier, Written
<1>12. Valued'
  <2>1. ASSUME NEW e \in pending, NEW x \in e.expects PROVE Finds(x[1], e.id, x[2])'
    <3>1. x[1] # b
      BY <1>4 DEF Touched
    <3>2. Finds(x[1], e.id, x[2])
      BY DEF VInv, Valued
    <3> QED BY <3>1, <3>2, <1>11
  <2> QED BY <2>1, <1>1 DEF Valued, VInv
<1>13. ASSUME NEW x \in L PROVE Current(x)'
  <2>1. CASE x = b
    <3>1. Earlier(b, issued + 1)' = {}
      BY <1>1, <1>4 DEF Earlier, Written, Touched
    <3> QED BY <2>1, <3>1, <1>9 DEF Current, Finds
  <2>2. CASE x # b
    <3>1. PICK n : n = issued + 1
      OBVIOUS
    <3>2. PICK v : v = <<x, Count(version, x)>>
      OBVIOUS
    <3>3. Finds(x, n, v)'
      BY <2>2, <3>1, <3>2, <1>2, <1>3, <1>11, <1>13 DEF Current
    <3>4. issued' + 1 = n /\ <<x, Count(version, x)'>> = v
      BY <2>2, <3>1, <3>2, <1>1, <1>8
    <3> QED BY <3>3, <3>4 DEF Current
  <2> QED BY <2>1, <2>2
<1>14. CallFed'
  <2>1. Feeds(call', steps', L, M)
    BY <1>1, <1>2
  <2> QED BY <2>1, <1>13 DEF CallFed
<1> QED BY <1>1, <1>10, <1>12, <1>14 DEF VInv, GraphsKnown

\* Launching kernels one by one.
LEMMA EnqueueOpsCurrent == ASSUME IInv, VInv, EnqueueOps PROVE VInv'
<1>1. /\ steps # <<>> /\ Now.do = "enqueue" /\ steps' = Tail(steps)
      /\ call' = call /\ graphs' = graphs /\ Enqueue(Now.ops)
  BY DEF EnqueueOps, Step, Now, cache
<1>2. PICK K, L, M : /\ OwnStep(call, Now) /\ Carries(call, Now, K, L) /\ Feeds(call, Tail(steps), L, M)
                     /\ \A b \in K : Current(b)
  BY <1>1, NowFed DEF VInv
<1>3. Sustains(Now.ops, K, L)
  BY <1>1, <1>2 DEF Carries, Replayable
<1>4. Now.ops \in Codes /\ Sound(Now.ops)
  BY <1>1, <1>2, HeadOfHost DEF OwnStep, StepOfHost
<1>5. PICK ops : ops = Now.ops
  OBVIOUS
<1>6. Counted' /\ Valued' /\ fp8' \in Leftover /\ \A b \in L : Current(b)'
  BY <1>1, <1>2, <1>3, <1>4, <1>5, EnqueueCurrent DEF VInv
<1>7. CallFed'
  <2>1. Feeds(call', steps', L, M)
    BY <1>1, <1>2
  <2> QED BY <2>1, <1>6 DEF CallFed
<1> QED BY <1>1, <1>6, <1>7 DEF VInv, GraphsKnown

\* The lists of graphs, when one takes the place of another.
LEMMA GraphsKnownWith ==
    ASSUME IInv, GraphsKnown, NEW store \in Stores, NEW list, NEW g, KnownGraph(g),
           ToSet(list) \subseteq ToSet(graphs[store]) \cup {g}, graphs' = [graphs EXCEPT ![store] = list]
    PROVE  GraphsKnown'
<1>1. graphs = [q \in Stores |-> graphs[q]]
  BY DEF IInv, GraphsFit
<1>2. \A q \in Stores : graphs'[q] = IF q = store THEN list ELSE graphs[q]
  BY <1>1
<1> QED BY <1>2 DEF GraphsKnown

\* Replaying what was recorded of the same code.
LEMMA LaunchAsGraphCurrent == ASSUME IInv, VInv, LaunchAsGraph PROVE VInv'
<1>1. /\ steps # <<>> /\ Now.do = "launch" /\ steps' = Tail(steps) /\ call' = call /\ Now.graph \in Policies
  BY DEF LaunchAsGraph, Step, Now
<1>2. PICK i \in Hit(Now.graph) :
         /\ Replay(Kept(Now.graph)[i])
         /\ graphs' = IF Now.graph = "second"
                      THEN [graphs EXCEPT !["second"] = Append(Without(@, i), Kept(Now.graph)[i])] ELSE graphs
  BY Zenon DEF LaunchAsGraph
<1>3. PICK gs, g : gs = Kept(Now.graph) /\ g = gs[i]
  OBVIOUS
<1>4. i \in DOMAIN gs /\ IsSequence(gs) /\ g \in ToSet(gs) /\ g.key = Key
  <2>1. i \in DOMAIN gs /\ g.key = Key
    BY <1>2, <1>3 DEF Hit
  <2> QED BY <2>1, <1>3, StoreOf DEF IInv, GraphsFit, ToSet, Kept
<1>5. SafeOut(g.out)
  BY <1>3, <1>4, StoreOf DEF IInv, GraphsFit, GraphFits, Kept
<1>6. KnownGraph(g) /\ g.key[1] = call /\ g.key[2] = Now.graph
  <2>1. KnownGraph(g)
    BY <1>3, <1>4, StoreOf DEF VInv, GraphsKnown, Kept
  <2> QED BY <2>1, <1>1, <1>4, KeyParts
<1>7. PICK K, L, M : /\ Carries(call, Now, K, L) /\ Feeds(call, Tail(steps), L, M) /\ \A b \in K : Current(b)
  BY <1>1, NowFed DEF VInv
<1>8. Supports(g.out, K, L)
  <2>1. PICK ops \in Recorded(call, Now.graph), f \in Leftover : g.out = Resolve(f, ops).out
    BY <1>6 DEF KnownGraph
  <2>2. ops \in Replayable(call, Now)
    BY <1>1, <2>1 DEF Replayable
  <2>3. Sustains(ops, K, L)
    BY <1>1, <1>7, <2>2 DEF Carries
  <2> QED BY <2>1, <2>3 DEF Sustains
<1>9. EnterAll(g.out, TRUE, [Start EXCEPT ![Main] = 0 .. Len(g.out)]) /\ fp8' = fp8
  BY <1>2, <1>3, Zenon DEF Replay
<1>10. Counted' /\ Valued' /\ \A b \in L : Current(b)'
  BY <1>5, <1>7, <1>8, <1>9, EnterCurrent DEF VInv, IInv, InOrder
<1>11. GraphsKnown'
  <2>1. CASE Now.graph # "second"
    <3>1. graphs' = graphs
      BY <1>2, <2>1
    <3> QED BY <3>1 DEF VInv, GraphsKnown
  <2>2. CASE Now.graph = "second"
    <3> DEFINE list == Append(Without(gs, i), g)
    <3>0. gs = graphs["second"] /\ "second" \in Stores
      BY <1>3, <2>2 DEF Kept, Store, Stores
    <3>1. graphs' = [graphs EXCEPT !["second"] = list]
      BY <1>2, <1>3, <2>2, <3>0
    <3>2. IsSequence(Without(gs, i)) /\ ToSet(Without(gs, i)) \subseteq ToSet(gs)
      BY <1>4, WithoutOne
    <3>3. ToSet(list) = ToSet(Without(gs, i)) \cup {g}
      BY <3>2, Appended
    <3> HIDE DEF list
    <3> QED BY <3>0, <3>1, <3>2, <3>3, <1>6, GraphsKnownWith DEF VInv
  <2> QED BY <2>1, <2>2
<1>12. CallFed'
  <2>1. Feeds(call', steps', L, M)
    BY <1>1, <1>7
  <2> QED BY <2>1, <1>10 DEF CallFed
<1> QED BY <1>9, <1>10, <1>11, <1>12 DEF VInv

\* What is left of a launch once its first part is enqueued leaves what it was to.
LEMMA PartsFed ==
    ASSUME NEW p, NEW s, s.do = "launch", OwnStep(p, s), NEW K, NEW L, Carries(p, s, K, L),
           Persistent \subseteq K, Persistent \subseteq L
    PROVE  /\ Head(Parts(s.ops)).ops \in Codes
           /\ \E M : /\ Sustains(Head(Parts(s.ops)).ops, K, M)
                     /\ Feeds(p, Tail(Parts(s.ops)) \o Recording(s), M, L)
<1> DEFINE ops == s.ops
           rec == Recording(s)
           up == UpToPlan(ops)
           then == AfterPlan(ops)
<1>1. Sustains(ops, K, L) /\ CodesOf(ops) \subseteq Codes
  BY DEF Carries, Replayable, OwnStep
<1>2. AsksForPlan(ops) => \E M : K \subseteq M /\ Sustains(up, K, M) /\ Sustains(then, M, L)
  <2> DEFINE M == K \cup Fills(up)
  <2>1. AsksForPlan(ops) => Sustains(up, K, M) /\ Sustains(then, M, L)
    BY DEF Carries
  <2>2. K \subseteq M
    OBVIOUS
  <2> HIDE DEF M
  <2> QED BY <2>1, <2>2
<1>3. IsSequence(rec) /\ Feeds(p, rec, L, L)
  <2>1. CASE s.graph \notin Policies
    <3>1. rec = <<>>
      BY <2>1 DEF Recording
    <3>2. IsSequence(<<>>)
      BY DEF IsSequence
    <3> HIDE DEF rec
    <3> QED BY <3>1, <3>2, FedNothing
  <2>2. CASE s.graph \in Policies
    <3> DEFINE a == [do |-> "sync"]
               b == [do |-> "capture", ops |-> s.ops, graph |-> s.graph]
    <3>1. rec = <<a, b>>
      BY <2>2, Zenon DEF Recording
    <3>2. a.do = "sync" /\ b.do = "capture" /\ b.ops = ops /\ b.graph = s.graph
      OBVIOUS
    <3>3. ops \in Codes
      BY <1>1 DEF CodesOf
    <3>4. s.ops \in Recorded(p, s.graph)
      BY <2>2 DEF OwnStep
    <3> HIDE DEF a, b, rec
    <3>5. OwnStep(p, a) /\ Carries(p, a, L, L)
      BY <3>2 DEF OwnStep, Carries
    <3>6. OwnStep(p, b) /\ Carries(p, b, L, L)
      BY <3>2, <3>3, <3>4 DEF OwnStep, Carries
    <3>7. Feeds(p, <<a>>, L, L) /\ Feeds(p, <<b>>, L, L)
      BY <3>5, <3>6, FedOne
    <3>8. IsSequence(<<a>>) /\ IsSequence(<<b>>) /\ <<a>> \o <<b>> = <<a, b>>
      BY Pair
    <3>9. Feeds(p, <<a>> \o <<b>>, L, L) /\ IsSequence(<<a>> \o <<b>>)
      BY <3>7, <3>8, FedTogether, Concatenated
    <3> QED BY <3>1, <3>8, <3>9
  <2> QED BY <2>1, <2>2
<1>4. CASE ~AsksForPlan(ops)
  <2>1. Parts(ops) = <<[do |-> "enqueue", ops |-> ops]>>
    BY <1>4, Zenon DEF Parts
  <2>2. Head(Parts(ops)).ops = ops /\ Tail(Parts(ops)) = <<>>
    BY <2>1
  <2>3. ops \in Codes
    BY <1>1, <1>4 DEF CodesOf
  <2> HIDE DEF rec
  <2>4. Feeds(p, <<>>, L, L) /\ IsSequence(<<>>)
    BY FedNothing DEF IsSequence
  <2>5. Feeds(p, <<>> \o rec, L, L)
    BY <2>4, <1>3, FedTogether
  <2> QED BY <2>2, <2>3, <2>5, <1>1 DEF rec
<1>5. CASE AsksForPlan(ops)
  <2> DEFINE x == [do |-> "enqueue", ops |-> up]
             a == [do |-> "plan"]
             b == [do |-> "enqueue", ops |-> then]
  <2>1. Parts(ops) = <<x, a, b>>
    BY <1>5, Zenon DEF Parts
  <2>2. x.ops = up /\ a.do = "plan" /\ b.do = "enqueue" /\ b.ops = then
    OBVIOUS
  <2>3. up \in Codes /\ then \in Codes
    BY <1>1, <1>5 DEF CodesOf
  <2>4. PICK M : K \subseteq M /\ Sustains(up, K, M) /\ Sustains(then, M, L)
    BY <1>2, <1>5
  <2> HIDE DEF x, a, b, rec, up, then
  <2>5. Head(Parts(ops)) = x /\ Tail(Parts(ops)) = <<a, b>>
    BY <2>1
  <2>6. OwnStep(p, a) /\ Carries(p, a, M, M)
    BY <2>2 DEF OwnStep, Carries
  <2>7. OwnStep(p, b) /\ Carries(p, b, M, L)
    BY <2>2, <2>3, <2>4 DEF OwnStep, Carries, Replayable
  <2>8. Feeds(p, <<a>>, M, M) /\ Feeds(p, <<b>>, M, L)
    BY <2>4, <2>6, <2>7, FedOne
  <2>9. IsSequence(<<a>>) /\ IsSequence(<<b>>) /\ <<a>> \o <<b>> = <<a, b>>
    BY Pair
  <2>10. Feeds(p, <<a>> \o <<b>>, M, L) /\ IsSequence(<<a>> \o <<b>>)
    BY <2>8, <2>9, FedTogether, Concatenated
  <2>11. Feeds(p, <<a, b>> \o rec, M, L)
    BY <2>9, <2>10, <1>3, FedTogether
  <2> QED BY <2>2, <2>3, <2>4, <2>5, <2>11 DEF rec
<1> QED BY <1>4, <1>5

\* Launching without a graph.
LEMMA LaunchDirectlyCurrent == ASSUME IInv, VInv, LaunchDirectly PROVE VInv'
<1>1. /\ steps # <<>> /\ Now.do = "launch" /\ call' = call /\ graphs' = graphs
  BY DEF LaunchDirectly, Step, Now, cache
<1>2. /\ Enqueue(Head(Parts(Now.ops)).ops)
      /\ steps' = Tail(Parts(Now.ops)) \o Recording(Now) \o Tail(steps)
  BY Zenon DEF LaunchDirectly, Recording
<1> DEFINE pre == Tail(Parts(Now.ops)) \o Recording(Now)
<1>3. PICK K, L, N : /\ OwnStep(call, Now) /\ Carries(call, Now, K, L) /\ Feeds(call, Tail(steps), L, N)
                     /\ Persistent \subseteq K /\ Persistent \subseteq L /\ \A b \in K : Current(b)
  BY <1>1, NowFed DEF VInv
<1>4. Head(Parts(Now.ops)).ops \in Codes
      /\ \E M : Sustains(Head(Parts(Now.ops)).ops, K, M) /\ Feeds(call, pre, M, L)
  BY <1>1, <1>3, PartsFed
<1>5. PICK M : Sustains(Head(Parts(Now.ops)).ops, K, M) /\ Feeds(call, pre, M, L)
  BY <1>4
<1>6. PICK ops : ops = Head(Parts(Now.ops)).ops
  OBVIOUS
<1>7. Sound(ops)
  <2>1. StepOfHost(Now) /\ TRUE \in BOOLEAN
    BY <1>1, HeadOfHost
  <2> QED BY <1>1, <1>6, <2>1, PartsInOrder
<1>8. Counted' /\ Valued' /\ fp8' \in Leftover /\ \A b \in M : Current(b)'
  BY <1>2, <1>3, <1>4, <1>5, <1>6, <1>7, EnqueueCurrent DEF VInv
<1>9. Feeds(call, steps', M, N)
  <2>1. IsSequence(pre) /\ IsSequence(Tail(steps))
    BY <1>1, PartsQuiet, TailOf DEF IInv, StepsInOrder
  <2> HIDE DEF pre
  <2>2. Feeds(call, pre \o Tail(steps), M, N)
    BY <2>1, <1>3, <1>5, FedTogether
  <2> QED BY <2>2, <1>2 DEF pre
<1>10. CallFed'
  BY <1>1, <1>8, <1>9 DEF CallFed
<1> QED BY <1>1, <1>8, <1>10 DEF VInv, GraphsKnown

\* A wait, a lookup and what the host reads.
LEMMA PlainCurrent == ASSUME IInv, VInv, Synchronize \/ Read \/ Lookup \/ Remember PROVE VInv'
<1>1. /\ steps # <<>> /\ Now.do \in {"sync", "read", "plan", "capture"} /\ steps' = Tail(steps)
      /\ call' = call /\ graphs' = graphs /\ fp8' = fp8
      /\ pending' = pending /\ issued' = issued /\ memory' = memory /\ version' = version
  BY DEF Synchronize, Read, Lookup, Remember, Step, Now, cache, device
<1> QED BY <1>1, PlainFed DEF VInv, GraphsKnown

\* A capture records what it would have launched.
LEMMA CaptureCurrent == ASSUME IInv, VInv, Capture PROVE VInv'
<1> DEFINE r == Resolve(fp8, Now.ops)
           g == [key |-> Key, out |-> r.out, at |-> Addresses, whole |-> r.past[Main] = 0 .. Len(r.out),
                 uses |-> IF AsksForPlan(Now.ops) THEN {PlanFor(Shape)} ELSE {}]
<1>1. /\ steps # <<>> /\ Now.do = "capture" /\ steps' = Tail(steps) /\ call' = call /\ fp8' = r.fp8
      /\ pending' = pending /\ issued' = issued /\ memory' = memory /\ version' = version
  <2> HIDE DEF g
  <2> QED BY DEF Capture, Step, Now, device
<1>2. PICK old : old = Kept(Now.graph)
  OBVIOUS
<1>3. PICK victim \in (IF Now.graph = "second" THEN {1} ELSE DOMAIN old) \cup {0} :
         /\ victim = 0 <=> Len(old) < MaxGraphs
         /\ graphs' = [graphs EXCEPT ![Store(Now.graph)] = Append(IF victim = 0 THEN old ELSE Without(old, victim), g)]
  BY <1>2, Zenon DEF Capture
<1>4. OwnStep(call, Now)
  BY <1>1, NowFed DEF VInv
<1>5. Now.graph \in Policies /\ Now.ops \in Codes /\ Now.ops \in Recorded(call, Now.graph)
  BY <1>1, <1>4, HeadOfHost DEF OwnStep, StepOfHost
<1>6. fp8 \in Leftover /\ r.fp8 \in Leftover
  BY <1>5, RunnersAreLeft DEF VInv
<1>7. KnownGraph(g)
  <2>1. Key[1] = call /\ Key[2] = Now.graph
    BY <1>5, KeyParts
  <2>2. g.key = Key /\ g.out = r.out
    OBVIOUS
  <2> HIDE DEF g, r
  <2> QED BY <2>1, <2>2, <1>5, <1>6 DEF KnownGraph, r
<1> HIDE DEF g, r
<1> DEFINE kept == IF victim = 0 THEN old ELSE Without(old, victim)
<1>8. IsSequence(kept) /\ ToSet(kept) \subseteq ToSet(old)
  <2>1. IsSequence(old)
    BY <1>2, StoreOf DEF IInv, GraphsFit, Kept
  <2>2. CASE victim = 0
    BY <2>1, <2>2
  <2>3. CASE victim # 0
    <3>1. victim \in DOMAIN old
      <4>1. CASE Now.graph # "second"
        BY <4>1, <1>3, <2>3
      <4>2. CASE Now.graph = "second"
        <5>1. victim = 1 /\ ~(Len(old) < MaxGraphs)
          BY <4>2, <1>3, <2>3
        <5>2. Len(old) \in Nat /\ DOMAIN old = 1 .. Len(old) /\ MaxGraphs \in Nat \ {0}
          BY <2>1, Sequence, StreamsAssumption
        <5> QED BY <5>1, <5>2
      <4> QED BY <4>1, <4>2
    <3>2. IsSequence(Without(old, victim)) /\ ToSet(Without(old, victim)) \subseteq ToSet(old)
      BY <2>1, <3>1, WithoutOne
    <3> QED BY <3>2, <2>3
  <2> QED BY <2>2, <2>3
<1> HIDE DEF kept
<1>9. GraphsKnown'
  <2> DEFINE list == Append(kept, g)
  <2>1. graphs' = [graphs EXCEPT ![Store(Now.graph)] = list]
    BY <1>3, Zenon DEF kept
  <2>2. ToSet(list) = ToSet(kept) \cup {g}
    BY <1>8, Appended
  <2> HIDE DEF list
  <2>3. PICK store, a : store = Store(Now.graph) /\ a = g
    OBVIOUS
  <2>4. store \in Stores /\ KnownGraph(a) /\ ToSet(list) \subseteq ToSet(graphs[store]) \cup {a}
    BY <2>2, <2>3, <1>2, <1>7, <1>8, StoreOf DEF Kept
  <2>5. PICK l : l = list
    OBVIOUS
  <2> QED BY <2>1, <2>3, <2>4, <2>5, GraphsKnownWith DEF VInv
<1>10. Counted' /\ Valued' /\ CallFed'
  BY <1>1, PlainFed
<1> QED BY <1>1, <1>6, <1>9, <1>10 DEF VInv

\* A call ends, one way or the other, or does not begin.
LEMMA EndCurrent ==
    ASSUME IInv, VInv, BuildFails \/ Return \/ \E p \in mix : AllocationFails(p)
    PROVE  VInv'
<1>1. /\ graphs' = graphs /\ fp8' = fp8 /\ pending' = pending /\ issued' = issued /\ memory' = memory /\ version' = version
      /\ steps' = <<>> \/ (steps' = steps /\ call' = call)
  BY DEF BuildFails, Return, AllocationFails, host, device, cache
<1>2. PICK K, M : Feeds(call, steps, K, M) /\ \A b \in K : Current(b)
  BY DEF VInv, CallFed
<1>3. Counted' /\ Valued' /\ \A b : Current(b) => Current(b)'
  BY <1>1, SameValues DEF VInv
<1>4. CallFed'
  <2>1. CASE steps' = steps /\ call' = call
    BY <2>1, <1>2, <1>3 DEF CallFed
  <2>2. CASE steps' = <<>>
    <3>1. Persistent \subseteq K
      BY <1>2, GivenFed
    <3>2. Feeds(call', steps', K, K)
      BY <2>2, <3>1, FedNothing
    <3> QED BY <3>2, <1>2, <1>3 DEF CallFed
  <2> QED BY <1>1, <2>1, <2>2
<1> QED BY <1>1, <1>3, <1>4 DEF VInv, GraphsKnown

\* What the buffers hold between calls is what the next ones are given.
LEMMA SettleCurrent == ASSUME IInv, VInv, Settle PROVE VInv'
<1>1. /\ call = Idle /\ steps' = steps /\ call' = call /\ graphs' = graphs /\ fp8' = fp8
      /\ pending' = {} /\ memory' = <<>> /\ version' = <<>>
  BY DEF Settle, cache
<1>2. steps = <<>>
  BY <1>1 DEF IInv, HostInv
<1>3. DOMAIN <<>> = {}
  OBVIOUS
<1>4. Counted' /\ Valued'
  BY <1>1, <1>3 DEF Counted, Valued
<1>5. ASSUME NEW b \in Persistent PROVE Current(b)'
  <2>1. Holds(b)' = <<b, 0>> /\ Count(version, b)' = 0
    BY <1>1, <1>3, <1>5 DEF Holds, Count
  <2>2. Earlier(b, issued + 1)' = {}
    BY <1>1 DEF Earlier
  <2> QED BY <2>1, <2>2 DEF Current, Finds
<1>6. CallFed'
  <2>1. PICK K : K = Persistent
    OBVIOUS
  <2>2. Feeds(call', steps', K, K)
    BY <1>1, <1>2, <2>1, FedNothing
  <2> QED BY <2>1, <2>2, <1>5 DEF CallFed
<1> QED BY <1>1, <1>4, <1>6 DEF VInv, GraphsKnown

\* A kernel that is ready leaves to every other one what it is to find.
LEMMA ExecuteCurrent == ASSUME IInv, VInv, NEW e \in pending, Execute(e) PROVE VInv'
<1>1. /\ steps' = steps /\ call' = call /\ graphs' = graphs /\ fp8' = fp8 /\ issued' = issued /\ version' = version
      /\ Ready(e) /\ pending' = pending \ {e}
      /\ memory' = Over([b \in {x[1] : x \in e.gives} |-> (CHOOSE x \in e.gives : x[1] = b)[2]], memory)
  BY DEF Execute, cache
<1>2. Numbered /\ Ordered
  BY DEF IInv, InOrder
<1>3. /\ \A x, y \in e.gives : x[1] = y[1] => x = y
      /\ \A f \in pending : \A x \in f.expects : Finds(x[1], f.id, x[2])
  BY DEF VInv, Valued
<1>4. ASSUME NEW b, NEW n \in Nat, NEW v, Finds(b, n, v), e.id >= n => b \notin Written(e)
      PROVE  Finds(b, n, v)'
  BY <1>1, <1>2, <1>3, <1>4, ExecutionFinds
<1>5. ASSUME NEW f \in pending', NEW x \in f.expects PROVE Finds(x[1], f.id, x[2])'
  <2>1. f \in pending /\ f # e /\ f.id \in Nat /\ e.id \in Nat /\ f.id # e.id
    BY <1>1, <1>2 DEF Numbered
  <2>2. ASSUME e.id >= f.id, x[1] \in Written(e) PROVE FALSE
    <3>1. f.id < e.id
      BY <2>1, <2>2
    <3>2. Clash(f, e)
      BY <2>2, <1>5 DEF Clash, Touched
    <3> QED BY <3>1, <3>2, <2>1, <1>1, <1>2, ReadyFirst
  <2>3. Finds(x[1], f.id, x[2])
    BY <2>1, <1>3
  <2> QED BY <2>1, <2>2, <2>3, <1>4
<1>6. Valued'
  <2>1. ASSUME NEW f \in pending', NEW x \in f.gives, NEW y \in f.gives, x[1] = y[1] PROVE x = y
    BY <2>1, <1>1 DEF VInv, Valued
  <2> QED BY <1>5, <2>1 DEF Valued
<1>7. ASSUME NEW b, Current(b) PROVE Current(b)'
  <2>1. PICK n, v : n = issued + 1 /\ v = <<b, Count(version, b)>>
    OBVIOUS
  <2>2. n \in Nat /\ ~(e.id >= n)
    BY <2>1, <1>2 DEF Numbered
  <2>3. Finds(b, n, v)'
    BY <2>1, <2>2, <1>4, <1>7 DEF Current
  <2>4. issued' + 1 = n /\ <<b, Count(version, b)'>> = v
    BY <2>1, <1>1 DEF Count
  <2> QED BY <2>3, <2>4 DEF Current
<1>8. Counted' /\ CallFed'
  BY <1>1, <1>7 DEF VInv, Counted, CallFed
<1> QED BY <1>1, <1>6, <1>8 DEF VInv, GraphsKnown

\* In the beginning the buffers have what is given.
LEMMA InitCurrent == Init => VInv
<1> SUFFICES ASSUME Init PROVE VInv
  OBVIOUS
<1>1. /\ call = Idle /\ steps = <<>> /\ fp8 = NewRunner /\ pending = {} /\ memory = <<>> /\ version = <<>>
      /\ graphs = [store \in Stores |-> <<>>]
  BY DEF Init
<1>2. DOMAIN <<>> = {} /\ ToSet(<<>>) = {}
  BY DEF ToSet
<1>3. Counted /\ Valued /\ GraphsKnown /\ fp8 \in Leftover
  BY <1>1, <1>2, RunnersAreLeft DEF Counted, Valued, GraphsKnown
<1>4. ASSUME NEW b \in Persistent PROVE Current(b)
  <2>1. Holds(b) = <<b, 0>> /\ Count(version, b) = 0
    BY <1>1, <1>2, <1>4 DEF Holds, Count
  <2>2. Earlier(b, issued + 1) = {}
    BY <1>1 DEF Earlier
  <2> QED BY <2>1, <2>2 DEF Current, Finds
<1>5. Feeds(call, steps, Persistent, Persistent)
  BY <1>1, FedNothing
<1> QED BY <1>3, <1>4, <1>5 DEF VInv, CallFed

\* Every step of the context and of the device keeps it.
LEMMA NextCurrent == IInv /\ VInv /\ [Next]_vars => VInv'
<1> SUFFICES ASSUME IInv, VInv, [Next]_vars PROVE VInv'
  OBVIOUS
<1>1. CASE UNCHANGED vars
  <2>1. /\ steps' = steps /\ call' = call /\ graphs' = graphs /\ fp8' = fp8
        /\ pending' = pending /\ issued' = issued /\ memory' = memory /\ version' = version
    BY <1>1 DEF vars, host, device, cache
  <2>2. Counted' /\ Valued' /\ \A b : Current(b) => Current(b)'
    BY <2>1, SameValues DEF VInv
  <2>3. CallFed'
    BY <2>1, <2>2 DEF VInv, CallFed
  <2> QED BY <2>1, <2>2, <2>3 DEF VInv, GraphsKnown
<1>2. ASSUME NEW p \in mix, BeginCall(p) \/ AllocationFails(p) PROVE VInv'
  BY <1>2, BeginCallCurrent, EndCurrent
<1>3. CASE Stage \/ EnqueueOps \/ LaunchAsGraph \/ LaunchDirectly
  BY <1>3, StageCurrent, EnqueueOpsCurrent, LaunchAsGraphCurrent, LaunchDirectlyCurrent
<1>4. CASE Synchronize \/ Read \/ Lookup \/ Remember \/ Capture
  BY <1>4, PlainCurrent, CaptureCurrent
<1>5. CASE BuildFails \/ Return \/ Settle
  BY <1>5, EndCurrent, SettleCurrent
<1>6. ASSUME NEW e \in pending, Execute(e) PROVE VInv'
  BY <1>6, ExecuteCurrent
<1> QED BY <1>1, <1>2, <1>3, <1>4, <1>5, <1>6, Zenon DEF Next, HostStep

-----------------------------------------------------------------------------
(* Graphs whose key has no generation, where the geometry is fixed.        *)

\* The blocks are as large as call p asks; a graph of such a key is of a call of
\* the context that has them, and has their addresses in it.
Suits(p, bs) == \A i \in DOMAIN Programs[p].needs : i \in DOMAIN bs /\ bs[i].bytes >= Programs[p].needs[i]
Settled(g, m, bs) ==
    /\ g.key[1] \in m
    /\ Recorded(g.key[1], "bare") # {}
    /\ Suits(g.key[1], bs)
    /\ g.at = AddressesOf(g.key[1], bs)
BareInv ==
    /\ \A i \in DOMAIN blocks : blocks[i].bytes \in Nat
    /\ call # Idle => call \in mix /\ Suits(call, blocks)
    /\ \A store \in Stores : \A g \in ToSet(graphs[store]) : g.key[2] = "bare" => Settled(g, mix, blocks)

\* What a call asks of the blocks of one that keeps such graphs is there.
LEMMA GeometryHolds ==
    ASSUME FixedGeometry, NEW m \in Mixes, NEW p \in m, NEW q \in m,
           Recorded(p, "bare") # {}, Suits(p, blocks), \A i \in DOMAIN blocks : blocks[i].bytes \in Nat,
           NEW i \in DOMAIN Programs[p].needs \cap DOMAIN Programs[q].needs
    PROVE  ~Grows(i, Programs[q].needs)
<1>1. Programs[p].needs \in Seq(Nat) /\ Programs[q].needs \in Seq(Nat)
  BY StreamsAssumption, ProgramsAreHostCode
<1>2. Programs[q].needs[i] <= Programs[p].needs[i]
  BY DEF FixedGeometry
<1>3. i \in DOMAIN blocks /\ blocks[i].bytes >= Programs[p].needs[i] /\ blocks[i].bytes \in Nat
  BY DEF Suits
<1>4. Programs[p].needs[i] \in Nat /\ Programs[q].needs[i] \in Nat
  <2>1. ASSUME NEW ns \in Seq(Nat), NEW k \in DOMAIN ns PROVE ns[k] \in Nat
    OBVIOUS
  <2> QED BY <2>1, <1>1
<1>5. ~(blocks[i].bytes < Programs[q].needs[i])
  BY <1>2, <1>3, <1>4
<1> QED BY <1>3, <1>5 DEF Grows

\* A graph stays where it was when the blocks of its call do.
LEMMA SettledStill ==
    ASSUME NEW g, NEW m, NEW bs, NEW cs, Settled(g, m, bs),
           \A i \in DOMAIN Programs[g.key[1]].needs : i \in DOMAIN cs /\ cs[i] = bs[i]
    PROVE  Settled(g, m, cs)
<1>1. AddressesOf(g.key[1], cs) = AddressesOf(g.key[1], bs)
  BY DEF AddressesOf
<1>2. Suits(g.key[1], cs)
  BY DEF Settled, Suits
<1> QED BY <1>1, <1>2 DEF Settled

\* The blocks after the first n allocations of a call.
LEMMA FirstAllocated ==
    ASSUME NEW needs, needs \in Seq(Nat), NEW n \in 0 .. Len(needs), \A i \in DOMAIN blocks : blocks[i].bytes \in Nat
    PROVE  LET bs == AllocateFirst(n, needs).blocks
           IN  /\ DOMAIN bs = (1 .. n) \cup DOMAIN blocks
               /\ \A i \in DOMAIN bs : bs[i].bytes \in Nat
               /\ \A i \in DOMAIN blocks : ~Grows(i, needs) => bs[i] = blocks[i]
               /\ \A i \in 1 .. n : bs[i].bytes >= needs[i]
<1> DEFINE G == Grown(n, needs)
           bs == [i \in (1 .. n) \cup DOMAIN blocks |-> IF i \in G THEN Allocate(i, needs) ELSE blocks[i]]
<1>1. AllocateFirst(n, needs).blocks = bs
  BY DEF AllocateFirst
<1>2. \A i \in G : i \in 1 .. n /\ Grows(i, needs)
  BY DEF Grown
<1>3. \A i \in 1 .. n : i \notin G => i \in DOMAIN blocks /\ ~(blocks[i].bytes < needs[i])
  BY DEF Grown, Grows
<1>4. \A i \in 1 .. n : needs[i] \in Nat
  OBVIOUS
<1>5. ASSUME NEW i \in 1 .. n PROVE Allocate(i, needs).bytes \in Nat /\ Allocate(i, needs).bytes >= needs[i]
  <2>1. CASE i \in DOMAIN blocks /\ needs[i] <= 2 * blocks[i].bytes
    <3>1. Allocate(i, needs).bytes = 2 * blocks[i].bytes
      BY <2>1 DEF Allocate
    <3> QED BY <3>1, <2>1, <1>4
  <2>2. CASE ~(i \in DOMAIN blocks /\ needs[i] <= 2 * blocks[i].bytes)
    <3>1. Allocate(i, needs).bytes = needs[i]
      BY <2>2 DEF Allocate
    <3> QED BY <3>1, <1>4
  <2> QED BY <2>1, <2>2
<1>6. DOMAIN bs = (1 .. n) \cup DOMAIN blocks
  OBVIOUS
<1>7. \A i \in DOMAIN bs : bs[i] = IF i \in G THEN Allocate(i, needs) ELSE blocks[i]
  OBVIOUS
<1> HIDE DEF G, bs
<1>8. ASSUME NEW i \in DOMAIN bs PROVE bs[i].bytes \in Nat
  BY <1>2, <1>3, <1>5, <1>6, <1>7
<1>9. ASSUME NEW i \in 1 .. n PROVE bs[i].bytes >= needs[i]
  <2>1. CASE i \in G
    BY <2>1, <1>5, <1>6, <1>7
  <2>2. CASE i \notin G
    BY <2>2, <1>3, <1>4, <1>6, <1>7
  <2> QED BY <2>1, <2>2
<1>10. ASSUME NEW i \in DOMAIN blocks, ~Grows(i, needs) PROVE bs[i] = blocks[i]
  BY <1>2, <1>6, <1>7, <1>10
<1> QED BY <1>1, <1>6, <1>8, <1>9, <1>10

\* An allocation, whole or broken off, leaves the blocks of such graphs alone.
LEMMA BareAllocated ==
    ASSUME FixedGeometry, IInv, BareInv, NEW p \in mix, NEW cs, mix' = mix, graphs' = graphs, blocks' = cs,
           \A i \in DOMAIN cs : cs[i].bytes \in Nat,
           \A i \in DOMAIN blocks : i \notin DOMAIN Programs[p].needs \/ ~Grows(i, Programs[p].needs)
                                   => i \in DOMAIN cs /\ cs[i] = blocks[i],
           call' # Idle => call' \in mix /\ Suits(call', cs)
    PROVE  BareInv'
<1>1. mix \in Mixes /\ \A i \in DOMAIN blocks : blocks[i].bytes \in Nat
  BY DEF IInv, BareInv
<1>2. ASSUME NEW store \in Stores, NEW g \in ToSet(graphs[store]), g.key[2] = "bare"
      PROVE  Settled(g, mix, cs)
  <2>1. Settled(g, mix, blocks)
    BY <1>2 DEF BareInv
  <2>2. ASSUME NEW i \in DOMAIN Programs[g.key[1]].needs PROVE i \in DOMAIN cs /\ cs[i] = blocks[i]
    <3>1. i \in DOMAIN blocks
      BY <2>1 DEF Settled, Suits
    <3>2. i \in DOMAIN Programs[p].needs => ~Grows(i, Programs[p].needs)
      BY <2>1, <1>1, GeometryHolds DEF Settled
    <3> QED BY <3>1, <3>2
  <2> QED BY <2>1, <2>2, SettledStill
<1> QED BY <1>2 DEF BareInv

\* A call that begins has its blocks.
LEMMA BeginCallBare == ASSUME FixedGeometry, IInv, BareInv, NEW p \in mix, BeginCall(p) PROVE BareInv'
<1> DEFINE needs == Programs[p].needs
           cs == AllocateFirst(Len(needs), needs).blocks
<1>1. mix' = mix /\ graphs' = graphs /\ blocks' = cs /\ call' = p
  BY DEF BeginCall, cache
<1>2. needs \in Seq(Nat) /\ Len(needs) \in 0 .. Len(needs) /\ DOMAIN needs = 1 .. Len(needs)
  <2>1. needs \in Seq(Nat)
    BY StreamsAssumption, ProgramsAreHostCode DEF IInv
  <2> QED BY <2>1
<1> HIDE DEF needs
<1>3. /\ DOMAIN cs = (1 .. Len(needs)) \cup DOMAIN blocks
      /\ \A i \in DOMAIN cs : cs[i].bytes \in Nat
      /\ \A i \in DOMAIN blocks : ~Grows(i, needs) => cs[i] = blocks[i]
      /\ \A i \in 1 .. Len(needs) : cs[i].bytes >= needs[i]
  BY <1>2, FirstAllocated DEF BareInv
<1>4. \A i \in DOMAIN blocks : i \notin DOMAIN needs => cs[i] = blocks[i]
  <2>1. ASSUME NEW i \in DOMAIN blocks, i \notin 1 .. Len(needs) PROVE cs[i] = blocks[i]
    <3>1. i \notin Grown(Len(needs), needs)
      BY <2>1 DEF Grown
    <3> QED BY <3>1 DEF AllocateFirst
  <2> QED BY <2>1, <1>2
<1> HIDE DEF cs
<1>5. Suits(p, cs)
  BY <1>2, <1>3 DEF Suits, needs
<1>6. \A i \in DOMAIN blocks : i \notin DOMAIN Programs[p].needs \/ ~Grows(i, Programs[p].needs)
                              => i \in DOMAIN cs /\ cs[i] = blocks[i]
  BY <1>3, <1>4 DEF needs
<1> QED BY <1>1, <1>3, <1>5, <1>6, BareAllocated

\* A call that fails has lost a block no such graph has.
LEMMA AllocationFailsBare == ASSUME FixedGeometry, IInv, BareInv, NEW p \in mix, AllocationFails(p) PROVE BareInv'
<1> DEFINE needs == Programs[p].needs
<1>1. mix' = mix /\ graphs' = graphs /\ call = Idle /\ call' = call
  BY DEF AllocationFails, host, cache
<1>2. PICK k \in DOMAIN needs :
         Grows(k, needs) /\ blocks' = Lose(AllocateFirst(k - 1, needs), k).blocks
  BY Zenon DEF AllocationFails
<1>3. needs \in Seq(Nat) /\ DOMAIN needs = 1 .. Len(needs) /\ k - 1 \in 0 .. Len(needs)
  <2>1. needs \in Seq(Nat)
    BY StreamsAssumption, ProgramsAreHostCode DEF IInv
  <2> QED BY <2>1
<1> HIDE DEF needs
<1> DEFINE m == AllocateFirst(k - 1, needs)
           bs == m.blocks
           cs == Lose(m, k).blocks
<1>4. /\ DOMAIN bs = (1 .. k - 1) \cup DOMAIN blocks
      /\ \A i \in DOMAIN bs : bs[i].bytes \in Nat
      /\ \A i \in DOMAIN blocks : ~Grows(i, needs) => bs[i] = blocks[i]
  BY <1>3, FirstAllocated DEF BareInv
<1>5. \A i \in DOMAIN blocks : i \notin DOMAIN needs => bs[i] = blocks[i]
  <2>1. ASSUME NEW i \in DOMAIN blocks, i \notin DOMAIN needs PROVE bs[i] = blocks[i]
    <3>1. i \notin Grown(k - 1, needs)
      BY <2>1, <1>3 DEF Grown
    <3> QED BY <3>1 DEF AllocateFirst
  <2> QED BY <2>1
<1>6. cs = bs \/ (k \in DOMAIN bs /\ cs = [bs EXCEPT ![k] = [bytes |-> 0, address |-> <<k, 0>>]])
  <2>1. CASE k \notin DOMAIN m.blocks
    <3>1. Lose(m, k) = m
      BY <2>1, Zenon DEF Lose
    <3> QED BY <3>1
  <2>2. CASE k \in DOMAIN m.blocks
    <3> HIDE DEF m
    <3>1. Lose(m, k).blocks = [m.blocks EXCEPT ![k] = [bytes |-> 0, address |-> <<k, 0>>]]
      BY <2>2 DEF Lose
    <3> QED BY <3>1, <2>2
  <2> QED BY <2>1, <2>2
<1>7. blocks' = cs
  BY <1>2
<1> HIDE DEF cs, bs, m
<1>8. DOMAIN cs = DOMAIN bs /\ \A i \in DOMAIN bs : i # k => cs[i] = bs[i]
  BY <1>6
<1>9. ASSUME NEW i \in DOMAIN cs PROVE cs[i].bytes \in Nat
  BY <1>4, <1>6
<1>10. ASSUME NEW i \in DOMAIN blocks, i \notin DOMAIN needs \/ ~Grows(i, needs)
       PROVE  i \in DOMAIN cs /\ cs[i] = blocks[i]
  BY <1>2, <1>4, <1>5, <1>8, <1>10
<1>11. \A i \in DOMAIN blocks : i \notin DOMAIN Programs[p].needs \/ ~Grows(i, Programs[p].needs)
                               => i \in DOMAIN cs /\ cs[i] = blocks[i]
  BY <1>10 DEF needs
<1> QED BY <1>1, <1>7, <1>9, <1>11, BareAllocated

\* The other steps change no block, and begin no call.
LEMMA SameBlocksBare ==
    ASSUME BareInv, blocks' = blocks, mix' = mix, call' = call \/ call' = Idle,
           \A store \in Stores : \A g \in ToSet(graphs'[store]) :
             g.key[2] = "bare" => g \in ToSet(graphs[store]) \/ Settled(g, mix, blocks)
    PROVE  BareInv'
<1>1. call' # Idle => call' \in mix /\ Suits(call', blocks)
  BY DEF BareInv
<1>2. \A store \in Stores : \A g \in ToSet(graphs'[store]) : g.key[2] = "bare" => Settled(g, mix, blocks)
  BY DEF BareInv
<1>3. \A i \in DOMAIN blocks : blocks[i].bytes \in Nat
  BY DEF BareInv
<1> QED BY <1>1, <1>2, <1>3 DEF BareInv

\* One list of graphs takes the place of another.
LEMMA GraphsSettledWith ==
    ASSUME IInv, BareInv, blocks' = blocks, mix' = mix, call' = call,
           NEW store \in Stores, NEW list, graphs' = [graphs EXCEPT ![store] = list],
           \A g \in ToSet(list) : g.key[2] = "bare" => g \in ToSet(graphs[store]) \/ Settled(g, mix, blocks)
    PROVE  BareInv'
<1>1. graphs = [q \in Stores |-> graphs[q]]
  BY DEF IInv, GraphsFit
<1>2. \A q \in Stores : graphs'[q] = IF q = store THEN list ELSE graphs[q]
  BY <1>1
<1> QED BY <1>2, SameBlocksBare

\* A graph is replayed; in one of the maps it is now the last used.
LEMMA LaunchAsGraphBare == ASSUME IInv, BareInv, LaunchAsGraph PROVE BareInv'
<1>1. blocks' = blocks /\ mix' = mix /\ call' = call
  BY DEF LaunchAsGraph, pool
<1>2. PICK i \in Hit(Now.graph) :
         graphs' = IF Now.graph = "second"
                   THEN [graphs EXCEPT !["second"] = Append(Without(@, i), Kept(Now.graph)[i])] ELSE graphs
  BY Zenon DEF LaunchAsGraph
<1>3. CASE Now.graph # "second"
  <2>1. graphs' = graphs
    BY <1>2, <1>3
  <2> QED BY <2>1, <1>1, SameBlocksBare
<1>4. CASE Now.graph = "second"
  <2>1. PICK gs, g : gs = graphs["second"] /\ g = gs[i]
    OBVIOUS
  <2>2. Kept(Now.graph) = gs /\ "second" \in Stores
    BY <1>4, <2>1 DEF Kept, Store, Stores
  <2>3. i \in DOMAIN gs /\ IsSequence(gs)
    BY <2>1, <2>2 DEF Hit, IInv, GraphsFit
  <2> DEFINE list == Append(Without(gs, i), g)
  <2>4. graphs' = [graphs EXCEPT !["second"] = list]
    BY <1>2, <1>4, <2>1, <2>2
  <2>5. ToSet(list) \subseteq ToSet(gs)
    <3>1. IsSequence(Without(gs, i)) /\ ToSet(Without(gs, i)) \subseteq ToSet(gs)
      BY <2>3, WithoutOne
    <3>2. ToSet(list) = ToSet(Without(gs, i)) \cup {g}
      BY <3>1, Appended
    <3>3. g \in ToSet(gs)
      BY <2>1, <2>3 DEF ToSet
    <3> HIDE DEF list
    <3> QED BY <3>1, <3>2, <3>3
  <2> HIDE DEF list
  <2>6. PICK store : store = "second"
    OBVIOUS
  <2>7. \A h \in ToSet(list) : h \in ToSet(graphs[store])
    BY <2>1, <2>5, <2>6
  <2> QED BY <2>2, <2>4, <2>6, <2>7, <1>1, GraphsSettledWith
<1> QED BY <1>3, <1>4

\* A graph is recorded over the blocks its call has.
LEMMA CaptureBare == ASSUME IInv, VInv, BareInv, Capture PROVE BareInv'
<1> DEFINE r == Resolve(fp8, Now.ops)
           g == [key |-> Key, out |-> r.out, at |-> Addresses, whole |-> r.past[Main] = 0 .. Len(r.out),
                 uses |-> IF AsksForPlan(Now.ops) THEN {PlanFor(Shape)} ELSE {}]
<1>1. steps # <<>> /\ Now.do = "capture" /\ call' = call /\ mix' = mix /\ blocks' = blocks
  <2> HIDE DEF g
  <2> QED BY DEF Capture, Step, Now, pool
<1>2. PICK old : old = Kept(Now.graph)
  OBVIOUS
<1>3. PICK victim \in (IF Now.graph = "second" THEN {1} ELSE DOMAIN old) \cup {0} :
         /\ victim = 0 <=> Len(old) < MaxGraphs
         /\ graphs' = [graphs EXCEPT ![Store(Now.graph)] = Append(IF victim = 0 THEN old ELSE Without(old, victim), g)]
  BY <1>2, Zenon DEF Capture
<1>4. OwnStep(call, Now)
  BY <1>1, NowFed DEF VInv
<1>5. Now.graph \in Policies /\ Now.ops \in Recorded(call, Now.graph)
  BY <1>1, <1>4, HeadOfHost DEF OwnStep, StepOfHost
<1>6. call \in mix /\ Suits(call, blocks)
  BY <1>1 DEF IInv, HostInv, BareInv
<1>7. g.key[2] = "bare" => Settled(g, mix, blocks)
  <2>1. Key[1] = call /\ Key[2] = Now.graph
    BY <1>5, KeyParts
  <2>2. g.key = Key /\ g.at = Addresses
    OBVIOUS
  <2> HIDE DEF g, r
  <2>3. Addresses = AddressesOf(call, blocks)
    BY DEF Addresses, AddressesOf
  <2> QED BY <2>1, <2>2, <2>3, <1>5, <1>6 DEF Settled
<1> HIDE DEF g, r
<1> DEFINE kept == IF victim = 0 THEN old ELSE Without(old, victim)
<1>8. IsSequence(kept) /\ ToSet(kept) \subseteq ToSet(old)
  <2>1. IsSequence(old)
    BY <1>2, StoreOf DEF IInv, GraphsFit, Kept
  <2>2. CASE victim = 0
    BY <2>1, <2>2
  <2>3. CASE victim # 0
    <3>1. victim \in DOMAIN old
      <4>1. CASE Now.graph # "second"
        BY <4>1, <1>3, <2>3
      <4>2. CASE Now.graph = "second"
        <5>1. victim = 1 /\ ~(Len(old) < MaxGraphs)
          BY <4>2, <1>3, <2>3
        <5>2. Len(old) \in Nat /\ DOMAIN old = 1 .. Len(old) /\ MaxGraphs \in Nat \ {0}
          BY <2>1, Sequence, StreamsAssumption
        <5> QED BY <5>1, <5>2
      <4> QED BY <4>1, <4>2
    <3>2. IsSequence(Without(old, victim)) /\ ToSet(Without(old, victim)) \subseteq ToSet(old)
      BY <2>1, <3>1, WithoutOne
    <3> QED BY <3>2, <2>3
  <2> QED BY <2>2, <2>3
<1> HIDE DEF kept
<1>9. PICK store, list : store = Store(Now.graph) /\ list = Append(kept, g)
  OBVIOUS
<1>10. graphs' = [graphs EXCEPT ![store] = list]
  BY <1>3, <1>9, Zenon DEF kept
<1>11. ToSet(list) \subseteq ToSet(graphs[store]) \cup {g} /\ store \in Stores
  <2>1. ToSet(list) = ToSet(kept) \cup {g}
    BY <1>8, <1>9, Appended
  <2> QED BY <2>1, <1>2, <1>8, <1>9, StoreOf DEF Kept
<1>12. \A h \in ToSet(list) : h.key[2] = "bare" => h \in ToSet(graphs[store]) \/ Settled(h, mix, blocks)
  BY <1>7, <1>11
<1> QED BY <1>1, <1>10, <1>11, <1>12, GraphsSettledWith

\* Every step keeps such graphs where they were.
LEMMA NextBare == ASSUME FixedGeometry PROVE IInv /\ VInv /\ BareInv /\ [Next]_vars => BareInv'
<1> SUFFICES ASSUME IInv, VInv, BareInv, [Next]_vars PROVE BareInv'
  OBVIOUS
<1>1. ASSUME blocks' = blocks, mix' = mix, graphs' = graphs, call' = call \/ call' = Idle PROVE BareInv'
  BY <1>1, SameBlocksBare
<1>2. CASE UNCHANGED vars
  BY <1>1, <1>2 DEF vars, host, pool, cache
<1>3. ASSUME NEW p \in mix, BeginCall(p) \/ AllocationFails(p) PROVE BareInv'
  BY <1>3, BeginCallBare, AllocationFailsBare
<1>4. CASE Stage \/ EnqueueOps \/ LaunchDirectly \/ Lookup \/ BuildFails \/ Remember
  BY <1>1, <1>4 DEF Stage, EnqueueOps, LaunchDirectly, Lookup, BuildFails, Remember, pool, cache
<1>5. CASE Synchronize \/ Read \/ Return \/ Settle
  BY <1>1, <1>5 DEF Synchronize, Read, Return, Settle, pool, cache
<1>6. CASE LaunchAsGraph \/ Capture
  BY <1>6, LaunchAsGraphBare, CaptureBare
<1>7. ASSUME NEW e \in pending, Execute(e) PROVE BareInv'
  BY <1>1, <1>7 DEF Execute, pool, cache
<1> QED BY <1>2, <1>3, <1>4, <1>5, <1>6, <1>7, Zenon DEF Next, HostStep

-----------------------------------------------------------------------------
(* The theorems.                                                           *)

\* The steps left, what is pending, the scratch, the plans and the graphs are
\* always in the order the invariant states.
THEOREM Inductive == Spec => []IInv
<1>1. Init => IInv
  BY InitInv
<1>2. IInv /\ [Next]_vars => IInv'
  BY NextInv
<1> QED BY <1>1, <1>2, PTL DEF Spec

\* capture_graph() records when nothing runs, records all it launches, and builds
\* no plan; launch_graph() replays only over the scratch and the plans the graph
\* was recorded with.  A graph whose key has no generation needs the geometry of
\* its context to be fixed.
THEOREM GraphsAreValid == ASSUME FixedGeometry PROVE Spec => []GraphsStayValid
<1>1. Init => IInv /\ VInv /\ BareInv
  <2>1. Init => BareInv
    <3> SUFFICES ASSUME Init PROVE BareInv
      OBVIOUS
    <3>1. call = Idle /\ blocks = <<>> /\ graphs = [store \in Stores |-> <<>>]
      BY DEF Init
    <3>2. DOMAIN <<>> = {} /\ ToSet(<<>>) = {}
      BY DEF ToSet
    <3> QED BY <3>1, <3>2 DEF BareInv
  <2> QED BY <2>1, InitInv, InitCurrent
<1>2. IInv /\ VInv /\ BareInv /\ [Next]_vars => IInv' /\ VInv' /\ BareInv'
  BY NextInv, NextCurrent, NextBare
<1>3. IInv /\ BareInv => GraphsStayValid
  <2> SUFFICES ASSUME IInv, BareInv PROVE GraphsStayValid
    OBVIOUS
  <2>1. ASSUME Step("capture") PROVE pending = {} /\ (AsksForPlan(Now.ops) => PlansOf(Shape) # {})
    <3>1. steps # <<>> /\ Now.do = "capture"
      BY <2>1 DEF Step, Now
    <3>2. CaptureInPlace(steps, 1, pending = {}, Planned) /\ Now = steps[1]
      BY <3>1, HeadOfHost
    <3>3. pending = {}
      BY <3>2 DEF CaptureInPlace
    <3>4. ASSUME AsksForPlan(Now.ops) PROVE Planned
      <4>1. Planned \/ \E j \in 1 .. 1 - 1 : steps[j].do = "plan"
        BY <3>2, <3>4 DEF CaptureInPlace
      <4> QED BY <4>1
    <3> QED BY <3>3, <3>4 DEF Planned
  <2>2. GraphsFit(graphs, blocks, generation, plans, evictions)
    BY DEF IInv
  <2>3. \A store \in Stores : \A g \in ToSet(graphs[store]) : g.whole
    BY <2>2 DEF GraphsFit, GraphFits
  <2>4. ASSUME Now.graph \in Policies, NEW i \in Hit(Now.graph)
        PROVE  Kept(Now.graph)[i].at = Addresses /\ Kept(Now.graph)[i].uses \subseteq ToSet(plans)
    <3> DEFINE g == Kept(Now.graph)[i]
               store == Store(Now.graph)
    <3>1. i \in DOMAIN graphs[store] /\ g = graphs[store][i] /\ g.key = Key
      BY <2>4 DEF Hit, Kept
    <3>2. store \in Stores /\ g \in ToSet(graphs[store])
      BY <3>1, StoreOf DEF ToSet
    <3> HIDE DEF g, store
    <3>3. GraphFits(g, blocks, generation, plans, evictions)
      BY <2>2, <3>2 DEF GraphsFit
    <3>4. /\ g.key[1] = call /\ g.key[2] = Now.graph
          /\ Now.graph # "bare" => g.key[3] = generation
          /\ Now.graph = "second" => g.key[4] = evictions
      BY <3>1, <2>4, KeyParts
    <3>5. g.at = Addresses
      <4>1. CASE Now.graph = "bare"
        <5>1. Settled(g, mix, blocks)
          BY <4>1, <3>2, <3>4 DEF BareInv
        <5> QED BY <5>1, <3>4 DEF Settled, Addresses, AddressesOf
      <4>2. CASE Now.graph # "bare"
        BY <4>2, <3>3, <3>4 DEF GraphFits, Addresses, AddressesOf
      <4> QED BY <4>1, <4>2
    <3>6. g.uses \subseteq ToSet(plans)
      BY <3>3, <3>4 DEF GraphFits
    <3> QED BY <3>5, <3>6 DEF g
  <2> QED BY <2>1, <2>3, <2>4 DEF GraphsStayValid, GrowthInvalidatesGraphs
<1> QED BY <1>1, <1>2, <1>3, PTL DEF Spec

\* Two kernels that share a buffer one of them writes never run at the same time,
\* and the host uses a pinned buffer only when no kernel may, in any order the
\* streams, events and graphs leave to the device: it is enough that each launch
\* code orders its own kernels, joins what it forks, and is waited for.
THEOREM KernelsAreDisjoint == Spec => []ConcurrentKernelsAreDisjoint
<1>1. IInv => ConcurrentKernelsAreDisjoint
  <2> SUFFICES ASSUME IInv PROVE ConcurrentKernelsAreDisjoint
    OBVIOUS
  <2>1. ASSUME NEW e \in {x \in pending : Ready(x)}, NEW f \in {x \in pending : Ready(x)}
        PROVE  e = f \/ Written(e) \cap Touched(f) = {}
    BY ReadyApart DEF IInv, InOrder, Clash
  <2>2. ASSUME steps # <<>>, Now.do \in {"stage", "read"}, NEW e \in pending
        PROVE  Now.buffer \notin Touched(e)
    BY <2>2, HostApart
  <2>3. ASSUME Step("stage"), NEW e \in pending PROVE Now.buffer \notin Touched(e)
    BY <2>2, <2>3 DEF Step, Now
  <2>4. ASSUME Step("read"), NEW e \in pending PROVE Now.buffer \notin Written(e)
    <3>1. Now.buffer \notin Touched(e)
      BY <2>2, <2>4 DEF Step, Now
    <3>2. Written(e) \subseteq Touched(e)
      BY DEF Written, Touched
    <3> QED BY <3>1, <3>2
  <2> QED BY <2>1, <2>3, <2>4 DEF ConcurrentKernelsAreDisjoint
<1> QED BY <1>1, Inductive, PTL

\* Every kernel, and the host, finds in a buffer what was last written there in the
\* order of the host's calls, and in a quantised activation its present source and
\* scales, whatever the device runs first, whether launch code runs as it is or as
\* a graph recorded when the runner held something else: it is enough that each
\* launch code, run one kernel after the other, finds what the calls leave it.
THEOREM KernelsReadCurrent == Spec => []ReadsAreCurrent
<1>1. Init => IInv /\ VInv
  BY InitInv, InitCurrent
<1>2. IInv /\ VInv /\ [Next]_vars => IInv' /\ VInv'
  BY NextInv, NextCurrent
<1>3. IInv /\ VInv => ReadsAreCurrent
  <2> SUFFICES ASSUME IInv, VInv PROVE ReadsAreCurrent
    OBVIOUS
  <2>1. ASSUME NEW e \in pending, Ready(e), NEW x \in e.expects PROVE Holds(x[1]) = x[2]
    <3>1. Finds(x[1], e.id, x[2])
      BY <2>1 DEF VInv, Valued
    <3>2. Earlier(x[1], e.id) = {}
      <4>1. SUFFICES ASSUME NEW w \in Earlier(x[1], e.id) PROVE FALSE
        OBVIOUS
      <4>2. w \in pending /\ w.id < e.id /\ Clash(w, e)
        BY <4>1, <2>1 DEF Earlier, Clash, Touched
      <4> QED BY <4>2, <2>1, ReadyFirst DEF IInv, InOrder
    <3> QED BY <3>1, <3>2 DEF Finds
  <2>2. ASSUME Step("read") PROVE Holds(Now.buffer) = <<Now.buffer, Count(version, Now.buffer)>>
    <3>1. steps # <<>> /\ Now.do = "read"
      BY <2>2 DEF Step, Now
    <3>2. PICK K, L : Carries(call, Now, K, L) /\ \A b \in K : Current(b)
      BY <3>1, NowFed DEF VInv
    <3>3. Current(Now.buffer)
      BY <3>1, <3>2 DEF Carries
    <3>4. Earlier(Now.buffer, issued + 1) = {}
      BY <3>1, HostApart DEF Earlier, Written, Touched
    <3> QED BY <3>3, <3>4 DEF Current, Finds
  <2> QED BY <2>1, <2>2 DEF ReadsAreCurrent
<1> QED BY <1>1, <1>2, <1>3, PTL DEF Spec
=============================================================================
