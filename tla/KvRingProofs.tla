---------------------------- MODULE KvRingProofs ----------------------------
(* Theorems about KvRing, for rings of any size, any number of candidates,   *)
(* any texts and any model: what the rings hold, what every kernel reads of  *)
(* them, and that the text is the one that greedy decoding yields.           *)
EXTENDS KvRing, FiniteSetTheorems, WellFoundedInduction, TLAPS

-----------------------------------------------------------------------------
(* Remainders *)

LEMMA Remainder ==
    ASSUME NEW w \in Nat \ {0}, NEW x \in Nat
    PROVE  x % w \in 0 .. w - 1 /\ \E q \in Nat : x = w * q + (x % w)
<1> DEFINE q == x \div w
           s == x - w * q
<1>1. q \in Int /\ w * q <= x /\ x < w * q + w
  OBVIOUS
<1> HIDE DEF q
<1>2. q >= 0
  <2>1. CASE q < 0
    <3>1. w * q <= -w
      BY <2>1, <1>1
    <3> QED
      BY <1>1, <3>1
  <2> QED
    BY <1>1, <2>1
<1>3. q \in Nat /\ s \in 0 .. w - 1 /\ x = w * q + s
  BY <1>1, <1>2
<1> HIDE DEF s
<1>4. x % w = s
  <2>1. (w * q + s) % w = s
    BY <1>3
  <2> QED
    BY <1>3, <2>1, Zenon
<1>5. q \in Nat /\ x = w * q + (x % w) /\ x % w \in 0 .. w - 1
  BY <1>3, <1>4, Zenon
<1> QED
  BY <1>5, Zenon

LEMMA RemainderIs ==
    ASSUME NEW w \in Nat \ {0}, NEW q \in Nat, NEW s \in 0 .. w - 1
    PROVE  (w * q + s) % w = s
  OBVIOUS

LEMMA RemainderSmall ==
    ASSUME NEW w \in Nat \ {0}, NEW x \in 0 .. w - 1
    PROVE  x % w = x
  OBVIOUS

\* Numbers with one remainder are the same, or a divisor apart.
LEMMA RemainderClose ==
    ASSUME NEW w \in Nat \ {0}, NEW x \in Nat, NEW y \in Nat,
           x % w = y % w, x - y < w, y - x < w
    PROVE  x = y
<1>1. PICK q \in Nat : x = w * q + (x % w)
  BY Remainder
<1>2. PICK r \in Nat : y = w * r + (y % w)
  BY Remainder
<1>3. x - y = w * q - w * r
  BY <1>1, <1>2, Remainder
<1>4. CASE q > r
  <2>1. w * q >= w * r + w
    BY <1>4
  <2> QED
    BY <1>3, <2>1
<1>5. CASE q < r
  <2>1. w * r >= w * q + w
    BY <1>5
  <2> QED
    BY <1>3, <2>1
<1>6. CASE q = r
  BY <1>1, <1>2, <1>6
<1> QED
  BY <1>4, <1>5, <1>6

-----------------------------------------------------------------------------
(* The copies of a slot *)

LEMMA RowsHaveSlots ==
    /\ \A r \in SlidingRows : r \in Nat /\ r % Window \in 0 .. Window - 1
    /\ 0 .. Window - 1 \subseteq SlidingRows
    /\ \A s \in 0 .. Window - 1 : s % Window = s
<1>1. Window \in Nat \ {0} /\ MaxTokens \in 1 .. Window
  BY RingAssumption
<1>2. \A r \in SlidingRows : r \in Nat
  BY <1>1 DEF SlidingRows
<1>3. \A r \in SlidingRows : r % Window \in 0 .. Window - 1
  BY <1>1, <1>2
<1>4. 0 .. Window - 1 \subseteq SlidingRows
  BY <1>1 DEF SlidingRows
<1> QED
  BY <1>1, <1>2, <1>3, <1>4, RemainderSmall

\* The rows of a position are those of its slot.
LEMMA CopiesAre ==
    ASSUME NEW r \in SlidingRows, NEW p \in Nat
    PROVE  r \in Copies(p) <=> r % Window = p % Window
<1> DEFINE s == p % Window
<1>1. Window \in Nat \ {0} /\ MaxTokens \in 1 .. Window
  BY RingAssumption
<1>2. s \in 0 .. Window - 1
  BY <1>1, Remainder
<1>3. r \in Nat /\ r <= 3 * Window + MaxTokens - 2
  BY <1>1 DEF SlidingRows
<1>4. Copies(p) = {s, s + Window, s + 2 * Window}
                    \cup (IF s < MaxTokens - 1 THEN {s + 3 * Window} ELSE {})
  BY DEF Copies
<1> HIDE DEF s
<1>5. ASSUME r \in Copies(p) PROVE r % Window = s
  <2>1. PICK k \in 0 .. 3 : r = Window * k + s
    BY <1>1, <1>2, <1>4, <1>5
  <2> QED
    BY <1>1, <1>2, <2>1, RemainderIs
<1>6. ASSUME r % Window = s PROVE r \in Copies(p)
  <2>1. PICK k \in Nat : r = Window * k + s
    BY <1>1, <1>3, <1>6, Remainder
  <2>2. k <= 3
    <3>1. SUFFICES ASSUME k >= 4 PROVE FALSE
      BY <2>1
    <3>2. Window * k >= 4 * Window
      BY <1>1, <3>1
    <3> QED
      BY <1>1, <1>2, <1>3, <2>1, <3>2
  <2>3. k = 0 \/ k = 1 \/ k = 2 \/ k = 3
    BY <2>2
  <2>4. CASE k = 3
    <3>1. s < MaxTokens - 1
      BY <1>1, <1>2, <1>3, <2>1, <2>4
    <3> QED
      BY <1>1, <1>2, <1>4, <2>1, <2>4, <3>1
  <2>5. CASE k = 0 \/ k = 1 \/ k = 2
    BY <1>1, <1>2, <1>4, <2>1, <2>5
  <2> QED
    BY <2>3, <2>4, <2>5
<1> QED
  BY <1>5, <1>6 DEF s

Agree(c) == \A r \in SlidingRows : c[r] = c[r % Window]
Newest(c, line, end) == \A p \in WindowOf(end) : c[p % Window] = Row(p, line[p + 1])

\* What a kernel that writes positions from .. to - 1 of line to all their copies
\* does, and what it leaves.
Fresh(d, line, from, to) ==
    \A r \in SlidingRows : \A p \in from .. to - 1 :
        p % Window = r % Window => d[r] = Row(p, line[p + 1])
Others(c, d, from, to) ==
    \A r \in SlidingRows :
        (\A p \in from .. to - 1 : p % Window # r % Window) => d[r] = c[r]

\* d is c after the tokens of line from cached to `to', or the last Window of
\* them, were written.
Writes(c, d, line, cached, to) ==
    /\ DOMAIN d = SlidingRows
    /\ \E from \in cached .. to :
        /\ to - from <= Window /\ (from = cached \/ to - from = Window)
        /\ Fresh(d, line, from, to) /\ Others(c, d, from, to)

Continues(line, old, cached) == \A p \in 0 .. cached - 1 : line[p + 1] = old[p + 1]

LEMMA Written ==
    ASSUME NEW c, NEW d, NEW old, NEW line, NEW cached \in Nat, NEW to \in Nat,
           Agree(c), Newest(c, old, cached), Continues(line, old, cached),
           Writes(c, d, line, cached, to)
    PROVE  Agree(d) /\ Newest(d, line, to)
<1>1. Window \in Nat \ {0}
  BY RingAssumption
<1>2. PICK from \in cached .. to :
        /\ to - from <= Window /\ (from = cached \/ to - from = Window)
        /\ Fresh(d, line, from, to) /\ Others(c, d, from, to)
  BY DEF Writes
<1>3. ASSUME NEW r \in SlidingRows PROVE d[r] = d[r % Window]
  <2>1. r % Window \in SlidingRows /\ (r % Window) % Window = r % Window
    BY RowsHaveSlots
  <2>2. CASE \E p \in from .. to - 1 : p % Window = r % Window
    BY <1>2, <2>1, <2>2 DEF Fresh
  <2>3. CASE \A p \in from .. to - 1 : p % Window # r % Window
    <3>1. d[r] = c[r]
      BY <1>2, <2>3 DEF Others
    <3>2. d[r % Window] = c[r % Window]
      BY <1>2, <2>1, <2>3 DEF Others
    <3> QED
      BY <3>1, <3>2 DEF Agree
  <2> QED
    BY <2>2, <2>3
<1>4. ASSUME NEW p \in WindowOf(to) PROVE d[p % Window] = Row(p, line[p + 1])
  <2>1. p \in Nat /\ p < to /\ to - p <= Window
    BY <1>1, <1>4 DEF WindowOf, First
  <2>2. p % Window \in SlidingRows /\ (p % Window) % Window = p % Window
    BY <1>1, <2>1, Remainder, RowsHaveSlots
  <2>3. CASE p >= from
    BY <1>2, <2>1, <2>2, <2>3 DEF Fresh
  <2>4. CASE p < from
    <3>1. from = cached /\ p \in WindowOf(cached)
      BY <1>1, <1>2, <2>1, <2>4 DEF WindowOf, First
    <3>2. ASSUME NEW q \in from .. to - 1 PROVE q % Window # p % Window
      <4>1. q \in Nat /\ q - p < Window /\ q # p /\ p - q < Window
        BY <1>1, <1>2, <2>1, <2>4
      <4> QED
        BY <1>1, <2>1, <4>1, RemainderClose
    <3>3. d[p % Window] = c[p % Window]
      BY <1>2, <2>2, <3>2 DEF Others
    <3>4. c[p % Window] = Row(p, old[p + 1]) /\ line[p + 1] = old[p + 1]
      BY <1>2, <2>1, <2>4, <3>1 DEF Newest, Continues
    <3> QED
      BY <3>3, <3>4
  <2> QED
    BY <1>2, <2>1, <2>3, <2>4
<1> QED
  BY <1>3, <1>4 DEF Agree, Newest

-----------------------------------------------------------------------------
(* Sequences of any items *)

IsSeq(s) == s \in Seq({s[i] : i \in DOMAIN s})

LEMMA SeqIs ==
    ASSUME NEW s, IsSeq(s)
    PROVE  Len(s) \in Nat /\ DOMAIN s = 1 .. Len(s)
  BY DEF IsSeq

LEMMA MadeIs ==
    ASSUME NEW n \in Nat, NEW f, f = [i \in 1 .. n |-> f[i]]
    PROVE  IsSeq(f) /\ Len(f) = n
<1> DEFINE T == {f[i] : i \in DOMAIN f}
<1>1. DOMAIN f = 1 .. n
  OBVIOUS
<1>2. f \in [1 .. n -> T]
  BY <1>1
<1> HIDE DEF T
<1>3. f \in Seq(T) /\ Len(f) = n
  BY <1>2
<1> QED
  BY <1>3 DEF IsSeq, T

LEMMA AnySeqIs ==
    ASSUME NEW T, NEW s \in Seq(T)
    PROVE  IsSeq(s)
<1>1. Len(s) \in Nat /\ s = [i \in 1 .. Len(s) |-> s[i]]
  OBVIOUS
<1> QED
  BY <1>1, MadeIs

\* u is s and then t.
Joins(u, s, t) ==
    /\ IsSeq(u) /\ Len(u) = Len(s) + Len(t)
    /\ \A i \in 1 .. Len(s) : u[i] = s[i]
    /\ \A i \in 1 .. Len(t) : u[Len(s) + i] = t[i]

LEMMA JoinedIs ==
    ASSUME NEW s, NEW t, IsSeq(s), IsSeq(t)
    PROVE  Joins(s \o t, s, t)
<1> DEFINE T == {s[i] : i \in DOMAIN s} \cup {t[i] : i \in DOMAIN t}
<1>1. s \in Seq(T) /\ t \in Seq(T)
  <2>1. s \in [1 .. Len(s) -> T] /\ t \in [1 .. Len(t) -> T] /\ Len(s) \in Nat /\ Len(t) \in Nat
    BY SeqIs DEF IsSeq
  <2> QED
    BY <2>1
<1> HIDE DEF T
<1>2. s \o t \in Seq(T) /\ Len(s \o t) = Len(s) + Len(t)
  BY <1>1
<1>3. \A i \in 1 .. Len(s) : (s \o t)[i] = s[i]
  BY <1>1
<1>4. \A i \in 1 .. Len(t) : (s \o t)[Len(s) + i] = t[i]
  BY <1>1
<1>5. IsSeq(s \o t)
  BY <1>2, AnySeqIs
<1> QED
  BY <1>2, <1>3, <1>4, <1>5 DEF Joins

\* Lengths and items of a text, a token and the first m of the drafts after it.
Extends(t, s, a, m) ==
    /\ IsSeq(t) /\ Len(t) = Len(s) + (m + 1)
    /\ \A i \in 1 .. Len(s) : t[i] = s[i]
    /\ \A i \in 0 .. m : t[Len(s) + i + 1] = a[i + 1]

LEMMA Extended ==
    ASSUME NEW s, NEW p, NEW f, IsSeq(s), IsSeq(p), Len(p) = 1, IsSeq(f), NEW m \in 0 .. Len(f)
    PROVE  Extends(s \o p \o SubSeq(f, 1, m), s, p \o f, m)
<1> DEFINE part == SubSeq(f, 1, m)
           head == s \o p
           t == head \o part
           a == p \o f
<1>1. Len(s) \in Nat /\ Len(f) \in Nat /\ m \in Nat
  BY SeqIs
<1>2. IsSeq(part) /\ Len(part) = m /\ \A i \in 1 .. m : part[i] = f[i]
  <2>1. /\ part \in Seq({f[i] : i \in DOMAIN f}) /\ Len(part) = m
        /\ \A i \in 1 .. m : part[i] = f[i]
    BY <1>1 DEF IsSeq
  <2> QED
    BY <2>1, AnySeqIs
<1> HIDE DEF part
<1>3. Joins(head, s, p)
  BY JoinedIs
<1> HIDE DEF head
<1>4. Joins(t, head, part)
  <2>1. IsSeq(head)
    BY <1>3 DEF Joins
  <2> QED
    BY <1>2, <2>1, JoinedIs
<1>5. Joins(a, p, f)
  BY JoinedIs
<1> HIDE DEF t, a
<1>6. Len(head) = Len(s) + 1 /\ Len(t) = Len(s) + (m + 1)
  BY <1>1, <1>2, <1>3, <1>4 DEF Joins
<1>7. \A i \in 1 .. Len(s) : t[i] = s[i]
  BY <1>1, <1>3, <1>4, <1>6 DEF Joins
<1>8. ASSUME NEW i \in 0 .. m PROVE t[Len(s) + i + 1] = a[i + 1]
  <2>1. CASE i = 0
    <3>1. t[Len(s) + 1] = head[Len(s) + 1]
      BY <1>1, <1>4, <1>6 DEF Joins
    <3>2. head[Len(s) + 1] = p[1] /\ a[1] = p[1]
      BY <1>1, <1>3, <1>5 DEF Joins
    <3> QED
      BY <1>1, <2>1, <3>1, <3>2
  <2>2. CASE i # 0
    <3>1. i \in 1 .. m /\ i \in 1 .. Len(f)
      BY <1>1, <2>2
    <3>2. t[Len(s) + 1 + i] = part[i]
      BY <1>2, <1>4, <1>6, <3>1 DEF Joins
    <3>3. a[1 + i] = f[i]
      BY <1>5, <3>1 DEF Joins
    <3>4. Len(s) + 1 + i = Len(s) + i + 1 /\ 1 + i = i + 1
      BY <1>1
    <3> QED
      BY <1>2, <3>1, <3>2, <3>3, <3>4
  <2> QED
    BY <2>1, <2>2
<1> QED
  BY <1>4, <1>6, <1>7, <1>8 DEF Extends, Joins, t, head, part, a

LEMMA GreatestExists ==
    ASSUME NEW n \in Nat, NEW S \in SUBSET (0 .. n), S # {}
    PROVE  \E m \in S : \A k \in S : k <= m
<1> DEFINE Less == {ss \in Nat \X Nat : ss[1] < ss[2]}
           Left == {n - k : k \in S}
<1>1. IsWellFoundedOn(Less, Nat)
  BY NatLessThanWellFounded, Zenon DEF OpToRel
<1>2. Left \in SUBSET Nat /\ Left # {}
  <2>1. \A k \in S : n - k \in Nat
    OBVIOUS
  <2> QED
    BY <2>1
<1> HIDE DEF Less
<1>3. PICK l \in Left : \A k \in Left : ~ <<k, l>> \in Less
  BY <1>1, <1>2, WFMin
<1>4. \A k \in Left : ~ k < l
  BY <1>2, <1>3 DEF Less
<1>5. PICK m \in S : l = n - m
  BY <1>3
<1>6. ASSUME NEW k \in S PROVE k <= m
  <2>1. ~ n - k < n - m
    BY <1>4, <1>5
  <2> QED
    BY <1>5, <2>1
<1> QED
  BY <1>5, <1>6

\* The drafts up to the first the model disagrees with.
LEMMA MatchedIs ==
    ASSUME NEW drafts, NEW targets, Len(drafts) \in Nat
    PROVE  /\ Matched(drafts, targets) \in 0 .. Len(drafts)
           /\ \A i \in 1 .. Matched(drafts, targets) : drafts[i] = targets[i]
<1> DEFINE Good(n) == \A i \in 1 .. n : drafts[i] = targets[i]
           S == {n \in 0 .. Len(drafts) : Good(n)}
           Longest(n) == Good(n) /\ (n < Len(drafts) => drafts[n + 1] # targets[n + 1])
<1>1. 0 \in S /\ S \in SUBSET (0 .. Len(drafts))
  OBVIOUS
<1>2. PICK m \in S : \A k \in S : k <= m
  BY <1>1, GreatestExists
<1>3. m < Len(drafts) => drafts[m + 1] # targets[m + 1]
  <2>1. SUFFICES ASSUME m < Len(drafts), drafts[m + 1] = targets[m + 1] PROVE m + 1 \in S
    BY <1>2
  <2>2. m + 1 \in 0 .. Len(drafts) /\ \A i \in 1 .. m + 1 : i \in 1 .. m \/ i = m + 1
    BY <1>1, <2>1
  <2> QED
    BY <2>1, <2>2
<1>4. \E n \in 0 .. Len(drafts) : Longest(n)
  BY <1>3
<1>5. Matched(drafts, targets) = CHOOSE n \in 0 .. Len(drafts) : Longest(n)
  BY DEF Matched
<1> HIDE DEF Longest
<1>6. Matched(drafts, targets) \in 0 .. Len(drafts) /\ Longest(Matched(drafts, targets))
  BY <1>4, <1>5
<1> QED
  BY <1>6 DEF Longest

LEMMA DraftsAre ==
    ASSUME NEW drafts \in Drafts
    PROVE  IsSeq(drafts) /\ Len(drafts) \in 0 .. MaxTokens - 1
<1>1. PICK n \in 0 .. MaxTokens - 1 : drafts \in [1 .. n -> Tokens]
  BY DEF Drafts
<1>2. n \in Nat /\ drafts = [i \in 1 .. n |-> drafts[i]]
  BY <1>1
<1> QED
  BY <1>1, <1>2, MadeIs

-----------------------------------------------------------------------------
(* The kernels that write the ring *)

\* The rows of the tokens of line from a position on.
HoldRows(rows, line, position) ==
    \A i \in 1 .. Len(rows) : rows[i] = Row(position + i - 1, line[position + i])
HoldStaged(staged, line, position, count) ==
    \A i \in 0 .. count - 1 : staged[i] = Row(position + i, line[position + i + 1])

LEMMA AppendIs ==
    ASSUME NEW c, DOMAIN c = SlidingRows, NEW position \in Nat, NEW rows, IsSeq(rows),
           NEW line, HoldRows(rows, line, position)
    PROVE  Writes(c, AppendSliding(c, position, rows), line, position, position + Len(rows))
<1> DEFINE begin == IF Len(rows) > Window THEN Len(rows) - Window ELSE 0
           from == position + begin
           to == position + Len(rows)
           d == AppendSliding(c, position, rows)
           Source(r) == {i \in begin + 1 .. Len(rows) : r \in Copies(position + i - 1)}
<1>1. Window \in Nat \ {0} /\ Len(rows) \in Nat
  BY RingAssumption, SeqIs
<1>2. /\ begin \in Nat /\ begin <= Len(rows) /\ Len(rows) - begin <= Window
      /\ from \in position .. to /\ to - from <= Window
      /\ begin = 0 \/ Len(rows) - begin = Window
      /\ from = position \/ to - from = Window
  BY <1>1
<1>3. d = [r \in SlidingRows |->
              IF Source(r) = {} THEN c[r] ELSE rows[CHOOSE i \in Source(r) : TRUE]]
  BY DEF AppendSliding
<1> HIDE DEF begin, d
<1>4. ASSUME NEW r \in SlidingRows, NEW i \in begin + 1 .. Len(rows)
      PROVE  i \in Source(r) <=> (position + i - 1) % Window = r % Window
  <2>1. position + i - 1 \in Nat
    BY <1>1, <1>2
  <2> QED
    BY <2>1, CopiesAre
<1>5. ASSUME NEW r \in SlidingRows, NEW p \in from .. to - 1, p % Window = r % Window
      PROVE  d[r] = Row(p, line[p + 1])
  <2> DEFINE i == p - position + 1
  <2>1. i \in begin + 1 .. Len(rows) /\ position + i - 1 = p /\ position + i = p + 1 /\ p \in Nat
    BY <1>1, <1>2
  <2>2. i \in Source(r)
    BY <1>4, <1>5, <2>1
  <2>3. ASSUME NEW j \in Source(r) PROVE j = i
    <3> DEFINE q == position + j - 1
    <3>1. j \in begin + 1 .. Len(rows) /\ q \in Nat /\ q % Window = p % Window
      BY <1>1, <1>2, <1>4, <1>5
    <3>2. q - p < Window /\ p - q < Window
      BY <1>1, <1>2, <2>1, <3>1
    <3> HIDE DEF q
    <3>3. q = p
      BY <1>1, <2>1, <3>1, <3>2, RemainderClose
    <3> QED
      BY <1>1, <1>2, <3>1, <3>3 DEF q
  <2> HIDE DEF i
  <2>4. (CHOOSE j \in Source(r) : TRUE) = i
    <3>1. (CHOOSE j \in Source(r) : TRUE) \in Source(r)
      BY <2>2
    <3> QED
      BY <2>3, <3>1
  <2>5. d[r] = rows[i]
    BY <1>3, <2>2, <2>4
  <2>6. i \in 1 .. Len(rows)
    BY <1>1, <1>2, <2>1
  <2>7. rows[i] = Row(position + i - 1, line[position + i])
    BY <2>6 DEF HoldRows
  <2> QED
    BY <2>1, <2>5, <2>7
<1>6. ASSUME NEW r \in SlidingRows, \A p \in from .. to - 1 : p % Window # r % Window
      PROVE  d[r] = c[r]
  <2>1. ASSUME NEW i \in Source(r) PROVE FALSE
    <3>1. i \in begin + 1 .. Len(rows) /\ position + i - 1 \in from .. to - 1
      BY <1>1, <1>2
    <3> QED
      BY <1>4, <1>6, <3>1
  <2>2. Source(r) = {}
    BY <2>1
  <2> QED
    BY <1>3, <2>2
<1>7. DOMAIN d = SlidingRows
  BY <1>3
<1>8. Fresh(d, line, from, to) /\ Others(c, d, from, to)
  BY <1>5, <1>6 DEF Fresh, Others
<1> HIDE DEF from, to
<1> QED
  BY <1>2, <1>7, <1>8 DEF Writes, d, to

LEMMA CommitIs ==
    ASSUME NEW c, DOMAIN c = SlidingRows, NEW position \in Nat, NEW staged,
           NEW count \in Nat, count <= Window,
           NEW line, HoldStaged(staged, line, position, count)
    PROVE  Writes(c, CommitSliding(c, staged, position, count), line, position, position + count)
<1> DEFINE d == CommitSliding(c, staged, position, count)
           Source(r) == {i \in 0 .. count - 1 : r \in Copies(position + i)}
<1>1. Window \in Nat \ {0}
  BY RingAssumption
<1>2. d = [r \in SlidingRows |->
              IF Source(r) = {} THEN c[r] ELSE staged[CHOOSE i \in Source(r) : TRUE]]
  BY DEF CommitSliding
<1> HIDE DEF d
<1>3. ASSUME NEW r \in SlidingRows, NEW i \in 0 .. count - 1
      PROVE  i \in Source(r) <=> (position + i) % Window = r % Window
  <2>1. position + i \in Nat
    OBVIOUS
  <2> QED
    BY <2>1, CopiesAre
<1>4. ASSUME NEW r \in SlidingRows, NEW p \in position .. position + count - 1,
             p % Window = r % Window
      PROVE  d[r] = Row(p, line[p + 1])
  <2> DEFINE i == p - position
  <2>1. i \in 0 .. count - 1 /\ position + i = p /\ p \in Nat
    OBVIOUS
  <2>2. i \in Source(r)
    BY <1>3, <1>4, <2>1
  <2>3. ASSUME NEW j \in Source(r) PROVE j = i
    <3> DEFINE q == position + j
    <3>1. j \in 0 .. count - 1 /\ q \in Nat /\ q % Window = p % Window
      BY <1>3, <1>4
    <3>2. q - p < Window /\ p - q < Window
      BY <1>1, <2>1, <3>1
    <3> HIDE DEF q
    <3>3. q = p
      BY <1>1, <2>1, <3>1, <3>2, RemainderClose
    <3> QED
      BY <3>1, <3>3 DEF q
  <2> HIDE DEF i
  <2>4. (CHOOSE j \in Source(r) : TRUE) = i
    <3>1. (CHOOSE j \in Source(r) : TRUE) \in Source(r)
      BY <2>2
    <3> QED
      BY <2>3, <3>1
  <2>5. d[r] = staged[i]
    BY <1>2, <2>2, <2>4
  <2> QED
    BY <2>1, <2>5 DEF HoldStaged
<1>5. ASSUME NEW r \in SlidingRows,
             \A p \in position .. position + count - 1 : p % Window # r % Window
      PROVE  d[r] = c[r]
  <2>1. ASSUME NEW i \in Source(r) PROVE FALSE
    <3>1. i \in 0 .. count - 1 /\ position + i \in position .. position + count - 1
      OBVIOUS
    <3> QED
      BY <1>3, <1>5, <3>1
  <2>2. Source(r) = {}
    BY <2>1
  <2> QED
    BY <1>2, <2>2
<1>6. DOMAIN d = SlidingRows
  BY <1>2
<1>7. Fresh(d, line, position, position + count) /\ Others(c, d, position, position + count)
  BY <1>4, <1>5 DEF Fresh, Others
<1>8. position \in position .. position + count /\ position + count - position <= Window
  OBVIOUS
<1> QED
  BY <1>6, <1>7, <1>8 DEF Writes, d

-----------------------------------------------------------------------------
(* The session *)

IsVerification(v) ==
    /\ v = [drafts |-> v.drafts, ring |-> v.ring, all |-> v.all, span |-> v.span,
            fast |-> v.fast, stage |-> v.stage, targets |-> v.targets]
    /\ v.drafts \in Drafts
    /\ v.stage \in {"staged", "attended", "unpacked"}

Session ==
    /\ IsSeq(text)
    /\ pending = << >> \/ (IsSeq(pending) /\ Len(pending) = 1)
    /\ verify # << >> => pending # << >> /\ IsVerification(verify)

\* The candidate cache of the sliding layers has the tokens being verified.
Asked == pending \o verify.drafts
Staged ==
    /\ DOMAIN candidate = {"sliding", "global"}
    /\ DOMAIN candidate["sliding"] = 0 .. MaxTokens - 1
    /\ verify # << >> =>
        \A i \in 0 .. Len(verify.drafts) :
            candidate["sliding"][i] = Row(Cached + i, Asked[i + 1])

\* A direct verification has borrowed rows of the copies, never of the first
\* one, until it is unpacked.
Borrowed ==
    IF verify # << >> /\ verify.ring = "direct" /\ verify.stage # "unpacked"
    THEN {TailRow(Cached, step) : step \in 0 .. Len(verify.drafts)} ELSE {}
Ring ==
    /\ DOMAIN sliding = SlidingRows
    /\ Newest(sliding, text, Cached)
    /\ \A r \in SlidingRows \ Borrowed : sliding[r] = sliding[r % Window]

Inductive == Session /\ Staged /\ Ring

LEMMA VerifyingIs ==
    ASSUME Session, verify # << >>
    PROVE  /\ IsSeq(verify.drafts) /\ Len(verify.drafts) \in 0 .. MaxTokens - 1
           /\ IsSeq(pending) /\ Len(pending) = 1
<1>1. IsSeq(pending) /\ Len(pending) = 1 /\ verify.drafts \in Drafts
  BY DEF Session, IsVerification
<1> QED
  BY <1>1, DraftsAre

LEMMA RowsOfIs ==
    ASSUME IsSeq(text), NEW tokens, IsSeq(tokens)
    PROVE  /\ IsSeq(RowsOf(tokens)) /\ Len(RowsOf(tokens)) = Len(tokens)
           /\ \A i \in 1 .. Len(tokens) : RowsOf(tokens)[i] = Row(Cached + i - 1, tokens[i])
<1>1. Len(tokens) \in Nat
  BY SeqIs
<1>2. RowsOf(tokens) = [i \in 1 .. Len(tokens) |-> Row(Cached + i - 1, tokens[i])]
  BY DEF RowsOf
<1> HIDE DEF RowsOf
<1>3. RowsOf(tokens) = [i \in 1 .. Len(tokens) |-> RowsOf(tokens)[i]]
  BY <1>2
<1> QED
  BY <1>1, <1>2, <1>3, MadeIs

LEMMA RepeatIs ==
    ASSUME NEW t, NEW n \in Nat
    PROVE  /\ IsSeq(Repeat(t, n)) /\ Len(Repeat(t, n)) = n
           /\ \A i \in 1 .. n : Repeat(t, n)[i] = t
<1>1. Repeat(t, n) = [i \in 1 .. n |-> t]
  BY DEF Repeat
<1> HIDE DEF Repeat
<1>2. Repeat(t, n) = [i \in 1 .. n |-> Repeat(t, n)[i]]
  BY <1>1
<1> QED
  BY <1>1, <1>2, MadeIs

\* Tokens that are appended to the text and to the ring.
LEMMA RingAppended ==
    ASSUME IsSeq(text), Ring, Borrowed = {}, NEW tokens, IsSeq(tokens),
           text' = text \o tokens, sliding' = AppendSliding(sliding, Cached, RowsOf(tokens))
    PROVE  /\ IsSeq(text') /\ DOMAIN sliding' = SlidingRows
           /\ Agree(sliding') /\ Newest(sliding', text', Cached')
<1> DEFINE rows == RowsOf(tokens)
           to == Cached + Len(rows)
<1>1. /\ IsSeq(rows) /\ Len(rows) = Len(tokens) /\ Len(tokens) \in Nat /\ Cached \in Nat
      /\ \A i \in 1 .. Len(tokens) : rows[i] = Row(Cached + i - 1, tokens[i])
  BY RowsOfIs, SeqIs DEF Cached
<1> HIDE DEF rows
<1>2. Joins(text', text, tokens)
  BY JoinedIs
<1>3. HoldRows(rows, text', Cached)
  BY <1>1, <1>2 DEF Joins, HoldRows, Cached
<1>4. Writes(sliding, sliding', text', Cached, to)
  <2>1. DOMAIN sliding = SlidingRows
    BY DEF Ring
  <2> QED
    BY <1>1, <1>3, <2>1, AppendIs DEF rows
<1>5. to \in Nat /\ Cached' = to
  BY <1>1, <1>2 DEF Cached, Joins
<1>6. Agree(sliding) /\ Newest(sliding, text, Cached)
  BY DEF Ring, Agree
<1>7. Continues(text', text, Cached)
  BY <1>1, <1>2 DEF Continues, Joins, Cached
<1>8. Agree(sliding') /\ Newest(sliding', text', to)
  BY <1>1, <1>4, <1>5, <1>6, <1>7, Written
<1> QED
  BY <1>2, <1>4, <1>5, <1>8 DEF Joins, Writes

\* Candidates that are accepted into the text and copied to the ring.
LEMMA RingCommitted ==
    ASSUME Session, Staged, Ring, Borrowed = {}, verify # << >>,
           NEW matched \in 0 .. Len(verify.drafts),
           text' = text \o pending \o SubSeq(verify.drafts, 1, matched),
           sliding' = CommitSliding(sliding, candidate["sliding"], Cached, matched + 1)
    PROVE  /\ IsSeq(text') /\ DOMAIN sliding' = SlidingRows
           /\ Agree(sliding') /\ Newest(sliding', text', Cached')
<1> DEFINE to == Cached + (matched + 1)
<1>1. /\ IsSeq(text) /\ Cached \in Nat /\ IsSeq(pending) /\ Len(pending) = 1
      /\ IsSeq(verify.drafts) /\ Len(verify.drafts) \in 0 .. MaxTokens - 1
      /\ MaxTokens \in 1 .. Window /\ Window \in Nat
  BY VerifyingIs, SeqIs, RingAssumption DEF Session, Cached
<1>2. Extends(text', text, Asked, matched)
  BY <1>1, Extended DEF Asked
<1>3. HoldStaged(candidate["sliding"], text', Cached, matched + 1)
  <2>1. ASSUME NEW i \in 0 .. (matched + 1) - 1
        PROVE  candidate["sliding"][i] = Row(Cached + i, text'[Cached + i + 1])
    <3>1. i \in 0 .. matched /\ i \in 0 .. Len(verify.drafts)
      BY <1>1
    <3>2. candidate["sliding"][i] = Row(Cached + i, Asked[i + 1])
      BY <3>1 DEF Staged
    <3>3. text'[Cached + i + 1] = Asked[i + 1]
      BY <1>2, <3>1 DEF Extends, Cached
    <3> QED
      BY <3>2, <3>3
  <2> QED
    BY <2>1 DEF HoldStaged
<1>4. Writes(sliding, sliding', text', Cached, to)
  <2>1. DOMAIN sliding = SlidingRows /\ matched + 1 \in Nat /\ matched + 1 <= Window
    BY <1>1 DEF Ring
  <2> QED
    BY <1>1, <1>3, <2>1, CommitIs
<1>5. to \in Nat /\ Cached' = to
  BY <1>1, <1>2 DEF Cached, Extends
<1>6. Agree(sliding) /\ Newest(sliding, text, Cached)
  BY DEF Ring, Agree
<1>7. Continues(text', text, Cached)
  BY <1>1, <1>2 DEF Continues, Extends, Cached
<1>8. Agree(sliding') /\ Newest(sliding', text', to)
  BY <1>1, <1>4, <1>5, <1>6, <1>7, Written
<1> QED
  BY <1>2, <1>4, <1>5, <1>8 DEF Extends, Writes

-----------------------------------------------------------------------------
(* The steps of a verification *)

LEMMA SingleIs ==
    ASSUME NEW x
    PROVE  IsSeq(<<x>>) /\ Len(<<x>>) = 1 /\ <<x>> # << >>
<1>1. <<x>> \in Seq({x}) /\ Len(<<x>>) = 1 /\ <<x>> # << >>
  OBVIOUS
<1> QED
  BY <1>1, AnySeqIs

\* w is the verification v, in another stage.
Follows(w, v, stage) ==
    /\ IsVerification(w) /\ w.drafts = v.drafts /\ w.stage = stage
    /\ w.ring = v.ring /\ w.all = v.all /\ w.span = v.span /\ w.fast = v.fast

LEMMA Resumed ==
    ASSUME NEW v, IsVerification(v), NEW stage \in {"attended", "unpacked"}, NEW targets
    PROVE  /\ Follows([v EXCEPT !.stage = stage, !.targets = targets], v, stage)
           /\ Follows([v EXCEPT !.stage = stage], v, stage)
<1> DEFINE w == [drafts |-> v.drafts, ring |-> v.ring, all |-> v.all, span |-> v.span,
                 fast |-> v.fast, stage |-> stage, targets |-> targets]
           u == [drafts |-> v.drafts, ring |-> v.ring, all |-> v.all, span |-> v.span,
                 fast |-> v.fast, stage |-> stage, targets |-> v.targets]
<1>1. [v EXCEPT !.stage = stage] = u
  BY DEF IsVerification
<1>2. [v EXCEPT !.stage = stage, !.targets = targets] = w
  <2>1. [v EXCEPT !.stage = stage, !.targets = targets] = [[v EXCEPT !.stage = stage] EXCEPT !.targets = targets]
    OBVIOUS
  <2>2. [u EXCEPT !.targets = targets] = w
    OBVIOUS
  <2> HIDE DEF u, w
  <2> QED
    BY <1>1, <2>1, <2>2, Zenon
<1>3. Follows(w, v, stage) /\ Follows(u, v, stage)
  BY DEF IsVerification, Follows
<1> QED
  BY <1>1, <1>2, <1>3

\* No verification borrows a row of the first copy.
LEMMA TailIsBehind ==
    ASSUME NEW cached \in Nat, NEW step \in Nat
    PROVE  TailRow(cached, step) \in Nat /\ TailRow(cached, step) >= Window
<1>1. Window \in Nat \ {0}
  BY RingAssumption
<1>2. TailStart(cached) \in Nat
  <2>1. CASE cached > Window - 1
    <3>1. cached - (Window - 1) \in Nat
      BY <1>1, <2>1
    <3>2. (cached - (Window - 1)) % Window \in 0 .. Window - 1
      BY <1>1, <3>1, Remainder
    <3> QED
      BY <1>1, <2>1, <3>2 DEF TailStart
  <2>2. CASE ~ cached > Window - 1
    BY <2>2 DEF TailStart
  <2> QED
    BY <2>1, <2>2
<1>3. Min2(cached, Window - 1) \in Nat
  BY <1>1 DEF Min2
<1> QED
  BY <1>1, <1>2, <1>3 DEF TailRow

TailRows(cached, last) == {TailRow(cached, step) : step \in 0 .. last}

\* d is c but for the rows of the tail, or has them as they were in the first copy.
KeepsRest(d, c, cached, last) ==
    DOMAIN d = SlidingRows /\ \A r \in SlidingRows \ TailRows(cached, last) : d[r] = c[r]
Returns(d, c, cached, last) ==
    \A r \in SlidingRows \cap TailRows(cached, last) : d[r] = c[r % Window]

LEMMA LiveIs ==
    ASSUME NEW c, DOMAIN c = SlidingRows, NEW rows, NEW cached \in Nat, NEW last \in Nat,
           Len(rows) = 1 + last
    PROVE  KeepsRest(StageLive(c, rows, cached, TRUE), c, cached, last)
<1> DEFINE Source(r) == {i \in 1 .. Len(rows) : r = TailRow(cached, i - 1)}
           d == StageLive(c, rows, cached, TRUE)
<1>1. d = [r \in SlidingRows |->
              IF Source(r) = {} THEN c[r] ELSE rows[CHOOSE i \in Source(r) : TRUE]]
  BY DEF StageLive
<1> HIDE DEF d
<1>2. ASSUME NEW r \in SlidingRows \ TailRows(cached, last) PROVE Source(r) = {}
  <2>1. SUFFICES ASSUME NEW i \in Source(r) PROVE r \in TailRows(cached, last)
    OBVIOUS
  <2>2. i - 1 \in 0 .. last /\ r = TailRow(cached, i - 1)
    OBVIOUS
  <2> QED
    BY <2>2 DEF TailRows
<1>3. \A r \in SlidingRows \ TailRows(cached, last) : d[r] = c[r]
  BY <1>1, <1>2
<1>4. DOMAIN d = SlidingRows
  BY <1>1
<1> QED
  BY <1>3, <1>4 DEF d, KeepsRest

LEMMA RestoreIs ==
    ASSUME NEW c, DOMAIN c = SlidingRows, NEW cached \in Nat, NEW last \in Nat
    PROVE  /\ KeepsRest(RestoreTail(c, cached, last + 1), c, cached, last)
           /\ Returns(RestoreTail(c, cached, last + 1), c, cached, last)
<1>1. TailRows(cached, last) = {TailRow(cached, step) : step \in 0 .. (last + 1) - 1}
  BY DEF TailRows
<1> DEFINE d == RestoreTail(c, cached, last + 1)
<1>2. d = [r \in SlidingRows |-> IF r \in TailRows(cached, last) THEN c[r % Window] ELSE c[r]]
  BY <1>1 DEF RestoreTail
<1> HIDE DEF d
<1>3. \A r \in SlidingRows \ TailRows(cached, last) : d[r] = c[r]
  BY <1>2
<1>4. \A r \in SlidingRows \cap TailRows(cached, last) : d[r] = c[r % Window]
  BY <1>2
<1>5. DOMAIN d = SlidingRows
  BY <1>2
<1> QED
  BY <1>3, <1>4, <1>5 DEF d, KeepsRest, Returns

\* What changes rows of the tail only keeps the first copy.
LEMMA FirstCopyIsKept ==
    ASSUME NEW c, NEW d, NEW cached \in Nat, NEW last \in Nat,
           KeepsRest(d, c, cached, last)
    PROVE  \A r \in Nat : r % Window \in SlidingRows \ TailRows(cached, last)
                           /\ d[r % Window] = c[r % Window]
<1>1. SUFFICES ASSUME NEW r \in Nat PROVE r % Window \in SlidingRows \ TailRows(cached, last)
  BY DEF KeepsRest
<1>2. Window \in Nat \ {0}
  BY RingAssumption
<1>3. r % Window \in 0 .. Window - 1
  BY <1>2, Remainder
<1>4. r % Window \in SlidingRows
  BY <1>3, RowsHaveSlots
<1>5. \A step \in 0 .. last : TailRow(cached, step) \in Nat /\ TailRow(cached, step) >= Window
  <2>1. \A step \in Nat : TailRow(cached, step) \in Nat /\ TailRow(cached, step) >= Window
    BY TailIsBehind, Zenon
  <2>2. \A step \in 0 .. last : step \in Nat
    OBVIOUS
  <2> QED
    BY <2>1, <2>2
<1> QED
  BY <1>2, <1>3, <1>4, <1>5 DEF TailRows

\* A step of the verification goes on with the same drafts.
Goes(stage) == verify # << >> /\ verify' # << >> /\ Follows(verify', verify, stage)

LEMMA AttendGoes ==
    ASSUME Session, Attend
    PROVE  Goes("attended") /\ verify.stage = "staged"
           /\ UNCHANGED <<text, pending, sliding, candidate>>
<1>1. verify # << >> /\ verify.stage = "staged"
  BY DEF Attend, InFlight
<1>2. IsVerification(verify)
  BY <1>1 DEF Session
<1>3. PICK targets : verify' = [verify EXCEPT !.stage = "attended", !.targets = targets]
  BY DEF Attend
<1>4. Follows(verify', verify, "attended")
  <2>1. "attended" \in {"attended", "unpacked"}
    OBVIOUS
  <2> QED
    BY <1>2, <1>3, <2>1, Resumed
<1>5. verify' # << >>
  BY <1>4 DEF Follows, IsVerification
<1>6. UNCHANGED <<text, pending, sliding, candidate>>
  BY DEF Attend
<1> QED
  BY <1>1, <1>4, <1>5, <1>6 DEF Goes

LEMMA UnpackGoes ==
    ASSUME Session, Unpack
    PROVE  Goes("unpacked") /\ verify.stage = "attended"
           /\ UNCHANGED <<text, pending, candidate>>
<1>1. verify # << >> /\ verify.stage = "attended"
  BY DEF Unpack, InFlight
<1>2. IsVerification(verify)
  BY <1>1 DEF Session
<1>3. verify' = [verify EXCEPT !.stage = "unpacked"]
  BY DEF Unpack
<1>4. Follows(verify', verify, "unpacked")
  <2>1. "unpacked" \in {"attended", "unpacked"}
    OBVIOUS
  <2> QED
    BY <1>2, <1>3, <2>1, Resumed
<1>5. verify' # << >>
  BY <1>4 DEF Follows, IsVerification
<1>6. UNCHANGED <<text, pending, candidate>>
  BY DEF Unpack
<1> QED
  BY <1>1, <1>4, <1>5, <1>6 DEF Goes

\* What a new verification is, and what it stages.
LEMMA BeginIs ==
    ASSUME Session, NEW drafts \in Drafts, NEW path, NEW span, NEW fast,
           BeginVerify(drafts, path, span, fast)
    PROVE  /\ verify = << >> /\ pending # << >> /\ UNCHANGED <<text, pending>>
           /\ verify' # << >> /\ IsVerification(verify') /\ verify'.drafts = drafts
           /\ verify'.ring = path[1] /\ verify'.stage = "staged"
           /\ IsSeq(Asked') /\ Len(Asked') = 1 + Len(drafts) /\ Len(drafts) \in 0 .. MaxTokens - 1
           /\ sliding' = IF path[1] = "direct" THEN StageLive(sliding, RowsOf(Asked'), Cached, TRUE)
                                                ELSE sliding
           /\ candidate' = [layer \in DOMAIN candidate |->
                               StageCandidates(candidate[layer], RowsOf(Asked'))]
<1>1. verify = << >> /\ pending # << >> /\ UNCHANGED <<text, pending>>
  BY DEF BeginVerify
<1>2. verify' = [drafts |-> drafts, ring |-> path[1], all |-> path[2], span |-> span,
                 fast |-> fast, stage |-> "staged", targets |-> << >>]
  BY DEF BeginVerify
<1>3. /\ verify'.drafts = drafts /\ verify'.ring = path[1] /\ verify'.stage = "staged"
      /\ IsVerification(verify')
  BY <1>2 DEF IsVerification
<1>4. verify' # << >>
  BY <1>2
<1>5. Asked' = pending \o drafts
  BY <1>1, <1>3 DEF Asked
<1>6. IsSeq(drafts) /\ Len(drafts) \in 0 .. MaxTokens - 1
  BY DraftsAre
<1>7. Joins(Asked', pending, drafts)
  <2>1. IsSeq(pending)
    BY <1>1 DEF Session
  <2> QED
    BY <1>5, <1>6, <2>1, JoinedIs
<1>8. IsSeq(Asked') /\ Len(Asked') = 1 + Len(drafts)
  BY <1>1, <1>7 DEF Joins, Session
<1>9. /\ sliding' = IF path[1] = "direct" THEN StageLive(sliding, RowsOf(Asked'), Cached, TRUE)
                                           ELSE sliding
      /\ candidate' = [layer \in DOMAIN candidate |->
                          StageCandidates(candidate[layer], RowsOf(Asked'))]
  BY <1>5 DEF BeginVerify
<1> QED
  BY <1>1, <1>3, <1>4, <1>6, <1>8, <1>9

-----------------------------------------------------------------------------
(* The inductive invariant *)

LEMMA StepSession ==
    ASSUME Session, Next
    PROVE  Session'
<1>1. ASSUME NEW n \in ChunkSizes, NEW t, NEW block, NEW uniform, Prefill(n, t, block, uniform)
      PROVE  Session'
  <2>1. /\ pending = << >> /\ text' = text \o Repeat(t, n)
        /\ pending' = pending /\ verify' = verify
    BY <1>1 DEF Prefill
  <2>2. IsSeq(text') /\ IsSeq(text)
    <3>1. IsSeq(Repeat(t, n)) /\ IsSeq(text)
      BY RepeatIs, RingAssumption DEF Session
    <3>2. Joins(text', text, Repeat(t, n))
      BY <2>1, <3>1, JoinedIs
    <3> QED
      BY <3>1, <3>2 DEF Joins
  <2> QED
    BY <2>1, <2>2 DEF Session
<1>2. ASSUME NEW n, NEW t, NEW longest, NEW segmented, AskReadOnly(n, t, longest, segmented)
      PROVE  Session'
  <2>1. text' = text /\ pending' = pending /\ verify' = verify
    BY <1>2 DEF AskReadOnly
  <2> QED
    BY <2>1 DEF Session
<1>3. CASE FirstToken
  <2>1. /\ pending = << >> /\ text' = text /\ verify' = verify
        /\ pending' = <<Choose(seen[Len(seen)])>>
    BY <1>3 DEF FirstToken
  <2>2. IsSeq(pending') /\ Len(pending') = 1
    BY <2>1, SingleIs
  <2> QED
    BY <2>1, <2>2 DEF Session
<1>4. CASE Decode
  <2>1. PICK x : /\ pending # << >> /\ verify = << >> /\ verify' = verify
                 /\ text' = text \o pending /\ pending' = <<x>>
    BY <1>4 DEF Decode
  <2>2. IsSeq(pending') /\ Len(pending') = 1
    BY <2>1, SingleIs
  <2>3. IsSeq(text')
    <3>1. IsSeq(text) /\ IsSeq(pending)
      BY <2>1 DEF Session
    <3>2. Joins(text', text, pending)
      BY <2>1, <3>1, JoinedIs
    <3> QED
      BY <3>2 DEF Joins
  <2> QED
    BY <2>1, <2>2, <2>3 DEF Session
<1>5. ASSUME NEW path, NEW span, Draft(path, span)
      PROVE  Session'
  <2>1. text' = text /\ pending' = pending /\ verify' = verify
    BY <1>5 DEF Draft
  <2> QED
    BY <2>1 DEF Session
<1>6. ASSUME NEW drafts \in Drafts, NEW path, NEW span, NEW fast,
             BeginVerify(drafts, path, span, fast)
      PROVE  Session'
  <2>1. /\ verify = << >> /\ pending # << >> /\ text' = text /\ pending' = pending
        /\ verify' # << >> /\ IsVerification(verify')
    BY <1>6, BeginIs
  <2> QED
    BY <2>1 DEF Session
<1>7. CASE Attend
  BY <1>7, AttendGoes DEF Session, Goes, Follows
<1>8. CASE Unpack
  BY <1>8, UnpackGoes DEF Session, Goes, Follows
<1>9. CASE Commit
  <2> DEFINE matched == Matched(verify.drafts, verify.targets)
  <2>1. /\ verify # << >> /\ verify' = << >>
        /\ text' = text \o pending \o SubSeq(verify.drafts, 1, matched)
        /\ pending' = <<verify.targets[matched + 1]>>
    BY <1>9 DEF Commit, InFlight
  <2>2. IsSeq(verify.drafts) /\ Len(verify.drafts) \in Nat /\ IsSeq(pending) /\ Len(pending) = 1
    BY <2>1, VerifyingIs
  <2>3. matched \in 0 .. Len(verify.drafts)
    BY <2>2, MatchedIs
  <2> HIDE DEF matched
  <2>4. Extends(text', text, pending \o verify.drafts, matched)
    BY <2>1, <2>2, <2>3, Extended DEF Session
  <2>5. IsSeq(pending') /\ Len(pending') = 1
    BY <2>1, SingleIs
  <2> QED
    BY <2>1, <2>4, <2>5 DEF Session, Extends
<1> QED
  BY <1>1, <1>2, <1>3, <1>4, <1>5, <1>6, <1>7, <1>8, <1>9 DEF Next

LEMMA StepStaged ==
    ASSUME Session, Staged, Next
    PROVE  Staged'
<1>1. ASSUME UNCHANGED candidate, verify' = << >>
      PROVE  Staged'
  BY <1>1 DEF Staged
<1>2. ASSUME UNCHANGED <<text, pending, candidate, verify>>
      PROVE  Staged'
  BY <1>2 DEF Staged, Asked, Cached
<1>3. ASSUME NEW stage, Goes(stage), UNCHANGED <<text, pending, candidate>>
      PROVE  Staged'
  BY <1>3 DEF Staged, Asked, Cached, Goes, Follows
<1>4. ASSUME NEW n, NEW t, NEW block, NEW uniform, Prefill(n, t, block, uniform)
      PROVE  Staged'
  <2>1. UNCHANGED candidate /\ verify' = << >>
    BY <1>4 DEF Prefill, Session
  <2> QED
    BY <1>1, <2>1
<1>5. ASSUME NEW n, NEW t, NEW longest, NEW segmented, AskReadOnly(n, t, longest, segmented)
      PROVE  Staged'
  BY <1>2, <1>5 DEF AskReadOnly
<1>6. CASE FirstToken
  <2>1. UNCHANGED candidate /\ verify' = << >>
    BY <1>6 DEF FirstToken, Session
  <2> QED
    BY <1>1, <2>1
<1>7. CASE Decode
  <2>1. UNCHANGED candidate /\ verify' = << >>
    BY <1>7 DEF Decode
  <2> QED
    BY <1>1, <2>1
<1>8. ASSUME NEW path, NEW span, Draft(path, span)
      PROVE  Staged'
  BY <1>2, <1>8 DEF Draft
<1>9. ASSUME NEW drafts \in Drafts, NEW path, NEW span, NEW fast,
             BeginVerify(drafts, path, span, fast)
      PROVE  Staged'
  <2> DEFINE rows == RowsOf(Asked')
  <2>1. /\ UNCHANGED text /\ verify'.drafts = drafts
        /\ IsSeq(Asked') /\ Len(Asked') = 1 + Len(drafts) /\ Len(drafts) \in 0 .. MaxTokens - 1
        /\ candidate' = [layer \in DOMAIN candidate |-> StageCandidates(candidate[layer], rows)]
    BY <1>9, BeginIs
  <2>2. /\ Len(rows) = 1 + Len(drafts)
        /\ \A i \in 1 .. 1 + Len(drafts) : rows[i] = Row(Cached + i - 1, (Asked')[i])
    BY <2>1, RowsOfIs DEF Session
  <2> HIDE DEF rows
  <2>3. /\ DOMAIN candidate' = {"sliding", "global"}
        /\ candidate'["sliding"] = StageCandidates(candidate["sliding"], rows)
    BY <2>1 DEF Staged
  <2>4. candidate'["sliding"] = [i \in 0 .. MaxTokens - 1 |->
                                  IF i < Len(rows) THEN rows[i + 1] ELSE candidate["sliding"][i]]
    BY <2>3 DEF StageCandidates, Staged
  <2>5. MaxTokens \in Nat /\ Cached \in Nat /\ Cached' = Cached
    BY <2>1, RingAssumption, SeqIs DEF Session, Cached
  <2>6. ASSUME NEW i \in 0 .. Len(drafts)
        PROVE  candidate'["sliding"][i] = Row(Cached + i, (Asked')[i + 1])
    <3>1. i \in 0 .. MaxTokens - 1 /\ i < Len(rows) /\ i + 1 \in 1 .. 1 + Len(drafts)
      BY <2>1, <2>2, <2>5
    <3>2. candidate'["sliding"][i] = rows[i + 1]
      BY <2>4, <3>1
    <3>3. rows[i + 1] = Row(Cached + (i + 1) - 1, (Asked')[i + 1])
      BY <2>2, <3>1
    <3>4. Cached + (i + 1) - 1 = Cached + i
      BY <2>5
    <3> QED
      BY <3>2, <3>3, <3>4
  <2> QED
    BY <2>1, <2>3, <2>4, <2>5, <2>6 DEF Staged
<1>10. CASE Attend
  BY <1>3, <1>10, AttendGoes
<1>11. CASE Unpack
  BY <1>3, <1>11, UnpackGoes
<1>12. CASE Commit
  <2>1. UNCHANGED candidate /\ verify' = << >>
    BY <1>12 DEF Commit
  <2> QED
    BY <1>1, <2>1
<1> QED
  BY <1>4, <1>5, <1>6, <1>7, <1>8, <1>9, <1>10, <1>11, <1>12 DEF Next

LEMMA StepRing ==
    ASSUME Session, Staged, Ring, Next
    PROVE  Ring'
<1>1. Cached \in Nat /\ IsSeq(text)
  BY SeqIs DEF Session, Cached
<1>2. ASSUME UNCHANGED <<text, sliding>>, Borrowed' = Borrowed
      PROVE  Ring'
  <2>1. Cached' = Cached
    BY <1>2 DEF Cached
  <2> QED
    BY <1>2, <2>1 DEF Ring, Newest
<1>3. ASSUME DOMAIN sliding' = SlidingRows, Agree(sliding'), Newest(sliding', text', Cached')
      PROVE  Ring'
  BY <1>3 DEF Ring, Agree
<1>4. ASSUME verify = << >> PROVE Borrowed = {}
  BY <1>4 DEF Borrowed
<1>5. ASSUME verify = << >>, UNCHANGED verify PROVE Borrowed = {} /\ Borrowed' = {}
  BY <1>5 DEF Borrowed
<1>6. ASSUME NEW n \in ChunkSizes, NEW t, NEW block, NEW uniform, Prefill(n, t, block, uniform)
      PROVE  Ring'
  <2>1. /\ verify = << >> /\ text' = text \o Repeat(t, n)
        /\ sliding' = AppendSliding(sliding, Cached, RowsOf(Repeat(t, n)))
    BY <1>6 DEF Prefill, Session
  <2>2. IsSeq(Repeat(t, n))
    BY RepeatIs, RingAssumption
  <2> QED
    BY <1>1, <1>3, <1>4, <2>1, <2>2, RingAppended
<1>7. ASSUME NEW n, NEW t, NEW longest, NEW segmented, AskReadOnly(n, t, longest, segmented)
      PROVE  Ring'
  <2>1. verify = << >> /\ UNCHANGED <<text, sliding, verify>>
    BY <1>7 DEF AskReadOnly, Session
  <2> QED
    BY <1>2, <1>5, <2>1
<1>8. CASE FirstToken
  <2>1. verify = << >> /\ UNCHANGED <<text, sliding, verify>>
    BY <1>8 DEF FirstToken, Session
  <2> QED
    BY <1>2, <1>5, <2>1
<1>9. CASE Decode
  <2>1. /\ verify = << >> /\ pending # << >> /\ text' = text \o pending
        /\ sliding' = AppendSliding(sliding, Cached, RowsOf(pending))
    BY <1>9 DEF Decode
  <2>2. IsSeq(pending)
    BY <2>1 DEF Session
  <2> QED
    BY <1>1, <1>3, <1>4, <2>1, <2>2, RingAppended
<1>10. ASSUME NEW path, NEW span, Draft(path, span)
      PROVE  Ring'
  <2>1. verify = << >> /\ UNCHANGED <<text, sliding, verify>>
    BY <1>10 DEF Draft
  <2> QED
    BY <1>2, <1>5, <2>1
<1>11. ASSUME NEW drafts \in Drafts, NEW path, NEW span, NEW fast,
             BeginVerify(drafts, path, span, fast)
      PROVE  Ring'
  <2> DEFINE rows == RowsOf(Asked')
             last == Len(drafts)
  <2>1. /\ verify = << >> /\ UNCHANGED text
        /\ verify' # << >> /\ verify'.drafts = drafts /\ verify'.ring = path[1]
        /\ verify'.stage = "staged"
        /\ sliding' = IF path[1] = "direct" THEN StageLive(sliding, rows, Cached, TRUE)
                                             ELSE sliding
    BY <1>11, BeginIs
  <2>2. IsSeq(Asked') /\ Len(Asked') = 1 + last /\ last \in 0 .. MaxTokens - 1
    BY <1>11, BeginIs
  <2>3. Len(rows) = 1 + last /\ last \in Nat
    BY <1>1, <2>2, RowsOfIs
  <2> HIDE DEF rows, last
  <2>4. Borrowed = {} /\ Cached' = Cached /\ DOMAIN sliding = SlidingRows
    BY <2>1 DEF Borrowed, Cached, Ring
  <2>5. CASE path[1] # "direct"
    <3>1. Borrowed' = {} /\ UNCHANGED <<text, sliding>>
      BY <2>1, <2>5 DEF Borrowed
    <3> QED
      BY <1>2, <2>4, <3>1
  <2>6. CASE path[1] = "direct"
    <3>1. Borrowed' = TailRows(Cached, last)
      BY <2>1, <2>4, <2>6 DEF Borrowed, TailRows, last
    <3>2. KeepsRest(sliding', sliding, Cached, last)
      BY <1>1, <2>1, <2>3, <2>4, <2>6, LiveIs
    <3>3. \A r \in Nat : sliding'[r % Window] = sliding[r % Window]
      BY <1>1, <2>3, <3>2, FirstCopyIsKept
    <3>4. Newest(sliding', text', Cached')
      <4>1. \A p \in WindowOf(Cached) : p \in Nat
        BY <1>1, RingAssumption DEF WindowOf, First
      <4>2. Newest(sliding, text, Cached)
        BY DEF Ring
      <4> QED
        BY <2>1, <2>4, <3>3, <4>1, <4>2 DEF Newest
    <3>5. ASSUME NEW r \in SlidingRows \ Borrowed' PROVE sliding'[r] = sliding'[r % Window]
      <4>1. sliding[r] = sliding[r % Window]
        BY <2>4 DEF Ring
      <4>2. r \in Nat
        BY RowsHaveSlots
      <4> QED
        BY <3>1, <3>2, <3>3, <4>1, <4>2 DEF KeepsRest
    <3> QED
      BY <3>2, <3>4, <3>5 DEF Ring, KeepsRest
  <2> QED
    BY <2>5, <2>6
<1>12. CASE Attend
  <2>1. /\ verify # << >> /\ verify' # << >> /\ verify'.drafts = verify.drafts
        /\ verify'.ring = verify.ring
        /\ verify.stage = "staged" /\ verify'.stage = "attended" /\ UNCHANGED <<text, sliding>>
    BY <1>12, AttendGoes DEF Goes, Follows
  <2>2. Borrowed' = Borrowed
    BY <2>1 DEF Borrowed, Cached
  <2> QED
    BY <1>2, <2>1, <2>2
<1>13. CASE Unpack
  <2> DEFINE last == Len(verify.drafts)
  <2>1. /\ verify # << >> /\ verify' # << >>
        /\ verify.stage = "attended" /\ verify'.stage = "unpacked" /\ UNCHANGED text
    BY <1>13, UnpackGoes DEF Goes, Follows
  <2>2. sliding' = IF verify.ring = "direct" THEN RestoreTail(sliding, Cached, last + 1) ELSE sliding
    BY <1>13 DEF Unpack
  <2>3. last \in Nat
    BY <2>1, VerifyingIs
  <2> HIDE DEF last
  <2>4. Borrowed' = {} /\ Cached' = Cached /\ DOMAIN sliding = SlidingRows
    BY <2>1 DEF Borrowed, Cached, Ring
  <2>5. CASE verify.ring # "direct"
    <3>1. Borrowed = {} /\ UNCHANGED sliding
      BY <2>2, <2>5 DEF Borrowed
    <3> QED
      BY <1>2, <2>1, <2>4, <3>1
  <2>6. CASE verify.ring = "direct"
    <3>1. Borrowed = TailRows(Cached, last)
      BY <2>1, <2>6 DEF Borrowed, TailRows, last
    <3>2. KeepsRest(sliding', sliding, Cached, last) /\ Returns(sliding', sliding, Cached, last)
      BY <1>1, <2>2, <2>3, <2>4, <2>6, RestoreIs
    <3>3. \A r \in Nat : sliding'[r % Window] = sliding[r % Window]
      BY <1>1, <2>3, <3>2, FirstCopyIsKept
    <3>4. Newest(sliding', text', Cached')
      <4>1. \A p \in WindowOf(Cached) : p \in Nat
        BY <1>1, RingAssumption DEF WindowOf, First
      <4>2. Newest(sliding, text, Cached)
        BY DEF Ring
      <4> QED
        BY <2>1, <2>4, <3>3, <4>1, <4>2 DEF Newest
    <3>5. ASSUME NEW r \in SlidingRows PROVE sliding'[r] = sliding'[r % Window]
      <4>1. r \in Nat
        BY RowsHaveSlots
      <4>2. CASE r \in TailRows(Cached, last)
        BY <3>2, <3>3, <4>1, <4>2 DEF Returns
      <4>3. CASE r \notin TailRows(Cached, last)
        <5>1. sliding[r] = sliding[r % Window]
          BY <3>1, <4>3 DEF Ring
        <5> QED
          BY <3>2, <3>3, <4>1, <4>3, <5>1 DEF KeepsRest
      <4> QED
        BY <4>2, <4>3
    <3> QED
      BY <3>2, <3>4, <3>5 DEF Ring, KeepsRest
  <2> QED
    BY <2>5, <2>6
<1>14. CASE Commit
  <2> DEFINE matched == Matched(verify.drafts, verify.targets)
  <2>1. /\ verify # << >> /\ verify.stage = "unpacked"
        /\ text' = text \o pending \o SubSeq(verify.drafts, 1, matched)
        /\ sliding' = CommitSliding(sliding, candidate["sliding"], Cached, matched + 1)
    BY <1>14 DEF Commit, InFlight
  <2>2. Len(verify.drafts) \in Nat
    BY <2>1, VerifyingIs
  <2>3. matched \in 0 .. Len(verify.drafts)
    BY <2>2, MatchedIs
  <2>4. Borrowed = {}
    BY <2>1 DEF Borrowed
  <2> HIDE DEF matched
  <2> QED
    BY <1>3, <2>1, <2>3, <2>4, RingCommitted
<1> QED
  BY <1>6, <1>7, <1>8, <1>9, <1>10, <1>11, <1>12, <1>13, <1>14 DEF Next

LEMMA Initially ==
    ASSUME Init
    PROVE  Inductive
<1>1. IsSeq(text) /\ Cached = 0
  <2>1. << >> \in Seq({}) /\ Len(<< >>) = 0
    OBVIOUS
  <2> QED
    BY <2>1, AnySeqIs DEF Init, Cached
<1>2. Session
  BY <1>1 DEF Session, Init
<1>3. Staged
  BY DEF Staged, Init
<1>4. Ring
  <2>1. sliding = [r \in SlidingRows |-> Junk]
    BY DEF Init
  <2>2. WindowOf(Cached) = {}
    BY <1>1, RingAssumption DEF WindowOf, First
  <2>3. \A r \in SlidingRows : r % Window \in SlidingRows
    BY RowsHaveSlots
  <2> QED
    BY <2>1, <2>2, <2>3 DEF Ring, Newest
<1> QED
  BY <1>2, <1>3, <1>4 DEF Inductive

LEMMA Invariance == Spec => []Inductive
<1>1. Init => Inductive
  BY Initially
<1>2. Inductive /\ [Next]_vars => Inductive'
  <2>1. SUFFICES ASSUME Inductive, [Next]_vars PROVE Inductive'
    OBVIOUS
  <2>2. CASE Next
    BY <2>1, <2>2, StepSession, StepStaged, StepRing DEF Inductive
  <2>3. CASE UNCHANGED vars
    BY <2>1, <2>3 DEF vars, Inductive, Session, Staged, Ring, Borrowed, Asked, Cached
  <2> QED
    BY <2>1, <2>2, <2>3
<1> QED
  BY <1>1, <1>2, PTL DEF Spec

(* Between verifications every copy of a slot holds the same row, the newest  *)
(* token of its slot, whatever was appended, borrowed, rejected or accepted   *)
(* before (CopiesAgree).                                                      *)
THEOREM RingIsWhole == Spec => []CopiesAgree
<1>1. Inductive => CopiesAgree
  BY DEF Inductive, Ring, Borrowed, Newest, CopiesAgree
<1> QED
  BY <1>1, Invariance, PTL
-----------------------------------------------------------------------------
(* Arithmetic *)

Divided(x, w, q, s) == x = w * q + s /\ x % w = s

LEMMA Division ==
    ASSUME NEW w \in Nat \ {0}, NEW x \in Nat
    PROVE  \E q \in Nat, s \in 0 .. w - 1 : Divided(x, w, q, s)
<1>1. PICK q \in Nat : x = w * q + (x % w)
  BY Remainder
<1>2. x % w \in 0 .. w - 1
  BY Remainder
<1> QED
  BY <1>1, <1>2 DEF Divided

LEMMA SumRemainder ==
    ASSUME NEW w \in Nat \ {0}, NEW x \in Nat, NEW i \in Nat
    PROVE  ((x % w) + i) % w = (x + i) % w
<1>1. PICK q \in Nat, s \in 0 .. w - 1 : Divided(x, w, q, s)
  BY Division
<1>2. s + i \in Nat
  OBVIOUS
<1>3. PICK r \in Nat, u \in 0 .. w - 1 : Divided(s + i, w, r, u)
  BY <1>2, Division
<1>4. x + i = w * (q + r) + u
  BY <1>1, <1>3 DEF Divided
<1>5. (w * (q + r) + u) % w = u
  <2>1. q + r \in Nat
    OBVIOUS
  <2> QED
    BY <2>1, RemainderIs
<1>6. (x + i) % w = u
  BY <1>4, <1>5, Zenon
<1>7. x % w = s /\ (s + i) % w = u
  BY <1>1, <1>3 DEF Divided
<1> QED
  BY <1>6, <1>7, Zenon

LEMMA CeilDivIs ==
    ASSUME NEW a \in Nat, NEW b \in Nat \ {0}
    PROVE  /\ CeilDiv(a, b) \in Nat /\ b * CeilDiv(a, b) >= a
           /\ a > 0 => CeilDiv(a, b) > 0
<1> DEFINE x == a + b - 1
           q == x \div b
<1>1. x \in Nat /\ q \in Int /\ b * q <= x /\ x < b * q + b
  OBVIOUS
<1>2. CeilDiv(a, b) = q
  BY DEF CeilDiv
<1> HIDE DEF q
<1>3. q >= 0
  <2>1. CASE q < 0
    <3>1. b * q <= -b
      BY <1>1, <2>1
    <3> QED
      BY <1>1, <3>1
  <2> QED
    BY <1>1, <2>1
<1>4. b * q >= a
  BY <1>1
<1>5. a > 0 => q > 0
  <2>1. q = 0 => b * q = 0
    OBVIOUS
  <2> QED
    BY <1>1, <1>3, <1>4, <2>1
<1> QED
  BY <1>1, <1>2, <1>3, <1>4, <1>5

LEMMA RoundUpIs ==
    ASSUME NEW a \in Nat
    PROVE  RoundUp(a) \in Nat /\ RoundUp(a) >= a
<1>1. Align \in Nat \ {0}
  BY RingAssumption
<1>2. CeilDiv(a, Align) \in Nat /\ Align * CeilDiv(a, Align) >= a
  BY <1>1, CeilDivIs
<1> QED
  BY <1>1, <1>2 DEF RoundUp

LEMMA Shifted ==
    ASSUME NEW f \in Nat, NEW n \in Nat
    PROVE  {f + l : l \in 0 .. n - 1} = f .. f + n - 1
<1>1. ASSUME NEW p \in f .. f + n - 1 PROVE p \in {f + l : l \in 0 .. n - 1}
  <2>1. p - f \in 0 .. n - 1 /\ p = f + (p - f)
    OBVIOUS
  <2> QED
    BY <2>1
<1> QED
  BY <1>1

\* The chunks of the value kernels leave nothing out.
LEMMA ChunksCover ==
    ASSUME NEW attended \in Nat, NEW partitions \in Nat \ {0}
    PROVE  Chunks(attended, partitions) = 0 .. attended - 1
<1> DEFINE chunk == CeilDiv(attended, partitions)
           Part(k) == k * chunk .. Min2((k + 1) * chunk, attended) - 1
<1>1. /\ chunk \in Nat /\ partitions * chunk >= attended
      /\ attended > 0 => chunk > 0
  BY CeilDivIs
<1>2. Chunks(attended, partitions) = UNION {Part(k) : k \in 0 .. partitions - 1}
  BY DEF Chunks
<1> HIDE DEF chunk
<1>3. ASSUME NEW k \in 0 .. partitions - 1, NEW l \in Part(k) PROVE l \in 0 .. attended - 1
  <2>1. k * chunk \in Nat /\ (k + 1) * chunk \in Nat
    BY <1>1
  <2> QED
    BY <1>3, <2>1 DEF Min2
<1>4. ASSUME NEW l \in 0 .. attended - 1 PROVE \E k \in 0 .. partitions - 1 : l \in Part(k)
  <2>1. chunk \in Nat \ {0}
    BY <1>1
  <2>2. l \in Nat
    OBVIOUS
  <2>3. PICK k \in Nat, s \in 0 .. chunk - 1 : Divided(l, chunk, k, s)
    BY <2>1, <2>2, Division
  <2>4. k * chunk <= l /\ l < (k + 1) * chunk /\ (k + 1) * chunk \in Nat
    BY <2>1, <2>3 DEF Divided
  <2>5. k < partitions
    <3>1. CASE k >= partitions
      <4>1. k * chunk >= partitions * chunk
        BY <2>1, <3>1
      <4> QED
        BY <1>1, <2>4, <4>1
    <3> QED
      BY <3>1
  <2>6. l \in Part(k)
    BY <2>1, <2>4 DEF Min2
  <2> QED
    BY <2>5, <2>6
<1> QED
  BY <1>2, <1>3, <1>4

-----------------------------------------------------------------------------
(* Windows *)

LEMMA FirstIs ==
    ASSUME NEW end \in Nat, NEW isRing \in BOOLEAN
    PROVE  /\ First(end, isRing) \in 0 .. end
           /\ isRing => end - First(end, isRing) <= Window
           /\ ~isRing => First(end, isRing) = 0
           /\ end <= Window => First(end, isRing) = 0
           /\ isRing /\ end > Window => First(end, isRing) = end - Window
  BY RingAssumption DEF First

LEMMA FirstGrows ==
    ASSUME NEW end \in Nat, NEW more \in Nat, NEW isRing \in BOOLEAN
    PROVE  First(end, isRing) <= First(end + more, isRing)
  BY RingAssumption DEF First

\* c has the tokens of line that a query ending at `end' attends to, in their slots.
Has(c, line, end, isRing) ==
    \A p \in First(end, isRing) .. end - 1 : c[Slot(p, isRing)] = Row(p, line[p + 1])

\* f is what such a query must see, and view does see it, in both passes.
Sees(f, line, end, isRing) == f = Due(line, First(end, isRing) .. end - 1)
Right(view, line, end, isRing) == view = Same(Due(line, First(end, isRing) .. end - 1))

LEMMA BothSee ==
    ASSUME NEW f, NEW g, NEW line, NEW end, NEW isRing,
           Sees(f, line, end, isRing), Sees(g, line, end, isRing)
    PROVE  Right(View(f, g), line, end, isRing)
  BY DEF Sees, Right, View, Same

LEMMA ChunkPositions ==
    ASSUME NEW end \in Nat, NEW isRing \in BOOLEAN, NEW partitions \in Nat \ {0}
    PROVE  {First(end, isRing) + l : l \in Chunks(end - First(end, isRing), partitions)}
             = First(end, isRing) .. end - 1
<1> DEFINE first == First(end, isRing)
<1>1. first \in Nat /\ end - first \in Nat
  BY FirstIs
<1> HIDE DEF first
<1>2. Chunks(end - first, partitions) = 0 .. (end - first) - 1
  BY <1>1, ChunksCover
<1>3. {first + l : l \in 0 .. (end - first) - 1} = first .. first + (end - first) - 1
  BY <1>1, Shifted
<1>4. first + (end - first) - 1 = end - 1
  BY <1>1
<1> QED
  BY <1>2, <1>3, <1>4 DEF first

\* The value kernels split what they sum, and never into nothing.
LEMMA PartitionsAre ==
    ASSUME NEW stride \in Nat \ {0}
    PROVE  Min2(MaxPartitions, CeilDiv(stride, Block)) \in Nat \ {0}
<1>1. MaxPartitions \in Nat \ {0} /\ Block \in Nat \ {0}
  BY RingAssumption
<1>2. CeilDiv(stride, Block) \in Nat /\ CeilDiv(stride, Block) > 0
  BY <1>1, CeilDivIs
<1> QED
  BY <1>1, <1>2 DEF Min2

-----------------------------------------------------------------------------
(* Decode attention *)

LEMMA DecodeRight ==
    ASSUME NEW c, NEW line, NEW end \in Nat, NEW isRing \in BOOLEAN, Has(c, line, end, isRing)
    PROVE  Right(DecodeView(c, end, isRing), line, end, isRing)
<1> DEFINE first == First(end, isRing)
           attended == end - first
           partitions == IF attended <= 4 THEN 1 ELSE Min2(MaxPartitions, CeilDiv(attended, Block))
           scored == [p \in first .. end - 1 |-> c[Slot(p, isRing)]]
           summed == [p \in {first + l : l \in Chunks(attended, partitions)} |-> c[Slot(p, isRing)]]
<1>1. attended \in Nat
  BY FirstIs
<1>2. partitions \in Nat \ {0}
  <2>1. CASE attended <= 4
    BY <2>1
  <2>2. CASE ~ attended <= 4
    <3>1. attended \in Nat \ {0}
      BY <1>1, <2>2
    <3> HIDE DEF attended
    <3> QED
      BY <2>2, <3>1, PartitionsAre
  <2> QED
    BY <2>1, <2>2
<1>3. DecodeView(c, end, isRing) = View(scored, summed)
  BY DEF DecodeView
<1> HIDE DEF partitions
<1>4. {first + l : l \in Chunks(attended, partitions)} = first .. end - 1
  BY <1>2, ChunkPositions
<1>5. Sees(scored, line, end, isRing)
  BY DEF Sees, Due, Has
<1>6. summed = scored
  BY <1>4
<1> HIDE DEF scored, summed
<1> QED
  BY <1>3, <1>5, <1>6, BothSee

\* What a query sees that stands among candidates: those from cached on, and the
\* cache before.
Mixed(c, staged, cached, p, isRing) ==
    IF p >= cached THEN staged[p - cached] ELSE c[Slot(p, isRing)]
Seen(c, staged, line, cached, end, isRing) ==
    \A p \in First(end, isRing) .. end - 1 :
        Mixed(c, staged, cached, p, isRing) = Row(p, line[p + 1])

LEMMA SeenIs ==
    ASSUME NEW c, NEW staged, NEW line, NEW cached \in Nat, NEW count \in Nat,
           NEW step \in 0 .. count - 1, NEW isRing \in BOOLEAN,
           Has(c, line, cached, isRing), HoldStaged(staged, line, cached, count)
    PROVE  Seen(c, staged, line, cached, cached + step + 1, isRing)
<1> DEFINE end == cached + step + 1
<1>1. end \in Nat /\ First(end, isRing) \in 0 .. end /\ First(cached, isRing) <= First(end, isRing)
  <2>1. step + 1 \in Nat /\ end = cached + (step + 1) /\ end \in Nat
    OBVIOUS
  <2> HIDE DEF end
  <2>2. First(end, isRing) \in 0 .. end
    BY <2>1, FirstIs
  <2>3. First(cached, isRing) <= First(cached + (step + 1), isRing)
    BY <2>1, FirstGrows
  <2> QED
    BY <2>1, <2>2, <2>3
<1>2. First(cached, isRing) \in 0 .. cached
  BY FirstIs
<1>3. ASSUME NEW p \in First(end, isRing) .. end - 1
      PROVE  Mixed(c, staged, cached, p, isRing) = Row(p, line[p + 1])
  <2>1. CASE p >= cached
    <3>1. p - cached \in 0 .. count - 1 /\ cached + (p - cached) = p /\ p \in Nat
      BY <1>1, <2>1
    <3>2. staged[p - cached] = Row(cached + (p - cached), line[cached + (p - cached) + 1])
      BY <3>1 DEF HoldStaged
    <3> QED
      BY <2>1, <3>1, <3>2 DEF Mixed
  <2>2. CASE ~ p >= cached
    <3>1. p \in First(cached, isRing) .. cached - 1
      BY <1>1, <1>2, <2>2
    <3> QED
      BY <2>2, <3>1 DEF Mixed, Has
  <2> QED
    BY <2>1, <2>2
<1> QED
  BY <1>3 DEF Seen

LEMMA BatchRight ==
    ASSUME NEW c, NEW staged, NEW line, NEW cached \in Nat, NEW count \in Nat,
           NEW step \in 0 .. count - 1, NEW isRing \in BOOLEAN,
           Seen(c, staged, line, cached, cached + step + 1, isRing)
    PROVE  Right(BatchView(c, staged, cached + 1, count, step, isRing),
                 line, cached + step + 1, isRing)
<1> DEFINE end == cached + step + 1
           first == First(end, isRing)
           longest == (cached + 1) + count - 1
           stride == IF isRing THEN Min2(longest, Window) ELSE longest
           partitions == Min2(MaxPartitions, CeilDiv(stride, Block))
           scored == [p \in first .. end - 1 |-> Mixed(c, staged, cached, p, isRing)]
           summed == [p \in {first + l : l \in Chunks(end - first, partitions)} |->
                         Mixed(c, staged, cached, p, isRing)]
<1>1. end \in Nat /\ (cached + 1) + step = end /\ (cached + 1) - 1 = cached
  OBVIOUS
<1>2. partitions \in Nat \ {0}
  <2>1. stride \in Nat \ {0}
    BY RingAssumption DEF Min2
  <2> HIDE DEF stride
  <2> QED
    BY <2>1, PartitionsAre
<1>3. BatchScores(c, staged, cached + 1, step, isRing) = scored
  BY <1>1 DEF BatchScores, Mixed
<1>4. BatchValues(c, staged, cached + 1, step, isRing, partitions) = summed
  BY <1>1 DEF BatchValues, Mixed
<1>5. BatchView(c, staged, cached + 1, count, step, isRing) = View(scored, summed)
  BY <1>3, <1>4 DEF BatchView
<1> HIDE DEF partitions
<1>6. {first + l : l \in Chunks(end - first, partitions)} = first .. end - 1
  <2> HIDE DEF end
  <2> QED
    BY <1>1, <1>2, ChunkPositions
<1>7. Sees(scored, line, end, isRing)
  BY DEF Sees, Due, Seen
<1>8. summed = scored
  BY <1>6
<1> HIDE DEF scored, summed
<1> QED
  BY <1>5, <1>7, <1>8, BothSee

-----------------------------------------------------------------------------
(* Ragged attention *)

\* For a verification, whose candidates are staged, ...
LEMMA RaggedRight ==
    ASSUME NEW c, NEW staged, staged # << >>, NEW line, NEW cached \in Nat, NEW step \in Nat,
           NEW span \in Nat \ {0}, NEW isRing \in BOOLEAN,
           Seen(c, staged, line, cached, cached + step + 1, isRing)
    PROVE  Right(RaggedView(c, staged, cached, step, span, isRing, FALSE),
                 line, cached + step + 1, isRing)
<1> DEFINE end == cached + step + 1
           first == First(end, isRing)
           stride == IF isRing THEN Min2(span, Window) ELSE span
           partitions == Min2(MaxPartitions, CeilDiv(stride, Block))
           scored == [p \in first .. end - 1 |-> Mixed(c, staged, cached, p, isRing)]
           summed == [p \in {first + l : l \in Chunks(end - first, partitions)} |->
                         Mixed(c, staged, cached, p, isRing)]
<1>1. end \in Nat /\ RaggedContext(cached, staged, step) = end
  BY DEF RaggedContext
<1>2. partitions \in Nat \ {0}
  <2>1. stride \in Nat \ {0}
    BY RingAssumption DEF Min2
  <2> HIDE DEF stride
  <2> QED
    BY <2>1, PartitionsAre
<1>3. RaggedScores(c, staged, cached, step, isRing) = scored
  BY <1>1 DEF RaggedScores, Mixed
<1>4. RaggedValues(c, staged, cached, step, isRing, partitions) = summed
  BY <1>1 DEF RaggedValues, Mixed
<1>5. RaggedView(c, staged, cached, step, span, isRing, FALSE) = View(scored, summed)
  BY <1>3, <1>4 DEF RaggedView
<1> HIDE DEF partitions
<1>6. {first + l : l \in Chunks(end - first, partitions)} = first .. end - 1
  <2> HIDE DEF end
  <2> QED
    BY <1>1, <1>2, ChunkPositions
<1>7. Sees(scored, line, end, isRing)
  BY DEF Sees, Due, Seen
<1>8. summed = scored
  BY <1>6
<1> HIDE DEF scored, summed
<1> QED
  BY <1>5, <1>7, <1>8, BothSee

\* ... and for the assistant, which has none, with its grouped scores or without.
LEMMA DraftRight ==
    ASSUME NEW c, NEW line, NEW cached \in Nat, NEW span \in Nat \ {0}, cached <= span,
           NEW isRing \in BOOLEAN, NEW grouped \in BOOLEAN, isRing => ~grouped,
           Has(c, line, cached, isRing)
    PROVE  Right(RaggedView(c, << >>, cached, 0, span, isRing, grouped), line, cached, isRing)
<1> DEFINE first == First(cached, isRing)
           stride == IF isRing THEN Min2(span, Window) ELSE span
           partitions == Min2(MaxPartitions, CeilDiv(stride, Block))
           ragged == [p \in first .. cached - 1 |-> c[Slot(p, isRing)]]
           scored == IF grouped THEN GroupedScores(c, cached, stride) ELSE ragged
           summed == [p \in {first + l : l \in Chunks(cached - first, partitions)} |->
                         c[Slot(p, isRing)]]
<1>1. RaggedContext(cached, << >>, 0) = cached
  BY DEF RaggedContext
<1>2. partitions \in Nat \ {0}
  <2>1. stride \in Nat \ {0}
    BY RingAssumption DEF Min2
  <2> HIDE DEF stride
  <2> QED
    BY <2>1, PartitionsAre
<1>3. RaggedScores(c, << >>, cached, 0, isRing) = ragged
  BY <1>1 DEF RaggedScores
<1>4. RaggedValues(c, << >>, cached, 0, isRing, partitions) = summed
  BY <1>1 DEF RaggedValues
<1>5. RaggedView(c, << >>, cached, 0, span, isRing, grouped) = View(scored, summed)
  BY <1>3, <1>4 DEF RaggedView
<1> HIDE DEF partitions
<1>6. {first + l : l \in Chunks(cached - first, partitions)} = first .. cached - 1
  BY <1>2, ChunkPositions
<1>7. Sees(ragged, line, cached, isRing)
  BY DEF Sees, Due, Has
<1>8. summed = ragged
  BY <1>6
<1>9. scored = ragged
  <2>1. CASE ~grouped
    BY <2>1
  <2>2. CASE grouped
    <3> DEFINE Tile(b) == b * Align .. b * Align + Min2(Align, cached - b * Align) - 1
               tiles == UNION {Tile(b) : b \in 0 .. CeilDiv(stride, Align) - 1}
    <3>1. ~isRing /\ stride = span /\ first = 0 /\ Align \in Nat \ {0}
      BY <2>2, FirstIs, RingAssumption
    <3> HIDE DEF stride
    <3>2. CeilDiv(span, Align) \in Nat /\ Align * CeilDiv(span, Align) >= span
      BY <3>1, CeilDivIs
    <3>3. GroupedScores(c, cached, stride) = [p \in tiles |-> c[p]]
      BY DEF GroupedScores
    <3>4. ASSUME NEW b \in 0 .. CeilDiv(stride, Align) - 1, NEW p \in Tile(b)
          PROVE  p \in 0 .. cached - 1
      <4>1. b * Align \in Nat
        BY <3>1, <3>2
      <4> QED
        BY <3>1, <3>4, <4>1 DEF Min2
    <3>5. ASSUME NEW p \in 0 .. cached - 1
          PROVE  \E b \in 0 .. CeilDiv(stride, Align) - 1 : p \in Tile(b)
      <4>1. p \in Nat /\ p < span
        OBVIOUS
      <4>2. PICK b \in Nat, s \in 0 .. Align - 1 : Divided(p, Align, b, s)
        BY <3>1, <4>1, Division
      <4>3. b * Align \in Nat /\ b * Align <= p /\ p < b * Align + Align
        BY <3>1, <4>2 DEF Divided
      <4>4. b < CeilDiv(span, Align)
        <5>1. CASE b >= CeilDiv(span, Align)
          <6> DEFINE tiled == CeilDiv(span, Align)
          <6>1. tiled \in Nat /\ Align * tiled >= span /\ b >= tiled
            BY <3>2, <5>1
          <6> HIDE DEF tiled
          <6> DEFINE x == b * Align
                     y == Align * tiled
          <6>2. x >= y /\ y >= span /\ x <= p /\ x \in Nat /\ y \in Nat
            BY <3>1, <4>3, <6>1
          <6> HIDE DEF x, y
          <6> QED
            BY <4>1, <6>2
        <5> QED
          BY <3>2, <5>1
      <4>5. p \in Tile(b)
        BY <3>1, <4>3 DEF Min2
      <4>6. b \in 0 .. CeilDiv(stride, Align) - 1
        BY <3>1, <3>2, <4>4
      <4> QED
        BY <4>5, <4>6
    <3>6. tiles = 0 .. cached - 1
      BY <3>4, <3>5
    <3> HIDE DEF tiles
    <3>7. ragged = [p \in 0 .. cached - 1 |-> c[p]]
      BY <3>1 DEF Slot
    <3> QED
      BY <2>2, <3>3, <3>6, <3>7
  <2> QED
    BY <2>1, <2>2
<1> HIDE DEF scored, summed, ragged
<1> QED
  BY <1>5, <1>7, <1>8, <1>9, BothSee

-----------------------------------------------------------------------------
(* GEMM attention *)

LEMMA ColumnsCover ==
    ASSUME NEW count \in Nat, NEW fast \in BOOLEAN
    PROVE  SoftmaxColumns(count, fast) \in Nat /\ SoftmaxColumns(count, fast) >= count
  BY RingAssumption DEF SoftmaxColumns

PoolFirst(cached, own, isRing) ==
    IF isRing /\ cached > Window - own THEN cached - (Window - own) ELSE 0

\* The pool of keys holds the tokens of a query's window, each at its place.
Pooled(keys, count, line, cached, step, own, end, isRing) ==
    /\ count \in Nat /\ DOMAIN keys = 0 .. count - 1
    /\ cached \in Nat /\ step \in Nat /\ own \in {0, 1} /\ end = cached + step + own
    /\ \A p \in First(end, isRing) .. end - 1 :
           /\ p - PoolFirst(cached, own, isRing) \in 0 .. count - 1
           /\ keys[p - PoolFirst(cached, own, isRing)] = Row(p, line[p + 1])

LEMMA GemmRight ==
    ASSUME NEW keys, NEW count, NEW line, NEW cached, NEW step, NEW own, NEW end,
           NEW isRing \in BOOLEAN, NEW fast \in BOOLEAN,
           Pooled(keys, count, line, cached, step, own, end, isRing)
    PROVE  Right(GemmSoftmax(keys, cached, step, own, isRing, fast), line, end, isRing)
<1> DEFINE first == First(end, isRing)
           pool == PoolFirst(cached, own, isRing)
           covered == {l \in 0 .. count - 1 : l < SoftmaxColumns(count, fast)}
           visible == {pool + l : l \in covered} \cap (first .. end - 1)
           f == [p \in visible |-> keys[p - pool]]
<1>0. /\ count \in Nat /\ DOMAIN keys = 0 .. count - 1
      /\ cached \in Nat /\ step \in Nat /\ own \in {0, 1} /\ end = cached + step + own
  BY DEF Pooled
<1>1. Cardinality(DOMAIN keys) = count
  <2>1. Cardinality(0 .. count - 1) = count
    <3>1. 0 \in Int /\ count - 1 \in Int
      BY <1>0
    <3>2. Cardinality(0 .. count - 1) = IF 0 > count - 1 THEN 0 ELSE (count - 1) - 0 + 1
      BY <3>1, FS_Interval
    <3> QED
      BY <1>0, <3>2
  <2> QED
    BY <1>0, <2>1
<1>2. GemmSoftmax(keys, cached, step, own, isRing, fast) = Same(f)
  BY <1>0, <1>1 DEF GemmSoftmax, PoolFirst
<1>3. covered = 0 .. count - 1
  <2>1. SoftmaxColumns(count, fast) \in Nat /\ SoftmaxColumns(count, fast) >= count
    BY <1>0, ColumnsCover
  <2>2. \A l \in 0 .. count - 1 : l < SoftmaxColumns(count, fast)
    BY <1>0, <2>1
  <2> QED
    BY <2>2
<1>4. pool \in Nat /\ end \in Nat /\ first \in Nat
  <2>1. end \in Nat
    BY <1>0
  <2>2. pool \in Nat
    BY <1>0, RingAssumption DEF PoolFirst
  <2> QED
    BY <2>1, <2>2, FirstIs
<1> HIDE DEF covered, pool, first
<1>5. ASSUME NEW p \in first .. end - 1
      PROVE  p - pool \in 0 .. count - 1 /\ keys[p - pool] = Row(p, line[p + 1])
  BY DEF Pooled, first, pool
<1>6. visible = first .. end - 1
  <2>1. ASSUME NEW p \in first .. end - 1 PROVE p \in {pool + l : l \in covered}
    <3>1. p - pool \in covered
      BY <1>3, <1>5
    <3>2. p = pool + (p - pool)
      BY <1>4
    <3> QED
      BY <3>1, <3>2
  <2> QED
    BY <2>1
<1> HIDE DEF visible
<1>7. f = Due(line, first .. end - 1)
  BY <1>5, <1>6 DEF Due
<1> QED
  BY <1>2, <1>7 DEF Right, first

\* A pool that begins before the window of each candidate, and is long enough.
LEMMA PoolReaches ==
    ASSUME NEW cached \in Nat, NEW count \in Nat, NEW step \in 0 .. count - 1,
           NEW span \in Nat, cached + count <= span, NEW isRing \in BOOLEAN,
           NEW p \in First(cached + step + 1, isRing) .. (cached + step + 1) - 1
    PROVE  /\ p \in Nat /\ p - PoolFirst(cached, 1, isRing) \in 0 .. KeyTokens(span, count, isRing) - 1
           /\ KeyTokens(span, count, isRing) \in Nat /\ PoolFirst(cached, 1, isRing) \in Nat
           /\ p >= First(cached, isRing) /\ p < cached + count
<1>1. Window \in Nat \ {0}
  BY RingAssumption
<1>2. CASE isRing
  <2>1. p \in Nat /\ p >= First(cached, isRing) /\ p < cached + count
    BY <1>1, <1>2 DEF First
  <2>2. KeyTokens(span, count, isRing) \in Nat /\ PoolFirst(cached, 1, isRing) \in Nat
    BY <1>1, <1>2 DEF KeyTokens, PoolFirst, Min2
  <2>3. p >= PoolFirst(cached, 1, isRing)
    BY <1>1, <1>2 DEF First, PoolFirst
  <2>4. p - PoolFirst(cached, 1, isRing) < KeyTokens(span, count, isRing)
    BY <1>1, <1>2, <2>1 DEF KeyTokens, PoolFirst, Min2
  <2> QED
    BY <2>1, <2>2, <2>3, <2>4
<1>3. CASE ~isRing
  BY <1>1, <1>3 DEF First, KeyTokens, PoolFirst
<1> QED
  BY <1>2, <1>3

Packs(c, rows, line, cached, count, step, span, isRing, fast) ==
    /\ cached \in Nat /\ count \in Nat /\ Len(rows) = count /\ step \in 0 .. count - 1
    /\ span \in Nat /\ cached + count <= span /\ isRing \in BOOLEAN /\ fast \in BOOLEAN
    /\ Has(c, line, cached, isRing) /\ HoldRows(rows, line, cached)

LEMMA PackRight ==
    ASSUME NEW c, NEW rows, NEW line, NEW cached, NEW count, NEW step, NEW span, NEW isRing, NEW fast,
           Packs(c, rows, line, cached, count, step, span, isRing, fast)
    PROVE  Right(GemmSoftmax(PackKeys(c, rows, cached, KeyTokens(span, count, isRing), isRing),
                             cached, step, 1, isRing, fast),
                 line, cached + step + 1, isRing)
<1> DEFINE total == KeyTokens(span, count, isRing)
           keys == PackKeys(c, rows, cached, total, isRing)
           end == cached + step + 1
           pool == PoolFirst(cached, 1, isRing)
           At(p) == IF p >= cached + Len(rows) THEN Junk
                    ELSE IF p >= cached THEN rows[p - cached + 1] ELSE c[Slot(p, isRing)]
<1>0. /\ cached \in Nat /\ count \in Nat /\ Len(rows) = count /\ step \in 0 .. count - 1
      /\ span \in Nat /\ cached + count <= span /\ isRing \in BOOLEAN /\ fast \in BOOLEAN
      /\ Has(c, line, cached, isRing) /\ HoldRows(rows, line, cached)
  BY Zenon DEF Packs
<1> USE <1>0
<1>1. total \in Nat
  BY RingAssumption DEF KeyTokens, Min2
<1>2. keys = [l \in 0 .. total - 1 |-> At(pool + l)]
  BY DEF PackKeys, PoolFirst
<1> HIDE DEF keys, total
<1>3. ASSUME NEW p \in First(end, isRing) .. end - 1
      PROVE  p - pool \in 0 .. total - 1 /\ keys[p - pool] = Row(p, line[p + 1])
  <2>1. /\ p \in Nat /\ p - pool \in 0 .. total - 1 /\ pool \in Nat
        /\ p >= First(cached, isRing) /\ p < cached + count
    BY PoolReaches DEF total
  <2> HIDE DEF pool, end
  <2>2. keys[p - pool] = At(p)
    <3>1. pool + (p - pool) = p
      BY <2>1
    <3> QED
      BY <1>2, <2>1, <3>1
  <2>3. CASE p >= cached
    <3>1. /\ p - cached + 1 \in 1 .. Len(rows)
          /\ cached + (p - cached + 1) - 1 = p /\ cached + (p - cached + 1) = p + 1
      BY <2>1, <2>3
    <3>2. rows[p - cached + 1] = Row(p, line[p + 1])
      BY <3>1 DEF HoldRows
    <3> QED
      BY <2>1, <2>2, <2>3, <3>2
  <2>4. CASE ~ p >= cached
    <3>1. First(cached, isRing) \in Nat
      BY FirstIs
    <3>2. p \in First(cached, isRing) .. cached - 1
      BY <2>1, <2>4, <3>1
    <3> QED
      BY <2>1, <2>2, <2>4, <3>2 DEF Has
  <2> QED
    BY <2>1, <2>3, <2>4
<1>4. DOMAIN keys = 0 .. total - 1
  BY <1>2
<1>5. Pooled(keys, total, line, cached, step, 1, end, isRing)
  BY <1>1, <1>3, <1>4 DEF Pooled
<1> HIDE DEF pool, end
<1>6. Right(GemmSoftmax(keys, cached, step, 1, isRing, fast), line, end, isRing)
  BY <1>5, GemmRight
<1> QED
  BY <1>6 DEF keys, total, end

\* The second copy, from any slot on, is the ring once more.
LEMMA SecondCopy ==
    ASSUME NEW pool \in Nat, NEW l \in 0 .. Window - 1
    PROVE  /\ pool % Window \in 0 .. Window - 1
           /\ Window + (pool % Window) + l \in SlidingRows
           /\ (Window + (pool % Window) + l) % Window = (pool + l) % Window
<1>1. Window \in Nat \ {0} /\ MaxTokens \in 1 .. Window
  BY RingAssumption
<1>2. pool % Window \in 0 .. Window - 1
  BY <1>1, Remainder
<1>3. Window + (pool % Window) + l \in SlidingRows
  BY <1>1, <1>2 DEF SlidingRows
<1> DEFINE y == (pool % Window) + l
<1>4. y \in Nat
  BY <1>1, <1>2
<1>5. y % Window = (pool + l) % Window
  <2>1. l \in Nat
    OBVIOUS
  <2> QED
    BY <1>1, <2>1, SumRemainder
<1>6. Window + (pool % Window) + l = Window + y
  BY <1>1, <1>2
<1> HIDE DEF y
<1>7. (Window + y) % Window = y % Window
  <2>1. PICK q \in Nat, s \in 0 .. Window - 1 : Divided(y, Window, q, s)
    BY <1>1, <1>4, Division
  <2>2. Window + y = Window * (q + 1) + s /\ q + 1 \in Nat
    BY <1>1, <2>1 DEF Divided
  <2>3. (Window * (q + 1) + s) % Window = s
    BY <1>1, <2>2, RemainderIs
  <2>4. y % Window = s
    BY <2>1 DEF Divided
  <2> QED
    BY <2>2, <2>3, <2>4, Zenon
<1>8. (Window + (pool % Window) + l) % Window = (pool + l) % Window
  BY <1>5, <1>6, <1>7, Zenon
<1> QED
  BY <1>2, <1>3, <1>8

\* Where a verification puts its rows: behind the history, in the copies.
LEMMA TailIs ==
    ASSUME NEW cached \in Nat
    PROVE  /\ \A i \in Nat : TailRow(cached, i) = Window + TailStart(cached)
                                 + (cached - PoolFirst(cached, 1, TRUE)) + i
           /\ TailStart(cached) = PoolFirst(cached, 1, TRUE) % Window
           /\ PoolFirst(cached, 1, TRUE) \in Nat
           /\ cached - PoolFirst(cached, 1, TRUE) \in 0 .. Window - 1
<1>1. Window \in Nat \ {0}
  BY RingAssumption
<1>2. CASE cached > Window - 1
  <2>1. PoolFirst(cached, 1, TRUE) = cached - (Window - 1)
    BY <1>2 DEF PoolFirst
  <2>2. TailStart(cached) = (cached - (Window - 1)) % Window
    BY <1>2 DEF TailStart
  <2>3. Min2(cached, Window - 1) = Window - 1
    BY <1>1, <1>2 DEF Min2
  <2>4. cached - (Window - 1) \in Nat /\ cached - (cached - (Window - 1)) = Window - 1
    BY <1>1, <1>2
  <2>5. \A i \in Nat : TailRow(cached, i) = Window + TailStart(cached) + (Window - 1) + i
    BY <2>3, Zenon DEF TailRow
  <2>6. TailStart(cached) = PoolFirst(cached, 1, TRUE) % Window
    BY <2>1, <2>2, Zenon
  <2>7. cached - PoolFirst(cached, 1, TRUE) = Window - 1
    BY <2>1, <2>4, Zenon
  <2>8. PoolFirst(cached, 1, TRUE) \in Nat
    BY <2>1, <2>4, Zenon
  <2>9. Window - 1 \in 0 .. Window - 1
    BY <1>1
  <2> QED
    BY <2>5, <2>6, <2>7, <2>8, <2>9, Zenon
<1>3. CASE ~ cached > Window - 1
  <2>1. PoolFirst(cached, 1, TRUE) = 0
    BY <1>3 DEF PoolFirst
  <2>2. TailStart(cached) = 0 /\ 0 % Window = 0
    <3>1. 0 \in 0 .. Window - 1
      BY <1>1
    <3> QED
      BY <1>1, <1>3, <3>1, RemainderSmall DEF TailStart
  <2>3. Min2(cached, Window - 1) = cached
    BY <1>1, <1>3 DEF Min2
  <2>4. cached - 0 = cached /\ cached \in 0 .. Window - 1 /\ 0 \in Nat
    BY <1>1, <1>3
  <2>5. \A i \in Nat : TailRow(cached, i) = Window + TailStart(cached) + cached + i
    BY <2>3, Zenon DEF TailRow
  <2> QED
    BY <2>1, <2>2, <2>4, <2>5, Zenon
<1> QED
  BY <1>2, <1>3

\* The tokens of line behind the history, in a live cache.
Live(c, line, cached, count, isRing) ==
    \A i \in 0 .. count - 1 :
        c[IF isRing THEN TailRow(cached, i) ELSE cached + i] = Row(cached + i, line[cached + i + 1])

LEMMA DirectRingRight ==
    ASSUME NEW c, NEW line, NEW cached \in Nat, NEW count \in Nat, NEW step \in 0 .. count - 1,
           NEW span \in Nat, cached + count <= span, NEW fast \in BOOLEAN,
           Has(c, line, cached, TRUE), Live(c, line, cached, count, TRUE),
           \A r \in SlidingRows \ TailRows(cached, count - 1) : c[r] = c[r % Window]
    PROVE  Right(GemmSoftmax(DirectKeys(c, cached, KeyTokens(span, count, TRUE), TRUE),
                             cached, step, 1, TRUE, fast),
                 line, cached + step + 1, TRUE)
<1> DEFINE total == KeyTokens(span, count, TRUE)
           keys == DirectKeys(c, cached, total, TRUE)
           end == cached + step + 1
           pool == PoolFirst(cached, 1, TRUE)
           Place(l) == Window + (pool % Window) + l
<1>1. total \in Nat
  BY RingAssumption DEF KeyTokens, Min2
<1>2. /\ \A i \in Nat : TailRow(cached, i) = Window + (pool % Window) + (cached - pool) + i
      /\ TailStart(cached) = pool % Window /\ pool \in Nat /\ cached - pool \in 0 .. Window - 1
  <2>1. /\ \A i \in Nat : TailRow(cached, i) = Window + TailStart(cached) + (cached - pool) + i
        /\ TailStart(cached) = pool % Window /\ pool \in Nat /\ cached - pool \in 0 .. Window - 1
    BY TailIs
  <2> HIDE DEF pool
  <2> QED
    BY <2>1, Zenon
<1>3. keys = [l \in 0 .. total - 1 |-> c[Place(l)]]
  BY <1>2 DEF DirectKeys
<1>4. Window \in Nat \ {0} /\ pool % Window \in 0 .. Window - 1
  BY <1>2, RingAssumption, Remainder
<1> HIDE DEF keys, total
<1>5. ASSUME NEW p \in First(end, TRUE) .. end - 1
      PROVE  p - pool \in 0 .. total - 1 /\ keys[p - pool] = Row(p, line[p + 1])
  <2>1. /\ p \in Nat /\ p - pool \in 0 .. total - 1
        /\ p >= First(cached, TRUE) /\ p < cached + count
    BY PoolReaches DEF total
  <2> HIDE DEF pool, end
  <2>2. keys[p - pool] = c[Window + (pool % Window) + (p - pool)]
    BY <1>3, <2>1
  <2>3. CASE p >= cached
    <3>1. p - cached \in Nat /\ p - cached \in 0 .. count - 1 /\ cached + (p - cached) = p
      BY <2>1, <2>3
    <3>2. c[TailRow(cached, p - cached)] = Row(cached + (p - cached), line[cached + (p - cached) + 1])
      BY <3>1 DEF Live
    <3>3. TailRow(cached, p - cached) = Window + (pool % Window) + (cached - pool) + (p - cached)
      BY <1>2, <3>1
    <3>4. TailRow(cached, p - cached) = Window + (pool % Window) + (p - pool)
      BY <1>2, <1>4, <2>1, <3>3
    <3> QED
      BY <2>1, <2>2, <3>1, <3>2, <3>4
  <2>4. CASE ~ p >= cached
    <3> DEFINE r == Window + (pool % Window) + (p - pool)
    <3>1. p - pool \in 0 .. Window - 1 /\ pool + (p - pool) = p
      <4>1. p - pool >= 0 /\ p - pool \in Int
        BY <1>1, <2>1
      <4>2. p < cached /\ cached - pool <= Window - 1 /\ cached \in Int
        BY <1>2, <2>1, <2>4
      <4> QED
        BY <1>2, <1>4, <2>1, <4>1, <4>2
    <3>2. r \in SlidingRows /\ r % Window = (pool + (p - pool)) % Window
      BY <1>2, <3>1, SecondCopy
    <3>3. r \notin TailRows(cached, count - 1)
      <4>1. ASSUME NEW i \in 0 .. count - 1 PROVE TailRow(cached, i) > r
        <5>1. TailRow(cached, i) = Window + (pool % Window) + (cached - pool) + i
          BY <1>2
        <5> QED
          BY <1>2, <1>4, <2>1, <2>4, <5>1
      <4>2. r \in Nat
        BY <3>2, RowsHaveSlots
      <4> HIDE DEF r
      <4> QED
        BY <4>1, <4>2 DEF TailRows
    <3> HIDE DEF r
    <3>4. c[r] = c[r % Window]
      BY <3>2, <3>3
    <3>6. c[p % Window] = Row(p, line[p + 1])
      <4> DEFINE least == First(cached, TRUE)
      <4>1. least \in 0 .. cached /\ p >= least
        <5>1. TRUE \in BOOLEAN
          OBVIOUS
        <5> QED
          BY <2>1, <5>1, FirstIs
      <4> HIDE DEF least
      <4>2. p \in least .. cached - 1
        BY <2>1, <2>4, <4>1
      <4>3. p \in First(cached, TRUE) .. cached - 1
        BY <4>2, Zenon DEF least
      <4> QED
        BY <4>3 DEF Has, Slot
    <3>7. r % Window = p % Window
      BY <3>1, <3>2
    <3>8. c[r] = Row(p, line[p + 1])
      BY <3>4, <3>6, <3>7
    <3> QED
      BY <2>1, <2>2, <3>8 DEF r
  <2> QED
    BY <2>1, <2>3, <2>4
<1>6. DOMAIN keys = 0 .. total - 1
  BY <1>3
<1>7. Pooled(keys, total, line, cached, step, 1, end, TRUE)
  <2>1. step \in Nat /\ 1 \in {0, 1} /\ end = cached + step + 1
    OBVIOUS
  <2> HIDE DEF end
  <2> QED
    BY <1>1, <1>5, <1>6, <2>1, Zenon DEF Pooled
<1> HIDE DEF pool, end
<1>8. Right(GemmSoftmax(keys, cached, step, 1, TRUE, fast), line, end, TRUE)
  BY <1>7, GemmRight
<1> QED
  BY <1>8 DEF keys, total, end

LEMMA DirectGlobalRight ==
    ASSUME NEW c, NEW line, NEW cached \in Nat, NEW count \in Nat, NEW step \in 0 .. count - 1,
           NEW span \in Nat, cached + count <= span, NEW fast \in BOOLEAN,
           Has(c, line, cached, FALSE), Live(c, line, cached, count, FALSE)
    PROVE  Right(GemmSoftmax(DirectKeys(c, cached, KeyTokens(span, count, FALSE), FALSE),
                             cached, step, 1, FALSE, fast),
                 line, cached + step + 1, FALSE)
<1> DEFINE total == KeyTokens(span, count, FALSE)
           keys == DirectKeys(c, cached, total, FALSE)
           end == cached + step + 1
           pool == PoolFirst(cached, 1, FALSE)
<1>1. total \in Nat /\ total = span /\ pool = 0
  BY DEF KeyTokens, PoolFirst
<1>2. keys = [l \in 0 .. total - 1 |-> c[l]]
  BY DEF DirectKeys
<1> HIDE DEF keys, total
<1>3. ASSUME NEW p \in First(end, FALSE) .. end - 1
      PROVE  p - pool \in 0 .. total - 1 /\ keys[p - pool] = Row(p, line[p + 1])
  <2>1. p \in Nat /\ p < cached + count /\ p - pool = p /\ p \in 0 .. total - 1
    <3>1. First(end, FALSE) = 0
      BY DEF First
    <3>2. p \in 0 .. end - 1
      BY <3>1, Zenon
    <3> HIDE DEF pool
    <3>3. p \in Nat /\ p < cached + count
      BY <3>2
    <3> QED
      BY <1>1, <3>3
  <2>2. keys[p] = c[p]
    BY <1>2, <2>1
  <2>3. CASE p >= cached
    <3>1. p - cached \in 0 .. count - 1 /\ cached + (p - cached) = p
      BY <2>1, <2>3
    <3>2. c[cached + (p - cached)] = Row(cached + (p - cached), line[cached + (p - cached) + 1])
      BY <3>1 DEF Live
    <3> QED
      BY <2>1, <2>2, <3>1, <3>2
  <2>4. CASE ~ p >= cached
    <3>1. p \in First(cached, FALSE) .. cached - 1
      BY <2>1, <2>4 DEF First
    <3>2. c[p] = Row(p, line[p + 1])
      BY <3>1 DEF Has, Slot
    <3> QED
      BY <2>1, <2>2, <3>2
  <2> QED
    BY <2>1, <2>3, <2>4
<1>4. DOMAIN keys = 0 .. total - 1
  BY <1>2
<1>5. Pooled(keys, total, line, cached, step, 1, end, FALSE)
  <2>1. step \in Nat /\ 1 \in {0, 1} /\ end = cached + step + 1
    OBVIOUS
  <2> HIDE DEF end
  <2> QED
    BY <1>1, <1>3, <1>4, <2>1, Zenon DEF Pooled
<1> HIDE DEF pool, end
<1>6. Right(GemmSoftmax(keys, cached, step, 1, FALSE, fast), line, end, FALSE)
  BY <1>5, GemmRight
<1> QED
  BY <1>6 DEF keys, total, end

\* The assistant reads the last Window tokens in the second copy.
LEMMA AssistRingRight ==
    ASSUME NEW c, NEW line, NEW cached \in Nat, NEW span \in Nat, cached <= span,
           Has(c, line, cached, TRUE), \A r \in SlidingRows : c[r] = c[r % Window]
    PROVE  Right(GemmSoftmax(AssistantKeys(c, cached, span, TRUE), cached, 0, 0, TRUE, FALSE),
                 line, cached, TRUE)
<1> DEFINE total == Min2(span, Window)
           keys == AssistantKeys(c, cached, span, TRUE)
           pool == PoolFirst(cached, 0, TRUE)
           least == First(cached, TRUE)
<1>1. total \in Nat /\ Window \in Nat \ {0}
  BY RingAssumption DEF Min2
<1>2. pool = least /\ pool \in Nat /\ cached - pool <= total /\ cached - pool <= Window
  BY <1>1 DEF PoolFirst, First, Min2
<1>3. keys = [l \in 0 .. total - 1 |-> c[Window + (pool % Window) + l]]
  <2>1. (IF cached > Window THEN (cached - Window) % Window ELSE 0) = pool % Window
    <3>1. CASE cached > Window
      <4>1. pool = cached - Window
        BY <1>1, <3>1 DEF PoolFirst
      <4> QED
        BY <3>1, <4>1
    <3>2. CASE ~ cached > Window
      <4>1. pool = 0
        BY <1>1, <3>2 DEF PoolFirst
      <4>2. 0 % Window = 0
        <5>1. 0 \in 0 .. Window - 1
          BY <1>1
        <5> QED
          BY <1>1, <5>1, RemainderSmall
      <4> QED
        BY <3>2, <4>1, <4>2, Zenon
    <3> QED
      BY <3>1, <3>2
  <2> HIDE DEF pool, total
  <2>2. keys = [l \in 0 .. Min2(span, Window) - 1 |->
                   c[Window + (IF cached > Window THEN (cached - Window) % Window ELSE 0) + l]]
    BY DEF AssistantKeys
  <2> QED
    BY <2>1, <2>2, Zenon DEF total
<1> HIDE DEF keys, total, pool, least
<1>4. ASSUME NEW p \in least .. cached - 1
      PROVE  p - pool \in 0 .. total - 1 /\ keys[p - pool] = Row(p, line[p + 1])
  <2>1. /\ p \in Nat /\ p - pool \in 0 .. total - 1 /\ p - pool \in 0 .. Window - 1
        /\ pool + (p - pool) = p
    BY <1>1, <1>2
  <2> DEFINE r == Window + (pool % Window) + (p - pool)
  <2>2. r \in SlidingRows /\ r % Window = (pool + (p - pool)) % Window
    BY <1>2, <2>1, SecondCopy
  <2>3. keys[p - pool] = c[r]
    BY <1>3, <2>1
  <2> HIDE DEF r
  <2>4. c[r] = c[p % Window]
    <3>1. c[r] = c[r % Window]
      BY <2>2
    <3>2. r % Window = p % Window
      BY <2>1, <2>2, Zenon
    <3> QED
      BY <3>1, <3>2, Zenon
  <2>5. c[p % Window] = Row(p, line[p + 1])
    BY Zenon DEF Has, Slot, least
  <2> QED
    BY <2>1, <2>3, <2>4, <2>5, Zenon
<1>5. Pooled(keys, total, line, cached, 0, 0, cached, TRUE)
  <2>1. 0 \in Nat /\ 0 \in {0, 1} /\ cached = cached + 0 + 0 /\ DOMAIN keys = 0 .. total - 1
    BY <1>3
  <2> QED
    BY <1>1, <1>4, <2>1, Zenon DEF Pooled, pool, least
<1>6. Right(GemmSoftmax(keys, cached, 0, 0, TRUE, FALSE), line, cached, TRUE)
  <2>1. TRUE \in BOOLEAN /\ FALSE \in BOOLEAN
    OBVIOUS
  <2> QED
    BY <1>5, <2>1, GemmRight
<1> QED
  BY <1>6 DEF keys

LEMMA AssistGlobalRight ==
    ASSUME NEW c, NEW line, NEW cached \in Nat, NEW span \in Nat, cached <= span,
           Has(c, line, cached, FALSE)
    PROVE  Right(GemmSoftmax(AssistantKeys(c, cached, span, FALSE), cached, 0, 0, FALSE, FALSE),
                 line, cached, FALSE)
<1> DEFINE keys == AssistantKeys(c, cached, span, FALSE)
           pool == PoolFirst(cached, 0, FALSE)
           least == First(cached, FALSE)
<1>1. pool = 0 /\ least = 0
  BY DEF PoolFirst, First
<1>2. keys = [l \in 0 .. span - 1 |-> c[l]]
  BY DEF AssistantKeys
<1> HIDE DEF keys, pool, least
<1>3. ASSUME NEW p \in least .. cached - 1
      PROVE  p - pool \in 0 .. span - 1 /\ keys[p - pool] = Row(p, line[p + 1])
  <2>1. p - pool = p /\ p \in 0 .. span - 1
    BY <1>1
  <2>2. keys[p] = c[p]
    BY <1>2, <2>1
  <2>3. c[p] = Row(p, line[p + 1])
    BY Zenon DEF Has, Slot, least
  <2> QED
    BY <2>1, <2>2, <2>3, Zenon
<1>4. Pooled(keys, span, line, cached, 0, 0, cached, FALSE)
  <2>1. 0 \in Nat /\ 0 \in {0, 1} /\ cached = cached + 0 + 0 /\ DOMAIN keys = 0 .. span - 1
    BY <1>2
  <2> QED
    BY <1>3, <2>1, Zenon DEF Pooled, pool, least
<1>5. Right(GemmSoftmax(keys, cached, 0, 0, FALSE, FALSE), line, cached, FALSE)
  <2>1. FALSE \in BOOLEAN
    OBVIOUS
  <2> QED
    BY <1>4, <2>1, GemmRight
<1> QED
  BY <1>5 DEF keys

-----------------------------------------------------------------------------
(* Prefill attention *)

LEMMA CountIs ==
    ASSUME NEW n \in Nat, NEW f, DOMAIN f = 0 .. n - 1
    PROVE  Cardinality(DOMAIN f) = n
<1>1. 0 \in Int /\ n - 1 \in Int
  OBVIOUS
<1>2. Cardinality(0 .. n - 1) = IF 0 > n - 1 THEN 0 ELSE (n - 1) - 0 + 1
  BY <1>1, FS_Interval, Zenon
<1> QED
  BY <1>2

\* What a query of a prefill must see: its window, and its image block.
Whole(view, line, end, block, isRing) ==
    view = Same(Due(line, (First(end, isRing) .. end - 1) \cup block))

\* The keys from position base on hold what it must see.
Supplied(keys, count, base, line, end, block, isRing) ==
    /\ count \in Nat /\ base \in Nat /\ DOMAIN keys = 0 .. count - 1
    /\ base <= First(end, isRing)
    /\ \A p \in (First(end, isRing) .. end - 1) \cup block :
           p - base \in 0 .. count - 1 /\ keys[p - base] = Row(p, line[p + 1])

\* The image block of the call, for a query that is in it.
ImageOf(query, prefix, block) ==
    IF query - prefix \in block THEN {prefix + b : b \in block} ELSE {}

LEMMA PrefillRight ==
    ASSUME NEW keys, NEW count, NEW base, NEW line, NEW query \in Nat, NEW prefix \in Nat,
           NEW tokens \in Nat, NEW block \in SUBSET (0 .. tokens - 1), NEW isRing \in BOOLEAN,
           Supplied(keys, count, base, line, query + 1, ImageOf(query, prefix, block), isRing)
    PROVE  Whole(PrefillView(keys, base, query, prefix, tokens, block, isRing),
                 line, query + 1, ImageOf(query, prefix, block), isRing)
<1> DEFINE image == ImageOf(query, prefix, block)
           first == First(query + 1, isRing)
           due == (first .. (query + 1) - 1) \cup image
           Causal(p) == p <= query /\ (isRing => p > query - Window)
           Inside(p) == /\ p - prefix \in 0 .. tokens - 1
                        /\ p - prefix \in block /\ query - prefix \in block
           positions == {p \in base .. base + count - 1 : Causal(p) \/ Inside(p)}
<1>1. /\ count \in Nat /\ base \in Nat /\ DOMAIN keys = 0 .. count - 1 /\ base <= first
      /\ \A p \in due : p - base \in 0 .. count - 1 /\ keys[p - base] = Row(p, line[p + 1])
  BY Zenon DEF Supplied
<1>2. PrefillView(keys, base, query, prefix, tokens, block, isRing)
        = Same([p \in positions |-> keys[p - base]])
  <2>1. Cardinality(DOMAIN keys) = count
    BY <1>1, CountIs
  <2> QED
    BY <2>1, Zenon DEF PrefillView
<1>3. ASSUME NEW p \in Int PROVE p \in image <=> Inside(p)
  <2>1. ASSUME p \in image PROVE Inside(p)
    BY <2>1 DEF ImageOf
  <2>2. ASSUME Inside(p) PROVE p \in image
    <3>1. p = prefix + (p - prefix)
      OBVIOUS
    <3> QED
      BY <2>2, <3>1 DEF ImageOf
  <2> QED
    BY <2>1, <2>2
<1>4. ASSUME NEW p \in Int, p >= base PROVE p \in first .. (query + 1) - 1 <=> Causal(p)
  <2>1. Window \in Nat \ {0}
    BY RingAssumption
  <2> QED
    BY <1>1, <1>4, <2>1 DEF First
<1>5. image \subseteq Int
  BY DEF ImageOf
<1>6. first \in Nat
  BY FirstIs
<1> HIDE DEF image, first, Causal, Inside
<1>7. positions = due
  <2>1. ASSUME NEW p \in due PROVE p \in positions
    <3>1. p \in Int /\ p - base \in 0 .. count - 1
      BY <1>1, <1>5, <1>6
    <3>2. p \in base .. base + count - 1 /\ p >= base
      BY <1>1, <3>1
    <3> QED
      BY <1>3, <1>4, <3>1, <3>2
  <2>2. ASSUME NEW p \in positions PROVE p \in due
    <3>1. p \in Int /\ p >= base
      BY <1>1
    <3> QED
      BY <1>3, <1>4, <3>1
  <2> QED
    BY <2>1, <2>2
<1> HIDE DEF positions, due
<1>8. [p \in positions |-> keys[p - base]] = Due(line, due)
  BY <1>1, <1>7 DEF Due
<1> QED
  BY <1>2, <1>8 DEF Whole, due, first, image

\* The kernel that derives the base from the count of keys.
LEMMA UniformRight ==
    ASSUME NEW keys, NEW count, NEW base, NEW line, NEW query \in Nat, NEW prefix \in Nat,
           NEW tokens \in Nat, NEW block \in SUBSET (0 .. tokens - 1), NEW isRing \in BOOLEAN,
           isRing => base = prefix - (count - tokens), ~isRing => base = 0,
           Supplied(keys, count, base, line, query + 1, ImageOf(query, prefix, block), isRing)
    PROVE  Whole(UniformView(keys, query, prefix, tokens, block, isRing),
                 line, query + 1, ImageOf(query, prefix, block), isRing)
<1>1. Cardinality(DOMAIN keys) = count
  <2>1. count \in Nat /\ DOMAIN keys = 0 .. count - 1
    BY DEF Supplied
  <2> QED
    BY <2>1, CountIs
<1>2. UniformView(keys, query, prefix, tokens, block, isRing)
        = PrefillView(keys, base, query, prefix, tokens, block, isRing)
  BY <1>1 DEF UniformView
<1> QED
  BY <1>2, PrefillRight

\* The chronological past: the tokens of the window before prefix.
Past(past, n, line, prefix, isRing) ==
    /\ n \in 0 .. prefix /\ DOMAIN past = 0 .. n - 1 /\ First(prefix, isRing) = prefix - n
    /\ \A i \in 0 .. n - 1 : past[i] = Row(prefix - n + i, line[prefix - n + i + 1])

\* The past, the rows of the call and what follows them.
LEMMA KeysSupply ==
    ASSUME NEW past, NEW n, NEW line, NEW prefix \in Nat, NEW isRing \in BOOLEAN,
           Past(past, n, line, prefix, isRing),
           NEW rows, NEW m \in Nat, Len(rows) = m, HoldRows(rows, line, prefix),
           NEW count \in Nat, n + m <= count,
           NEW end \in prefix + 1 .. prefix + m, NEW block \in SUBSET (prefix .. prefix + m - 1)
    PROVE  Supplied(KeysOf(past, rows, count), count, prefix - n, line, end, block, isRing)
<1> DEFINE keys == KeysOf(past, rows, count)
           first == First(end, isRing)
           At(i) == IF i < n THEN past[i] ELSE IF i < n + Len(rows) THEN rows[i - n + 1] ELSE Junk
<1>1. /\ n \in 0 .. prefix /\ DOMAIN past = 0 .. n - 1 /\ First(prefix, isRing) = prefix - n
      /\ \A i \in 0 .. n - 1 : past[i] = Row(prefix - n + i, line[prefix - n + i + 1])
  BY DEF Past
<1>2. keys = [i \in 0 .. count - 1 |-> At(i)]
  <2>1. Cardinality(DOMAIN past) = n
    BY <1>1, CountIs
  <2> QED
    BY <2>1 DEF KeysOf
<1>3. prefix - n <= first /\ first \in Nat
  <2>1. end - prefix \in Nat /\ end = prefix + (end - prefix) /\ end \in Nat
    OBVIOUS
  <2>2. First(prefix, isRing) <= First(prefix + (end - prefix), isRing)
    BY <2>1, FirstGrows
  <2>3. First(end, isRing) \in 0 .. end
    BY <2>1, FirstIs
  <2>4. First(prefix, isRing) <= first
    BY <2>1, <2>2, Zenon
  <2> HIDE DEF first
  <2>5. prefix - n <= first
    BY <1>1, <2>4
  <2>6. first \in 0 .. end
    BY <2>3 DEF first
  <2> QED
    BY <2>1, <2>5, <2>6
<1> HIDE DEF keys, first
<1>4. ASSUME NEW p \in (first .. end - 1) \cup block
      PROVE  p - (prefix - n) \in 0 .. count - 1 /\ keys[p - (prefix - n)] = Row(p, line[p + 1])
  <2> DEFINE i == p - (prefix - n)
  <2>1. p \in Int /\ p >= prefix - n /\ p < prefix + m
    BY <1>1, <1>3
  <2>2. i \in 0 .. count - 1 /\ i < n + m /\ prefix - n + i = p
    BY <1>1, <2>1
  <2>3. keys[i] = At(i)
    BY <1>2, <2>2
  <2>4. CASE i < n
    <3>1. i \in 0 .. n - 1
      BY <1>1, <2>2, <2>4
    <3> HIDE DEF i
    <3>2. past[i] = Row(prefix - n + i, line[prefix - n + i + 1])
      BY <1>1, <3>1
    <3>3. keys[i] = past[i]
      BY <2>3, <2>4
    <3>4. keys[i] = Row(p, line[p + 1])
      BY <2>2, <3>2, <3>3, Zenon
    <3> QED
      BY <2>2, <3>4 DEF i
  <2>5. CASE ~ i < n
    <3>1. i - n + 1 \in 1 .. Len(rows) /\ prefix + (i - n + 1) - 1 = p /\ prefix + (i - n + 1) = p + 1
      BY <1>1, <2>2, <2>5
    <3> HIDE DEF i
    <3>2. rows[i - n + 1] = Row(p, line[p + 1])
      BY <3>1, Zenon DEF HoldRows
    <3>3. keys[i] = rows[i - n + 1]
      BY <2>2, <2>3, <2>5
    <3> QED
      BY <2>2, <3>2, <3>3 DEF i
  <2> QED
    BY <2>4, <2>5
<1>5. prefix - n \in Nat /\ DOMAIN keys = 0 .. count - 1
  BY <1>1, <1>2
<1>6. Supplied(keys, count, prefix - n, line, end, block, isRing)
  BY <1>3, <1>4, <1>5, Zenon DEF Supplied, first
<1> QED
  BY <1>6 DEF keys

\* Where a ring's past begins, and that it is one turn of the ring at most.
LEMMA PastBegins ==
    ASSUME NEW prefix \in Nat
    PROVE  /\ Min2(prefix, Window) \in 0 .. prefix /\ Min2(prefix, Window) <= Window
           /\ First(prefix, TRUE) = prefix - Min2(prefix, Window)
           /\ prefix - Min2(prefix, Window) \in Nat
           /\ (prefix - Min2(prefix, Window)) % Window \in 0 .. Window - 1
<1> DEFINE n == Min2(prefix, Window)
<1>1. Window \in Nat \ {0}
  BY RingAssumption
<1>2. n \in 0 .. prefix /\ n <= Window /\ First(prefix, TRUE) = prefix - n
  BY <1>1 DEF Min2, First
<1>3. prefix - n \in Nat
  BY <1>2
<1> HIDE DEF n
<1>4. (prefix - n) % Window \in 0 .. Window - 1
  BY <1>1, <1>3, Remainder
<1>5. /\ n \in 0 .. prefix /\ n <= Window /\ First(prefix, TRUE) = prefix - n
      /\ prefix - n \in Nat /\ (prefix - n) % Window \in 0 .. Window - 1
  BY <1>2, <1>3, <1>4
<1> QED
  BY <1>5, Zenon DEF n

\* What the rows of a past must be: those of its positions' slots.
LEMMA PastIs ==
    ASSUME NEW c, NEW line, NEW prefix \in Nat, Has(c, line, prefix, TRUE),
           NEW n, n = Min2(prefix, Window), NEW past, DOMAIN past = 0 .. n - 1,
           \A i \in 0 .. n - 1 : past[i] = c[(prefix - n + i) % Window]
    PROVE  Past(past, n, line, prefix, TRUE)
<1>1. n \in 0 .. prefix /\ First(prefix, TRUE) = prefix - n
  BY PastBegins
<1>2. ASSUME NEW i \in 0 .. n - 1
      PROVE  past[i] = Row(prefix - n + i, line[prefix - n + i + 1])
  <2> DEFINE p == prefix - n + i
  <2>1. p \in (prefix - n) .. prefix - 1
    BY <1>1
  <2>2. p \in First(prefix, TRUE) .. prefix - 1
    BY <1>1, <2>1, Zenon
  <2> HIDE DEF p
  <2>3. c[p % Window] = Row(p, line[p + 1])
    BY <2>2 DEF Has, Slot
  <2>4. past[i] = c[p % Window]
    BY DEF p
  <2> QED
    BY <2>3, <2>4 DEF p
<1> QED
  BY <1>1, <1>2, Zenon DEF Past

LEMMA CopyPastIs ==
    ASSUME NEW c, NEW line, NEW prefix \in Nat, Has(c, line, prefix, TRUE)
    PROVE  Past(CopyPast(c, prefix), Min2(prefix, Window), line, prefix, TRUE)
<1> DEFINE n == Min2(prefix, Window)
           slot == (prefix - n) % Window
           turn == Min2(n, Window - slot)
           past == CopyPast(c, prefix)
<1>1. Window \in Nat \ {0}
  BY RingAssumption
<1>2. n \in 0 .. prefix /\ n <= Window /\ prefix - n \in Nat /\ slot \in 0 .. Window - 1
  BY PastBegins
<1>3. past = [i \in 0 .. n - 1 |-> IF i < turn THEN c[slot + i] ELSE c[i - turn]]
  BY DEF CopyPast
<1>4. \A i \in 0 .. n - 1 : (slot + i) % Window = (prefix - n + i) % Window
  <2> HIDE DEF n
  <2>1. \A i \in 0 .. n - 1 : i \in Nat
    OBVIOUS
  <2> QED
    BY <1>1, <1>2, <2>1, SumRemainder
<1> HIDE DEF past, slot, n
<1>5. ASSUME NEW i \in 0 .. n - 1
      PROVE  past[i] = c[(prefix - n + i) % Window]
  <2>1. CASE i < turn
    <3>1. slot + i \in 0 .. Window - 1
      BY <1>1, <1>2, <2>1 DEF Min2
    <3>2. (slot + i) % Window = slot + i
      BY <1>1, <3>1, RemainderSmall
    <3> QED
      BY <1>3, <1>4, <2>1, <3>2
  <2>2. CASE ~ i < turn
    <3>1. turn = Window - slot /\ i - turn \in 0 .. Window - 1 /\ slot + i = Window * 1 + (i - turn)
      BY <1>1, <1>2, <2>2 DEF Min2
    <3>2. (Window * 1 + (i - turn)) % Window = i - turn
      BY <1>1, <3>1, RemainderIs
    <3>3. (prefix - n + i) % Window = i - turn
      BY <1>4, <3>1, <3>2, Zenon
    <3>4. past[i] = c[i - turn]
      BY <1>3, <2>2
    <3> QED
      BY <3>3, <3>4, Zenon
  <2> QED
    BY <2>1, <2>2
<1>6. DOMAIN past = 0 .. n - 1
  BY <1>3
<1>7. Past(past, n, line, prefix, TRUE)
  BY <1>5, <1>6, PastIs DEF n
<1> QED
  BY <1>7 DEF past, n

\* pack_decision_keys_kernel and the segmented reader, on a ring ...
LEMMA PackPastRing ==
    ASSUME NEW c, NEW line, NEW prefix \in Nat, Has(c, line, prefix, TRUE)
    PROVE  Past(PackPast(c, prefix, FALSE), Min2(prefix, Window), line, prefix, TRUE)
<1> DEFINE n == Min2(prefix, Window)
<1>1. PackPast(c, prefix, FALSE) = [i \in 0 .. n - 1 |-> c[(prefix - n + i) % Window]]
  BY DEF PackPast
<1> HIDE DEF n
<1>2. n = Min2(prefix, Window)
  BY DEF n
<1>3. DOMAIN PackPast(c, prefix, FALSE) = 0 .. n - 1
  BY <1>1
<1>4. \A i \in 0 .. n - 1 : PackPast(c, prefix, FALSE)[i] = c[(prefix - n + i) % Window]
  BY <1>1
<1>5. Past(PackPast(c, prefix, FALSE), n, line, prefix, TRUE)
  BY <1>2, <1>3, <1>4, PastIs
<1> QED
  BY <1>5 DEF n

LEMMA SegmentPastRing ==
    ASSUME NEW c, NEW line, NEW prefix \in Nat, Has(c, line, prefix, TRUE),
           \A r \in SlidingRows : c[r] = c[r % Window]
    PROVE  Past(SegmentPast(c, prefix, FALSE), Min2(prefix, Window), line, prefix, TRUE)
<1> DEFINE n == Min2(prefix, Window)
           slot == (prefix - n) % Window
           past == SegmentPast(c, prefix, FALSE)
<1>1. Window \in Nat \ {0} /\ MaxTokens \in 1 .. Window
  BY RingAssumption
<1>2. n \in 0 .. prefix /\ n <= Window /\ prefix - n \in Nat /\ slot \in 0 .. Window - 1
  BY PastBegins
<1>3. past = [i \in 0 .. n - 1 |-> c[slot + i]]
  BY DEF SegmentPast
<1>4. \A i \in 0 .. n - 1 : (slot + i) % Window = (prefix - n + i) % Window
  <2> HIDE DEF n
  <2>1. \A i \in 0 .. n - 1 : i \in Nat
    OBVIOUS
  <2> QED
    BY <1>1, <1>2, <2>1, SumRemainder
<1> HIDE DEF past, slot
<1>5. n = Min2(prefix, Window)
  OBVIOUS
<1> HIDE DEF n
<1>6. ASSUME NEW i \in 0 .. n - 1
      PROVE  past[i] = c[(prefix - n + i) % Window]
  <2>1. slot + i \in SlidingRows
    BY <1>1, <1>2 DEF SlidingRows
  <2>2. c[slot + i] = c[(slot + i) % Window]
    BY <2>1
  <2>3. c[slot + i] = c[(prefix - n + i) % Window]
    BY <1>4, <2>2, Zenon
  <2> QED
    BY <1>3, <2>3
<1>7. DOMAIN past = 0 .. n - 1
  BY <1>3
<1>8. Past(past, n, line, prefix, TRUE)
  BY <1>5, <1>6, <1>7, PastIs
<1> QED
  BY <1>8 DEF past, n

\* ... and on a global layer, where a token has its own row.
LEMMA PastGlobal ==
    ASSUME NEW c, NEW line, NEW prefix \in Nat, Has(c, line, prefix, FALSE),
           NEW past, past = [i \in 0 .. prefix - 1 |-> c[i]]
    PROVE  Past(past, prefix, line, prefix, FALSE)
<1>1. First(prefix, FALSE) = 0
  BY DEF First
<1>2. First(prefix, FALSE) = prefix - prefix /\ prefix \in 0 .. prefix
  <2>1. prefix - prefix = 0 /\ prefix \in 0 .. prefix
    OBVIOUS
  <2> QED
    BY <1>1, <2>1, Zenon
<1>3. ASSUME NEW i \in 0 .. prefix - 1
      PROVE  past[i] = Row(prefix - prefix + i, line[prefix - prefix + i + 1])
  <2>1. i \in First(prefix, FALSE) .. prefix - 1
    BY <1>1, Zenon
  <2>2. c[i] = Row(i, line[i + 1])
    BY <2>1 DEF Has, Slot
  <2>3. past[i] = Row(i, line[i + 1])
    BY <2>2
  <2>4. prefix - prefix + i = i
    OBVIOUS
  <2> QED
    BY <2>3, <2>4, Zenon
<1>4. DOMAIN past = 0 .. prefix - 1
  OBVIOUS
<1> QED
  BY <1>2, <1>3, <1>4, Zenon DEF Past

LEMMA PackPastGlobal ==
    ASSUME NEW c, NEW line, NEW prefix \in Nat, Has(c, line, prefix, FALSE)
    PROVE  Past(PackPast(c, prefix, TRUE), prefix, line, prefix, FALSE)
<1>1. PackPast(c, prefix, TRUE) = [i \in 0 .. prefix - 1 |-> c[i]]
  BY DEF PackPast
<1> QED
  BY <1>1, PastGlobal

LEMMA SegmentPastGlobal ==
    ASSUME NEW c, NEW line, NEW prefix \in Nat, Has(c, line, prefix, FALSE)
    PROVE  Past(SegmentPast(c, prefix, TRUE), prefix, line, prefix, FALSE)
<1>1. SegmentPast(c, prefix, TRUE) = [i \in 0 .. prefix - 1 |-> c[0 + i]]
  BY DEF SegmentPast
<1>2. \A i \in 0 .. prefix - 1 : 0 + i = i
  OBVIOUS
<1>3. SegmentPast(c, prefix, TRUE) = [i \in 0 .. prefix - 1 |-> c[i]]
  BY <1>1, <1>2
<1> QED
  BY <1>3, PastGlobal

\* The segmented reader: a column for each key of the past, then, past a gap, one
\* for each row of the call.
LEMMA SegmentedRight ==
    ASSUME NEW past, NEW n, NEW line, NEW prefix \in Nat, NEW isRing \in BOOLEAN,
           Past(past, n, line, prefix, isRing),
           NEW rows, NEW m \in Nat, Len(rows) = m, HoldRows(rows, line, prefix),
           NEW tokens \in Nat, m <= tokens, NEW index \in 0 .. m - 1
    PROVE  Whole(SegmentedView(past, rows, tokens, index, prefix, isRing),
                 line, prefix + index + 1, {}, isRing)
<1> DEFINE w == Cardinality(DOMAIN past)
           stored == RoundUp(w)
           end == prefix + index + 1
           first == First(end, isRing)
           Position(key) == IF key < w THEN key ELSE w + key - stored
           Allowed(key) == /\ ~(key >= w /\ key < stored)
                           /\ Position(key) <= w + index
                           /\ isRing => Position(key) > w + index - Window
           Held(key) == IF key < w THEN past[key]
                        ELSE IF key - stored < Len(rows) THEN rows[key - stored + 1] ELSE Junk
           keys == {key \in 0 .. stored + RoundUp(tokens) - 1 : Allowed(key)}
           At(p) == CHOOSE key \in keys : Position(key) = p
           Key(q) == IF q < w THEN q ELSE q - w + stored
           f == [p \in {prefix - w + Position(key) : key \in keys} |-> Held(At(p - (prefix - w)))]
<1>1. SegmentedView(past, rows, tokens, index, prefix, isRing) = Same(f)
  BY DEF SegmentedView
<1>2. /\ w \in 0 .. prefix /\ DOMAIN past = 0 .. w - 1 /\ First(prefix, isRing) = prefix - w
      /\ \A i \in 0 .. w - 1 : past[i] = Row(prefix - w + i, line[prefix - w + i + 1])
  <2>1. n \in 0 .. prefix /\ DOMAIN past = 0 .. n - 1
    BY DEF Past
  <2>2. w = n
    BY <2>1, CountIs
  <2> HIDE DEF w
  <2> QED
    BY <2>2 DEF Past
<1> HIDE DEF w
<1>3. /\ stored \in Nat /\ stored >= w
      /\ RoundUp(tokens) \in Nat /\ RoundUp(tokens) >= tokens
  <2>1. w \in Nat
    BY <1>2
  <2>2. RoundUp(w) \in Nat /\ RoundUp(w) >= w
    BY <2>1, RoundUpIs
  <2>3. RoundUp(tokens) \in Nat /\ RoundUp(tokens) >= tokens
    BY RoundUpIs
  <2> QED
    BY <2>2, <2>3
<1>4. prefix - w <= first /\ first \in Nat
  <2>1. index + 1 \in Nat /\ end = prefix + (index + 1) /\ end \in Nat
    OBVIOUS
  <2>2. First(prefix, isRing) <= First(prefix + (index + 1), isRing)
    BY <2>1, FirstGrows
  <2>3. First(end, isRing) \in 0 .. end
    BY <2>1, FirstIs
  <2>4. First(prefix, isRing) <= first
    BY <2>1, <2>2, Zenon
  <2> HIDE DEF first, end
  <2>5. prefix - w <= first
    BY <1>2, <2>4
  <2>6. first \in 0 .. end
    BY <2>3 DEF first
  <2> QED
    BY <2>1, <2>5, <2>6
<1>5. ASSUME NEW q \in Nat
      PROVE  prefix - w + q \in first .. end - 1 <=>
                 /\ q <= w + index /\ (isRing => q > w + index - Window)
                 /\ prefix - w + q >= first
  <2>1. Window \in Nat \ {0}
    BY RingAssumption
  <2>2. isRing => first = IF end > Window THEN end - Window ELSE 0
    BY DEF First
  <2> HIDE DEF first
  <2> QED
    BY <1>2, <1>4, <2>1, <2>2
<1>6. ASSUME NEW q \in Nat, (isRing => q > w + index - Window)
      PROVE  prefix - w + q >= first
  <2>1. Window \in Nat \ {0}
    BY RingAssumption
  <2>2. first = IF isRing /\ end > Window THEN end - Window ELSE 0
    BY DEF First
  <2> HIDE DEF first
  <2> QED
    BY <1>2, <1>4, <1>6, <2>1, <2>2
<1> HIDE DEF stored, first
<1>7. ASSUME NEW p \in first .. end - 1
      PROVE  /\ p - (prefix - w) \in Nat /\ Key(p - (prefix - w)) \in keys
             /\ Position(Key(p - (prefix - w))) = p - (prefix - w)
             /\ prefix - w + (p - (prefix - w)) = p
  <2> DEFINE q == p - (prefix - w)
  <2>1. q \in Nat /\ prefix - w + q = p
    BY <1>2, <1>4
  <2> HIDE DEF q
  <2>2. q <= w + index /\ (isRing => q > w + index - Window)
    BY <1>5, <2>1
  <2>3. Position(Key(q)) = q /\ ~(Key(q) >= w /\ Key(q) < stored)
        /\ Key(q) \in 0 .. stored + RoundUp(tokens) - 1
    <3>1. RoundUp(tokens) \in Nat /\ index < RoundUp(tokens)
      BY <1>3
    <3>2. CASE q < w
      <4>1. Key(q) = q /\ Position(q) = q
        BY <3>2
      <4> QED
        BY <1>2, <1>3, <2>1, <3>1, <3>2, <4>1
    <3>3. CASE ~ q < w
      <4>1. Key(q) = q - w + stored
        BY <3>3
      <4>2. /\ q - w + stored >= stored /\ q - w + stored >= w
            /\ q - w + stored < stored + RoundUp(tokens) /\ q - w + stored \in Nat
            /\ ~ q - w + stored < w /\ w + (q - w + stored) - stored = q
        BY <1>2, <1>3, <2>1, <2>2, <3>1, <3>3
      <4>3. Position(q - w + stored) = q
        BY <4>2
      <4> HIDE DEF Key, Position
      <4> QED
        BY <1>3, <3>1, <4>1, <4>2, <4>3
    <3> QED
      BY <3>2, <3>3
  <2> HIDE DEF Key, Position
  <2>4. Key(q) \in keys
    BY <2>2, <2>3
  <2> QED
    BY <2>1, <2>3, <2>4 DEF q
<1>8. ASSUME NEW key \in keys
      PROVE  /\ prefix - w + Position(key) \in first .. end - 1 /\ Position(key) \in Nat
             /\ key = Key(Position(key))
  <2>1. key \in Nat /\ (key < w \/ key >= stored)
    BY <1>2, <1>3
  <2>2. Position(key) \in Nat
    BY <1>2, <1>3, <2>1
  <2>3. key = Key(Position(key))
    BY <1>2, <1>3, <2>1
  <2> HIDE DEF Key, Position
  <2>4. Position(key) <= w + index /\ (isRing => Position(key) > w + index - Window)
    OBVIOUS
  <2> HIDE DEF keys
  <2> DEFINE q == Position(key)
  <2>5. q \in Nat /\ q <= w + index /\ (isRing => q > w + index - Window)
    BY <2>2, <2>4
  <2> HIDE DEF q
  <2>6. prefix - w + q \in first .. end - 1
    BY <1>5, <1>6, <2>5
  <2> QED
    BY <2>2, <2>3, <2>6 DEF q
<1> HIDE DEF keys, Position, Allowed
<1>9. {prefix - w + Position(key) : key \in keys} = first .. end - 1
  <2>1. ASSUME NEW p \in first .. end - 1
        PROVE  p \in {prefix - w + Position(key) : key \in keys}
    <3>1. Key(p - (prefix - w)) \in keys /\ p = prefix - w + Position(Key(p - (prefix - w)))
      BY <1>7
    <3> HIDE DEF Key
    <3> QED
      BY <3>1
  <2> HIDE DEF Key
  <2> QED
    BY <1>8, <2>1
<1>10. ASSUME NEW p \in first .. end - 1
       PROVE  Held(At(p - (prefix - w))) = Row(p, line[p + 1])
  <2> DEFINE q == p - (prefix - w)
  <2>1. q \in Nat /\ Key(q) \in keys /\ Position(Key(q)) = q /\ prefix - w + q = p
    BY <1>7
  <2>2. q <= w + index
    BY <1>5, <2>1
  <2> HIDE DEF q
  <2>3. At(q) = Key(q)
    <3>1. At(q) \in keys /\ Position(At(q)) = q
      <4> HIDE DEF Key
      <4> QED
        BY <2>1
    <3>2. At(q) = Key(Position(At(q)))
      <4> DEFINE key == At(q)
      <4>1. key \in keys
        BY <3>1
      <4> HIDE DEF key
      <4>2. key = Key(Position(key))
        BY <1>8, <4>1
      <4> QED
        BY <4>2, Zenon DEF key
    <3> HIDE DEF At, Key
    <3> QED
      BY <3>1, <3>2, Zenon
  <2>4. Held(Key(q)) = Row(p, line[p + 1])
    <3>1. CASE q < w
      <4>1. Key(q) = q /\ q \in 0 .. w - 1
        BY <1>2, <2>1, <3>1
      <4>2. past[q] = Row(prefix - w + q, line[prefix - w + q + 1])
        BY <1>2, <4>1
      <4>3. Held(Key(q)) = past[q]
        <5> HIDE DEF Key
        <5> QED
          BY <3>1, <4>1
      <4> QED
        BY <2>1, <4>2, <4>3, Zenon
    <3>2. CASE ~ q < w
      <4> DEFINE key == Key(q)
      <4>1. key = q - w + stored
        BY <3>2
      <4> HIDE DEF key
      <4>2. /\ ~ key < w /\ key - stored < Len(rows) /\ key - stored + 1 \in 1 .. Len(rows)
            /\ prefix + (key - stored + 1) - 1 = p /\ prefix + (key - stored + 1) = p + 1
        BY <1>2, <1>3, <2>1, <2>2, <3>2, <4>1
      <4>3. rows[key - stored + 1] = Row(p, line[p + 1])
        BY <4>2, Zenon DEF HoldRows
      <4>4. Held(key) = rows[key - stored + 1]
        BY <4>2
      <4> QED
        BY <4>3, <4>4, Zenon DEF key
    <3> QED
      BY <3>1, <3>2
  <2> HIDE DEF At, Key, Held
  <2>5. Held(At(q)) = Row(p, line[p + 1])
    BY <2>3, <2>4, Zenon
  <2> QED
    BY <2>5 DEF q
<1> HIDE DEF At, Held
<1>11. f = Due(line, (first .. end - 1) \cup {})
  BY <1>9, <1>10 DEF Due
<1> QED
  BY <1>1, <1>11, Zenon DEF Whole, first

-----------------------------------------------------------------------------
(* Texts *)

LEMMA PartIs ==
    ASSUME NEW s, IsSeq(s), NEW n \in 0 .. Len(s)
    PROVE  /\ SubSeq(s, 1, n) = [i \in 1 .. n |-> s[i]]
           /\ IsSeq(SubSeq(s, 1, n)) /\ Len(SubSeq(s, 1, n)) = n
<1> DEFINE part == SubSeq(s, 1, n)
<1>1. Len(s) \in Nat /\ n \in Nat
  BY SeqIs
<1>2. part \in Seq({s[i] : i \in DOMAIN s}) /\ Len(part) = n /\ \A i \in 1 .. n : part[i] = s[i]
  BY <1>1 DEF IsSeq
<1> HIDE DEF part
<1>3. part = [i \in 1 .. n |-> part[i]]
  BY <1>2
<1>4. part = [i \in 1 .. n |-> s[i]]
  BY <1>2, <1>3
<1>5. IsSeq(part)
  BY <1>2, AnySeqIs
<1> QED
  BY <1>2, <1>4, <1>5 DEF part

\* t begins with s.
Begins(s, t) ==
    /\ IsSeq(s) /\ IsSeq(t) /\ Len(s) <= Len(t)
    /\ \A i \in 1 .. Len(s) : t[i] = s[i]

LEMMA PartsAgree ==
    ASSUME NEW s, NEW t, Begins(s, t), NEW n \in 0 .. Len(s)
    PROVE  SubSeq(t, 1, n) = SubSeq(s, 1, n)
<1>1. Len(s) \in Nat /\ Len(t) \in Nat /\ Len(s) <= Len(t) /\ IsSeq(s) /\ IsSeq(t)
  BY SeqIs DEF Begins
<1>2. n \in 0 .. Len(t) /\ n \in 0 .. Len(s)
  BY <1>1
<1>3. SubSeq(t, 1, n) = [i \in 1 .. n |-> t[i]] /\ SubSeq(s, 1, n) = [i \in 1 .. n |-> s[i]]
  BY <1>1, <1>2, PartIs
<1>4. \A i \in 1 .. n : t[i] = s[i]
  BY <1>1 DEF Begins
<1> QED
  BY <1>3, <1>4

LEMMA AllOfIt ==
    ASSUME NEW s, IsSeq(s)
    PROVE  SubSeq(s, 1, Len(s)) = s
<1>1. Len(s) \in Nat /\ s = [i \in 1 .. Len(s) |-> s[i]]
  BY DEF IsSeq
<1>2. Len(s) \in 0 .. Len(s)
  BY <1>1
<1> QED
  BY <1>1, <1>2, PartIs

LEMMA BeginsIs ==
    ASSUME NEW s, NEW t, Begins(s, t)
    PROVE  Len(s) \in 0 .. Len(t) /\ SubSeq(t, 1, Len(s)) = s
<1>1. IsSeq(s) /\ Len(s) \in Nat /\ Len(t) \in Nat /\ Len(s) <= Len(t)
  BY SeqIs DEF Begins
<1>2. Len(s) \in 0 .. Len(s)
  BY <1>1
<1>3. SubSeq(t, 1, Len(s)) = SubSeq(s, 1, Len(s))
  BY <1>2, PartsAgree
<1> QED
  BY <1>1, <1>3, AllOfIt

LEMMA SameSeq ==
    ASSUME NEW s, NEW t, IsSeq(s), IsSeq(t), Len(s) = Len(t),
           \A i \in 1 .. Len(s) : s[i] = t[i]
    PROVE  s = t
<1>1. /\ Len(s) \in Nat /\ s = [i \in 1 .. Len(s) |-> s[i]]
      /\ t = [i \in 1 .. Len(s) |-> t[i]]
  BY DEF IsSeq
<1> QED
  BY <1>1

LEMMA JoinBegins ==
    ASSUME NEW s, NEW t, IsSeq(s), IsSeq(t)
    PROVE  Begins(s, s \o t) /\ Len(s \o t) = Len(s) + Len(t)
<1>1. Joins(s \o t, s, t)
  BY JoinedIs
<1>2. Len(s) \in Nat /\ Len(t) \in Nat
  BY SeqIs
<1> QED
  BY <1>1, <1>2 DEF Joins, Begins

\* Rows of tokens that come after the text.
LEMMA RowsHold ==
    ASSUME IsSeq(text), NEW tokens, IsSeq(tokens)
    PROVE  HoldRows(RowsOf(tokens), text \o tokens, Cached) /\ Len(RowsOf(tokens)) = Len(tokens)
           /\ IsSeq(RowsOf(tokens))
<1> DEFINE rows == RowsOf(tokens)
           line == text \o tokens
<1>1. /\ IsSeq(rows) /\ Len(rows) = Len(tokens) /\ Len(tokens) \in Nat /\ Cached \in Nat
      /\ \A i \in 1 .. Len(tokens) : rows[i] = Row(Cached + i - 1, tokens[i])
  BY RowsOfIs, SeqIs DEF Cached
<1>2. Joins(line, text, tokens)
  BY JoinedIs
<1> HIDE DEF rows, line
<1>3. HoldRows(rows, line, Cached)
  BY <1>1, <1>2 DEF Joins, HoldRows, Cached
<1> QED
  BY <1>1, <1>3 DEF rows, line

\* What a cache has of a text it has of every longer text.
LEMMA HasMore ==
    ASSUME NEW c, NEW old, NEW line, Begins(old, line), NEW end \in 0 .. Len(old),
           NEW isRing \in BOOLEAN, Has(c, old, end, isRing)
    PROVE  Has(c, line, end, isRing)
<1>1. Len(old) \in Nat /\ end \in Nat
  BY SeqIs DEF Begins
<1>2. First(end, isRing) \in 0 .. end
  BY <1>1, FirstIs
<1>3. ASSUME NEW p \in First(end, isRing) .. end - 1 PROVE line[p + 1] = old[p + 1]
  <2>1. p + 1 \in 1 .. Len(old)
    BY <1>1, <1>2
  <2> QED
    BY <2>1 DEF Begins
<1> QED
  BY <1>3 DEF Has

-----------------------------------------------------------------------------
(* Queries *)

\* What a query has seen, of the text t it was asked in or of a longer one.
Sight(query, t) ==
    /\ query.base \in 0 .. Len(t)
    /\ LET line == SubSeq(t, 1, query.base) \o query.tokens
           block == {query.base + b : b \in query.block}
       IN  /\ Whole(query.sliding, line, query.end, block, TRUE)
           /\ Whole(query.global, line, query.end, block, FALSE)

Sights(queries, t) == \A i \in 1 .. Len(queries) : Sight(queries[i], t)

LEMMA SightsAre == Sights(seen, text) => QueriesSeeTheirWindow
<1> SUFFICES ASSUME Sights(seen, text), NEW i \in 1 .. Len(seen)
             PROVE  LET query == seen[i]
                        line == SubSeq(text, 1, query.base) \o query.tokens
                        block == {query.base + b : b \in query.block}
                    IN  /\ query.sliding = Same(Due(line, WindowOf(query.end) \union block))
                        /\ query.global = Same(Due(line, (0 .. query.end - 1) \union block))
  BY Zenon DEF QueriesSeeTheirWindow
<1> DEFINE query == seen[i]
           line == SubSeq(text, 1, query.base) \o query.tokens
           block == {query.base + b : b \in query.block}
<1>1. Whole(query.sliding, line, query.end, block, TRUE) /\ Whole(query.global, line, query.end, block, FALSE)
  BY Zenon DEF Sights, Sight
<1>2. First(query.end, FALSE) = 0
  BY DEF First
<1> HIDE DEF line, block
<1>3. query.sliding = Same(Due(line, WindowOf(query.end) \union block))
  BY <1>1, Zenon DEF Whole, WindowOf
<1>4. query.global = Same(Due(line, (0 .. query.end - 1) \union block))
  BY <1>1, <1>2, Zenon DEF Whole
<1> QED
  BY <1>3, <1>4, Zenon DEF line, block

LEMMA SightsKept ==
    ASSUME NEW queries, NEW s, NEW t, Begins(s, t), Sights(queries, s)
    PROVE  Sights(queries, t)
<1> SUFFICES ASSUME NEW i \in 1 .. Len(queries) PROVE Sight(queries[i], t)
  BY DEF Sights
<1> DEFINE query == queries[i]
<1>1. Sight(query, s)
  BY DEF Sights
<1> HIDE DEF query
<1>2. query.base \in 0 .. Len(s) /\ Len(s) \in Nat /\ Len(t) \in Nat /\ Len(s) <= Len(t)
  BY <1>1, SeqIs DEF Sight, Begins
<1>3. SubSeq(t, 1, query.base) = SubSeq(s, 1, query.base)
  BY <1>2, PartsAgree
<1>4. query.base \in 0 .. Len(t)
  BY <1>2
<1>5. Sight(query, t)
  BY <1>1, <1>3, <1>4, Zenon DEF Sight
<1> QED
  BY <1>5 DEF query

LEMMA SightIs ==
    ASSUME IsSeq(text), NEW tokens, NEW block, NEW end, NEW ring, NEW all,
           NEW t, Begins(text, t), NEW image, image = {Cached + b : b \in block},
           Whole(ring, text \o tokens, end, image, TRUE),
           Whole(all, text \o tokens, end, image, FALSE)
    PROVE  Sight(Query(tokens, block, end, ring, all), t)
<1> DEFINE query == Query(tokens, block, end, ring, all)
<1>1. /\ query.base = Cached /\ query.tokens = tokens /\ query.block = block
      /\ query.end = end /\ query.sliding = ring /\ query.global = all
  BY DEF Query
<1> HIDE DEF query
<1>2. Cached \in 0 .. Len(t) /\ SubSeq(t, 1, Cached) = text
  BY BeginsIs DEF Cached
<1>3. {query.base + b : b \in query.block} = image
  BY <1>1
<1>4. Sight(query, t)
  BY <1>1, <1>2, <1>3, Zenon DEF Sight
<1> QED
  BY <1>4 DEF query

\* Without an image.
LEMMA PlainSight ==
    ASSUME IsSeq(text), NEW tokens, NEW end, NEW ring, NEW all, NEW t, Begins(text, t),
           Right(ring, text \o tokens, end, TRUE), Right(all, text \o tokens, end, FALSE)
    PROVE  Sight(Query(tokens, {}, end, ring, all), t)
<1>1. \A S : S \cup {} = S
  OBVIOUS
<1>2. Whole(ring, text \o tokens, end, {}, TRUE) /\ Whole(all, text \o tokens, end, {}, FALSE)
  BY <1>1, Zenon DEF Right, Whole
<1>3. {} = {Cached + b : b \in {}}
  OBVIOUS
<1> QED
  BY <1>2, <1>3, SightIs

\* What the model chooses from what a query saw.
LEMMA ChooseIs ==
    ASSUME NEW query, NEW line, NEW t, IsSeq(t), Begins(t, line), NEW end, end = Len(t),
           Right(query.sliding, line, end, TRUE), Right(query.global, line, end, FALSE)
    PROVE  Choose(query) = Foresee(t)
<1>1. end \in Nat
  BY SeqIs
<1>2. ASSUME NEW isRing \in BOOLEAN
      PROVE  Due(line, First(end, isRing) .. end - 1) = Due(t, First(end, isRing) .. end - 1)
  <2>1. First(end, isRing) \in 0 .. end
    BY <1>1, FirstIs
  <2>2. ASSUME NEW p \in First(end, isRing) .. end - 1 PROVE line[p + 1] = t[p + 1]
    <3>1. p + 1 \in 1 .. Len(t)
      BY <1>1, <2>1
    <3> QED
      BY <3>1 DEF Begins
  <2> QED
    BY <2>2 DEF Due
<1>3. TRUE \in BOOLEAN /\ FALSE \in BOOLEAN /\ First(end, FALSE) = 0
  BY DEF First
<1>4. query.sliding = Same(Due(t, WindowOf(end)))
  BY <1>2, <1>3, Zenon DEF Right, WindowOf
<1>5. query.global = Same(Due(t, 0 .. end - 1))
  BY <1>2, <1>3, Zenon DEF Right
<1>6. [sliding |-> query.sliding, global |-> query.global]
        = [sliding |-> Same(Due(t, WindowOf(Len(t)))), global |-> Same(Due(t, 0 .. Len(t) - 1))]
  BY <1>4, <1>5, Zenon
<1> QED
  BY <1>6, Zenon DEF Choose, Foresee

-----------------------------------------------------------------------------
(* What the writers leave in the global rows, and behind a ring's history *)

\* c has the tokens of line before end.
Keeps(c, line, end) ==
    /\ DOMAIN c = 0 .. MaxContext - 1 /\ end \in 0 .. MaxContext
    /\ Has(c, line, end, FALSE)

LEMMA KeepsIs ==
    ASSUME NEW c, NEW line, NEW end
    PROVE  Has(c, line, end, FALSE) <=> \A p \in 0 .. end - 1 : c[p] = Row(p, line[p + 1])
<1>1. First(end, FALSE) = 0 /\ \A p : Slot(p, FALSE) = p
  BY DEF First, Slot
<1> QED
  BY <1>1, Zenon DEF Has

LEMMA KeepsParts ==
    ASSUME NEW c, NEW line, NEW end, Keeps(c, line, end)
    PROVE  /\ DOMAIN c = 0 .. MaxContext - 1 /\ end \in Nat /\ MaxContext \in Nat
           /\ end <= MaxContext /\ \A p \in 0 .. end - 1 : c[p] = Row(p, line[p + 1])
<1>1. MaxContext \in Nat
  BY RingAssumption
<1>2. DOMAIN c = 0 .. MaxContext - 1 /\ end \in 0 .. MaxContext /\ Has(c, line, end, FALSE)
  BY Zenon DEF Keeps
<1>3. \A p \in 0 .. end - 1 : c[p] = Row(p, line[p + 1])
  <2>1. Has(c, line, end, FALSE)
    BY <1>2
  <2>2. First(end, FALSE) = 0 /\ \A p : Slot(p, FALSE) = p
    BY DEF First, Slot
  <2> QED
    BY <2>1, <2>2, Zenon DEF Has
<1>4. end \in Nat /\ end <= MaxContext
  BY <1>1, <1>2
<1> QED
  BY <1>1, <1>2, <1>3, <1>4

LEMMA AppendKeepsTokens ==
    ASSUME NEW c, NEW old, NEW line, Begins(old, line), NEW cached, cached = Len(old),
           Keeps(c, old, cached),
           NEW rows, NEW n \in Nat, Len(rows) = n, HoldRows(rows, line, cached),
           cached + n <= MaxContext
    PROVE  Keeps(AppendGlobal(c, cached, rows), line, cached + n)
<1> DEFINE d == AppendGlobal(c, cached, rows)
<1>1. /\ DOMAIN c = 0 .. MaxContext - 1 /\ cached \in Nat /\ MaxContext \in Nat
      /\ \A p \in 0 .. cached - 1 : c[p] = Row(p, old[p + 1])
  BY KeepsParts
<1>2. d = [r \in 0 .. MaxContext - 1 |->
              IF r \in cached .. cached + Len(rows) - 1 THEN rows[r - cached + 1] ELSE c[r]]
  BY <1>1 DEF AppendGlobal
<1> HIDE DEF d
<1>3. ASSUME NEW p \in 0 .. (cached + n) - 1 PROVE d[p] = Row(p, line[p + 1])
  <2>1. p \in 0 .. MaxContext - 1
    BY <1>1
  <2>2. CASE p >= cached
    <3>1. /\ p - cached + 1 \in 1 .. Len(rows) /\ p \in cached .. cached + Len(rows) - 1
          /\ cached + (p - cached + 1) - 1 = p /\ cached + (p - cached + 1) = p + 1
      BY <1>1, <2>2
    <3>2. rows[p - cached + 1] = Row(p, line[p + 1])
      BY <3>1, Zenon DEF HoldRows
    <3> QED
      BY <1>2, <2>1, <3>1, <3>2
  <2>3. CASE ~ p >= cached
    <3>1. p \in 0 .. cached - 1 /\ p \notin cached .. cached + Len(rows) - 1 /\ p + 1 \in 1 .. Len(old)
      BY <1>1, <2>3
    <3>2. line[p + 1] = old[p + 1]
      BY <3>1 DEF Begins
    <3> QED
      BY <1>1, <1>2, <2>1, <3>1, <3>2
  <2> QED
    BY <2>2, <2>3
<1>4. cached + n \in 0 .. MaxContext /\ DOMAIN d = 0 .. MaxContext - 1
  BY <1>1, <1>2
<1>5. Keeps(d, line, cached + n)
  BY <1>3, <1>4, KeepsIs, Zenon DEF Keeps
<1> QED
  BY <1>5 DEF d

LEMMA CommitKeepsTokens ==
    ASSUME NEW c, NEW old, NEW line, Begins(old, line), NEW cached, cached = Len(old),
           Keeps(c, old, cached),
           NEW staged, NEW n \in Nat, HoldStaged(staged, line, cached, n),
           cached + n <= MaxContext
    PROVE  Keeps(CommitGlobal(c, staged, cached, n), line, cached + n)
<1> DEFINE d == CommitGlobal(c, staged, cached, n)
<1>1. /\ DOMAIN c = 0 .. MaxContext - 1 /\ cached \in Nat /\ MaxContext \in Nat
      /\ \A p \in 0 .. cached - 1 : c[p] = Row(p, old[p + 1])
  BY KeepsParts
<1>2. d = [r \in 0 .. MaxContext - 1 |->
              IF r \in cached .. cached + n - 1 THEN staged[r - cached] ELSE c[r]]
  BY <1>1 DEF CommitGlobal
<1> HIDE DEF d
<1>3. ASSUME NEW p \in 0 .. (cached + n) - 1 PROVE d[p] = Row(p, line[p + 1])
  <2>1. p \in 0 .. MaxContext - 1
    BY <1>1
  <2>2. CASE p >= cached
    <3>1. /\ p - cached \in 0 .. n - 1 /\ p \in cached .. cached + n - 1
          /\ cached + (p - cached) = p
      BY <1>1, <2>2
    <3>2. staged[p - cached] = Row(p, line[p + 1])
      BY <3>1, Zenon DEF HoldStaged
    <3> QED
      BY <1>2, <2>1, <3>1, <3>2
  <2>3. CASE ~ p >= cached
    <3>1. p \in 0 .. cached - 1 /\ p \notin cached .. cached + n - 1 /\ p + 1 \in 1 .. Len(old)
      BY <1>1, <2>3
    <3>2. line[p + 1] = old[p + 1]
      BY <3>1 DEF Begins
    <3> QED
      BY <1>1, <1>2, <2>1, <3>1, <3>2
  <2> QED
    BY <2>2, <2>3
<1>4. cached + n \in 0 .. MaxContext /\ DOMAIN d = 0 .. MaxContext - 1
  BY <1>1, <1>2
<1>5. Keeps(d, line, cached + n)
  BY <1>3, <1>4, KeepsIs, Zenon DEF Keeps
<1> QED
  BY <1>5 DEF d

\* Candidates that are staged into the cache itself: each finds its own row.
Tails(cached, from, isRing) ==
    \A i \in Nat : (IF isRing THEN TailRow(cached, i) ELSE cached + i) = from + i
Stages(d, c, line, cached, n, from, isRing) ==
    /\ Live(d, line, cached, n, isRing) /\ DOMAIN d = DOMAIN c
    /\ \A r \in DOMAIN c : r \notin from .. from + n - 1 => d[r] = c[r]

LEMMA StagedLive ==
    ASSUME NEW c, NEW rows, NEW line, NEW cached \in Nat, NEW n \in Nat, Len(rows) = n,
           HoldRows(rows, line, cached), NEW isRing \in BOOLEAN,
           NEW from \in Nat,
           Tails(cached, from, isRing), \A i \in 0 .. n - 1 : from + i \in DOMAIN c
    PROVE  Stages(StageLive(c, rows, cached, isRing), c, line, cached, n, from, isRing)
<1> DEFINE At(i) == IF isRing THEN TailRow(cached, i) ELSE cached + i
           Source(r) == {i \in 1 .. Len(rows) : r = At(i - 1)}
           d == StageLive(c, rows, cached, isRing)
<1>1. d = [r \in DOMAIN c |-> IF Source(r) = {} THEN c[r] ELSE rows[CHOOSE i \in Source(r) : TRUE]]
  BY DEF StageLive
<1>2. \A i \in 1 .. n : i - 1 \in Nat /\ At(i - 1) = from + (i - 1)
  <2>1. \A i \in Nat : At(i) = from + i
    BY Zenon DEF Tails
  <2>2. \A i \in 1 .. n : i - 1 \in Nat
    OBVIOUS
  <2> HIDE DEF At
  <2> QED
    BY <2>1, <2>2
<1> HIDE DEF d, At
<1>3. ASSUME NEW i \in 0 .. n - 1
      PROVE  d[At(i)] = Row(cached + i, line[cached + i + 1])
  <2>1. i + 1 \in 1 .. Len(rows) /\ (i + 1) - 1 = i /\ i \in Nat
    OBVIOUS
  <2>2. At(i) = from + i
    <3>1. At((i + 1) - 1) = from + ((i + 1) - 1)
      BY <1>2, <2>1
    <3> QED
      BY <2>1, <3>1, Zenon
  <2>3. i + 1 \in Source(At(i))
    BY <2>1
  <2>4. ASSUME NEW j \in Source(At(i)) PROVE j = i + 1
    <3>1. j \in 1 .. n /\ At(i) = At(j - 1)
      OBVIOUS
    <3>2. from + i = from + (j - 1)
      BY <1>2, <2>2, <3>1
    <3> QED
      BY <3>1, <3>2
  <2>5. (CHOOSE j \in Source(At(i)) : TRUE) = i + 1
    <3>1. (CHOOSE j \in Source(At(i)) : TRUE) \in Source(At(i))
      BY <2>3
    <3> QED
      BY <2>4, <3>1
  <2>6. At(i) \in DOMAIN c
    BY <2>2
  <2>7. d[At(i)] = rows[i + 1]
    BY <1>1, <2>3, <2>5, <2>6
  <2>8. rows[i + 1] = Row(cached + (i + 1) - 1, line[cached + (i + 1)])
    BY <2>1 DEF HoldRows
  <2>9. cached + (i + 1) - 1 = cached + i /\ cached + (i + 1) = cached + i + 1
    OBVIOUS
  <2> QED
    BY <2>7, <2>8, <2>9, Zenon
<1>4. ASSUME NEW r \in DOMAIN c, r \notin from .. from + n - 1 PROVE d[r] = c[r]
  <2>1. ASSUME NEW i \in Source(r) PROVE FALSE
    <3>1. i \in 1 .. n /\ r = At(i - 1)
      OBVIOUS
    <3>2. r = from + (i - 1)
      BY <1>2, <3>1
    <3> QED
      BY <1>4, <3>1, <3>2
  <2>2. Source(r) = {}
    BY <2>1
  <2> QED
    BY <1>1, <2>2
<1>5. DOMAIN d = DOMAIN c
  BY <1>1
<1>6. Live(d, line, cached, n, isRing)
  BY <1>3, Zenon DEF Live, At
<1> HIDE DEF Live
<1> QED
  BY <1>4, <1>5, <1>6 DEF d, Stages

LEMMA LiveInRing ==
    ASSUME NEW c, DOMAIN c = SlidingRows, NEW rows, NEW line, NEW cached \in Nat,
           NEW n \in 1 .. MaxTokens, Len(rows) = n, HoldRows(rows, line, cached)
    PROVE  Live(StageLive(c, rows, cached, TRUE), line, cached, n, TRUE)
<1> DEFINE from == Window + TailStart(cached) + (cached - PoolFirst(cached, 1, TRUE))
<1>1. Window \in Nat \ {0} /\ MaxTokens \in 1 .. Window /\ n \in Nat
  BY RingAssumption
<1>2. /\ TailStart(cached) \in 0 .. Window - 1
      /\ cached - PoolFirst(cached, 1, TRUE) \in 0 .. Window - 1
      /\ \A i \in Nat : TailRow(cached, i) = from + i
  <2>1. /\ \A i \in Nat : TailRow(cached, i) = from + i
        /\ TailStart(cached) = PoolFirst(cached, 1, TRUE) % Window
        /\ PoolFirst(cached, 1, TRUE) \in Nat
        /\ cached - PoolFirst(cached, 1, TRUE) \in 0 .. Window - 1
    BY TailIs
  <2>2. PoolFirst(cached, 1, TRUE) % Window \in 0 .. Window - 1
    BY <1>1, <2>1, Remainder
  <2> QED
    BY <2>1, <2>2, Zenon
<1>3. from \in Nat /\ from <= 3 * Window - 2
  <2> DEFINE a == TailStart(cached)
             b == cached - PoolFirst(cached, 1, TRUE)
  <2>1. a \in 0 .. Window - 1 /\ b \in 0 .. Window - 1 /\ from = Window + a + b
    BY <1>2
  <2> HIDE DEF a, b, from
  <2> QED
    BY <1>1, <2>1
<1> HIDE DEF from
<1>4. \A i \in 0 .. n - 1 : from + i \in SlidingRows
  BY <1>1, <1>3 DEF SlidingRows
<1>5. TRUE \in BOOLEAN /\ Tails(cached, from, TRUE)
  BY <1>2 DEF Tails
<1>6. Stages(StageLive(c, rows, cached, TRUE), c, line, cached, n, from, TRUE)
  BY <1>1, <1>3, <1>4, <1>5, StagedLive
<1> QED
  BY <1>6, Zenon DEF Stages

LEMMA LiveInPlace ==
    ASSUME NEW c, NEW old, NEW rows, NEW line, NEW cached, Keeps(c, old, cached),
           NEW n \in Nat, Len(rows) = n, HoldRows(rows, line, cached), cached + n <= MaxContext
    PROVE  /\ Live(StageLive(c, rows, cached, FALSE), line, cached, n, FALSE)
           /\ Keeps(StageLive(c, rows, cached, FALSE), old, cached)
<1> DEFINE d == StageLive(c, rows, cached, FALSE)
<1>1. /\ DOMAIN c = 0 .. MaxContext - 1 /\ MaxContext \in Nat
      /\ cached \in Nat /\ cached <= MaxContext
      /\ \A p \in 0 .. cached - 1 : c[p] = Row(p, old[p + 1])
  BY KeepsParts
<1>2. FALSE \in BOOLEAN /\ Tails(cached, cached, FALSE)
  BY DEF Tails
<1>3. \A i \in 0 .. n - 1 : cached + i \in DOMAIN c
  BY <1>1
<1>4. /\ Live(d, line, cached, n, FALSE) /\ DOMAIN d = DOMAIN c
      /\ \A r \in DOMAIN c : r \notin cached .. cached + n - 1 => d[r] = c[r]
  <2>1. Stages(d, c, line, cached, n, cached, FALSE)
    BY <1>1, <1>2, <1>3, StagedLive
  <2> QED
    BY <2>1, Zenon DEF Stages
<1> HIDE DEF d
<1>5. ASSUME NEW p \in 0 .. cached - 1 PROVE d[p] = Row(p, old[p + 1])
  <2>1. p \in DOMAIN c /\ p \notin cached .. cached + n - 1
    BY <1>1
  <2> QED
    BY <1>1, <1>4, <2>1
<1>6. Keeps(d, old, cached)
  BY <1>1, <1>4, <1>5, KeepsIs, Zenon DEF Keeps
<1> QED
  BY <1>4, <1>6 DEF d

-----------------------------------------------------------------------------
(* The calls of a prompt *)

\* The image block of a call is inside it, and a query out of it sees none.
LEMMA ImageIs ==
    ASSUME NEW prefix \in Nat, NEW n \in Nat, NEW i \in 1 .. n, NEW block \in SUBSET (0 .. n - 1)
    PROVE  /\ ImageOf(prefix + i - 1, prefix, block) \in SUBSET (prefix .. prefix + n - 1)
           /\ ImageOf(prefix + i - 1, prefix, block)
                = {prefix + b : b \in IF i - 1 \in block THEN block ELSE {}}
           /\ i - 1 \notin block => ImageOf(prefix + i - 1, prefix, block) = {}
<1> DEFINE query == prefix + i - 1
<1>1. query - prefix = i - 1
  OBVIOUS
<1> HIDE DEF query
<1>2. ImageOf(query, prefix, block) = IF i - 1 \in block THEN {prefix + b : b \in block} ELSE {}
  BY <1>1, Zenon DEF ImageOf
<1>3. CASE i - 1 \in block
  <2>1. \A b \in block : prefix + b \in prefix .. prefix + n - 1
    OBVIOUS
  <2>2. ImageOf(query, prefix, block) = {prefix + b : b \in block}
    BY <1>2, <1>3
  <2> QED
    BY <1>3, <2>1, <2>2 DEF query
<1>4. CASE i - 1 \notin block
  <2>1. ImageOf(query, prefix, block) = {}
    BY <1>2, <1>4
  <2>2. {prefix + b : b \in IF i - 1 \in block THEN block ELSE {}} = {}
    BY <1>4
  <2> QED
    BY <1>4, <2>1, <2>2 DEF query
<1> QED
  BY <1>3, <1>4

LEMMA GlobalSupply ==
    ASSUME NEW d, NEW line, NEW cached \in Nat, NEW n \in Nat, Keeps(d, line, cached + n),
           NEW keys, keys = [j \in 0 .. cached + n - 1 |-> d[j]],
           NEW end \in cached + 1 .. cached + n, NEW block \in SUBSET (cached .. cached + n - 1)
    PROVE  Supplied(keys, cached + n, 0, line, end, block, FALSE)
<1>1. \A p \in 0 .. (cached + n) - 1 : d[p] = Row(p, line[p + 1])
  <2> DEFINE total == cached + n
  <2>1. Keeps(d, line, total)
    OBVIOUS
  <2> HIDE DEF total
  <2>2. \A p \in 0 .. total - 1 : d[p] = Row(p, line[p + 1])
    BY <2>1, KeepsParts
  <2> QED
    BY <2>2 DEF total
<1>2. First(end, FALSE) = 0
  BY DEF First
<1>3. ASSUME NEW p \in (0 .. end - 1) \cup block
      PROVE  p - 0 \in 0 .. (cached + n) - 1 /\ keys[p - 0] = Row(p, line[p + 1])
  <2>1. p - 0 = p /\ p \in 0 .. (cached + n) - 1 /\ p \in 0 .. cached + n - 1
    OBVIOUS
  <2> QED
    BY <1>1, <2>1
<1>4. cached + n \in Nat /\ 0 \in Nat /\ DOMAIN keys = 0 .. (cached + n) - 1 /\ 0 <= 0
  OBVIOUS
<1> QED
  BY <1>2, <1>3, <1>4, Zenon DEF Supplied

\* Either kernel, as Prefill calls it.
Saw(keys, base, query, prefix, n, block, isRing, uniform) ==
    IF uniform THEN UniformView(keys, query, prefix, n, block, isRing)
               ELSE PrefillView(keys, base, query, prefix, n, block, isRing)

LEMMA SawRight ==
    ASSUME NEW keys, NEW count, NEW base, NEW line, NEW query \in Nat, NEW prefix \in Nat,
           NEW n \in Nat, NEW block \in SUBSET (0 .. n - 1), NEW isRing \in BOOLEAN,
           isRing => base = prefix - (count - n), ~isRing => base = 0, NEW uniform \in BOOLEAN,
           Supplied(keys, count, base, line, query + 1, ImageOf(query, prefix, block), isRing)
    PROVE  Whole(Saw(keys, base, query, prefix, n, block, isRing, uniform),
                 line, query + 1, ImageOf(query, prefix, block), isRing)
<1>1. CASE uniform
  <2>1. Whole(UniformView(keys, query, prefix, n, block, isRing),
              line, query + 1, ImageOf(query, prefix, block), isRing)
    BY UniformRight
  <2> QED
    BY <1>1, <2>1, Zenon DEF Saw
<1>2. CASE ~uniform
  <2>1. Whole(PrefillView(keys, base, query, prefix, n, block, isRing),
              line, query + 1, ImageOf(query, prefix, block), isRing)
    BY PrefillRight
  <2> QED
    BY <1>2, <2>1, Zenon DEF Saw
<1> QED
  BY <1>1, <1>2

SeesChunk(keys, all, base, cached, n, i, block, uniform, line) ==
    LET query == cached + i - 1
        image == ImageOf(query, cached, block)
    IN  /\ Whole(Saw(keys, base, query, cached, n, block, TRUE, uniform),
                 line, query + 1, image, TRUE)
        /\ Whole(Saw(all, 0, query, cached, n, block, FALSE, uniform),
                 line, query + 1, image, FALSE)

\* A prompt's chunk: c is the ring before, d the global rows after.
Chunk(c, d, line, cached, n, rows, keys, all, i, block, uniform) ==
    /\ cached \in Nat /\ Has(c, line, cached, TRUE)
    /\ n \in Nat /\ Keeps(d, line, cached + n)
    /\ Len(rows) = n /\ HoldRows(rows, line, cached)
    /\ keys = KeysOf(CopyPast(c, cached), rows, Min2(cached, Window) + n)
    /\ all = [j \in 0 .. cached + n - 1 |-> d[j]]
    /\ i \in 1 .. n /\ block \in SUBSET (0 .. n - 1) /\ uniform \in BOOLEAN

LEMMA ChunkSees ==
    ASSUME NEW c, NEW d, NEW line, NEW cached, NEW n, NEW rows, NEW keys, NEW all,
           NEW i, NEW block, NEW uniform,
           Chunk(c, d, line, cached, n, rows, keys, all, i, block, uniform)
    PROVE  SeesChunk(keys, all, cached - Min2(cached, Window), cached, n, i, block, uniform, line)
<1>0. /\ cached \in Nat /\ Has(c, line, cached, TRUE)
      /\ n \in Nat /\ Keeps(d, line, cached + n)
      /\ Len(rows) = n /\ HoldRows(rows, line, cached)
      /\ keys = KeysOf(CopyPast(c, cached), rows, Min2(cached, Window) + n)
      /\ all = [j \in 0 .. cached + n - 1 |-> d[j]]
      /\ i \in 1 .. n /\ block \in SUBSET (0 .. n - 1) /\ uniform \in BOOLEAN
  BY Zenon DEF Chunk
<1> DEFINE query == cached + i - 1
           image == ImageOf(query, cached, block)
           k == Min2(cached, Window)
<1>1. query \in Nat /\ query + 1 \in cached + 1 .. cached + n
  BY <1>0
<1>2. image \in SUBSET (cached .. cached + n - 1)
  BY <1>0, ImageIs
<1>3. k \in 0 .. cached /\ k \in Nat
  <2>1. k \in 0 .. cached
    BY <1>0, PastBegins
  <2> HIDE DEF k
  <2> QED
    BY <2>1
<1>4. Past(CopyPast(c, cached), k, line, cached, TRUE)
  BY <1>0, CopyPastIs
<1> HIDE DEF query, image, k
<1>5. TRUE \in BOOLEAN /\ FALSE \in BOOLEAN /\ k + n \in Nat /\ k + n <= k + n
  BY <1>0, <1>3
<1>6. Supplied(keys, k + n, cached - k, line, query + 1, image, TRUE)
  <2>1. keys = KeysOf(CopyPast(c, cached), rows, k + n)
    BY <1>0 DEF k
  <2>2. Supplied(KeysOf(CopyPast(c, cached), rows, k + n), k + n, cached - k, line, query + 1, image, TRUE)
    BY <1>0, <1>1, <1>2, <1>4, <1>5, KeysSupply
  <2> QED
    BY <2>1, <2>2, Zenon
<1>7. Supplied(all, cached + n, 0, line, query + 1, image, FALSE)
  BY <1>0, <1>1, <1>2, GlobalSupply
<1>8. cached - k = cached - ((k + n) - n)
  BY <1>0, <1>3
<1>9. Whole(Saw(keys, cached - k, query, cached, n, block, TRUE, uniform), line, query + 1, image, TRUE)
  BY <1>0, <1>1, <1>5, <1>6, <1>8, SawRight DEF image
<1>10. Whole(Saw(all, 0, query, cached, n, block, FALSE, uniform), line, query + 1, image, FALSE)
  BY <1>0, <1>1, <1>5, <1>7, SawRight DEF image
<1> QED
  BY <1>9, <1>10, Zenon DEF SeesChunk, query, image, k

LEMMA RightIsWhole ==
    ASSUME NEW view, NEW line, NEW end, NEW isRing
    PROVE  Right(view, line, end, isRing) <=> Whole(view, line, end, {}, isRing)
<1>1. \A S : S \cup {} = S
  OBVIOUS
<1> QED
  BY <1>1, Zenon DEF Right, Whole

\* A question that shares the prefix, and what it sees by either path.
Question(line, cached, isRing, packed, segment, k, n, rows, longest, i, count) ==
    /\ cached \in Nat /\ isRing \in BOOLEAN /\ k \in Nat /\ longest \in Nat /\ count \in Nat
    /\ Past(packed, k, line, cached, isRing) /\ Past(segment, k, line, cached, isRing)
    /\ n \in Nat /\ Len(rows) = n /\ HoldRows(rows, line, cached)
    /\ n <= longest /\ i \in 1 .. n
    /\ IF isRing THEN count = k + longest ELSE k = cached /\ count >= cached + longest

AskView(cached, isRing, packed, segment, rows, longest, i, count, segmented) ==
    IF segmented THEN SegmentedView(segment, rows, longest, i - 1, cached, isRing)
    ELSE UniformView(KeysOf(packed, rows, count), cached + i - 1, cached, longest, {}, isRing)

LEMMA QuestionSees ==
    ASSUME NEW line, NEW cached, NEW isRing, NEW packed, NEW segment, NEW k, NEW n, NEW rows,
           NEW longest, NEW i, NEW count, NEW segmented,
           Question(line, cached, isRing, packed, segment, k, n, rows, longest, i, count)
    PROVE  Right(AskView(cached, isRing, packed, segment, rows, longest, i, count, segmented),
                 line, cached + i, isRing)
<1> DEFINE query == cached + i - 1
           keys == KeysOf(packed, rows, count)
<1>0. /\ cached \in Nat /\ isRing \in BOOLEAN /\ k \in Nat /\ longest \in Nat /\ count \in Nat
      /\ Past(packed, k, line, cached, isRing) /\ Past(segment, k, line, cached, isRing)
      /\ n \in Nat /\ Len(rows) = n /\ HoldRows(rows, line, cached)
      /\ n <= longest /\ i \in 1 .. n
      /\ IF isRing THEN count = k + longest ELSE k = cached /\ count >= cached + longest
  BY Zenon DEF Question
<1>1. /\ i - 1 \in 0 .. n - 1 /\ cached + (i - 1) + 1 = cached + i
      /\ query \in Nat /\ query + 1 = cached + i /\ cached + i \in cached + 1 .. cached + n
  BY <1>0
<1>2. k \in 0 .. cached
  BY <1>0 DEF Past
<1>3. Whole(SegmentedView(segment, rows, longest, i - 1, cached, isRing), line, cached + i, {}, isRing)
  <2> DEFINE index == i - 1
  <2>1. index \in 0 .. n - 1
    BY <1>1
  <2> HIDE DEF index
  <2>2. Whole(SegmentedView(segment, rows, longest, index, cached, isRing),
              line, cached + index + 1, {}, isRing)
    <3>1. /\ cached \in Nat /\ isRing \in BOOLEAN /\ longest \in Nat /\ n \in Nat /\ n <= longest
          /\ Past(segment, k, line, cached, isRing) /\ Len(rows) = n /\ HoldRows(rows, line, cached)
      BY <1>0
    <3> QED
      BY <2>1, <3>1, SegmentedRight, Zenon
  <2> QED
    BY <1>1, <2>2, Zenon DEF index
<1>4. k + n <= count
  BY <1>0, <1>2
<1> HIDE DEF query
<1>5. ImageOf(query, cached, {}) = {}
  BY DEF ImageOf
<1>6. Supplied(keys, count, cached - k, line, cached + i, {}, isRing)
  <2>1. {} \in SUBSET (cached .. cached + n - 1)
    BY <1>0
  <2>2. /\ cached \in Nat /\ isRing \in BOOLEAN /\ count \in Nat /\ n \in Nat
        /\ Past(packed, k, line, cached, isRing) /\ Len(rows) = n /\ HoldRows(rows, line, cached)
    BY <1>0
  <2> QED
    BY <1>1, <1>4, <2>1, <2>2, KeysSupply
<1>7. Supplied(keys, count, cached - k, line, query + 1, ImageOf(query, cached, {}), isRing)
  BY <1>1, <1>5, <1>6, Zenon
<1>8. (isRing => cached - k = cached - (count - longest)) /\ (~isRing => cached - k = 0)
  BY <1>0, <1>2
<1> HIDE DEF keys
<1>9. Whole(UniformView(keys, query, cached, longest, {}, isRing),
            line, query + 1, ImageOf(query, cached, {}), isRing)
  <2>1. {} \in SUBSET (0 .. longest - 1)
    BY <1>0
  <2> QED
    BY <1>0, <1>1, <1>7, <1>8, <2>1, UniformRight
<1>10. Whole(UniformView(keys, query, cached, longest, {}, isRing), line, cached + i, {}, isRing)
  BY <1>1, <1>5, <1>9, Zenon
<1> QED
  BY <1>3, <1>10, RightIsWhole DEF AskView, keys, query

-----------------------------------------------------------------------------
(* The inductive invariant of the text *)

Asks == 1 + Len(verify.drafts)

\* A verification that the code has a path for, in a context that holds it.
Verifying == verify # << >> =>
    /\ verify.ring \in VerifierPaths /\ verify.all \in VerifierPaths /\ verify.fast \in BOOLEAN
    /\ verify.span \in Nat /\ Cached + Asks <= verify.span /\ verify.span <= MaxContext

\* The candidates of a verification, in the cache of the global layers, ...
GlobalStaged ==
    /\ DOMAIN candidate["global"] = 0 .. MaxTokens - 1
    /\ verify # << >> => HoldStaged(candidate["global"], text \o Asked, Cached, Asks)

\* ... and in the live ones until they are read.
Lives == verify # << >> /\ verify.stage = "staged" =>
    /\ verify.ring = "direct" => Live(sliding, text \o Asked, Cached, Asks, TRUE)
    /\ verify.all = "direct" => Live(global, text \o Asked, Cached, Asks, FALSE)

\* The target of each candidate is what the model chooses after it.
Targeted == verify # << >> /\ verify.stage # "staged" =>
    \A i \in 1 .. Asks : verify.targets[i] = Foresee(text \o SubSeq(Asked, 1, i))

\* The first token is chosen by a query that has seen the whole prompt.
Prompted == pending = << >> /\ seen # << >> /\ seen[Len(seen)].end = Cached =>
    Choose(seen[Len(seen)]) = Foresee(text) /\ text # << >>
Started == pending # << >> => text # << >>

Holds ==
    /\ Keeps(global, text, Cached) /\ Sights(seen, text)
    /\ Verifying /\ GlobalStaged /\ Lives /\ Targeted /\ Prompted /\ Started

LEMMA RingHas ==
    ASSUME Ring
    PROVE  Has(sliding, text, Cached, TRUE)
  BY DEF Ring, Newest, Has, WindowOf, Slot

LEMMA NotVerifying ==
    ASSUME verify = << >>, Ring
    PROVE  \A r \in SlidingRows : sliding[r] = sliding[r % Window]
  BY DEF Ring, Borrowed

\* Between verifications the parts about them say little.
LEMMA AtRest ==
    ASSUME verify' = << >>, candidate' = candidate, GlobalStaged
    PROVE  Verifying' /\ GlobalStaged' /\ Lives' /\ Targeted'
  BY DEF Verifying, GlobalStaged, Lives, Targeted

LEMMA SelfBegins ==
    ASSUME NEW s, IsSeq(s)
    PROVE  Begins(s, s)
<1>1. Len(s) \in Nat
  BY SeqIs
<1> QED
  BY <1>1 DEF Begins

LEMMA PrefillHolds ==
    ASSUME Inductive, Holds, NEW n \in ChunkSizes, NEW t, NEW block \in {{}, 1 .. n - 2},
           NEW uniform \in BOOLEAN, Prefill(n, t, block, uniform)
    PROVE  Holds'
<1> DEFINE tokens == Repeat(t, n)
           rows == RowsOf(tokens)
           line == text \o tokens
           k == Min2(Cached, Window)
           d == AppendGlobal(global, Cached, rows)
           ringKeys == KeysOf(CopyPast(sliding, Cached), rows, k + n)
           allKeys == [i \in 0 .. Cached + n - 1 |-> d[i]]
           Seen1(i) == Query(tokens, IF i - 1 \in block THEN block ELSE {}, (Cached + i - 1) + 1,
                             Saw(ringKeys, Cached - k, Cached + i - 1, Cached, n, block, TRUE, uniform),
                             Saw(allKeys, 0, Cached + i - 1, Cached, n, block, FALSE, uniform))
<1>1. /\ pending = << >> /\ Cached + n <= MaxContext /\ global' = d /\ text' = line
      /\ pending' = pending /\ candidate' = candidate /\ verify' = verify
  BY DEF Prefill
<1>2. /\ IsSeq(text) /\ Cached \in Nat /\ Cached = Len(text) /\ n \in Nat \ {0}
      /\ IsSeq(tokens) /\ Len(tokens) = n /\ verify = << >>
  BY <1>1, SeqIs, RepeatIs, RingAssumption DEF Inductive, Session, Cached
<1>3. seen' = [i \in 1 .. n |-> Seen1(i)]
  <2>1. CopyPast(sliding, Cached) = [i \in 0 .. k - 1 |-> CopyPast(sliding, Cached)[i]]
    BY DEF CopyPast
  <2>2. Cardinality(DOMAIN CopyPast(sliding, Cached)) = k
    <3>1. k \in Nat
      BY <1>2, RingAssumption DEF Min2
    <3>2. DOMAIN CopyPast(sliding, Cached) = 0 .. k - 1
      BY <2>1
    <3> HIDE DEF k
    <3> QED
      BY <3>1, <3>2, CountIs
  <2>3. DOMAIN d = DOMAIN global
    BY DEF AppendGlobal
  <2> QED
    BY <2>2, Zenon DEF Prefill, Saw
<1>4. /\ HoldRows(rows, line, Cached) /\ Len(rows) = n /\ IsSeq(rows)
      /\ Begins(text, line) /\ Len(line) = Cached + n
  BY <1>2, RowsHold, JoinBegins
<1>5. IsSeq(line) /\ Cached' = Cached + n
  BY <1>1, <1>4 DEF Begins, Cached
<1> HIDE DEF tokens, rows, line, k, d, ringKeys, allKeys
<1>6. Keeps(d, line, Cached + n)
  <2>1. Keeps(global, text, Cached)
    BY DEF Holds
  <2> QED
    BY <1>1, <1>2, <1>4, <2>1, AppendKeepsTokens DEF d
<1>7. Has(sliding, line, Cached, TRUE)
  <2>1. Has(sliding, text, Cached, TRUE)
    BY RingHas DEF Inductive
  <2>2. Cached \in 0 .. Len(text) /\ TRUE \in BOOLEAN
    BY <1>2
  <2> QED
    BY <1>4, <2>1, <2>2, HasMore
<1>8. block \in SUBSET (0 .. n - 1) /\ n - 1 \notin block
  BY <1>2
<1>9. ASSUME NEW i \in 1 .. n
      PROVE  SeesChunk(ringKeys, allKeys, Cached - k, Cached, n, i, block, uniform, line)
  <2>1. ringKeys = KeysOf(CopyPast(sliding, Cached), rows, Min2(Cached, Window) + n)
    BY DEF ringKeys, k
  <2>2. allKeys = [j \in 0 .. Cached + n - 1 |-> d[j]]
    BY DEF allKeys
  <2>3. n \in Nat /\ Cached \in Nat
    BY <1>2
  <2>4. Chunk(sliding, d, line, Cached, n, rows, ringKeys, allKeys, i, block, uniform)
    BY <1>4, <1>6, <1>7, <1>8, <2>1, <2>2, <2>3, Zenon DEF Chunk
  <2> HIDE DEF Seen1
  <2>5. SeesChunk(ringKeys, allKeys, Cached - Min2(Cached, Window), Cached, n, i, block, uniform, line)
    BY <2>4, ChunkSees, Zenon
  <2> QED
    BY <2>5 DEF k
<1>10. ASSUME NEW i \in 1 .. n PROVE Sight(Seen1(i), line)
  <2> DEFINE image == ImageOf(Cached + i - 1, Cached, block)
  <2>1. image = {Cached + b : b \in IF i - 1 \in block THEN block ELSE {}}
    BY <1>2, <1>8, ImageIs
  <2> HIDE DEF image
  <2>2. /\ Whole(Saw(ringKeys, Cached - k, Cached + i - 1, Cached, n, block, TRUE, uniform),
                 line, (Cached + i - 1) + 1, image, TRUE)
        /\ Whole(Saw(allKeys, 0, Cached + i - 1, Cached, n, block, FALSE, uniform),
                 line, (Cached + i - 1) + 1, image, FALSE)
    BY <1>9, Zenon DEF SeesChunk, image
  <2> QED
    BY <1>2, <1>4, <2>1, <2>2, SightIs DEF line
<1>11. Len(seen') = n /\ \A i \in 1 .. n : seen'[i] = Seen1(i)
  <2>1. seen' = [i \in 1 .. n |-> seen'[i]]
    BY <1>3
  <2> QED
    BY <1>2, <1>3, <2>1, MadeIs
<1>12. Sights(seen', text')
  BY <1>1, <1>10, <1>11 DEF Sights
<1>13. Choose(seen'[n]) = Foresee(line)
  <2> DEFINE query == Seen1(n)
  <2>1. n \in 1 .. n /\ Cached + n - 1 \in Nat /\ (Cached + n - 1) + 1 = Cached + n
    BY <1>2
  <2>2. ImageOf(Cached + n - 1, Cached, block) = {}
    BY <1>2, <1>8, <2>1, ImageIs
  <2>3. /\ query.sliding = Saw(ringKeys, Cached - k, Cached + n - 1, Cached, n, block, TRUE, uniform)
        /\ query.global = Saw(allKeys, 0, Cached + n - 1, Cached, n, block, FALSE, uniform)
    BY DEF Query
  <2>4. /\ Whole(Saw(ringKeys, Cached - k, Cached + n - 1, Cached, n, block, TRUE, uniform),
                 line, (Cached + n - 1) + 1, ImageOf(Cached + n - 1, Cached, block), TRUE)
        /\ Whole(Saw(allKeys, 0, Cached + n - 1, Cached, n, block, FALSE, uniform),
                 line, (Cached + n - 1) + 1, ImageOf(Cached + n - 1, Cached, block), FALSE)
    BY <1>9, <2>1, Zenon DEF SeesChunk
  <2> HIDE DEF query
  <2>5. Whole(query.sliding, line, Cached + n, {}, TRUE) /\ Whole(query.global, line, Cached + n, {}, FALSE)
    BY <2>1, <2>2, <2>3, <2>4, Zenon
  <2>6. Right(query.sliding, line, Cached + n, TRUE) /\ Right(query.global, line, Cached + n, FALSE)
    BY <2>5, RightIsWhole
  <2>7. Choose(query) = Foresee(line)
    BY <1>4, <1>5, <2>6, SelfBegins, ChooseIs
  <2>8. seen'[n] = query
    BY <1>11, <2>1, Zenon DEF query
  <2> QED
    BY <2>7, <2>8, Zenon
<1>14. Prompted'
  <2>1. line # << >>
    BY <1>2, <1>4
  <2> QED
    BY <1>1, <1>11, <1>13, <2>1 DEF Prompted
<1>15. Started' /\ Keeps(global', text', Cached')
  BY <1>1, <1>5, <1>6 DEF Started
<1>16. Verifying' /\ GlobalStaged' /\ Lives' /\ Targeted'
  BY <1>1, <1>2, AtRest DEF Holds
<1> QED
  BY <1>12, <1>14, <1>15, <1>16 DEF Holds

LEMMA AskHolds ==
    ASSUME Inductive, Holds, NEW n \in 1 .. 2, NEW t, NEW longest \in 2 .. 3,
           NEW segmented \in BOOLEAN, AskReadOnly(n, t, longest, segmented)
    PROVE  Holds'
<1> DEFINE tokens == Repeat(t, n)
           rows == RowsOf(tokens)
           line == text \o tokens
           k == Min2(Cached, Window)
           count == RoundUp(Cached) + RoundUp(longest)
           Ring1(i) == AskView(Cached, TRUE, PackPast(sliding, Cached, FALSE),
                               SegmentPast(sliding, Cached, FALSE),
                               rows, longest, i, k + longest, segmented)
           All1(i) == AskView(Cached, FALSE, PackPast(global, Cached, TRUE),
                              SegmentPast(global, Cached, TRUE),
                              rows, longest, i, count, segmented)
           Seen1(i) == Query(tokens, {}, Cached + i, Ring1(i), All1(i))
<1>1. /\ pending = << >> /\ UNCHANGED <<text, pending, global, sliding, candidate, verify>>
  BY DEF AskReadOnly
<1>2. /\ IsSeq(text) /\ Cached \in Nat /\ Cached = Len(text) /\ n \in Nat /\ longest \in Nat
      /\ n <= longest /\ n \in 1 .. n
      /\ IsSeq(tokens) /\ Len(tokens) = n /\ verify = << >>
  BY <1>1, SeqIs, RepeatIs DEF Inductive, Session, Cached
<1>3. seen' = [i \in 1 .. n |-> Seen1(i)]
  BY DEF AskReadOnly, AskView
<1>4. /\ HoldRows(rows, line, Cached) /\ Len(rows) = n /\ Begins(text, line)
  BY <1>2, RowsHold, JoinBegins
<1>5. Has(sliding, line, Cached, TRUE) /\ Has(global, line, Cached, FALSE)
  <2>1. Has(sliding, text, Cached, TRUE)
    BY RingHas DEF Inductive
  <2>2. Has(global, text, Cached, FALSE)
    BY Zenon DEF Holds, Keeps
  <2>3. Cached \in 0 .. Len(text) /\ TRUE \in BOOLEAN /\ FALSE \in BOOLEAN
    BY <1>2
  <2> QED
    BY <1>4, <2>1, <2>2, <2>3, HasMore, Zenon
<1>6. k \in Nat /\ count \in Nat /\ k + longest \in Nat /\ count >= Cached + longest
  <2>1. k \in Nat
    BY <1>2, RingAssumption DEF Min2
  <2>2. /\ RoundUp(Cached) \in Nat /\ RoundUp(Cached) >= Cached
        /\ RoundUp(longest) \in Nat /\ RoundUp(longest) >= longest
    BY <1>2, RoundUpIs
  <2> QED
    BY <1>2, <2>1, <2>2
<1> HIDE DEF tokens, rows, line, count
<1>7. /\ Past(PackPast(sliding, Cached, FALSE), k, line, Cached, TRUE)
      /\ Past(SegmentPast(sliding, Cached, FALSE), k, line, Cached, TRUE)
  <2>1. \A r \in SlidingRows : sliding[r] = sliding[r % Window]
    BY <1>2, NotVerifying DEF Inductive
  <2> QED
    BY <1>2, <1>5, <2>1, PackPastRing, SegmentPastRing, Zenon
<1>8. /\ Past(PackPast(global, Cached, TRUE), Cached, line, Cached, FALSE)
      /\ Past(SegmentPast(global, Cached, TRUE), Cached, line, Cached, FALSE)
  BY <1>2, <1>5, PackPastGlobal, SegmentPastGlobal, Zenon
<1> HIDE DEF k
<1>9. ASSUME NEW i \in 1 .. n
      PROVE  Right(Ring1(i), line, Cached + i, TRUE) /\ Right(All1(i), line, Cached + i, FALSE)
  <2>1. TRUE \in BOOLEAN /\ FALSE \in BOOLEAN
    OBVIOUS
  <2>2. Question(line, Cached, TRUE, PackPast(sliding, Cached, FALSE),
                 SegmentPast(sliding, Cached, FALSE), k, n, rows, longest, i, k + longest)
    BY <1>2, <1>4, <1>6, <1>7, <2>1, Zenon DEF Question
  <2>3. Question(line, Cached, FALSE, PackPast(global, Cached, TRUE),
                 SegmentPast(global, Cached, TRUE), Cached, n, rows, longest, i, count)
    BY <1>2, <1>4, <1>6, <1>8, <2>1, Zenon DEF Question
  <2>4. Right(Ring1(i), line, Cached + i, TRUE)
    BY <2>2, QuestionSees, Zenon
  <2>5. Right(All1(i), line, Cached + i, FALSE)
    BY <2>3, QuestionSees, Zenon
  <2> QED
    BY <2>4, <2>5
<1> HIDE DEF Ring1, All1
<1>10. Begins(text, text)
  BY <1>2, SelfBegins
<1>11. ASSUME NEW i \in 1 .. n PROVE Sight(Seen1(i), text)
  BY <1>2, <1>9, <1>10, PlainSight DEF line
<1>12. Len(seen') = n /\ \A i \in 1 .. n : seen'[i] = Seen1(i)
  <2>1. seen' = [i \in 1 .. n |-> seen'[i]]
    BY <1>3
  <2> QED
    BY <1>2, <1>3, <2>1, MadeIs
<1>13. Sights(seen', text')
  BY <1>1, <1>11, <1>12 DEF Sights
<1>14. seen'[n].end # Cached /\ Cached' = Cached
  BY <1>1, <1>2, <1>12 DEF Query, Cached
<1>15. Prompted'
  BY <1>12, <1>14 DEF Prompted
<1>16. Started' /\ Keeps(global', text', Cached')
  BY <1>1, <1>14 DEF Started, Holds
<1>17. Verifying' /\ GlobalStaged' /\ Lives' /\ Targeted'
  BY <1>1, <1>2, AtRest DEF Holds
<1> QED
  BY <1>13, <1>15, <1>16, <1>17 DEF Holds

LEMMA FirstTokenHolds ==
    ASSUME Inductive, Holds, FirstToken
    PROVE  Holds'
<1>1. /\ pending = << >> /\ UNCHANGED <<text, sliding, global, candidate, verify, seen>>
      /\ seen # << >> /\ seen[Len(seen)].end = Cached /\ pending' # << >>
  BY SingleIs DEF FirstToken
<1>2. text # << >>
  BY <1>1 DEF Holds, Prompted
<1>3. Prompted' /\ Started' /\ Cached' = Cached
  BY <1>1, <1>2 DEF Prompted, Started, Cached
<1>4. verify' = << >>
  BY <1>1 DEF Inductive, Session
<1>5. Verifying' /\ GlobalStaged' /\ Lives' /\ Targeted'
  BY <1>1, <1>4, AtRest DEF Holds
<1> QED
  BY <1>1, <1>3, <1>5 DEF Holds

LEMMA DecodeHolds ==
    ASSUME Inductive, Holds, Decode
    PROVE  Holds' /\ pending' = <<Foresee(text \o pending)>>
<1> DEFINE rows == RowsOf(pending)
           line == text \o pending
           ring == AppendSliding(sliding, Cached, rows)
           all == AppendGlobal(global, Cached, rows)
           query == Query(pending, {}, Cached + 1,
                          DecodeView(ring, Cached + 1, TRUE), DecodeView(all, Cached + 1, FALSE))
<1>1. /\ pending # << >> /\ verify = << >> /\ Cached < MaxContext
      /\ sliding' = ring /\ global' = all /\ text' = line /\ seen' = <<query>>
      /\ pending' = <<Choose(query)>> /\ UNCHANGED <<candidate, verify>>
  BY DEF Decode
<1>2. /\ IsSeq(text) /\ Cached \in Nat /\ Cached = Len(text)
      /\ IsSeq(pending) /\ Len(pending) = 1
  BY <1>1, SeqIs DEF Inductive, Session, Cached
<1>3. /\ HoldRows(rows, line, Cached) /\ Len(rows) = 1 /\ Begins(text, line) /\ Len(line) = Cached + 1
  <2>1. HoldRows(rows, line, Cached) /\ Len(rows) = Len(pending)
    BY <1>2, RowsHold, Zenon
  <2>2. Begins(text, line) /\ Len(line) = Len(text) + Len(pending)
    BY <1>2, JoinBegins, Zenon
  <2> HIDE DEF rows, line
  <2> QED
    BY <1>2, <2>1, <2>2
<1>4. IsSeq(line) /\ Cached' = Cached + 1 /\ line # << >>
  BY <1>1, <1>2, <1>3 DEF Begins, Cached
<1>5. Newest(ring, line, Cached + 1)
  <2>1. Borrowed = {}
    BY <1>1 DEF Borrowed
  <2>2. Newest(sliding', text', Cached')
    BY <1>1, <1>2, <2>1, RingAppended DEF Inductive
  <2> HIDE DEF ring, line
  <2> QED
    BY <1>1, <1>4, <2>2, Zenon DEF Newest
<1> HIDE DEF rows, line, ring
<1>6. Keeps(all, line, Cached + 1)
  <2>1. Cached + 1 <= MaxContext
    BY <1>1, <1>2, RingAssumption
  <2>2. Keeps(global, text, Cached)
    BY DEF Holds
  <2> QED
    BY <1>2, <1>3, <2>1, <2>2, AppendKeepsTokens
<1> HIDE DEF all
<1>7. Has(ring, line, Cached + 1, TRUE) /\ Has(all, line, Cached + 1, FALSE)
  BY <1>5, <1>6, Zenon DEF Newest, Has, WindowOf, Slot, Keeps
<1>8. /\ Right(DecodeView(ring, Cached + 1, TRUE), line, Cached + 1, TRUE)
      /\ Right(DecodeView(all, Cached + 1, FALSE), line, Cached + 1, FALSE)
  <2>1. Cached + 1 \in Nat /\ TRUE \in BOOLEAN /\ FALSE \in BOOLEAN
    BY <1>2
  <2> QED
    BY <1>7, <2>1, DecodeRight, Zenon
<1>9. Sight(query, line)
  BY <1>2, <1>3, <1>8, PlainSight DEF line
<1>14. Choose(query) = Foresee(line)
  <2>1. query.sliding = DecodeView(ring, Cached + 1, TRUE) /\ query.global = DecodeView(all, Cached + 1, FALSE)
    BY DEF Query
  <2>2. Begins(line, line) /\ Cached + 1 = Len(line)
    BY <1>3, <1>4, SelfBegins
  <2> HIDE DEF query
  <2> QED
    BY <1>4, <1>8, <2>1, <2>2, ChooseIs
<1> HIDE DEF query
<1>10. Sights(seen', text')
  <2>1. Len(<<query>>) = 1 /\ <<query>>[1] = query
    OBVIOUS
  <2> QED
    BY <1>1, <1>9, <2>1 DEF Sights
<1>11. pending' # << >>
  BY <1>1, SingleIs
<1>12. Prompted' /\ Started' /\ Keeps(global', text', Cached')
  BY <1>1, <1>4, <1>6, <1>11 DEF Prompted, Started
<1>13. Verifying' /\ GlobalStaged' /\ Lives' /\ Targeted'
  BY <1>1, AtRest DEF Holds
<1> QED
  BY <1>1, <1>10, <1>12, <1>13, <1>14 DEF Holds, line

\* The assistant's paths.
DraftView(path, cache, cached, span, isRing) ==
    CASE path = "decode" -> DecodeView(cache, cached, isRing)
      [] path = "direct" -> GemmSoftmax(AssistantKeys(cache, cached, span, isRing),
                                        cached, 0, 0, isRing, FALSE)
      [] OTHER -> RaggedView(cache, << >>, cached, 0, span, isRing, path = "grouped" /\ ~isRing)

LEMMA DraftSees ==
    ASSUME NEW path \in {"decode", "ragged", "grouped", "direct"}, NEW cache, NEW line,
           NEW cached \in Nat, NEW span \in Nat \ {0}, cached <= span, NEW isRing \in BOOLEAN,
           Has(cache, line, cached, isRing),
           isRing => \A r \in SlidingRows : cache[r] = cache[r % Window]
    PROVE  Right(DraftView(path, cache, cached, span, isRing), line, cached, isRing)
<1>1. CASE path = "decode"
  <2>1. Right(DecodeView(cache, cached, isRing), line, cached, isRing)
    BY DecodeRight
  <2> QED
    BY <1>1, <2>1 DEF DraftView
<1>2. CASE path = "direct"
  <2>1. CASE isRing = TRUE
    <3>1. Right(GemmSoftmax(AssistantKeys(cache, cached, span, TRUE), cached, 0, 0, TRUE, FALSE),
                line, cached, TRUE)
      BY <2>1, AssistRingRight
    <3> QED
      BY <1>2, <2>1, <3>1, Zenon DEF DraftView
  <2>2. CASE isRing = FALSE
    <3>1. Right(GemmSoftmax(AssistantKeys(cache, cached, span, FALSE), cached, 0, 0, FALSE, FALSE),
                line, cached, FALSE)
      BY <2>2, AssistGlobalRight
    <3> QED
      BY <1>2, <2>2, <3>1, Zenon DEF DraftView
  <2> QED
    BY <2>1, <2>2
<1>3. CASE path = "ragged" \/ path = "grouped"
  <2> DEFINE grouped == path = "grouped" /\ ~isRing
  <2>1. grouped \in BOOLEAN /\ (isRing => ~grouped)
    OBVIOUS
  <2>2. DraftView(path, cache, cached, span, isRing)
          = RaggedView(cache, << >>, cached, 0, span, isRing, grouped)
    BY <1>3 DEF DraftView
  <2> HIDE DEF grouped
  <2>3. Right(RaggedView(cache, << >>, cached, 0, span, isRing, grouped), line, cached, isRing)
    BY <2>1, DraftRight
  <2> QED
    BY <2>2, <2>3, Zenon
<1> QED
  BY <1>1, <1>2, <1>3

LEMMA DraftHolds ==
    ASSUME Inductive, Holds, NEW path \in {"decode", "ragged", "grouped", "direct"},
           NEW span \in Spans(Cached), Draft(path, span)
    PROVE  Holds'
<1> DEFINE ring == DraftView(path, sliding, Cached, span, TRUE)
           all == DraftView(path, global, Cached, span, FALSE)
           query == Query(<< >>, {}, Cached, ring, all)
<1>1. /\ pending # << >> /\ verify = << >> /\ seen' = <<query>>
      /\ UNCHANGED <<text, pending, sliding, global, candidate, verify>>
  BY DEF Draft, DraftView
<1>2. /\ IsSeq(text) /\ Cached \in Nat /\ Cached = Len(text)
      /\ span \in Nat \ {0} /\ Cached <= span
  BY SeqIs, RingAssumption DEF Inductive, Session, Cached, Spans
<1>3. text \o << >> = text
  <2>1. text \in Seq({text[i] : i \in DOMAIN text})
    BY <1>2 DEF IsSeq
  <2> QED
    BY <2>1
<1>4. /\ Right(ring, text, Cached, TRUE) /\ Right(all, text, Cached, FALSE)
  <2>1. Has(sliding, text, Cached, TRUE)
    BY RingHas DEF Inductive
  <2>2. Has(global, text, Cached, FALSE)
    BY Zenon DEF Holds, Keeps
  <2>3. \A r \in SlidingRows : sliding[r] = sliding[r % Window]
    BY <1>1, NotVerifying DEF Inductive
  <2>4. TRUE \in BOOLEAN /\ FALSE \in BOOLEAN
    OBVIOUS
  <2>5. Right(ring, text, Cached, TRUE)
    BY <1>2, <2>1, <2>3, <2>4, DraftSees, Zenon
  <2>6. Right(all, text, Cached, FALSE)
    BY <1>2, <2>2, <2>4, DraftSees, Zenon
  <2> QED
    BY <2>5, <2>6
<1> HIDE DEF ring, all
<1>5. Sight(query, text)
  <2>1. Begins(text, text)
    BY <1>2, SelfBegins
  <2>2. Right(ring, text \o << >>, Cached, TRUE) /\ Right(all, text \o << >>, Cached, FALSE)
    BY <1>3, <1>4
  <2> QED
    BY <1>2, <2>1, <2>2, PlainSight
<1> HIDE DEF query
<1>6. Sights(seen', text')
  <2>1. Len(<<query>>) = 1 /\ <<query>>[1] = query
    OBVIOUS
  <2> QED
    BY <1>1, <1>5, <2>1 DEF Sights
<1>7. Prompted' /\ Started' /\ Keeps(global', text', Cached')
  BY <1>1 DEF Holds, Prompted, Started, Cached
<1>8. Verifying' /\ GlobalStaged' /\ Lives' /\ Targeted'
  BY <1>1, AtRest DEF Holds
<1> QED
  BY <1>6, <1>7, <1>8 DEF Holds

LEMMA StageIs ==
    ASSUME NEW staged, DOMAIN staged = 0 .. MaxTokens - 1, NEW n \in 0 .. MaxTokens,
           NEW rows, Len(rows) = n, NEW line, NEW cached \in Nat, HoldRows(rows, line, cached)
    PROVE  /\ DOMAIN StageCandidates(staged, rows) = 0 .. MaxTokens - 1
           /\ HoldStaged(StageCandidates(staged, rows), line, cached, n)
<1> DEFINE d == StageCandidates(staged, rows)
<1>1. d = [i \in 0 .. MaxTokens - 1 |-> IF i < Len(rows) THEN rows[i + 1] ELSE staged[i]]
  BY DEF StageCandidates
<1>2. MaxTokens \in Nat
  BY RingAssumption
<1> HIDE DEF d
<1>3. ASSUME NEW i \in 0 .. n - 1 PROVE d[i] = Row(cached + i, line[cached + i + 1])
  <2>1. i \in 0 .. MaxTokens - 1 /\ i < Len(rows) /\ i + 1 \in 1 .. Len(rows)
    BY <1>2
  <2>2. d[i] = rows[i + 1]
    BY <1>1, <2>1
  <2>3. rows[i + 1] = Row(cached + (i + 1) - 1, line[cached + (i + 1)])
    BY <2>1 DEF HoldRows
  <2>4. cached + (i + 1) - 1 = cached + i /\ cached + (i + 1) = cached + i + 1
    OBVIOUS
  <2> QED
    BY <2>2, <2>3, <2>4, Zenon
<1>4. HoldStaged(d, line, cached, n)
  BY <1>3, Zenon DEF HoldStaged
<1> QED
  BY <1>1, <1>4 DEF d

LEMMA BeginHolds ==
    ASSUME Inductive, Holds, NEW drafts \in Drafts, NEW path \in Paths, NEW fast \in BOOLEAN,
           NEW span \in Spans(Cached + Len(drafts) + 1), BeginVerify(drafts, path, span, fast)
    PROVE  Holds'
<1> DEFINE tokens == pending \o drafts
           rows == RowsOf(tokens)
           line == text \o tokens
           count == 1 + Len(drafts)
<1>1. /\ pending # << >> /\ verify = << >> /\ UNCHANGED <<text, pending>>
      /\ Cached + Len(tokens) <= span /\ span <= MaxContext /\ seen' = << >>
      /\ verify' = [drafts |-> drafts, ring |-> path[1], all |-> path[2], span |-> span,
                    fast |-> fast, stage |-> "staged", targets |-> << >>]
      /\ sliding' = IF path[1] = "direct" THEN StageLive(sliding, rows, Cached, TRUE) ELSE sliding
      /\ global' = IF path[2] = "direct" THEN StageLive(global, rows, Cached, FALSE) ELSE global
      /\ candidate' = [layer \in DOMAIN candidate |-> StageCandidates(candidate[layer], rows)]
  BY DEF BeginVerify
<1>2. /\ IsSeq(text) /\ Cached \in Nat /\ Cached = Len(text)
      /\ IsSeq(pending) /\ Len(pending) = 1
      /\ IsSeq(drafts) /\ Len(drafts) \in 0 .. MaxTokens - 1
      /\ MaxTokens \in Nat /\ MaxContext \in Nat /\ MaxTokens \in 1 .. Window
  BY <1>1, SeqIs, DraftsAre, RingAssumption DEF Inductive, Session, Cached
<1>3. IsSeq(tokens) /\ Len(tokens) = count /\ count \in 1 .. MaxTokens /\ count \in Nat
  <2>1. Joins(tokens, pending, drafts)
    BY <1>2, JoinedIs
  <2> HIDE DEF tokens
  <2> QED
    BY <1>2, <2>1 DEF Joins
<1>4. HoldRows(rows, line, Cached) /\ Len(rows) = count
  <2> HIDE DEF tokens, count
  <2> QED
    BY <1>2, <1>3, RowsHold
<1>5. /\ verify'.drafts = drafts /\ verify'.ring = path[1] /\ verify'.all = path[2]
      /\ verify'.span = span /\ verify'.fast = fast /\ verify'.stage = "staged"
      /\ Cached' = Cached /\ Asked' = tokens /\ Asks' = count /\ text' \o Asked' = line
  BY <1>1 DEF Cached, Asked, Asks
<1> HIDE DEF tokens, rows, line, count
<1>6. Keeps(global, text, Cached)
  BY DEF Holds
<1>7. Cached + count <= MaxContext /\ span \in Nat /\ Cached + count <= span
  <2>1. span \in Nat
    BY <1>2 DEF Spans
  <2> QED
    BY <1>1, <1>2, <1>3, <2>1
<1>8. Verifying'
  <2>1. path[1] \in VerifierPaths /\ path[2] \in VerifierPaths
    BY RingAssumption
  <2> QED
    BY <1>1, <1>5, <1>7, <2>1 DEF Verifying
<1>9. GlobalStaged'
  <2>1. DOMAIN candidate = {"sliding", "global"} /\ DOMAIN candidate["global"] = 0 .. MaxTokens - 1
    BY DEF Inductive, Staged, Holds, GlobalStaged
  <2>2. candidate'["global"] = StageCandidates(candidate["global"], rows)
    BY <1>1, <2>1
  <2>3. count \in 0 .. MaxTokens
    BY <1>2, <1>3
  <2>4. /\ DOMAIN candidate'["global"] = 0 .. MaxTokens - 1
        /\ HoldStaged(candidate'["global"], line, Cached, count)
    BY <1>2, <1>4, <2>1, <2>2, <2>3, StageIs
  <2> QED
    BY <1>5, <2>4 DEF GlobalStaged
<1>10. Lives'
  <2>1. ASSUME path[1] = "direct" PROVE Live(sliding', line, Cached, count, TRUE)
    <3>1. sliding' = StageLive(sliding, rows, Cached, TRUE)
      BY <1>1, <2>1
    <3>2. DOMAIN sliding = SlidingRows
      BY DEF Inductive, Ring
    <3>3. Live(StageLive(sliding, rows, Cached, TRUE), line, Cached, count, TRUE)
      BY <1>2, <1>3, <1>4, <3>2, LiveInRing
    <3> QED
      BY <3>1, <3>3, Zenon
  <2>2. ASSUME path[2] = "direct" PROVE Live(global', line, Cached, count, FALSE)
    <3>1. global' = StageLive(global, rows, Cached, FALSE)
      BY <1>1, <2>2
    <3>2. Live(StageLive(global, rows, Cached, FALSE), line, Cached, count, FALSE)
      BY <1>3, <1>4, <1>6, <1>7, LiveInPlace
    <3> QED
      BY <3>1, <3>2, Zenon
  <2> QED
    BY <1>5, <2>1, <2>2, Zenon DEF Lives
<1>11. Keeps(global', text', Cached')
  <2>1. Keeps(StageLive(global, rows, Cached, FALSE), text, Cached)
    BY <1>3, <1>4, <1>6, <1>7, LiveInPlace
  <2> QED
    BY <1>1, <1>5, <1>6, <2>1
<1>12. Targeted' /\ Prompted' /\ Started' /\ Sights(seen', text')
  BY <1>1, <1>5 DEF Targeted, Prompted, Started, Holds, Sights
<1> QED
  BY <1>8, <1>9, <1>10, <1>11, <1>12 DEF Holds

\* What a verification's path needs of the caches, and what it then sees.
Serves(path, cache, staged, rows, line, cached, count, span, fast, isRing) ==
    /\ path \in VerifierPaths /\ cached \in Nat /\ count \in Nat /\ span \in Nat
    /\ fast \in BOOLEAN /\ isRing \in BOOLEAN /\ cached + count <= span
    /\ Len(rows) = count /\ HoldRows(rows, line, cached)
    /\ staged # << >> /\ HoldStaged(staged, line, cached, count)
    /\ Has(cache, line, cached, isRing)
    /\ path = "direct" => Live(cache, line, cached, count, isRing)
    /\ path = "direct" /\ isRing =>
        \A r \in SlidingRows \ TailRows(cached, count - 1) : cache[r] = cache[r % Window]

PathView(path, cache, staged, rows, cached, span, fast, step, isRing) ==
    LET count == KeyTokens(span, Len(rows), isRing)
    IN  CASE path = "single" -> BatchView(cache, staged, cached + 1, Len(rows), step, isRing)
          [] path = "scalar" -> RaggedView(cache, staged, cached, step, span, isRing, FALSE)
          [] path = "packed" -> GemmSoftmax(PackKeys(cache, rows, cached, count, isRing),
                                            cached, step, 1, isRing, fast)
          [] path = "direct" -> GemmSoftmax(DirectKeys(cache, cached, count, isRing),
                                            cached, step, 1, isRing, fast)

LEMMA PathSees ==
    ASSUME NEW path, NEW cache, NEW staged, NEW rows, NEW line, NEW cached, NEW count,
           NEW span, NEW fast, NEW isRing,
           Serves(path, cache, staged, rows, line, cached, count, span, fast, isRing),
           NEW step \in 0 .. count - 1
    PROVE  Right(PathView(path, cache, staged, rows, cached, span, fast, step, isRing),
                 line, cached + step + 1, isRing)
<1>1. /\ path \in VerifierPaths /\ cached \in Nat /\ count \in Nat /\ span \in Nat
      /\ fast \in BOOLEAN /\ isRing \in BOOLEAN /\ cached + count <= span
      /\ Len(rows) = count /\ HoldRows(rows, line, cached)
      /\ staged # << >> /\ HoldStaged(staged, line, cached, count)
      /\ Has(cache, line, cached, isRing)
  BY Zenon DEF Serves
<1>2. step \in Nat /\ span \in Nat \ {0}
  BY <1>1
<1>3. Seen(cache, staged, line, cached, cached + step + 1, isRing)
  BY <1>1, SeenIs, Zenon
<1>4. CASE path = "single"
  <2>1. Right(BatchView(cache, staged, cached + 1, count, step, isRing),
              line, cached + step + 1, isRing)
    BY <1>1, <1>3, BatchRight, Zenon
  <2>2. PathView(path, cache, staged, rows, cached, span, fast, step, isRing)
          = BatchView(cache, staged, cached + 1, Len(rows), step, isRing)
    BY <1>4 DEF PathView
  <2> QED
    BY <1>1, <2>1, <2>2, Zenon
<1>5. CASE path = "scalar"
  <2>1. Right(RaggedView(cache, staged, cached, step, span, isRing, FALSE),
              line, cached + step + 1, isRing)
    BY <1>1, <1>2, <1>3, RaggedRight, Zenon
  <2>2. PathView(path, cache, staged, rows, cached, span, fast, step, isRing)
          = RaggedView(cache, staged, cached, step, span, isRing, FALSE)
    BY <1>5 DEF PathView
  <2> QED
    BY <2>1, <2>2, Zenon
<1>6. CASE path = "packed"
  <2>1. Right(GemmSoftmax(PackKeys(cache, rows, cached, KeyTokens(span, count, isRing), isRing),
                          cached, step, 1, isRing, fast),
              line, cached + step + 1, isRing)
    <3>1. Packs(cache, rows, line, cached, count, step, span, isRing, fast)
      BY <1>1, Zenon DEF Packs
    <3> QED
      BY <3>1, PackRight, Zenon
  <2>2. PathView(path, cache, staged, rows, cached, span, fast, step, isRing)
          = GemmSoftmax(PackKeys(cache, rows, cached, KeyTokens(span, Len(rows), isRing), isRing),
                        cached, step, 1, isRing, fast)
    BY <1>6 DEF PathView
  <2> QED
    BY <1>1, <2>1, <2>2, Zenon
<1>7. CASE path = "direct"
  <2>1. /\ Live(cache, line, cached, count, isRing)
        /\ isRing => \A r \in SlidingRows \ TailRows(cached, count - 1) : cache[r] = cache[r % Window]
    BY <1>7, Zenon DEF Serves
  <2>2. PathView(path, cache, staged, rows, cached, span, fast, step, isRing)
          = GemmSoftmax(DirectKeys(cache, cached, KeyTokens(span, Len(rows), isRing), isRing),
                        cached, step, 1, isRing, fast)
    BY <1>7 DEF PathView
  <2>3. CASE isRing = TRUE
    <3>1. Right(GemmSoftmax(DirectKeys(cache, cached, KeyTokens(span, count, TRUE), TRUE),
                            cached, step, 1, TRUE, fast),
                line, cached + step + 1, TRUE)
      BY <1>1, <2>1, <2>3, DirectRingRight, Zenon
    <3> QED
      BY <1>1, <2>2, <2>3, <3>1, Zenon
  <2>4. CASE isRing = FALSE
    <3>1. Right(GemmSoftmax(DirectKeys(cache, cached, KeyTokens(span, count, FALSE), FALSE),
                            cached, step, 1, FALSE, fast),
                line, cached + step + 1, FALSE)
      BY <1>1, <2>1, <2>4, DirectGlobalRight, Zenon
    <3> QED
      BY <1>1, <2>2, <2>4, <3>1, Zenon
  <2> QED
    BY <1>1, <2>3, <2>4
<1> QED
  BY <1>1, <1>4, <1>5, <1>6, <1>7 DEF VerifierPaths

\* A text and the first tokens after it.
LEMMA PartBegins ==
    ASSUME NEW s, NEW a, IsSeq(s), IsSeq(a), NEW i \in 0 .. Len(a)
    PROVE  /\ Begins(s \o SubSeq(a, 1, i), s \o a)
           /\ Len(s \o SubSeq(a, 1, i)) = Len(s) + i
<1> DEFINE part == SubSeq(a, 1, i)
           t == s \o part
           line == s \o a
<1>1. Len(s) \in Nat /\ Len(a) \in Nat /\ i \in Nat
  BY SeqIs
<1>2. IsSeq(part) /\ Len(part) = i /\ \A j \in 1 .. i : part[j] = a[j]
  <2>1. part = [j \in 1 .. i |-> a[j]] /\ IsSeq(part) /\ Len(part) = i
    BY PartIs
  <2> HIDE DEF part
  <2> QED
    BY <2>1
<1> HIDE DEF part
<1>3. Joins(t, s, part) /\ Joins(line, s, a)
  BY <1>2, JoinedIs
<1> HIDE DEF t, line
<1>4. ASSUME NEW j \in 1 .. Len(t) PROVE line[j] = t[j]
  <2>1. CASE j \in 1 .. Len(s)
    BY <1>3, <2>1 DEF Joins
  <2>2. CASE j \notin 1 .. Len(s)
    <3> DEFINE l == j - Len(s)
    <3>1. l \in 1 .. i /\ Len(s) + l = j /\ l \in 1 .. Len(a)
      BY <1>1, <1>2, <1>3, <2>2 DEF Joins
    <3> HIDE DEF l
    <3>2. t[Len(s) + l] = part[l] /\ line[Len(s) + l] = a[l]
      BY <1>2, <1>3, <3>1 DEF Joins
    <3> QED
      BY <1>2, <3>1, <3>2
  <2> QED
    BY <2>1, <2>2
<1>5. IsSeq(t) /\ IsSeq(line) /\ Len(t) = Len(s) + i /\ Len(t) <= Len(line)
  BY <1>1, <1>2, <1>3 DEF Joins
<1>6. Begins(t, line)
  BY <1>4, <1>5, Zenon DEF Begins
<1> QED
  BY <1>5, <1>6 DEF t, line, part

\* What a verification finds in the session.
LEMMA AskedIs ==
    ASSUME Inductive, verify # << >>
    PROVE  /\ IsSeq(text) /\ Cached \in Nat /\ Cached = Len(text)
           /\ IsSeq(Asked) /\ Len(Asked) = Asks /\ Asks \in 1 .. MaxTokens /\ Asks \in Nat
           /\ MaxTokens \in Nat /\ MaxTokens >= 1
<1>1. /\ IsSeq(text) /\ Cached \in Nat /\ Cached = Len(text)
      /\ IsSeq(verify.drafts) /\ Len(verify.drafts) \in 0 .. MaxTokens - 1
      /\ IsSeq(pending) /\ Len(pending) = 1 /\ MaxTokens \in 1 .. Window /\ Window \in Nat
  BY VerifyingIs, SeqIs, RingAssumption DEF Inductive, Session, Cached
<1>2. Joins(Asked, pending, verify.drafts)
  BY <1>1, JoinedIs DEF Asked
<1> QED
  BY <1>1, <1>2 DEF Joins, Asks

LEMMA AttendServes ==
    ASSUME Inductive, Holds, InFlight("staged")
    PROVE  /\ Serves(verify.ring, sliding, candidate["sliding"], RowsOf(Asked), text \o Asked,
                     Cached, Asks, verify.span, verify.fast, TRUE)
           /\ Serves(verify.all, global, candidate["global"], RowsOf(Asked), text \o Asked,
                     Cached, Asks, verify.span, verify.fast, FALSE)
<1> DEFINE rows == RowsOf(Asked)
           line == text \o Asked
<1>1. verify # << >> /\ verify.stage = "staged"
  BY DEF InFlight
<1>2. /\ IsSeq(text) /\ Cached \in Nat /\ Cached = Len(text)
      /\ IsSeq(Asked) /\ Len(Asked) = Asks /\ Asks \in 1 .. MaxTokens /\ Asks \in Nat
      /\ MaxTokens \in Nat /\ MaxTokens >= 1
  BY <1>1, AskedIs
<1>3. /\ HoldRows(rows, line, Cached) /\ Len(rows) = Asks
  BY <1>2, RowsHold
<1>4. Begins(text, line)
  BY <1>2, JoinBegins
<1>5. Extends(line, text, Asked, Len(verify.drafts))
  <2>1. /\ IsSeq(text) /\ IsSeq(Asked) /\ Len(verify.drafts) \in Nat /\ Len(text) \in Nat
        /\ Len(Asked) = Len(verify.drafts) + 1
    BY <1>1, <1>2, VerifyingIs DEF Inductive, Asks
  <2>2. Joins(line, text, Asked)
    BY <2>1, JoinedIs
  <2> HIDE DEF line
  <2>3. ASSUME NEW i \in 0 .. Len(verify.drafts) PROVE line[Len(text) + i + 1] = Asked[i + 1]
    <3>1. i + 1 \in 1 .. Len(Asked) /\ Len(text) + (i + 1) = Len(text) + i + 1
      BY <2>1
    <3>2. line[Len(text) + (i + 1)] = Asked[i + 1]
      BY <2>2, <3>1, Zenon DEF Joins
    <3> QED
      BY <3>1, <3>2, Zenon
  <2> QED
    BY <2>1, <2>2, <2>3 DEF Extends, Joins
<1> HIDE DEF rows, line
<1>6. HoldStaged(candidate["sliding"], line, Cached, Asks)
  <2>1. ASSUME NEW i \in 0 .. Asks - 1
        PROVE  candidate["sliding"][i] = Row(Cached + i, line[Cached + i + 1])
    <3>1. i \in 0 .. Len(verify.drafts)
      BY <1>1, <1>2, VerifyingIs DEF Inductive, Asks
    <3>2. candidate["sliding"][i] = Row(Cached + i, Asked[i + 1])
      BY <1>1, <3>1 DEF Inductive, Staged
    <3>3. line[Cached + i + 1] = Asked[i + 1]
      BY <1>2, <1>5, <3>1, Zenon DEF Extends
    <3> QED
      BY <3>2, <3>3, Zenon
  <2> QED
    BY <2>1, Zenon DEF HoldStaged
<1>7. HoldStaged(candidate["global"], line, Cached, Asks)
  BY <1>1 DEF Holds, GlobalStaged, line
<1>8. candidate["sliding"] # << >> /\ candidate["global"] # << >>
  <2>1. DOMAIN candidate["sliding"] = 0 .. MaxTokens - 1 /\ DOMAIN candidate["global"] = 0 .. MaxTokens - 1
    BY DEF Inductive, Staged, Holds, GlobalStaged
  <2>2. 0 \in 0 .. MaxTokens - 1 /\ 0 \notin DOMAIN << >>
    BY <1>2
  <2> QED
    BY <2>1, <2>2
<1>9. Has(sliding, line, Cached, TRUE) /\ Has(global, line, Cached, FALSE)
  <2>1. Has(sliding, text, Cached, TRUE)
    BY RingHas DEF Inductive
  <2>2. Has(global, text, Cached, FALSE)
    BY Zenon DEF Holds, Keeps
  <2>3. Cached \in 0 .. Len(text) /\ TRUE \in BOOLEAN /\ FALSE \in BOOLEAN
    BY <1>2
  <2> QED
    BY <1>4, <2>1, <2>2, <2>3, HasMore, Zenon
<1>10. /\ verify.ring = "direct" => Live(sliding, line, Cached, Asks, TRUE)
       /\ verify.all = "direct" => Live(global, line, Cached, Asks, FALSE)
  BY <1>1 DEF Holds, Lives, line
<1>11. verify.ring = "direct" =>
        \A r \in SlidingRows \ TailRows(Cached, Asks - 1) : sliding[r] = sliding[r % Window]
  <2>1. Asks - 1 = Len(verify.drafts)
    BY <1>1, VerifyingIs DEF Asks, Inductive
  <2>2. verify.ring = "direct" => Borrowed = TailRows(Cached, Len(verify.drafts))
    BY <1>1 DEF Borrowed, TailRows
  <2> QED
    BY <2>1, <2>2 DEF Inductive, Ring
<1>12. /\ verify.ring \in VerifierPaths /\ verify.all \in VerifierPaths /\ verify.fast \in BOOLEAN
       /\ verify.span \in Nat /\ Cached + Asks <= verify.span
  BY <1>1 DEF Holds, Verifying
<1>13. TRUE \in BOOLEAN /\ FALSE \in BOOLEAN
  OBVIOUS
<1>14. Serves(verify.ring, sliding, candidate["sliding"], rows, line, Cached, Asks,
              verify.span, verify.fast, TRUE)
  BY <1>2, <1>3, <1>6, <1>8, <1>9, <1>10, <1>11, <1>12, <1>13, Zenon DEF Serves
<1>15. Serves(verify.all, global, candidate["global"], rows, line, Cached, Asks,
              verify.span, verify.fast, FALSE)
  BY <1>2, <1>3, <1>7, <1>8, <1>9, <1>10, <1>12, <1>13, Zenon DEF Serves
<1> QED
  BY <1>14, <1>15 DEF rows, line

LEMMA Aimed ==
    ASSUME NEW v, IsVerification(v), NEW stage, NEW targets
    PROVE  /\ [v EXCEPT !.stage = stage, !.targets = targets].targets = targets
           /\ [v EXCEPT !.stage = stage].targets = v.targets
<1>1. /\ [v EXCEPT !.stage = stage].targets = v.targets
      /\ "targets" \in DOMAIN v /\ DOMAIN [v EXCEPT !.stage = stage] = DOMAIN v
  BY DEF IsVerification
<1>2. [v EXCEPT !.stage = stage, !.targets = targets] = [[v EXCEPT !.stage = stage] EXCEPT !.targets = targets]
  OBVIOUS
<1> DEFINE u == [v EXCEPT !.stage = stage]
<1>3. u.targets = v.targets /\ "targets" \in DOMAIN u
      /\ [v EXCEPT !.stage = stage, !.targets = targets] = [u EXCEPT !.targets = targets]
  BY <1>1, <1>2
<1> HIDE DEF u
<1>4. [u EXCEPT !.targets = targets].targets = targets
  BY <1>3
<1> QED
  BY <1>1, <1>3, <1>4

LEMMA AttendHolds ==
    ASSUME Inductive, Holds, Attend
    PROVE  Holds'
<1> DEFINE tokens == pending \o verify.drafts
           line == text \o Asked
           ring(i) == VerifyView(verify.ring, sliding, candidate["sliding"], i - 1, TRUE)
           all(i) == VerifyView(verify.all, global, candidate["global"], i - 1, FALSE)
           query(i) == Query(tokens, {}, Cached + i, ring(i), all(i))
<1>1. /\ InFlight("staged") /\ seen' = [i \in 1 .. Len(tokens) |-> query(i)]
      /\ verify' = [verify EXCEPT !.stage = "attended",
                                  !.targets = [i \in 1 .. Len(tokens) |-> Choose(query(i))]]
      /\ UNCHANGED <<text, pending, sliding, global, candidate>>
  BY DEF Attend
<1>2. Goes("attended") /\ verify # << >> /\ verify.stage = "staged"
  BY AttendGoes DEF Inductive, Goes
<1>3. /\ IsSeq(text) /\ Cached \in Nat /\ Cached = Len(text)
      /\ IsSeq(Asked) /\ Len(Asked) = Asks /\ Asks \in Nat /\ tokens = Asked
  BY <1>2, AskedIs DEF Asked
<1>4. ASSUME NEW i \in 1 .. Asks
      PROVE  Right(ring(i), line, Cached + i, TRUE) /\ Right(all(i), line, Cached + i, FALSE)
  <2> DEFINE step == i - 1
             rows == RowsOf(Asked)
  <2>1. step \in 0 .. Asks - 1 /\ Cached + step + 1 = Cached + i
    BY <1>3
  <2>2. /\ ring(i) = PathView(verify.ring, sliding, candidate["sliding"], rows, Cached,
                              verify.span, verify.fast, step, TRUE)
        /\ all(i) = PathView(verify.all, global, candidate["global"], rows, Cached,
                             verify.span, verify.fast, step, FALSE)
    BY DEF VerifyView, PathView, Asked
  <2>3. /\ Serves(verify.ring, sliding, candidate["sliding"], rows, line,
                  Cached, Asks, verify.span, verify.fast, TRUE)
        /\ Serves(verify.all, global, candidate["global"], rows, line,
                  Cached, Asks, verify.span, verify.fast, FALSE)
    BY <1>1, AttendServes
  <2> HIDE DEF step, rows, line, ring, all
  <2>4. Right(PathView(verify.ring, sliding, candidate["sliding"], rows, Cached,
                       verify.span, verify.fast, step, TRUE), line, Cached + step + 1, TRUE)
    BY <2>1, <2>3, PathSees, Zenon
  <2>5. Right(PathView(verify.all, global, candidate["global"], rows, Cached,
                       verify.span, verify.fast, step, FALSE), line, Cached + step + 1, FALSE)
    BY <2>1, <2>3, PathSees, Zenon
  <2> QED
    BY <2>1, <2>2, <2>4, <2>5, Zenon
<1> HIDE DEF ring, all
<1>5. ASSUME NEW i \in 1 .. Asks PROVE Sight(query(i), text)
  <2>1. Begins(text, text)
    BY <1>3, SelfBegins
  <2>2. Right(ring(i), text \o tokens, Cached + i, TRUE) /\ Right(all(i), text \o tokens, Cached + i, FALSE)
    BY <1>3, <1>4 DEF line
  <2> HIDE DEF tokens
  <2> QED
    BY <1>3, <2>1, <2>2, PlainSight
<1>6. ASSUME NEW i \in 1 .. Asks PROVE Choose(query(i)) = Foresee(text \o SubSeq(Asked, 1, i))
  <2> DEFINE t == text \o SubSeq(Asked, 1, i)
             q == query(i)
  <2>1. i \in 0 .. Len(Asked)
    BY <1>3
  <2>2. Begins(t, line) /\ Len(t) = Cached + i
    BY <1>3, <2>1, PartBegins
  <2>3. IsSeq(t)
    BY <2>2 DEF Begins
  <2>4. Right(q.sliding, line, Cached + i, TRUE) /\ Right(q.global, line, Cached + i, FALSE)
    BY <1>4 DEF Query
  <2> HIDE DEF t, q, line
  <2>5. Choose(q) = Foresee(t)
    BY <2>2, <2>3, <2>4, ChooseIs
  <2> QED
    BY <2>5 DEF t, q
<1>7. Len(seen') = Asks /\ \A i \in 1 .. Asks : seen'[i] = query(i)
  <2> HIDE DEF query, tokens
  <2>1. seen' = [i \in 1 .. Asks |-> query(i)]
    BY <1>1, <1>3
  <2>2. seen' = [i \in 1 .. Asks |-> seen'[i]]
    BY <2>1
  <2> QED
    BY <1>3, <2>1, <2>2, MadeIs
<1>8. Sights(seen', text')
  BY <1>1, <1>5, <1>7 DEF Sights
<1>9. \A i \in 1 .. Asks : verify'.targets[i] = Choose(query(i))
  <2> HIDE DEF query, tokens
  <2> DEFINE aims == [i \in 1 .. Len(tokens) |-> Choose(query(i))]
  <2>1. IsVerification(verify)
    BY <1>2 DEF Inductive, Session
  <2>2. verify' = [verify EXCEPT !.stage = "attended", !.targets = aims]
    BY <1>1
  <2>3. \A i \in 1 .. Asks : aims[i] = Choose(query(i))
    BY <1>3
  <2> HIDE DEF aims
  <2>4. verify'.targets = aims
    <3>1. [verify EXCEPT !.stage = "attended", !.targets = aims].targets = aims
      BY <2>1, Aimed
    <3> QED
      BY <2>2, <3>1, Zenon
  <2> QED
    BY <2>3, <2>4, Zenon
<1>10. /\ verify'.drafts = verify.drafts /\ verify'.stage = "attended" /\ verify' # << >>
       /\ verify'.ring = verify.ring /\ verify'.all = verify.all
       /\ verify'.span = verify.span /\ verify'.fast = verify.fast
       /\ Cached' = Cached /\ Asked' = Asked /\ Asks' = Asks
  BY <1>1, <1>2 DEF Goes, Follows, Cached, Asked, Asks
<1> HIDE DEF query, tokens, line
<1>11. Targeted'
  <2>1. \A i \in 1 .. Asks : verify'.targets[i] = Foresee(text \o SubSeq(Asked, 1, i))
    BY <1>6, <1>9
  <2> QED
    BY <1>1, <1>10, <2>1, Zenon DEF Targeted
<1>12. Verifying' /\ GlobalStaged' /\ Lives'
  BY <1>1, <1>2, <1>10 DEF Holds, Verifying, GlobalStaged, Lives
<1>13. Prompted' /\ Started' /\ Keeps(global', text', Cached')
  BY <1>1, <1>2, <1>10 DEF Holds, Inductive, Session, Prompted, Started
<1> QED
  BY <1>8, <1>11, <1>12, <1>13 DEF Holds

LEMMA UnpackHolds ==
    ASSUME Inductive, Holds, Unpack
    PROVE  Holds'
<1>1. Goes("unpacked") /\ verify # << >> /\ verify.stage = "attended"
      /\ UNCHANGED <<text, pending, global, candidate, seen>>
  BY UnpackGoes DEF Inductive, Goes, Unpack
<1>2. /\ verify'.drafts = verify.drafts /\ verify'.stage = "unpacked" /\ verify' # << >>
      /\ verify'.ring = verify.ring /\ verify'.all = verify.all
      /\ verify'.span = verify.span /\ verify'.fast = verify.fast
      /\ Cached' = Cached /\ Asked' = Asked /\ Asks' = Asks
  BY <1>1 DEF Goes, Follows, Cached, Asked, Asks
<1>3. verify'.targets = verify.targets
  <2>1. IsVerification(verify)
    BY <1>1 DEF Inductive, Session
  <2>2. verify' = [verify EXCEPT !.stage = "unpacked"]
    BY DEF Unpack
  <2> QED
    BY <2>1, <2>2, Aimed, Zenon
<1>4. Targeted'
  <2>1. \A i \in 1 .. Asks : verify.targets[i] = Foresee(text \o SubSeq(Asked, 1, i))
    BY <1>1 DEF Holds, Targeted
  <2> QED
    BY <1>1, <1>2, <1>3, <2>1, Zenon DEF Targeted
<1>5. Verifying' /\ GlobalStaged' /\ Lives'
  BY <1>1, <1>2 DEF Holds, Verifying, GlobalStaged, Lives
<1>6. Prompted' /\ Started' /\ Keeps(global', text', Cached') /\ Sights(seen', text')
  BY <1>1, <1>2 DEF Holds, Inductive, Session, Prompted, Started
<1> QED
  BY <1>4, <1>5, <1>6 DEF Holds

LEMMA ExtendsBegins ==
    ASSUME NEW t, NEW s, NEW a, NEW m \in Nat, IsSeq(s), Extends(t, s, a, m)
    PROVE  Begins(s, t) /\ t # << >>
<1>1. Len(s) \in Nat
  BY SeqIs
<1>2. IsSeq(t) /\ Len(t) = Len(s) + (m + 1) /\ \A i \in 1 .. Len(s) : t[i] = s[i]
  BY Zenon DEF Extends
<1>3. Len(s) <= Len(t) /\ Len(t) # 0
  BY <1>1, <1>2
<1> QED
  BY <1>2, <1>3 DEF Begins

LEMMA CommitHolds ==
    ASSUME Inductive, Holds, Commit
    PROVE  Holds'
<1> DEFINE m == Matched(verify.drafts, verify.targets)
           line == text \o pending \o SubSeq(verify.drafts, 1, m)
           all == CommitGlobal(global, candidate["global"], Cached, m + 1)
<1>1. /\ InFlight("unpacked") /\ verify # << >> /\ verify' = << >>
      /\ global' = all /\ text' = line /\ pending' = <<verify.targets[m + 1]>>
      /\ UNCHANGED <<candidate, seen>>
  BY DEF Commit, InFlight
<1>2. /\ IsSeq(text) /\ Cached \in Nat /\ Cached = Len(text)
      /\ IsSeq(Asked) /\ Len(Asked) = Asks /\ Asks \in Nat
      /\ IsSeq(verify.drafts) /\ Len(verify.drafts) \in Nat
      /\ IsSeq(pending) /\ Len(pending) = 1
  BY <1>1, AskedIs, VerifyingIs DEF Inductive
<1>3. m \in 0 .. Len(verify.drafts) /\ m \in Nat /\ m + 1 \in Nat /\ m + 1 <= Asks
  <2>1. m \in 0 .. Len(verify.drafts)
    BY <1>2, MatchedIs
  <2> HIDE DEF m
  <2> QED
    BY <1>2, <2>1 DEF Asks
<1> HIDE DEF m
<1>4. Extends(line, text, Asked, m)
  BY <1>2, <1>3, Extended DEF Asked
<1> HIDE DEF line
<1>5. Begins(text, line) /\ line # << >> /\ Len(line) = Cached + (m + 1) /\ Cached' = Cached + (m + 1)
  <2>1. Begins(text, line) /\ line # << >>
    BY <1>2, <1>3, <1>4, ExtendsBegins
  <2>2. Len(line) = Cached + (m + 1)
    BY <1>2, <1>4 DEF Extends
  <2> QED
    BY <1>1, <2>1, <2>2 DEF Cached
<1>6. HoldStaged(candidate["global"], line, Cached, m + 1)
  <2> DEFINE whole == text \o Asked
  <2>1. HoldStaged(candidate["global"], whole, Cached, Asks)
    BY <1>1 DEF Holds, GlobalStaged
  <2>2. Joins(whole, text, Asked)
    BY <1>2, JoinedIs
  <2> HIDE DEF whole
  <2>3. ASSUME NEW i \in 0 .. (m + 1) - 1
        PROVE  candidate["global"][i] = Row(Cached + i, line[Cached + i + 1])
    <3>1. i \in 0 .. Asks - 1 /\ i \in 0 .. m /\ i + 1 \in 1 .. Len(Asked)
      BY <1>2, <1>3
    <3>2. candidate["global"][i] = Row(Cached + i, whole[Cached + i + 1])
      BY <2>1, <3>1, Zenon DEF HoldStaged
    <3>3. line[Cached + i + 1] = Asked[i + 1]
      BY <1>2, <1>4, <3>1, Zenon DEF Extends
    <3>4. whole[Cached + (i + 1)] = Asked[i + 1]
      BY <1>2, <2>2, <3>1, Zenon DEF Joins
    <3>5. Cached + (i + 1) = Cached + i + 1
      BY <1>2, <3>1
    <3> QED
      BY <3>2, <3>3, <3>4, <3>5, Zenon
  <2> QED
    BY <2>3, Zenon DEF HoldStaged
<1>7. Keeps(all, line, Cached + (m + 1))
  <2>1. Cached + (m + 1) <= MaxContext
    <3>1. verify.span \in Nat /\ Cached + Asks <= verify.span /\ verify.span <= MaxContext
      BY <1>1 DEF Holds, Verifying
    <3> QED
      BY <1>2, <1>3, <3>1, RingAssumption
  <2>2. Keeps(global, text, Cached)
    BY DEF Holds
  <2> QED
    BY <1>2, <1>3, <1>5, <1>6, <2>1, <2>2, CommitKeepsTokens
<1>8. Sights(seen', text')
  <2>1. Sights(seen, text)
    BY DEF Holds
  <2> QED
    BY <1>1, <1>5, <2>1, SightsKept
<1> HIDE DEF all
<1>9. Prompted' /\ Started' /\ Keeps(global', text', Cached')
  <2>1. pending' # << >>
    BY <1>1, SingleIs
  <2> QED
    BY <1>1, <1>5, <1>7, <2>1 DEF Prompted, Started
<1>10. Verifying' /\ GlobalStaged' /\ Lives' /\ Targeted'
  BY <1>1, AtRest DEF Holds
<1> QED
  BY <1>8, <1>9, <1>10 DEF Holds

LEMMA StutterHolds ==
    ASSUME Holds, UNCHANGED vars
    PROVE  Holds'
<1>1. /\ UNCHANGED <<text, pending, sliding, global, candidate, verify, seen>>
      /\ Cached' = Cached /\ Asked' = Asked /\ Asks' = Asks
  BY DEF vars, Cached, Asked, Asks
<1> QED
  BY <1>1 DEF Holds, Verifying, GlobalStaged, Lives, Targeted, Prompted, Started

LEMMA InitHolds ==
    ASSUME Init
    PROVE  Holds
<1>1. /\ text = << >> /\ pending = << >> /\ verify = << >> /\ seen = << >>
      /\ global = [r \in 0 .. MaxContext - 1 |-> Junk]
      /\ candidate = [layer \in {"sliding", "global"} |-> [i \in 0 .. MaxTokens - 1 |-> Junk]]
  BY DEF Init
<1>2. Cached = 0 /\ Len(seen) = 0
  BY <1>1 DEF Cached
<1>3. Keeps(global, text, Cached)
  <2>1. DOMAIN global = 0 .. MaxContext - 1 /\ 0 \in 0 .. MaxContext
    BY <1>1, RingAssumption
  <2>2. \A p \in 0 .. 0 - 1 : global[p] = Row(p, text[p + 1])
    OBVIOUS
  <2>3. Has(global, text, 0, FALSE)
    BY <2>2, KeepsIs, Zenon
  <2> QED
    BY <1>2, <2>1, <2>3 DEF Keeps
<1>4. Sights(seen, text)
  BY <1>2 DEF Sights
<1>5. DOMAIN candidate["global"] = 0 .. MaxTokens - 1
  BY <1>1
<1> QED
  BY <1>1, <1>3, <1>4, <1>5
  DEF Holds, Verifying, GlobalStaged, Lives, Targeted, Prompted, Started

LEMMA TextInvariance == Spec => [](Inductive /\ Holds)
<1>1. Init => Inductive /\ Holds
  BY Initially, InitHolds
<1>2. Inductive /\ Holds /\ [Next]_vars => (Inductive /\ Holds)'
  <2>1. SUFFICES ASSUME Inductive, Holds, [Next]_vars PROVE Inductive' /\ Holds'
    OBVIOUS
  <2>2. CASE Next
    <3>1. Inductive'
      BY <2>1, <2>2, StepSession, StepStaged, StepRing DEF Inductive
    <3>2. Holds'
      BY <2>1, <2>2, PrefillHolds, AskHolds, FirstTokenHolds, DecodeHolds, DraftHolds,
         BeginHolds, AttendHolds, UnpackHolds, CommitHolds DEF Next
    <3> QED
      BY <3>1, <3>2
  <2>3. CASE UNCHANGED vars
    <3>1. Inductive'
      BY <2>1, <2>3 DEF vars, Inductive, Session, Staged, Ring, Borrowed, Asked, Cached
    <3> QED
      BY <2>1, <2>3, <3>1, StutterHolds
  <2> QED
    BY <2>1, <2>2, <2>3
<1> QED
  BY <1>1, <1>2, PTL DEF Spec

(* Every query of every kernel, of a prompt, a question, a decode step, the   *)
(* assistant or a verification by any path, sees exactly the rows of its own   *)
(* window, once each, in both of its passes (QueriesSeeTheirWindow).          *)
THEOREM WindowsAreSeen == Spec => []QueriesSeeTheirWindow
<1>1. Holds => QueriesSeeTheirWindow
  BY SightsAre DEF Holds
<1> QED
  BY <1>1, TextInvariance, PTL

-----------------------------------------------------------------------------
(* The text that is said *)

LEMMA PromiseInit == Init => Promise!Init
<1>1. << >> \o << >> = << >>
  OBVIOUS
<1> QED
  BY <1>1 DEF Init, Promise!Init

LEMMA PromiseStutters ==
    ASSUME UNCHANGED <<text, pending>>
    PROVE  [Promise!Next]_<<text \o pending, pending # << >>>>
  OBVIOUS

LEMMA NothingMore ==
    ASSUME NEW s, IsSeq(s)
    PROVE  s \o << >> = s
<1>1. s \in Seq({s[i] : i \in DOMAIN s})
  BY DEF IsSeq
<1> QED
  BY <1>1

\* A step that adds tokens of the model's choice.
LEMMA Generates ==
    ASSUME NEW old, NEW new, old = text \o pending, new = text' \o pending',
           pending' # << >>, old # << >>, Begins(old, new), Len(new) > Len(old),
           \A i \in Len(old) + 1 .. Len(new) : new[i] = Foresee(SubSeq(new, 1, i - 1))
    PROVE  Promise!Generate
<1>1. SubSeq(new, 1, Len(old)) = old
  BY BeginsIs
<1> QED
  BY <1>1, Zenon DEF Promise!Generate

LEMMA GeneratesOne ==
    ASSUME NEW old, old = text \o pending, IsSeq(old), old # << >>,
           text' \o pending' = old \o <<Foresee(old)>>, pending' # << >>
    PROVE  Promise!Generate
<1> DEFINE x == Foresee(old)
           new == old \o <<x>>
<1>1. IsSeq(<<x>>) /\ Len(<<x>>) = 1 /\ <<x>>[1] = x
  BY SingleIs
<1> HIDE DEF x
<1>2. Joins(new, old, <<x>>) /\ Begins(old, new) /\ Len(old) \in Nat
  BY <1>1, JoinedIs, JoinBegins, SeqIs
<1> HIDE DEF new
<1>3. Len(new) = Len(old) + 1 /\ new[Len(old) + 1] = x
  <2>1. 1 \in 1 .. Len(<<x>>)
    BY <1>1
  <2> QED
    BY <1>1, <1>2, <2>1 DEF Joins
<1>4. SubSeq(new, 1, Len(old)) = old
  BY <1>2, BeginsIs
<1>5. ASSUME NEW i \in Len(old) + 1 .. Len(new) PROVE new[i] = Foresee(SubSeq(new, 1, i - 1))
  <2>1. i = Len(old) + 1 /\ i - 1 = Len(old)
    BY <1>2, <1>3
  <2> QED
    BY <1>3, <1>4, <2>1, Zenon DEF x
<1>6. Len(new) > Len(old) /\ new = text' \o pending'
  BY <1>2, <1>3 DEF new, x
<1> QED
  BY <1>2, <1>5, <1>6, Generates, Zenon

LEMMA PrefillSays ==
    ASSUME Inductive, NEW n \in ChunkSizes, NEW t, NEW block, NEW uniform,
           Prefill(n, t, block, uniform)
    PROVE  Promise!Prompt
<1> DEFINE new == text \o Repeat(t, n)
<1>1. /\ pending = << >> /\ pending' = << >> /\ text' = new
  BY DEF Prefill
<1>2. IsSeq(text) /\ IsSeq(Repeat(t, n)) /\ Len(Repeat(t, n)) = n /\ n \in Nat \ {0}
  BY RepeatIs, RingAssumption DEF Inductive, Session
<1>3. Begins(text, new) /\ Len(new) = Len(text) + n
  BY <1>2, JoinBegins
<1>4. IsSeq(new) /\ Len(text) \in Nat
  BY <1>2, <1>3, SeqIs DEF Begins
<1> HIDE DEF new
<1>5. SubSeq(new, 1, Len(text)) = text /\ Len(new) > Len(text)
  BY <1>2, <1>3, <1>4, BeginsIs
<1>6. text \o pending = text /\ text' \o pending' = new
  BY <1>1, <1>2, <1>4, NothingMore
<1> QED
  BY <1>1, <1>5, <1>6, Zenon DEF Promise!Prompt

LEMMA FirstTokenSays ==
    ASSUME Inductive, Holds, FirstToken
    PROVE  Promise!Generate
<1>1. /\ pending = << >> /\ text' = text /\ pending' = <<Choose(seen[Len(seen)])>>
      /\ seen # << >> /\ seen[Len(seen)].end = Cached
  BY DEF FirstToken
<1>2. Choose(seen[Len(seen)]) = Foresee(text) /\ text # << >>
  BY <1>1 DEF Holds, Prompted
<1>3. IsSeq(text) /\ text = text \o pending
  BY <1>1, NothingMore DEF Inductive, Session
<1>4. pending' # << >>
  BY <1>1, SingleIs
<1>5. text' \o pending' = text \o <<Foresee(text)>>
  BY <1>1, <1>2
<1> QED
  BY <1>2, <1>3, <1>4, <1>5, GeneratesOne, Zenon

LEMMA DecodeSays ==
    ASSUME Inductive, Holds, Decode
    PROVE  Promise!Generate
<1> DEFINE old == text \o pending
<1>1. pending # << >> /\ text' = old
  BY DEF Decode
<1>2. pending' = <<Foresee(old)>>
  BY DecodeHolds
<1>3. IsSeq(text) /\ IsSeq(pending) /\ Len(pending) = 1
  BY <1>1 DEF Inductive, Session
<1>4. IsSeq(old) /\ old # << >>
  <2>1. Joins(old, text, pending) /\ Len(text) \in Nat
    BY <1>3, JoinedIs, SeqIs
  <2> HIDE DEF old
  <2> QED
    BY <1>3, <2>1 DEF Joins
<1>5. pending' # << >> /\ text' \o pending' = old \o <<Foresee(old)>>
  BY <1>1, <1>2, SingleIs
<1> HIDE DEF old
<1>6. old = text \o pending
  BY DEF old
<1> QED
  BY <1>4, <1>5, <1>6, GeneratesOne, Zenon

LEMMA BeginsOn ==
    ASSUME NEW s, NEW t, NEW u, Begins(s, t), Begins(t, u)
    PROVE  Begins(s, u)
<1>1. Len(s) \in Nat /\ Len(t) \in Nat /\ Len(u) \in Nat
  BY SeqIs DEF Begins
<1>2. \A i \in 1 .. Len(s) : i \in 1 .. Len(t)
  BY <1>1 DEF Begins
<1> QED
  BY <1>1, <1>2 DEF Begins

LEMMA BeginsBoth ==
    ASSUME NEW s, NEW t, NEW u, Begins(s, u), Begins(t, u), Len(s) <= Len(t)
    PROVE  Begins(s, t)
<1>1. Len(s) \in Nat /\ Len(t) \in Nat
  BY SeqIs DEF Begins
<1>2. \A i \in 1 .. Len(s) : i \in 1 .. Len(t)
  BY <1>1
<1> QED
  BY <1>1, <1>2 DEF Begins

\* A text that extends s by the first of a's tokens begins s and all of a.
LEMMA ExtendsPart ==
    ASSUME NEW t, NEW s, NEW a, NEW m \in Nat, IsSeq(s), IsSeq(a), Extends(t, s, a, m), m < Len(a)
    PROVE  Begins(t, s \o a)
<1> DEFINE whole == s \o a
<1>1. Joins(whole, s, a) /\ Len(s) \in Nat /\ Len(a) \in Nat
  BY JoinedIs, SeqIs
<1> HIDE DEF whole
<1>2. ASSUME NEW k \in 1 .. Len(t) PROVE whole[k] = t[k]
  <2>1. CASE k \in 1 .. Len(s)
    BY <1>1, <2>1 DEF Joins, Extends
  <2>2. CASE k \notin 1 .. Len(s)
    <3> DEFINE i == k - Len(s) - 1
    <3>1. i \in 0 .. m /\ Len(s) + i + 1 = k /\ i + 1 \in 1 .. Len(a) /\ Len(s) + (i + 1) = k
      BY <1>1, <2>2 DEF Extends
    <3> HIDE DEF i
    <3>2. t[Len(s) + i + 1] = a[i + 1]
      BY <3>1, Zenon DEF Extends
    <3>3. whole[Len(s) + (i + 1)] = a[i + 1]
      BY <1>1, <3>1, Zenon DEF Joins
    <3> QED
      BY <3>1, <3>2, <3>3, Zenon
  <2> QED
    BY <2>1, <2>2
<1>3. IsSeq(t) /\ IsSeq(whole) /\ Len(t) <= Len(whole)
  BY <1>1 DEF Joins, Extends
<1>4. Begins(t, whole)
  BY <1>2, <1>3, Zenon DEF Begins
<1> QED
  BY <1>4 DEF whole

LEMMA CommitSays ==
    ASSUME Inductive, Holds, Commit
    PROVE  Promise!Generate
<1> DEFINE m == Matched(verify.drafts, verify.targets)
           part == SubSeq(verify.drafts, 1, m)
           old == text \o pending
           head == old \o part
           x == verify.targets[m + 1]
           new == head \o <<x>>
<1>1. /\ verify # << >> /\ verify.stage = "unpacked"
      /\ text' = head /\ pending' = <<x>> /\ pending' # << >>
  BY SingleIs DEF Commit, InFlight
<1>2. /\ IsSeq(text) /\ Cached \in Nat /\ Cached = Len(text)
      /\ IsSeq(Asked) /\ Len(Asked) = Asks /\ Asks \in Nat
      /\ IsSeq(verify.drafts) /\ Len(verify.drafts) \in Nat
      /\ IsSeq(pending) /\ Len(pending) = 1
  BY <1>1, AskedIs, VerifyingIs DEF Inductive
<1>3. /\ m \in 0 .. Len(verify.drafts) /\ \A j \in 1 .. m : verify.drafts[j] = verify.targets[j]
  BY <1>2, MatchedIs
<1> HIDE DEF m
<1>4. m \in Nat /\ m < Asks /\ m < Len(Asked)
  BY <1>2, <1>3 DEF Asks
<1>5. IsSeq(part)
  BY <1>2, <1>3, PartIs
<1>6. Extends(head, text, Asked, m)
  BY <1>2, <1>3, Extended DEF Asked
<1> HIDE DEF part, x
<1>7. IsSeq(old) /\ Len(old) = Cached + 1 /\ Begins(old, head)
  <2>1. Joins(old, text, pending)
    BY <1>2, JoinedIs
  <2> HIDE DEF old
  <2>2. IsSeq(old) /\ Len(old) = Cached + 1
    BY <1>2, <2>1 DEF Joins
  <2>3. Begins(old, head)
    BY <1>5, <2>2, JoinBegins
  <2> QED
    BY <2>2, <2>3
<1> HIDE DEF head
<1>8. Len(head) = Cached + (m + 1) /\ IsSeq(head) /\ IsSeq(<<x>>) /\ Len(<<x>>) = 1 /\ <<x>>[1] = x
  BY <1>2, <1>6, SingleIs DEF Extends
<1>9. Begins(head, new) /\ Joins(new, head, <<x>>) /\ Len(new) = Cached + (m + 1) + 1
  <2>1. Begins(head, new) /\ Joins(new, head, <<x>>)
    BY <1>8, JoinBegins, JoinedIs
  <2> HIDE DEF new
  <2> QED
    BY <1>2, <1>4, <1>8, <2>1 DEF Joins
<1> HIDE DEF new
<1>10. Begins(head, text \o Asked)
  BY <1>2, <1>4, <1>6, ExtendsPart
<1>11. ASSUME NEW i \in Len(old) + 1 .. Len(new) PROVE new[i] = Foresee(SubSeq(new, 1, i - 1))
  <2> DEFINE j == i - 1 - Cached
             t == text \o SubSeq(Asked, 1, j)
  <2>1. j \in 1 .. m + 1 /\ j \in 1 .. Asks /\ j \in 0 .. Len(Asked)
        /\ Cached + j = i - 1 /\ Cached + j + 1 = i /\ i \in Nat
    BY <1>2, <1>4, <1>7, <1>9
  <2> HIDE DEF j
  <2>2. SubSeq(new, 1, i - 1) = t
    <3>1. Begins(t, text \o Asked) /\ Len(t) = i - 1
      BY <1>2, <2>1, PartBegins
    <3>2. Len(t) <= Len(head)
      BY <1>2, <1>4, <1>8, <2>1, <3>1
    <3> HIDE DEF t
    <3>3. Begins(t, new)
      BY <1>9, <1>10, <3>1, <3>2, BeginsBoth, BeginsOn
    <3> QED
      BY <3>1, <3>3, BeginsIs
  <2>3. verify.targets[j] = Foresee(t)
    BY <1>1, <2>1 DEF Holds, Targeted
  <2>4. new[i] = verify.targets[j]
    <3>1. CASE j = m + 1
      <4>1. i = Len(head) + 1 /\ 1 \in 1 .. Len(<<x>>)
        BY <1>2, <1>4, <1>8, <2>1, <3>1
      <4>2. new[i] = x
        BY <1>8, <1>9, <4>1 DEF Joins
      <4> QED
        BY <3>1, <4>2 DEF x
    <3>2. CASE j # m + 1
      <4>1. j \in 1 .. m /\ j \in 0 .. m /\ i \in 1 .. Len(head) /\ j \in 1 .. Len(verify.drafts)
        BY <1>2, <1>3, <1>4, <1>8, <2>1, <3>2
      <4>2. new[i] = head[i]
        BY <1>9, <4>1 DEF Begins
      <4>3. head[Cached + j + 1] = Asked[j + 1]
        BY <1>2, <1>6, <4>1, Zenon DEF Extends
      <4>4. Asked[1 + j] = verify.drafts[j]
        <5>1. Joins(Asked, pending, verify.drafts)
          BY <1>2, JoinedIs DEF Asked
        <5> QED
          BY <1>2, <4>1, <5>1, Zenon DEF Joins
      <4>5. 1 + j = j + 1
        BY <2>1
      <4>6. verify.drafts[j] = verify.targets[j]
        BY <1>3, <4>1
      <4> QED
        BY <2>1, <4>2, <4>3, <4>4, <4>5, <4>6, Zenon
    <3> QED
      BY <3>1, <3>2
  <2> QED
    BY <2>2, <2>3, <2>4, Zenon
<1>12. Begins(old, new) /\ old # << >> /\ Len(new) > Len(old)
  BY <1>2, <1>4, <1>7, <1>9, BeginsOn
<1>13. old = text \o pending /\ new = text' \o pending'
  BY <1>1 DEF old, new
<1> HIDE DEF old
<1> QED
  BY <1>1, <1>11, <1>12, <1>13, Generates, Zenon

(* Prompts, first tokens, decode steps and commits add to the text what plain  *)
(* greedy decoding would have said, and nothing else adds to it, whatever was   *)
(* drafted, staged and rejected, and by whatever path (SpeculationIsGreedy).    *)
THEOREM DraftsChangeNothing == Spec => SpeculationIsGreedy
<1>1. Init => Promise!Init
  BY PromiseInit
<1>2. Inductive /\ Holds /\ [Next]_vars => [Promise!Next]_<<text \o pending, pending # << >>>>
  <2>1. SUFFICES ASSUME Inductive, Holds, [Next]_vars
                 PROVE  [Promise!Next]_<<text \o pending, pending # << >>>>
    OBVIOUS
  <2>2. ASSUME NEW n \in ChunkSizes, NEW t, NEW block, NEW uniform, Prefill(n, t, block, uniform)
        PROVE  Promise!Next
    BY <2>1, <2>2, PrefillSays DEF Promise!Next
  <2>3. CASE FirstToken \/ Decode \/ Commit
    <3>1. Promise!Generate
      BY <2>1, <2>3, FirstTokenSays, DecodeSays, CommitSays
    <3> QED
      BY <3>1 DEF Promise!Next
  <2>4. ASSUME UNCHANGED <<text, pending>>
        PROVE  [Promise!Next]_<<text \o pending, pending # << >>>>
    BY <2>4, PromiseStutters
  <2>5. ASSUME NEW n, NEW t, NEW longest, NEW segmented, AskReadOnly(n, t, longest, segmented)
        PROVE  UNCHANGED <<text, pending>>
    BY <2>5 DEF AskReadOnly
  <2>6. ASSUME NEW path, NEW span, Draft(path, span)
        PROVE  UNCHANGED <<text, pending>>
    BY <2>6 DEF Draft
  <2>7. ASSUME NEW drafts, NEW path, NEW span, NEW fast, BeginVerify(drafts, path, span, fast)
        PROVE  UNCHANGED <<text, pending>>
    BY <2>7 DEF BeginVerify
  <2>8. CASE Attend \/ Unpack
    BY <2>4, <2>8 DEF Attend, Unpack
  <2>9. CASE UNCHANGED vars
    BY <2>4, <2>9 DEF vars
  <2> QED
    BY <2>1, <2>2, <2>3, <2>4, <2>5, <2>6, <2>7, <2>8, <2>9 DEF Next
<1> QED
  BY <1>1, <1>2, TextInvariance, PTL DEF Spec, SpeculationIsGreedy, Promise!Spec
=============================================================================
