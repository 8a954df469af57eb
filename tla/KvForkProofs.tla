---------------------------- MODULE KvForkProofs ----------------------------
(* Theorems about KvFork, for any finite set of caches, any of them forked,  *)
(* any number of regions, rows to a page and pages.                          *)
EXTENDS KvFork, FiniteSetTheorems, WellFoundedInduction, TLAPS

-----------------------------------------------------------------------------
(* Rows and pages *)

LEMMA Division ==
    ASSUME NEW n \in Nat, NEW p \in Nat \ {0}
    PROVE  /\ n \div p \in Nat
           /\ n % p \in 0 .. p - 1
           /\ n = p * (n \div p) + (n % p)
<1>1. n = p * (n \div p) + (n % p)
  BY SMTT(60)
<1>2. n \div p \in Nat
  OBVIOUS
<1>3. n % p \in 0 .. p - 1
  OBVIOUS
<1> QED
  BY <1>1, <1>2, <1>3

\* Row i is on page i \div PageRows + 1.
LEMMA RowOnPage ==
    ASSUME NEW i \in Nat
    PROVE  /\ i \div PageRows \in Nat
           /\ i % PageRows \in 0 .. PageRows - 1
           /\ i = PageRows * (i \div PageRows) + (i % PageRows)
  BY Division, KvForkAssumption

\* Different rows of one page have different places on it.
LEMMA RowIsItsPlace ==
    ASSUME NEW i \in Nat, NEW j \in Nat,
           i \div PageRows = j \div PageRows, i % PageRows = j % PageRows
    PROVE  i = j
<1> DEFINE q == i \div PageRows  r == i % PageRows
<1>1. i = PageRows * q + r /\ j = PageRows * q + r
  BY RowOnPage
<1> QED
  BY <1>1

LEMMA RowBelow ==
    ASSUME NEW i \in Nat, NEW k \in Nat, i < k * PageRows
    PROVE  i \div PageRows + 1 \in 1 .. k
<1> DEFINE q == i \div PageRows  r == i % PageRows
<1>1. q \in Nat /\ r \in Nat /\ i = PageRows * q + r
  BY RowOnPage, KvForkAssumption
<1> HIDE DEF q, r
<1>2. PageRows * q < PageRows * k
  BY <1>1, KvForkAssumption
<1>3. q < k
  BY <1>1, <1>2, KvForkAssumption
<1> QED
  BY <1>1, <1>3 DEF q

LEMMA RowAbove ==
    ASSUME NEW i \in Nat, NEW k \in Nat, k * PageRows <= i
    PROVE  k <= i \div PageRows
<1> DEFINE q == i \div PageRows  r == i % PageRows
<1>1. q \in Nat /\ r \in Nat /\ r < PageRows /\ i = PageRows * q + r
  BY RowOnPage, KvForkAssumption
<1> HIDE DEF q, r
<1>2. PageRows * k < PageRows * (q + 1)
  BY <1>1, KvForkAssumption
<1>3. k < q + 1
  BY <1>1, <1>2, KvForkAssumption
<1> QED
  BY <1>1, <1>3 DEF q

LEMMA RowsOfPages ==
    ASSUME NEW i \in Nat
    PROVE  i * PageRows \in Nat
  BY KvForkAssumption

LEMMA MorePagesMoreRows ==
    ASSUME NEW i \in Nat, NEW j \in Nat, i <= j
    PROVE  i * PageRows \in Nat /\ j * PageRows \in Nat /\ i * PageRows <= j * PageRows
  BY KvForkAssumption

\* PagesFor(n) pages hold n rows, and no fewer do.
LEMMA PagesHold ==
    ASSUME NEW n \in Nat
    PROVE  /\ PagesFor(n) \in Nat
           /\ n <= PagesFor(n) * PageRows
           /\ \A k \in Nat : n <= k * PageRows => PagesFor(n) <= k
<1> DEFINE m == n + PageRows - 1  q == m \div PageRows  r == m % PageRows
<1>1. m \in Nat /\ PageRows \in Nat \ {0}
  BY KvForkAssumption
<1>2. q \in Nat /\ r \in Nat /\ r < PageRows /\ m = PageRows * q + r
  BY <1>1, RowOnPage
<1>3. PagesFor(n) = q
  BY DEF PagesFor
<1>4. n = m - (PageRows - 1)
  BY <1>1
<1> HIDE DEF m, q, r
<1>5. n <= q * PageRows
  BY <1>1, <1>2, <1>4
<1>6. ASSUME NEW k \in Nat, n <= k * PageRows PROVE q <= k
  <2>1. PageRows * q < PageRows * (k + 1)
    BY <1>1, <1>2, <1>4, <1>6
  <2> QED
    BY <2>1, <1>1, <1>2
<1> QED
  BY <1>2, <1>3, <1>5, <1>6

LEMMA WholePagesHold ==
    ASSUME NEW n \in Nat
    PROVE  /\ WholePages(n) \in Nat
           /\ WholePages(n) * PageRows <= n
           /\ n < (WholePages(n) + 1) * PageRows
<1> DEFINE q == n \div PageRows  r == n % PageRows
<1>1. q \in Nat /\ r \in Nat /\ r < PageRows /\ n = PageRows * q + r
  BY RowOnPage, KvForkAssumption
<1>2. WholePages(n) = q
  BY DEF WholePages
<1> HIDE DEF q, r
<1> QED
  BY <1>1, <1>2, KvForkAssumption

-----------------------------------------------------------------------------
(* Least numbers and spare pages *)

LEMMA LeastExists ==
    ASSUME NEW S \in SUBSET Nat, S # {}
    PROVE  \E m \in S : \A k \in S : m <= k
<1> DEFINE Less == {ss \in Nat \X Nat : ss[1] < ss[2]}
<1>1. IsWellFoundedOn(Less, Nat)
  BY NatLessThanWellFounded, Zenon DEF OpToRel
<1> HIDE DEF Less
<1>2. PICK m \in S : \A k \in S : ~ <<k, m>> \in Less
  BY <1>1, WFMin
<1>3. \A k \in S : ~ k < m
  BY <1>2 DEF Less
<1> QED
  BY <1>3

LEMMA MinIsLeast ==
    ASSUME NEW S \in SUBSET Nat, S # {}
    PROVE  Min(S) \in S /\ \A k \in S : Min(S) <= k
  BY LeastExists DEF Min

-----------------------------------------------------------------------------
(* The invariant *)

Slots(c, g) == 1 .. Len(pages[c][g])

Types ==
    /\ live \in SUBSET Caches
    /\ pages \in [Caches -> [AllRegions -> Seq(Pages)]]
    /\ access \in [Caches -> [AllRegions -> Seq({"read", "readwrite"})]]
    /\ \A c \in Caches, g \in AllRegions :
        Len(access[c][g]) = Len(pages[c][g]) /\ Len(pages[c][g]) <= Reserved
    /\ handles \in SUBSET Pages
    /\ rows \in [Pages -> [0 .. PageRows - 1 -> Caches \cup {Zero}]]

Sizes ==
    /\ shared \in [Caches -> 0 .. MaxRows]
    /\ resident \in [Caches -> 0 .. MaxRows]

Flags == sealed \in [Caches -> BOOLEAN] /\ fault \in BOOLEAN

\* A cache that does not exist has nothing.
Empty == \A c \in Caches \ live :
    /\ pages[c] = NoPages /\ access[c] = NoPages
    /\ shared[c] = 0 /\ ~sealed[c] /\ resident[c] = 0

\* The fork under way has good arguments, and has come to a page of them.
Forking ==
    /\ DOMAIN fork = {"into", "from", "tokens", "region", "page"}
    /\ fork = [f \in DOMAIN fork |-> fork[f]]
    /\ ~Alone =>
        /\ fork.into \in live /\ fork.from \in live /\ fork.into # fork.from
        /\ sealed[fork.from] /\ ~sealed[fork.into]
        /\ shared[fork.into] = 0
        /\ fork.tokens \in 1 .. MaxRows
        /\ fork.tokens <= resident[fork.into] /\ fork.tokens <= resident[fork.from]
        /\ fork.region \in AllRegions
        /\ fork.page \in 1 .. WholePages(fork.tokens) + 1

\* A page is mapped where it was created, or where the prefix it holds is.
Placed == \A c \in Caches, g \in AllRegions : \A i \in Slots(c, g) :
    pages[c][g][i][1] = g /\ pages[c][g][i][2] = i

\* What two caches map, neither may write.
Sharing == \A c, d \in live : c # d =>
    \A g \in AllRegions : \A i \in Slots(c, g) \cap Slots(d, g) :
        pages[c][g][i] = pages[d][g][i] => access[c][g][i] = "read"

\* The pages that the fork under way has shared.
Done(g, i) ==
    /\ i <= WholePages(fork.tokens)
    /\ g < fork.region \/ (g = fork.region /\ i < fork.page)

\* What an unsealed cache may not write is of its prefix.
ReadOnly == \A c \in live : ~sealed[c] =>
    \A g \in AllRegions : \A i \in Slots(c, g) : access[c][g][i] = "read" =>
        IF c = fork.into THEN Done(g, i) ELSE i * PageRows <= shared[c]

\* Past its prefix a cache has its own rows.
Prefix(c) == IF c = fork.into THEN fork.tokens ELSE shared[c]
OwnRows == \A c \in live, g \in AllRegions :
    \A i \in Prefix(c) .. Len(pages[c][g]) * PageRows - 1 : Seen(c, g, i) \in {c, Zero}

\* A page comes from the driver, and goes back to it, with nothing on it.
Clear == \A p \in Pages \ handles : rows[p] = Blank

\* What the fork has done: whole pages are the source's, rows of finished
\* regions those of the source.
Copied == ~Alone => \A g \in AllRegions :
    /\ \A i \in 1 .. WholePages(fork.tokens) :
        Done(g, i) => pages[fork.into][g][i] = pages[fork.from][g][i]
    /\ g < fork.region => \A i \in 0 .. fork.tokens - 1 :
        Seen(fork.into, g, i) = Seen(fork.from, g, i)

\* A shared prefix is resident.
PrefixIsResident == \A c \in live : shared[c] <= resident[c]

Inductive ==
    /\ Types /\ Sizes /\ Flags /\ Empty /\ Forking /\ Placed /\ MappedPagesExist /\ Sharing
    /\ ReadOnly /\ OwnRows /\ Clear /\ Copied /\ ResidentRowsAreCommitted /\ NeverFaults
    /\ PrefixIsResident

-----------------------------------------------------------------------------
(* Who maps what *)

LEMMA RegionsHold ==
    ASSUME NEW m \in [AllRegions -> Seq(Pages)], NEW p
    PROVE  p \in UNION {Range(m[g]) : g \in AllRegions} <=>
               \E g \in AllRegions : \E i \in 1 .. Len(m[g]) : m[g][i] = p
<1>1. \A g \in AllRegions : DOMAIN m[g] = 1 .. Len(m[g])
  OBVIOUS
<1> QED
  BY <1>1 DEF Range

LEMMA HeldPages ==
    ASSUME Types, NEW c \in Caches, NEW p
    PROVE  p \in Held(c) <=> \E g \in AllRegions : \E i \in Slots(c, g) : pages[c][g][i] = p
<1>1. pages[c] \in [AllRegions -> Seq(Pages)]
  BY DEF Types
<1> QED
  BY <1>1, RegionsHold DEF Held, Slots

LEMMA HeldPagesNext ==
    ASSUME Types', NEW c \in Caches, NEW p
    PROVE  p \in Held(c)' <=> \E g \in AllRegions : \E i \in Slots(c, g)' : pages'[c][g][i] = p
<1>1. pages'[c] \in [AllRegions -> Seq(Pages)]
  BY DEF Types
<1> QED
  BY <1>1, RegionsHold DEF Held, Slots

\* A row that a cache has is on a page that it maps.
LEMMA RowIsMapped ==
    ASSUME Types, NEW c \in Caches, NEW g \in AllRegions, NEW i \in Nat,
           i < Len(pages[c][g]) * PageRows
    PROVE  i \div PageRows + 1 \in Slots(c, g)
<1>1. Len(pages[c][g]) \in Nat
  BY DEF Types
<1> QED
  BY <1>1, RowBelow DEF Slots

LEMMA MappedIsPage ==
    ASSUME Types, NEW c \in Caches, NEW g \in AllRegions, NEW i \in Slots(c, g)
    PROVE  pages[c][g][i] \in Pages /\ access[c][g][i] \in {"read", "readwrite"}
  BY DEF Types, Slots

\* A page that a cache maps exists.
LEMMA MappedIsHeld ==
    ASSUME Types, MappedPagesExist, NEW c \in live, NEW g \in AllRegions, NEW i \in Slots(c, g)
    PROVE  pages[c][g][i] \in handles
  BY HeldPages DEF Types, MappedPagesExist

\* Each cache maps one page at most at a position, and there is one page more
\* than there are caches: the driver always has a page to give.
LEMMA SparePage ==
    ASSUME Types, Placed, MappedPagesExist, NEW g \in AllRegions, NEW i \in 1 .. Reserved
    PROVE  /\ NewPage(g, i) \in Pages \ handles
           /\ NewPage(g, i)[1] = g /\ NewPage(g, i)[2] = i
<1> DEFINE N == Cardinality(Caches)
           maps(c, k) == i \in Slots(c, g) /\ pages[c][g][i] = <<g, i, k>>
           f == [k \in 1 .. N + 1 |-> CHOOSE c \in Caches : maps(c, k)]
<1>1. IsFiniteSet(Caches) /\ N \in Nat
  BY KvForkAssumption, FS_CardinalityType
<1>2. IsFiniteSet(1 .. N + 1) /\ Cardinality(1 .. N + 1) = N + 1
  <2> HIDE DEF N
  <2> QED
    BY <1>1, FS_Interval
<1>3. \E k \in 1 .. N + 1 : <<g, i, k>> \notin handles
  <2> SUFFICES ASSUME \A k \in 1 .. N + 1 : <<g, i, k>> \in handles
               PROVE  FALSE
    OBVIOUS
  <2>1. ASSUME NEW k \in 1 .. N + 1 PROVE \E c \in Caches : maps(c, k)
    <3>1. PICK c \in live : <<g, i, k>> \in Held(c)
      BY DEF MappedPagesExist
    <3>2. c \in Caches
      BY DEF Types
    <3>3. PICK g2 \in AllRegions :
              \E i2 \in Slots(c, g2) : pages[c][g2][i2] = <<g, i, k>>
      BY <3>1, <3>2, HeldPages
    <3>4. PICK i2 \in Slots(c, g2) : pages[c][g2][i2] = <<g, i, k>>
      BY <3>3
    <3>5. g2 = g /\ i2 = i
      BY <3>2, <3>4 DEF Placed
    <3> QED
      BY <3>2, <3>4, <3>5
  <2>2. \A k \in 1 .. N + 1 : f[k] \in Caches /\ maps(f[k], k)
    BY <2>1
  <2> HIDE DEF f
  <2>3. f \in [1 .. N + 1 -> Caches]
    BY <2>2 DEF f
  <2>4. PICK x \in 1 .. N + 1, y \in 1 .. N + 1 : x # y /\ f[x] = f[y]
    <3>1. Cardinality(Caches) < Cardinality(1 .. N + 1)
      BY <1>1, <1>2
    <3> QED
      BY <1>1, <1>2, <2>3, <3>1, FS_PigeonHole
  <2>5. <<g, i, x>> = <<g, i, y>>
    BY <2>2, <2>4
  <2> QED
    BY <2>4, <2>5
<1>4. PICK k \in 1 .. N + 1 : NewPage(g, i) = <<g, i, k>> /\ <<g, i, k>> \notin handles
  BY <1>3 DEF NewPage
<1>5. <<g, i, k>> \in Pages
  BY DEF Pages, AllRegions
<1> QED
  BY <1>4, <1>5

-----------------------------------------------------------------------------
(* What the calls do to the mappings *)

\* The pages of c go on with pages of the driver.
Appended(c, target) ==
    /\ pages' \in [Caches -> [AllRegions -> Seq(Pages)]]
    /\ access' \in [Caches -> [AllRegions -> Seq({"read", "readwrite"})]]
    /\ \A d \in Caches \ {c} : pages'[d] = pages[d] /\ access'[d] = access[d]
    /\ \A g \in AllRegions :
        /\ Len(pages'[c][g]) = (IF target[g] > Len(pages[c][g]) THEN target[g] ELSE Len(pages[c][g]))
        /\ Len(access'[c][g]) = Len(pages'[c][g])
        /\ \A i \in Slots(c, g) :
            pages'[c][g][i] = pages[c][g][i] /\ access'[c][g][i] = access[c][g][i]
        /\ \A i \in Slots(c, g)' \ Slots(c, g) :
            /\ i \in 1 .. Reserved
            /\ pages'[c][g][i] = NewPage(g, i)
            /\ access'[c][g][i] = "readwrite"
    /\ handles' = handles \cup UNION {{pages'[c][g][i] : i \in Slots(c, g)' \ Slots(c, g)} : g \in AllRegions}

LEMMA MadeSequence ==
    ASSUME NEW S, NEW k \in Int, NEW t \in [1 .. k -> S]
    PROVE  t \in Seq(S) /\ Len(t) = (IF k > 0 THEN k ELSE 0)
<1>1. CASE k > 0
  BY <1>1
<1>2. CASE k <= 0
  <2>1. 1 .. k = 1 .. 0
    BY <1>2
  <2>2. t \in [1 .. 0 -> S]
    BY <2>1
  <2>3. t \in Seq(S) /\ Len(t) = 0
    BY <2>2
  <2> QED
    BY <1>2, <2>3
<1> QED
  BY <1>1, <1>2

LEMMA Concatenation ==
    ASSUME NEW S, NEW s \in Seq(S), NEW t \in Seq(S)
    PROVE  /\ s \o t \in Seq(S)
           /\ Len(s \o t) = Len(s) + Len(t)
           /\ \A i \in 1 .. Len(s) : (s \o t)[i] = s[i]
           /\ \A i \in Len(s) + 1 .. Len(s) + Len(t) : (s \o t)[i] = t[i - Len(s)]
  OBVIOUS

LEMMA CommitAppends ==
    ASSUME Inductive, NEW c \in Caches, NEW target \in [AllRegions -> 0 .. Reserved],
           Commit(c, target)
    PROVE  Appended(c, target)
<1> DEFINE more(g) == target[g] - Len(pages[c][g])
           new(g) == [i \in 1 .. more(g) |-> NewPage(g, Len(pages[c][g]) + i)]
           free(g) == [i \in DOMAIN new(g) |-> "readwrite"]
<1>1. ASSUME NEW g \in AllRegions
      PROVE  /\ more(g) \in Int /\ Len(pages[c][g]) \in Nat
             /\ pages[c][g] \in Seq(Pages)
             /\ access[c][g] \in Seq({"read", "readwrite"})
             /\ Len(access[c][g]) = Len(pages[c][g])
             /\ target[g] \in 0 .. Reserved
  BY KvForkAssumption DEF Inductive, Types
<1>2. ASSUME NEW g \in AllRegions
      PROVE  /\ new(g) \in Seq(Pages)
             /\ free(g) \in Seq({"read", "readwrite"})
             /\ Len(new(g)) = IF more(g) > 0 THEN more(g) ELSE 0
             /\ Len(free(g)) = Len(new(g))
  <2>1. ASSUME NEW i \in 1 .. more(g)
        PROVE  Len(pages[c][g]) + i \in 1 .. Reserved
    BY <1>1, KvForkAssumption
  <2>2. new(g) \in [1 .. more(g) -> Pages]
    BY <2>1, SparePage DEF Inductive
  <2>3. free(g) \in [1 .. more(g) -> {"read", "readwrite"}]
    BY <2>2
  <2> HIDE DEF new, free, more
  <2> QED
    BY <1>1, <2>2, <2>3, MadeSequence
<1>3. \A g \in AllRegions : pages'[c][g] = pages[c][g] \o new(g)
  BY DEF Commit, Committed, Inductive, Types
<1>4. \A g \in AllRegions : access'[c][g] = access[c][g] \o free(g)
  BY DEF Commit, Committed, Inductive, Types
<1>5. \A d \in Caches \ {c} : pages'[d] = pages[d] /\ access'[d] = access[d]
  BY DEF Commit, Inductive, Types
<1>6. handles' = handles \cup UNION {Range(new(g)) : g \in AllRegions}
  BY DEF Commit, Committed
<1>7. ASSUME NEW g \in AllRegions
      PROVE  /\ DOMAIN new(g) = 1 .. more(g) /\ DOMAIN free(g) = 1 .. more(g)
             /\ \A i \in 1 .. more(g) :
                    new(g)[i] = NewPage(g, Len(pages[c][g]) + i) /\ free(g)[i] = "readwrite"
  OBVIOUS
<1> HIDE DEF new, free
<1>8. ASSUME NEW g \in AllRegions
      PROVE  /\ pages'[c][g] \in Seq(Pages)
             /\ access'[c][g] \in Seq({"read", "readwrite"})
             /\ Len(pages'[c][g]) = (IF target[g] > Len(pages[c][g]) THEN target[g] ELSE Len(pages[c][g]))
             /\ Len(access'[c][g]) = Len(pages'[c][g])
             /\ \A i \in Slots(c, g) :
                    pages'[c][g][i] = pages[c][g][i] /\ access'[c][g][i] = access[c][g][i]
             /\ \A i \in Slots(c, g)' \ Slots(c, g) :
                    /\ i - Len(pages[c][g]) \in 1 .. more(g)
                    /\ i \in 1 .. Reserved
                    /\ pages'[c][g][i] = NewPage(g, i)
                    /\ access'[c][g][i] = "readwrite"
  <2> DEFINE s == pages[c][g]  a == access[c][g]  t == new(g)  b == free(g)
  <2>1. /\ s \in Seq(Pages) /\ t \in Seq(Pages) /\ Len(t) = IF more(g) > 0 THEN more(g) ELSE 0
        /\ pages'[c][g] = s \o t
    BY <1>1, <1>2, <1>3
  <2>2. /\ a \in Seq({"read", "readwrite"}) /\ b \in Seq({"read", "readwrite"})
        /\ Len(a) = Len(s) /\ Len(b) = Len(t)
        /\ access'[c][g] = a \o b
    BY <1>1, <1>2, <1>4
  <2>3. \A i \in 1 .. more(g) : t[i] = NewPage(g, Len(s) + i) /\ b[i] = "readwrite"
    BY <1>7
  <2>4. more(g) = target[g] - Len(s) /\ target[g] \in Nat /\ Reserved \in Nat /\ target[g] <= Reserved
    BY <1>1, KvForkAssumption
  <2>5. Slots(c, g) = 1 .. Len(s) /\ Slots(c, g)' = 1 .. Len(s \o t)
    BY <2>1 DEF Slots
  <2> HIDE DEF s, a, t, b, more
  <2>6. /\ s \o t \in Seq(Pages) /\ a \o b \in Seq({"read", "readwrite"})
        /\ Len(s \o t) = Len(s) + Len(t) /\ Len(a \o b) = Len(s \o t)
    <3>1. s \o t \in Seq(Pages) /\ Len(s \o t) = Len(s) + Len(t)
      BY <2>1, Concatenation
    <3>2. a \o b \in Seq({"read", "readwrite"}) /\ Len(a \o b) = Len(a) + Len(b)
      BY <2>2, Concatenation
    <3> QED
      BY <2>2, <3>1, <3>2
  <2>7. Len(s \o t) = (IF target[g] > Len(s) THEN target[g] ELSE Len(s))
    BY <2>1, <2>4, <2>6
  <2>8. \A i \in 1 .. Len(s) : (s \o t)[i] = s[i] /\ (a \o b)[i] = a[i]
    BY <2>1, <2>2, Concatenation
  <2>9. ASSUME NEW i \in (1 .. Len(s \o t)) \ (1 .. Len(s))
        PROVE  /\ i - Len(s) \in 1 .. more(g) /\ i \in 1 .. Reserved
               /\ (s \o t)[i] = NewPage(g, i)
               /\ (a \o b)[i] = "readwrite"
    <3>1. i - Len(s) \in 1 .. more(g) /\ i \in 1 .. Reserved /\ i - Len(s) \in 1 .. Len(t)
      BY <2>1, <2>4, <2>6, <2>7
    <3>2. (s \o t)[i] = t[i - Len(s)] /\ (a \o b)[i] = b[i - Len(s)]
      BY SMTT(30), <2>1, <2>2, <2>6, <3>1, Concatenation
    <3>3. Len(s) + (i - Len(s)) = i
      BY <2>1
    <3> QED
      BY <2>3, <3>1, <3>2, <3>3
  <2> QED
    BY <2>1, <2>2, <2>5, <2>6, <2>7, <2>8, <2>9 DEF s, a
<1>9. pages' \in [Caches -> [AllRegions -> Seq(Pages)]]
  <2>1. pages' = [pages EXCEPT ![c] = [g \in AllRegions |-> pages'[c][g]]]
    BY DEF Commit, Inductive, Types
  <2> QED
    BY <1>8, <2>1 DEF Inductive, Types
<1>10. access' \in [Caches -> [AllRegions -> Seq({"read", "readwrite"})]]
  <2>1. access' = [access EXCEPT ![c] = [g \in AllRegions |-> access'[c][g]]]
    BY DEF Commit, Inductive, Types
  <2> QED
    BY <1>8, <2>1 DEF Inductive, Types
<1>11. ASSUME NEW g \in AllRegions
       PROVE  Range(new(g)) = {pages'[c][g][i] : i \in Slots(c, g)' \ Slots(c, g)}
  <2> DEFINE l == Len(pages[c][g])  m == more(g)  fresh == Slots(c, g)' \ Slots(c, g)
  <2>1. l \in Nat /\ m \in Int
    BY <1>1
  <2>2. fresh = {i \in Int : i - l \in 1 .. m}
    <3>1. Len(pages'[c][g]) = (IF m > 0 THEN l + m ELSE l)
      BY <1>1, <1>8
    <3>2. fresh = (1 .. Len(pages'[c][g])) \ (1 .. l)
      BY DEF Slots
    <3> HIDE DEF l, m, fresh
    <3> QED
      BY <2>1, <3>1, <3>2
  <2>3. \A i \in fresh : pages'[c][g][i] = NewPage(g, i)
    BY <1>8
  <2>4. \A j \in 1 .. m : new(g)[j] = NewPage(g, l + j)
    BY <1>7
  <2>5. DOMAIN new(g) = 1 .. m
    BY <1>7
  <2> HIDE DEF l, m, fresh
  <2>6. \A j \in 1 .. m : l + j \in fresh /\ new(g)[j] = pages'[c][g][l + j]
    BY <2>1, <2>2, <2>3, <2>4
  <2>7. \A i \in fresh : i - l \in 1 .. m /\ new(g)[i - l] = pages'[c][g][i]
    <3> TAKE i \in fresh
    <3>1. i \in Int /\ i - l \in 1 .. m /\ l + (i - l) = i
      BY <2>1, <2>2
    <3> QED
      BY <2>6, <3>1
  <2> QED
    BY <2>5, <2>6, <2>7 DEF Range, fresh
<1> QED
  BY <1>5, <1>6, <1>8, <1>9, <1>10, <1>11 DEF Appended

LEMMA AppendFresh ==
    ASSUME Inductive, NEW c \in Caches, NEW target, Appended(c, target),
           NEW g \in AllRegions, NEW i \in Slots(c, g)' \ Slots(c, g)
    PROVE  /\ pages'[c][g][i] \in Pages \ handles
           /\ pages'[c][g][i][1] = g /\ pages'[c][g][i][2] = i
           /\ access'[c][g][i] = "readwrite"
<1>1. i \in 1 .. Reserved /\ pages'[c][g][i] = NewPage(g, i) /\ access'[c][g][i] = "readwrite"
  BY DEF Appended
<1> QED
  BY <1>1, SparePage DEF Inductive

\* What appending pages to a living or a new cache leaves true of the mappings.
LEMMA AppendKeeps ==
    ASSUME Inductive, NEW c \in Caches, NEW target \in [AllRegions -> 0 .. Reserved],
           Appended(c, target), live' = live \cup {c}, rows' = rows
    PROVE  Types' /\ Placed' /\ MappedPagesExist' /\ Sharing' /\ Clear'
<1>1. Types'
  <2>1. ASSUME NEW g \in AllRegions
        PROVE  Len(access'[c][g]) = Len(pages'[c][g]) /\ Len(pages'[c][g]) <= Reserved
    <3>1. Len(pages[c][g]) \in Nat /\ Len(pages[c][g]) <= Reserved /\ target[g] <= Reserved
      BY KvForkAssumption DEF Inductive, Types
    <3>2. /\ Len(pages'[c][g]) = (IF target[g] > Len(pages[c][g]) THEN target[g] ELSE Len(pages[c][g]))
          /\ Len(access'[c][g]) = Len(pages'[c][g])
      BY DEF Appended
    <3> QED
      BY <3>1, <3>2
  <2>2. ASSUME NEW d \in Caches, NEW g \in AllRegions
        PROVE  Len(access'[d][g]) = Len(pages'[d][g]) /\ Len(pages'[d][g]) <= Reserved
    <3>1. d # c => pages'[d] = pages[d] /\ access'[d] = access[d]
      BY DEF Appended
    <3>2. Len(access[d][g]) = Len(pages[d][g]) /\ Len(pages[d][g]) <= Reserved
      BY DEF Inductive, Types
    <3> QED
      BY <2>1, <3>1, <3>2
  <2>3. handles' \in SUBSET Pages
    <3>1. \A g \in AllRegions : \A i \in Slots(c, g)' \ Slots(c, g) : pages'[c][g][i] \in Pages
      BY AppendFresh
    <3>2. handles \in SUBSET Pages
      BY DEF Inductive, Types
    <3> QED
      BY <3>1, <3>2 DEF Appended
  <2>4. pages' \in [Caches -> [AllRegions -> Seq(Pages)]]
    BY DEF Appended
  <2>5. access' \in [Caches -> [AllRegions -> Seq({"read", "readwrite"})]]
    BY DEF Appended
  <2>6. live' \in SUBSET Caches /\ rows' \in [Pages -> [0 .. PageRows - 1 -> Caches \cup {Zero}]]
    BY DEF Inductive, Types
  <2> QED
    BY <2>2, <2>3, <2>4, <2>5, <2>6 DEF Types
<1>2. ASSUME NEW d \in Caches, d # c, NEW g \in AllRegions
      PROVE  Slots(d, g)' = Slots(d, g) /\ pages'[d][g] = pages[d][g] /\ access'[d][g] = access[d][g]
  BY <1>2 DEF Appended, Slots
<1>3. ASSUME NEW g \in AllRegions, NEW i \in Slots(c, g)
      PROVE  pages'[c][g][i] = pages[c][g][i] /\ access'[c][g][i] = access[c][g][i]
  BY DEF Appended
<1>4. Placed'
  BY <1>2, <1>3, AppendFresh DEF Placed, Inductive
<1>5. c \notin live => \A g \in AllRegions : Slots(c, g) = {}
  BY DEF Inductive, Empty, NoPages, Slots
<1>6. \A d \in live : d \in Caches
  BY DEF Inductive, Types
<1>7. MappedPagesExist'
  <2>1. ASSUME NEW p \in handles PROVE \E d \in live' : p \in Held(d)'
    <3>1. PICK d \in live : p \in Held(d)
      BY DEF Inductive, MappedPagesExist
    <3>2. PICK g \in AllRegions : \E i \in Slots(d, g) : pages[d][g][i] = p
      BY <1>6, <3>1, HeldPages DEF Inductive
    <3>3. PICK i \in Slots(d, g) : pages[d][g][i] = p
      BY <3>2
    <3>4. i \in Slots(d, g)' /\ pages'[d][g][i] = p
      <4>1. CASE d = c
        <5>1. i \in Slots(c, g)'
          BY <3>3, <4>1 DEF Slots, Appended, Inductive, Types
        <5> QED
          BY <1>3, <3>3, <4>1, <5>1
      <4>2. CASE d # c
        BY <1>2, <1>6, <3>3, <4>2
      <4> QED
        BY <4>1, <4>2
    <3>5. p \in Held(d)'
      BY <1>1, <1>6, <3>4, HeldPagesNext
    <3> QED
      BY <3>5
  <2>2. \A g \in AllRegions : \A i \in Slots(c, g)' \ Slots(c, g) : pages'[c][g][i] \in Held(c)'
    BY <1>1, HeldPagesNext
  <2>3. ASSUME NEW d \in live', NEW p \in Held(d)' PROVE p \in handles'
    <3>1. PICK g \in AllRegions : \E i \in Slots(d, g)' : pages'[d][g][i] = p
      BY <1>1, <1>6, HeldPagesNext
    <3>2. PICK i \in Slots(d, g)' : pages'[d][g][i] = p
      BY <3>1
    <3>3. CASE i \in Slots(d, g)
      <4>1. d \in live /\ pages[d][g][i] = p
        BY <1>2, <1>3, <1>5, <1>6, <3>2, <3>3
      <4>2. p \in handles
        BY <4>1, <3>3, MappedIsHeld DEF Inductive
      <4> QED
        BY <4>2 DEF Appended
    <3>4. CASE i \notin Slots(d, g)
      <4>1. d = c
        BY <1>2, <1>6, <3>2, <3>4
      <4> QED
        BY <3>2, <3>4, <4>1 DEF Appended
    <3> QED
      BY <3>3, <3>4
  <2>4. \A p \in handles' : p \in handles \/
            \E g \in AllRegions : \E i \in Slots(c, g)' \ Slots(c, g) : p = pages'[c][g][i]
    BY DEF Appended
  <2>5. \A p \in handles' : \E d \in live' : p \in Held(d)'
    BY <2>1, <2>2, <2>4
  <2> QED
    BY <2>3, <2>5 DEF MappedPagesExist
<1>8. Sharing'
  <2> SUFFICES ASSUME NEW x \in live', NEW y \in live', x # y, NEW g \in AllRegions,
                      NEW i \in Slots(x, g)' \cap Slots(y, g)', pages'[x][g][i] = pages'[y][g][i]
               PROVE  access'[x][g][i] = "read"
    BY DEF Sharing
  <2>1. ASSUME NEW z \in live', i \in Slots(z, g), z \in Caches
        PROVE  /\ z \in live /\ pages'[z][g][i] = pages[z][g][i]
               /\ access'[z][g][i] = access[z][g][i] /\ pages[z][g][i] \in handles
    <3>1. z \in live
      BY <1>5, <2>1
    <3>2. pages'[z][g][i] = pages[z][g][i] /\ access'[z][g][i] = access[z][g][i]
      BY <1>2, <1>3, <2>1
    <3> QED
      BY <2>1, <3>1, <3>2, MappedIsHeld DEF Inductive
  <2>2. ASSUME NEW z \in live', i \notin Slots(z, g), i \in Slots(z, g)', z \in Caches
        PROVE  z = c /\ pages'[z][g][i] \notin handles
    <3>1. z = c
      BY <1>2, <2>2
    <3> QED
      BY <2>2, <3>1, AppendFresh
  <2>3. x \in Caches /\ y \in Caches
    BY <1>6
  <2>4. i \in Slots(x, g) /\ i \in Slots(y, g)
    BY <2>1, <2>2, <2>3
  <2>5. x \in live /\ y \in live /\ pages[x][g][i] = pages[y][g][i]
    BY <2>1, <2>3, <2>4
  <2>6. access[x][g][i] = "read"
    BY <2>4, <2>5 DEF Inductive, Sharing
  <2> QED
    BY <2>1, <2>3, <2>4, <2>6
<1>9. Clear'
  BY DEF Clear, Inductive, Appended
<1> QED
  BY <1>1, <1>4, <1>7, <1>8, <1>9

LEMMA AppendRows ==
    ASSUME Inductive, NEW c \in Caches, NEW target, Appended(c, target),
           live' = live \cup {c}, rows' = rows,
           NEW x \in live', NEW g \in AllRegions, NEW i \in Nat,
           i < Len(pages'[x][g]) * PageRows
    PROVE  \/ x \in live /\ i < Len(pages[x][g]) * PageRows /\ Seen(x, g, i)' = Seen(x, g, i)
           \/ Seen(x, g, i)' = Zero
<1> DEFINE k == i \div PageRows + 1
<1>1. x \in Caches /\ Len(pages'[x][g]) \in Nat
  BY DEF Appended, Inductive, Types
<1>2. k \in Slots(x, g)'
  BY <1>1, RowBelow DEF Slots
<1>3. i % PageRows \in 0 .. PageRows - 1 /\ i \div PageRows \in Nat
  BY RowOnPage
<1>4. Seen(x, g, i)' = rows[pages'[x][g][k]][i % PageRows]
  BY DEF Seen
<1> HIDE DEF k
<1>5. CASE k \in Slots(x, g)
  <2>1. pages'[x][g][k] = pages[x][g][k]
    BY <1>1, <1>5 DEF Appended
  <2>2. x \in live
    BY <1>1, <1>5 DEF Inductive, Empty, NoPages, Slots
  <2>3. i < Len(pages[x][g]) * PageRows
    <3>1. Len(pages[x][g]) \in Nat
      BY <1>1 DEF Inductive, Types
    <3>2. ~ (Len(pages[x][g]) <= i \div PageRows)
      BY <1>3, <1>5, <3>1 DEF Slots, k
    <3>3. ~ (Len(pages[x][g]) * PageRows <= i)
      BY <3>1, <3>2, RowAbove
    <3>4. Len(pages[x][g]) * PageRows \in Nat
      BY <3>1, KvForkAssumption
    <3> QED
      BY <3>3, <3>4
  <2> QED
    BY <1>4, <2>1, <2>2, <2>3 DEF Seen, k
<1>6. CASE k \notin Slots(x, g)
  <2>1. x = c
    BY <1>1, <1>2, <1>6 DEF Appended, Slots
  <2>2. pages'[x][g][k] \in Pages \ handles
    BY <1>2, <1>6, <2>1, AppendFresh
  <2>3. rows[pages'[x][g][k]] = Blank
    BY <2>2 DEF Inductive, Clear
  <2> QED
    BY <1>3, <1>4, <2>3 DEF Blank
<1> QED
  BY <1>5, <1>6

LEMMA AppendReads ==
    ASSUME Inductive, NEW c \in Caches, NEW target, Appended(c, target),
           live' = live \cup {c},
           NEW x \in live', NEW g \in AllRegions, NEW i \in Slots(x, g)',
           access'[x][g][i] = "read"
    PROVE  x \in live /\ i \in Slots(x, g) /\ access[x][g][i] = "read"
<1>1. x \in Caches
  BY DEF Inductive, Types
<1>2. i \in Slots(x, g)
  <2>1. CASE x = c
    BY <2>1, AppendFresh
  <2>2. CASE x # c
    BY <1>1, <2>2 DEF Appended, Slots
  <2> QED
    BY <2>1, <2>2
<1>3. x \in live
  BY <1>1, <1>2 DEF Inductive, Empty, NoPages, Slots
<1>4. access'[x][g][i] = access[x][g][i]
  BY <1>1, <1>2 DEF Appended
<1> QED
  BY <1>2, <1>3, <1>4

\* Nothing shrinks.
LEMMA AppendLengths ==
    ASSUME Inductive, NEW c \in Caches, NEW target \in [AllRegions -> 0 .. Reserved],
           Appended(c, target), NEW x \in Caches, NEW g \in AllRegions
    PROVE  /\ Len(pages[x][g]) \in Nat /\ Len(pages'[x][g]) \in Nat
           /\ Len(pages'[x][g]) <= Reserved
           /\ Len(pages[x][g]) <= Len(pages'[x][g])
           /\ x = c => target[g] <= Len(pages'[x][g])
<1>1. /\ Len(pages[x][g]) \in Nat /\ Len(pages[x][g]) <= Reserved
      /\ target[g] \in Nat /\ target[g] <= Reserved
  BY KvForkAssumption DEF Inductive, Types
<1>2. x # c => pages'[x] = pages[x]
  BY DEF Appended
<1>3. Len(pages'[c][g]) = (IF target[g] > Len(pages[c][g]) THEN target[g] ELSE Len(pages[c][g]))
  BY DEF Appended
<1> QED
  BY <1>1, <1>2, <1>3

LEMMA NothingAppended ==
    ASSUME Inductive, NEW c \in Caches, UNCHANGED <<pages, access, handles>>
    PROVE  Appended(c, [g \in AllRegions |-> 0])
<1>1. \A g \in AllRegions : Slots(c, g)' = Slots(c, g) /\ Len(pages[c][g]) \in Nat
  BY DEF Slots, Inductive, Types
<1>2. UNION {{pages'[c][g][i] : i \in Slots(c, g)' \ Slots(c, g)} : g \in AllRegions} = {}
  BY <1>1
<1>3. handles' = handles \cup {}
  OBVIOUS
<1> QED
  BY <1>1, <1>2, <1>3 DEF Appended, Inductive, Types

\* Rows asked for are there when ensure_context() returns, in every region.
LEMMA GrowAppends ==
    ASSUME Inductive, NEW c \in live, NEW n \in 1 .. MaxRows, Grow(c, n)
    PROVE  /\ \E target \in [AllRegions -> 0 .. Reserved] : Appended(c, target)
           /\ resident' \in [Caches -> 0 .. MaxRows]
           /\ \A d \in Caches \ {c} : resident'[d] = resident[d]
           /\ n <= resident'[c] /\ resident[c] <= resident'[c]
           /\ \A g \in AllRegions : resident'[c] <= Len(pages'[c][g]) * PageRows
<1>1. c \in Caches /\ n \in Nat /\ MaxRows \in Nat /\ resident[c] \in Nat
  BY KvForkAssumption DEF Inductive, Types, Sizes
<1>2. CASE n <= resident[c]
  <2>1. UNCHANGED <<pages, access, handles>> /\ resident' = resident
    BY <1>2 DEF Grow
  <2>2. Appended(c, [g \in AllRegions |-> 0])
    BY <1>1, <2>1, NothingAppended
  <2>3. [g \in AllRegions |-> 0] \in [AllRegions -> 0 .. Reserved]
    BY KvForkAssumption
  <2>4. \A g \in AllRegions : resident'[c] <= Len(pages'[c][g]) * PageRows
    BY <2>1 DEF Inductive, ResidentRowsAreCommitted, Committed
  <2> QED
    BY <1>1, <1>2, <2>1, <2>2, <2>3, <2>4 DEF Inductive, Sizes
<1>3. CASE ~ (n <= resident[c])
  <2> DEFINE target == [g \in AllRegions |-> PagesFor(n)]
             sizes == {MaxRows} \cup {Len(pages'[c][g]) * PageRows : g \in AllRegions}
  <2>1. Commit(c, target) /\ resident' = [resident EXCEPT ![c] = ResidentRows(c)]
    BY <1>3 DEF Grow
  <2>2. PagesFor(n) \in 0 .. Reserved /\ n <= PagesFor(n) * PageRows
    BY <1>1, PagesHold, KvForkAssumption
  <2>3. target \in [AllRegions -> 0 .. Reserved]
    BY <2>2
  <2>4. Appended(c, target)
    BY <1>1, <2>1, <2>3, CommitAppends
  <2>5. ASSUME NEW g \in AllRegions
        PROVE  Len(pages'[c][g]) * PageRows \in Nat /\ n <= Len(pages'[c][g]) * PageRows
    <3>1. /\ Len(pages'[c][g]) \in Nat
          /\ PagesFor(n) <= Len(pages'[c][g]) /\ Len(pages'[c][g]) <= Reserved
      <4>1. target[g] = PagesFor(n)
        OBVIOUS
      <4> QED
        BY <1>1, <2>3, <2>4, <4>1, AppendLengths
    <3>2. /\ PagesFor(n) * PageRows <= Len(pages'[c][g]) * PageRows
          /\ Len(pages'[c][g]) * PageRows <= Reserved * PageRows
          /\ PagesFor(n) * PageRows \in Nat /\ Len(pages'[c][g]) * PageRows \in Nat
      BY SMTT(30), <2>2, <3>1, MorePagesMoreRows, KvForkAssumption
    <3> QED
      BY <1>1, <2>2, <3>2
  <2>6. sizes \in SUBSET Nat /\ (\A k \in sizes : n <= k) /\ MaxRows \in sizes
    BY <1>1, <2>5
  <2>7. sizes # {}
    BY <2>6
  <2>8. ResidentRows(c) = Min(sizes)
    BY DEF ResidentRows
  <2> HIDE DEF sizes
  <2>9. Min(sizes) \in sizes /\ \A k \in sizes : Min(sizes) <= k
    BY <2>6, <2>7, MinIsLeast
  <2>10. Min(sizes) \in n .. MaxRows
    <3>1. Min(sizes) \in Nat /\ n <= Min(sizes) /\ Min(sizes) <= MaxRows
      BY <2>6, <2>9
    <3> QED
      BY <1>1, <3>1
  <2>11. resident'[c] = Min(sizes) /\ \A d \in Caches \ {c} : resident'[d] = resident[d]
    BY <1>1, <2>1, <2>8 DEF Inductive, Sizes
  <2>12. resident' \in [Caches -> 0 .. MaxRows]
    BY <1>1, <2>1, <2>8, <2>10 DEF Inductive, Sizes
  <2>13. \A g \in AllRegions : resident'[c] <= Len(pages'[c][g]) * PageRows
    BY <2>9, <2>11 DEF sizes
  <2>14. n <= resident'[c] /\ resident[c] <= resident'[c]
    BY <1>1, <1>3, <2>10, <2>11
  <2> QED
    BY <2>3, <2>4, <2>11, <2>12, <2>13, <2>14
<1> QED
  BY <1>2, <1>3

-----------------------------------------------------------------------------
(* The steps that give a cache pages *)

\* Whatever else they do, the rows of every cache and what it may write are
\* what they were, as far as it had them.
LEMMA AppendStep ==
    ASSUME Inductive, NEW c \in Caches, NEW target \in [AllRegions -> 0 .. Reserved],
           Appended(c, target), live' = live \cup {c}, UNCHANGED <<rows, shared, fault>>,
           Alone, fork'.into = Nobody \/ (fork'.into = c /\ shared[c] = 0 /\ c \in live),
           fork'.into # Nobody => fork'.region = 1 /\ fork'.page = 1 /\ fork'.tokens \in Nat,
           \A d \in Caches : ~sealed'[d] => ~sealed[d]
    PROVE  ReadOnly' /\ OwnRows' /\ NeverFaults'
<1>1. \A x \in live' : x \in Caches /\ x # Nobody
  BY KvForkAssumption DEF Inductive, Types
<1>2. fork.into = Nobody
  BY DEF Alone, NoFork
<1>3. ASSUME NEW x \in live', NEW g \in AllRegions, NEW i \in Slots(x, g)',
             access'[x][g][i] = "read", ~sealed'[x]
      PROVE  IF x = fork'.into THEN Done(g, i)' ELSE i * PageRows <= shared'[x]
  <2>1. x \in live /\ i \in Slots(x, g) /\ access[x][g][i] = "read"
    BY <1>3, AppendReads
  <2>2. i * PageRows <= shared[x]
    BY <1>1, <1>2, <1>3, <2>1 DEF Inductive, ReadOnly
  <2>3. i \in Nat /\ i >= 1
    BY <1>1, <2>1 DEF Slots, Inductive, Types
  <2>4. i * PageRows >= 1
    BY <2>3, KvForkAssumption
  <2>5. shared[x] # 0
    BY <2>2, <2>3, <2>4, KvForkAssumption
  <2> QED
    BY <1>1, <2>2, <2>5
<1>4. ReadOnly'
  BY <1>3 DEF ReadOnly
<1>5. OwnRows'
  <2> SUFFICES ASSUME NEW x \in live', NEW g \in AllRegions,
                      NEW i \in Prefix(x)' .. Len(pages'[x][g]) * PageRows - 1
               PROVE  Seen(x, g, i)' \in {x, Zero}
    BY DEF OwnRows
  <2>1. Prefix(x)' \in Nat /\ Prefix(x) \in Nat /\ Prefix(x) <= Prefix(x)'
    BY <1>1, <1>2 DEF Prefix, Inductive, Sizes
  <2>2. Len(pages'[x][g]) * PageRows \in Nat
    <3>1. Len(pages'[x][g]) \in Nat
      BY <1>1, AppendLengths
    <3> QED
      BY <3>1, RowsOfPages
  <2>3. i \in Nat /\ i < Len(pages'[x][g]) * PageRows /\ Prefix(x) <= i
    BY <2>1, <2>2
  <2>4. CASE x \in live /\ i < Len(pages[x][g]) * PageRows /\ Seen(x, g, i)' = Seen(x, g, i)
    <3>1. Len(pages[x][g]) * PageRows \in Nat
      <4>1. Len(pages[x][g]) \in Nat
        BY <1>1, AppendLengths
      <4> QED
        BY <4>1, RowsOfPages
    <3>2. i \in Prefix(x) .. Len(pages[x][g]) * PageRows - 1
      BY <2>1, <2>3, <2>4, <3>1
    <3> QED
      BY <2>4, <3>2 DEF Inductive, OwnRows
  <2> QED
    BY <2>3, <2>4, AppendRows
<1> QED
  BY <1>4, <1>5 DEF NeverFaults, Inductive

LEMMA StepCreate ==
    ASSUME Inductive, NEW c \in Caches, Create(c)
    PROVE  Inductive'
<1> DEFINE target == [g \in AllRegions |-> Initial]
<1>1. Alone /\ c \notin live /\ live' = live \cup {c} /\ Commit(c, target)
  BY DEF Create
<1>2. /\ resident' = [resident EXCEPT ![c] = Min({MaxRows, Initial * PageRows})]
      /\ UNCHANGED <<shared, sealed, rows, fault, fork>>
  BY DEF Create
<1>3. target \in [AllRegions -> 0 .. Reserved]
  BY KvForkAssumption
<1>4. Appended(c, target)
  BY <1>1, <1>3, CommitAppends
<1>5. Types' /\ Placed' /\ MappedPagesExist' /\ Sharing' /\ Clear'
  BY <1>1, <1>2, <1>3, <1>4, AppendKeeps
<1>6. ReadOnly' /\ OwnRows' /\ NeverFaults'
  <2>1. fork'.into = Nobody
    BY <1>1, <1>2 DEF Alone, NoFork
  <2>2. \A d \in Caches : ~sealed'[d] => ~sealed[d]
    BY <1>2
  <2> QED
    BY <1>1, <1>2, <1>3, <1>4, <2>1, <2>2, AppendStep
<1>7. /\ Min({MaxRows, Initial * PageRows}) \in 0 .. MaxRows
      /\ Min({MaxRows, Initial * PageRows}) <= Initial * PageRows
      /\ Initial * PageRows \in Nat
  <2> DEFINE sizes == {MaxRows, Initial * PageRows}
  <2>1. MaxRows \in Nat /\ Initial * PageRows \in Nat
    BY KvForkAssumption
  <2>2. Min(sizes) \in sizes /\ \A k \in sizes : Min(sizes) <= k
    BY <2>1, MinIsLeast
  <2> QED
    BY <2>1, <2>2
<1>8. Sizes' /\ Flags'
  BY <1>2, <1>7 DEF Sizes, Flags, Inductive
<1>9. Empty'
  BY <1>1, <1>2, <1>4 DEF Empty, Inductive, Sizes, Appended
<1>10. Forking' /\ Copied'
  BY <1>1, <1>2 DEF Inductive, Forking, Copied, Alone
<1>11. ResidentRowsAreCommitted'
  <2> SUFFICES ASSUME NEW d \in live', NEW g \in AllRegions
               PROVE  resident'[d] <= Len(pages'[d][g]) * PageRows
    BY DEF ResidentRowsAreCommitted, Committed
  <2>1. CASE d = c
    <3>1. Initial <= Len(pages'[c][g]) /\ Len(pages'[c][g]) \in Nat
      <4>1. target[g] = Initial
        OBVIOUS
      <4> QED
        BY <1>3, <1>4, <4>1, AppendLengths
    <3>2. Initial * PageRows <= Len(pages'[c][g]) * PageRows /\ Len(pages'[c][g]) * PageRows \in Nat
      BY <3>1, MorePagesMoreRows, KvForkAssumption
    <3>3. resident'[d] = Min({MaxRows, Initial * PageRows})
      BY <1>2, <2>1 DEF Inductive, Sizes
    <3> QED
      BY <1>7, <2>1, <3>2, <3>3
  <2>2. CASE d # c
    BY <1>1, <1>2, <1>4, <2>2
       DEF Appended, Inductive, Types, Sizes, ResidentRowsAreCommitted, Committed
  <2> QED
    BY <2>1, <2>2
<1>12. PrefixIsResident'
  <2> SUFFICES ASSUME NEW x \in live' PROVE shared'[x] <= resident'[x]
    BY DEF PrefixIsResident
  <2>1. CASE x = c
    BY <1>1, <1>2, <1>7, <2>1, KvForkAssumption DEF Inductive, Empty, Sizes
  <2>2. CASE x # c
    <3>1. x \in live /\ x \in Caches /\ resident'[x] = resident[x]
      BY <1>1, <1>2, <2>2 DEF Inductive, Types, Sizes
    <3> QED
      BY <1>2, <3>1 DEF Inductive, PrefixIsResident
  <2> QED
    BY <2>1, <2>2
<1> QED
  BY <1>5, <1>6, <1>8, <1>9, <1>10, <1>11, <1>12 DEF Inductive

\* A cache grows, and no fork begins.
LEMMA StepGrown ==
    ASSUME Inductive, NEW c \in live, NEW target \in [AllRegions -> 0 .. Reserved],
           Alone, Appended(c, target),
           resident' \in [Caches -> 0 .. MaxRows],
           \A d \in Caches \ {c} : resident'[d] = resident[d],
           \A g \in AllRegions : resident'[c] <= Len(pages'[c][g]) * PageRows,
           resident[c] <= resident'[c],
           UNCHANGED <<live, shared, sealed, rows, fault, fork>>
    PROVE  Inductive'
<1>1. c \in Caches /\ live' = live \cup {c}
  BY DEF Inductive, Types
<1>2. Types' /\ Placed' /\ MappedPagesExist' /\ Sharing' /\ Clear'
  BY <1>1, AppendKeeps
<1>3. ReadOnly' /\ OwnRows' /\ NeverFaults'
  <2>1. fork'.into = Nobody
    BY DEF Alone, NoFork
  <2>2. \A d \in Caches : ~sealed'[d] => ~sealed[d]
    OBVIOUS
  <2> QED
    BY <1>1, <2>1, <2>2, AppendStep
<1>4. Sizes' /\ Flags'
  BY DEF Sizes, Flags, Inductive
<1>5. Empty'
  BY DEF Empty, Inductive, Appended
<1>6. Forking' /\ Copied'
  BY DEF Inductive, Forking, Copied, Alone
<1>7. ResidentRowsAreCommitted'
  <2> SUFFICES ASSUME NEW d \in live, d # c, NEW g \in AllRegions
               PROVE  resident'[d] <= Len(pages'[d][g]) * PageRows
    BY DEF ResidentRowsAreCommitted, Committed
  <2>1. d \in Caches /\ resident'[d] = resident[d] /\ pages'[d] = pages[d]
    BY DEF Appended, Inductive, Types
  <2> QED
    BY <2>1 DEF Inductive, ResidentRowsAreCommitted, Committed
<1>8. PrefixIsResident'
  <2> SUFFICES ASSUME NEW x \in live PROVE shared[x] <= resident'[x]
    BY DEF PrefixIsResident
  <2>1. /\ x \in Caches /\ shared[x] \in Nat /\ shared[x] <= resident[x]
        /\ resident[x] \in Nat /\ resident'[x] \in Nat
    BY KvForkAssumption DEF Inductive, Types, Sizes, PrefixIsResident
  <2>2. resident[x] <= resident'[x]
    BY <2>1
  <2> QED
    BY <2>1, <2>2
<1> QED
  BY <1>2, <1>3, <1>4, <1>5, <1>6, <1>7, <1>8 DEF Inductive

LEMMA StepEnsure ==
    ASSUME Inductive, NEW c \in Caches, NEW n \in 1 .. MaxRows, Ensure(c, n)
    PROVE  Inductive'
<1>1. /\ Alone /\ c \in live /\ Grow(c, n)
      /\ UNCHANGED <<live, shared, sealed, rows, fault, fork>>
  BY DEF Ensure
<1>2. PICK target \in [AllRegions -> 0 .. Reserved] : Appended(c, target)
  BY <1>1, GrowAppends
<1>3. /\ resident' \in [Caches -> 0 .. MaxRows]
      /\ \A d \in Caches \ {c} : resident'[d] = resident[d]
      /\ \A g \in AllRegions : resident'[c] <= Len(pages'[c][g]) * PageRows
      /\ resident[c] <= resident'[c]
  BY <1>1, GrowAppends
<1> QED
  BY <1>1, <1>2, <1>3, StepGrown

LEMMA PartlyGrownSizes ==
    ASSUME Inductive, NEW c \in Caches, NEW n \in 1 .. MaxRows, NEW target \in PartlyGrown(c, n)
    PROVE  target \in [AllRegions -> 0 .. Reserved]
<1>1. PagesFor(n) \in 0 .. Reserved
  BY PagesHold, KvForkAssumption
<1>2. \A g \in AllRegions : Len(pages[c][g]) \in 0 .. Reserved
  BY KvForkAssumption DEF Inductive, Types
<1>3. PICK at \in AllRegions : \E k \in Len(pages[c][at]) .. PagesFor(n) - 1 :
          target = [g \in AllRegions |->
              IF g < at THEN (IF PagesFor(n) > Len(pages[c][g]) THEN PagesFor(n) ELSE Len(pages[c][g]))
              ELSE IF g = at THEN k ELSE Len(pages[c][g])]
  BY DEF PartlyGrown, Committed
<1> QED
  BY <1>1, <1>2, <1>3, KvForkAssumption

\* A growth that breaks off has given its pages to some regions, and promises
\* no row that it did not have.
LEMMA StepEnsureFails ==
    ASSUME Inductive, NEW c \in Caches, NEW n \in 1 .. MaxRows, EnsureFails(c, n)
    PROVE  Inductive'
<1>1. Alone /\ c \in live /\ UNCHANGED <<live, shared, sealed, resident, rows, fault, fork>>
  BY DEF EnsureFails, cache
<1>2. PICK target \in PartlyGrown(c, n) : Commit(c, target)
  BY DEF EnsureFails
<1>3. target \in [AllRegions -> 0 .. Reserved]
  BY <1>2, PartlyGrownSizes
<1>4. Appended(c, target)
  BY <1>2, <1>3, CommitAppends
<1>5. \A g \in AllRegions : resident'[c] <= Len(pages'[c][g]) * PageRows
  <2> TAKE g \in AllRegions
  <2>1. /\ Len(pages[c][g]) \in Nat /\ Len(pages'[c][g]) \in Nat
        /\ Len(pages[c][g]) <= Len(pages'[c][g])
    BY <1>3, <1>4, AppendLengths
  <2>2. resident[c] <= Len(pages[c][g]) * PageRows /\ resident[c] \in Nat /\ resident'[c] = resident[c]
    BY <1>1, KvForkAssumption
       DEF Inductive, ResidentRowsAreCommitted, Committed, Sizes
  <2>3. /\ Len(pages[c][g]) * PageRows \in Nat /\ Len(pages'[c][g]) * PageRows \in Nat
        /\ Len(pages[c][g]) * PageRows <= Len(pages'[c][g]) * PageRows
    BY <2>1, MorePagesMoreRows
  <2> QED
    BY <2>2, <2>3
<1>6. /\ resident' \in [Caches -> 0 .. MaxRows]
      /\ \A d \in Caches \ {c} : resident'[d] = resident[d]
      /\ resident[c] <= resident'[c]
  BY <1>1, KvForkAssumption DEF Inductive, Types, Sizes
<1> QED
  BY <1>1, <1>3, <1>4, <1>5, <1>6, StepGrown

LEMMA StepBeginFork ==
    ASSUME Inductive, NEW d \in Caches, NEW s \in Sources, NEW n \in 1 .. MaxRows,
           BeginFork(d, s, n)
    PROVE  Inductive'
<1>1. /\ Alone /\ d \in live /\ s \in live /\ d # s
      /\ shared[d] = 0 /\ ~sealed[d]
      /\ n <= resident[s] /\ Grow(d, n)
      /\ fork' = [into |-> d, from |-> s, tokens |-> n, region |-> 1, page |-> 1]
      /\ UNCHANGED <<live, shared, rows, fault>>
  BY DEF BeginFork
<1>2. sealed' = [sealed EXCEPT ![s] = TRUE]
  BY DEF BeginFork
<1>3. d \in Caches /\ s \in Caches /\ d # Nobody /\ live' = live \cup {d} /\ n \in Nat
  BY <1>1, KvForkAssumption DEF Inductive, Types
<1>4. PICK target \in [AllRegions -> 0 .. Reserved] : Appended(d, target)
  BY <1>1, GrowAppends
<1>5. /\ resident' \in [Caches -> 0 .. MaxRows]
      /\ \A x \in Caches \ {d} : resident'[x] = resident[x]
      /\ n <= resident'[d] /\ resident[d] <= resident'[d]
      /\ \A g \in AllRegions : resident'[d] <= Len(pages'[d][g]) * PageRows
  BY <1>1, GrowAppends
<1>6. Flags'
  BY <1>1, <1>2 DEF Inductive, Flags
<1>7. sealed'[s] /\ \A x \in Caches : x # s => sealed'[x] = sealed[x]
  BY <1>2, <1>3 DEF Inductive, Flags
<1>8. fork'.into = d /\ fork'.from = s /\ fork'.tokens = n /\ fork'.region = 1 /\ fork'.page = 1
  BY <1>1
<1>9. Types' /\ Placed' /\ MappedPagesExist' /\ Sharing' /\ Clear'
  BY <1>1, <1>3, <1>4, AppendKeeps
<1>10. ReadOnly' /\ OwnRows' /\ NeverFaults'
  <2>1. \A x \in Caches : ~sealed'[x] => ~sealed[x]
    BY <1>7
  <2> QED
    BY <1>1, <1>3, <1>4, <1>8, <2>1, AppendStep
<1>11. Sizes'
  BY <1>1, <1>5 DEF Inductive, Sizes
<1>12. Empty'
  <2> SUFFICES ASSUME NEW x \in Caches \ live'
               PROVE  /\ pages'[x] = NoPages /\ access'[x] = NoPages
                      /\ shared'[x] = 0 /\ ~sealed'[x] /\ resident'[x] = 0
    BY DEF Empty
  <2>1. x \notin live /\ x # d /\ x # s
    BY <1>1, <1>3
  <2>2. pages'[x] = pages[x] /\ access'[x] = access[x]
    BY <1>4, <2>1 DEF Appended
  <2> QED
    BY <1>1, <1>5, <1>7, <2>1, <2>2 DEF Inductive, Empty
<1>13. Forking'
  <2>1. sealed'[s] /\ ~sealed'[d]
    BY <1>1, <1>3, <1>7
  <2>2. n <= resident'[d] /\ n <= resident'[s]
    BY <1>1, <1>3, <1>5
  <2>3. 1 \in AllRegions /\ 1 \in 1 .. WholePages(n) + 1
    BY <1>3, WholePagesHold, KvForkAssumption DEF AllRegions
  <2> QED
    BY <1>1, <1>3, <1>8, <2>1, <2>2, <2>3 DEF Forking
<1>14. Copied'
  BY <1>8 DEF Copied, Done, AllRegions
<1>15. ResidentRowsAreCommitted'
  <2> SUFFICES ASSUME NEW x \in live, x # d, NEW g \in AllRegions
               PROVE  resident'[x] <= Len(pages'[x][g]) * PageRows
    BY <1>1, <1>5 DEF ResidentRowsAreCommitted, Committed
  <2>1. x \in Caches /\ resident'[x] = resident[x] /\ pages'[x] = pages[x]
    BY <1>4, <1>5 DEF Appended, Inductive, Types
  <2> QED
    BY <2>1 DEF Inductive, ResidentRowsAreCommitted, Committed
<1>16. PrefixIsResident'
  <2> SUFFICES ASSUME NEW x \in live PROVE shared[x] <= resident'[x]
    BY <1>1 DEF PrefixIsResident
  <2>1. /\ x \in Caches /\ shared[x] \in Nat /\ shared[x] <= resident[x]
        /\ resident[x] \in Nat /\ resident'[x] \in Nat
    BY <1>11, KvForkAssumption DEF Inductive, Types, Sizes, PrefixIsResident
  <2>2. resident[x] <= resident'[x]
    BY <1>5, <2>1
  <2> QED
    BY <2>1, <2>2
<1> QED
  BY <1>6, <1>9, <1>10, <1>11, <1>12, <1>13, <1>14, <1>15, <1>16 DEF Inductive

-----------------------------------------------------------------------------
(* The steps that write rows *)

\* Pages at different positions are different.
LEMMA OnePosition ==
    ASSUME Inductive, NEW c \in Caches, NEW d \in Caches,
           NEW g \in AllRegions, NEW h \in AllRegions,
           NEW i \in Slots(c, g), NEW j \in Slots(d, h), pages[c][g][i] = pages[d][h][j]
    PROVE  g = h /\ i = j
  BY DEF Inductive, Placed

\* A page that c may write is nobody else's.
LEMMA Private ==
    ASSUME Inductive, NEW c \in live, NEW d \in live, c # d,
           NEW g \in AllRegions, NEW h \in AllRegions,
           NEW i \in Slots(c, g), NEW j \in Slots(d, h), access[c][g][i] = "readwrite"
    PROVE  pages[c][g][i] # pages[d][h][j]
<1> SUFFICES ASSUME pages[c][g][i] = pages[d][h][j] PROVE FALSE
  OBVIOUS
<1>1. c \in Caches /\ d \in Caches
  BY DEF Inductive, Types
<1>2. g = h /\ i = j
  BY <1>1, OnePosition
<1>3. access[c][g][i] = "read"
  BY <1>2 DEF Inductive, Sharing
<1> QED
  BY <1>3

\* The rows that a kernel stores are on pages that their cache may write.
LEMMA StoredRow ==
    ASSUME Inductive, NEW c \in Caches, NEW n \in 1 .. MaxRows, Write(c, n),
           NEW g \in AllRegions, NEW i \in shared[c] .. n - 1
    PROVE  /\ i \in Nat
           /\ i \div PageRows + 1 \in Slots(c, g)
           /\ access[c][g][i \div PageRows + 1] = "readwrite"
<1>1. Alone /\ c \in live /\ ~sealed[c] /\ n <= resident[c] /\ c # fork.into
  BY KvForkAssumption DEF Write, Alone, NoFork
<1>2. /\ shared[c] \in Nat /\ resident[c] \in Nat /\ Len(pages[c][g]) \in Nat
      /\ resident[c] <= Len(pages[c][g]) * PageRows
  BY <1>1, KvForkAssumption
     DEF Inductive, Types, Sizes, ResidentRowsAreCommitted, Committed
<1>3. i \in Nat /\ shared[c] <= i /\ i < Len(pages[c][g]) * PageRows
  BY <1>1, <1>2, KvForkAssumption
<1>4. i \div PageRows + 1 \in Slots(c, g)
  BY <1>3, RowIsMapped DEF Inductive
<1>5. i < (i \div PageRows + 1) * PageRows
  BY <1>3, RowOnPage, RowAbove, KvForkAssumption
<1>6. access[c][g][i \div PageRows + 1] # "read"
  <2> DEFINE k == i \div PageRows + 1
  <2> SUFFICES ASSUME access[c][g][k] = "read" PROVE FALSE
    OBVIOUS
  <2>1. k * PageRows <= shared[c]
    BY <1>1, <1>4 DEF Inductive, ReadOnly
  <2>2. k * PageRows \in Int
    BY <1>3, RowOnPage, KvForkAssumption
  <2> HIDE DEF k
  <2>3. i < k * PageRows
    BY <1>5 DEF k
  <2> QED
    BY <1>2, <1>3, <2>1, <2>2, <2>3
<1>7. access[c][g][i \div PageRows + 1] \in {"read", "readwrite"}
  BY <1>4, MappedIsPage DEF Inductive
<1> QED
  BY <1>3, <1>4, <1>6, <1>7

\* What a store changes.
LEMMA StoreRows ==
    ASSUME Inductive, NEW c \in Caches, NEW n \in 1 .. MaxRows, Write(c, n),
           NEW p \in Pages
    PROVE  /\ rows'[p] \in [0 .. PageRows - 1 -> Caches \cup {Zero}]
           /\ \A r \in 0 .. PageRows - 1 :
                \/ rows'[p][r] = rows[p][r]
                \/ /\ rows'[p][r] = c
                   /\ \E g \in AllRegions : \E i \in shared[c] .. n - 1 :
                        /\ i % PageRows = r
                        /\ pages[c][g][i \div PageRows + 1] = p
<1> DEFINE stored == AllRegions \X (shared[c] .. n - 1)
           hit(r) == \E x \in stored :
                    /\ x[2] % PageRows = r
                    /\ pages[c][x[1]][x[2] \div PageRows + 1] = p
                    /\ access[c][x[1]][x[2] \div PageRows + 1] = "readwrite"
<1>1. rows'[p] = [r \in 0 .. PageRows - 1 |-> IF hit(r) THEN c ELSE rows[p][r]]
  BY DEF Write, Store
<1>2. \A r : hit(r) => \E g \in AllRegions : \E i \in shared[c] .. n - 1 :
                        /\ i % PageRows = r
                        /\ pages[c][g][i \div PageRows + 1] = p
  OBVIOUS
<1> HIDE DEF hit
<1>3. rows[p] \in [0 .. PageRows - 1 -> Caches \cup {Zero}]
  BY DEF Inductive, Types
<1> QED
  BY ZenonT(60), <1>1, <1>2, <1>3

LEMMA StepWrite ==
    ASSUME Inductive, NEW c \in Caches, NEW n \in 1 .. MaxRows, Write(c, n)
    PROVE  Inductive'
<1>1. /\ Alone /\ c \in live
      /\ UNCHANGED <<live, shared, sealed, resident, pages, access, handles, fork>>
  BY DEF Write, cache
<1>2. rows' \in [Pages -> [0 .. PageRows - 1 -> Caches \cup {Zero}]]
  <2>1. DOMAIN rows' = Pages /\ rows' = [p \in Pages |-> rows'[p]]
    BY DEF Write, Store
  <2> QED
    BY <2>1, StoreRows
<1>3. Types'
  BY <1>1, <1>2 DEF Inductive, Types
<1>4. /\ Sizes' /\ Empty' /\ Forking' /\ Placed' /\ MappedPagesExist' /\ Sharing'
      /\ ReadOnly' /\ ResidentRowsAreCommitted' /\ Copied' /\ PrefixIsResident'
  <2>1. Sizes' /\ Empty' /\ Placed' /\ MappedPagesExist' /\ Sharing'
    BY <1>1 DEF Inductive, Sizes, Empty, Placed, MappedPagesExist, Held, Sharing, Slots
  <2>2. Forking' /\ Copied'
    BY <1>1 DEF Inductive, Forking, Copied, Alone
  <2>3. ReadOnly' /\ ResidentRowsAreCommitted' /\ PrefixIsResident'
    BY <1>1 DEF Inductive, ReadOnly, Done, ResidentRowsAreCommitted, Committed, Slots, PrefixIsResident
  <2> QED
    BY <2>1, <2>2, <2>3
<1>5. NeverFaults' /\ Flags'
  <2>1. \A x \in AllRegions \X (shared[c] .. n - 1) : access[c][x[1]][x[2] \div PageRows + 1] # "read"
    BY StoredRow
  <2> QED
    BY <1>1, <2>1 DEF Inductive, NeverFaults, Flags, Write, Store
<1>6. Clear'
  <2> SUFFICES ASSUME NEW p \in Pages \ handles PROVE rows'[p] = Blank
    BY <1>1 DEF Clear
  <2>1. \A g \in AllRegions : \A i \in shared[c] .. n - 1 : pages[c][g][i \div PageRows + 1] # p
    BY <1>1, StoredRow, MappedIsHeld DEF Inductive
  <2>2. \A r \in 0 .. PageRows - 1 : rows'[p][r] = rows[p][r]
    BY <2>1, StoreRows
  <2>3. rows[p] = Blank
    BY DEF Inductive, Clear
  <2>4. rows'[p] \in [0 .. PageRows - 1 -> Caches \cup {Zero}]
    BY StoreRows
  <2> QED
    BY <2>2, <2>3, <2>4 DEF Blank
<1>7. OwnRows'
  <2> SUFFICES ASSUME NEW x \in live, NEW g \in AllRegions,
                      NEW i \in Prefix(x) .. Len(pages[x][g]) * PageRows - 1
               PROVE  Seen(x, g, i)' \in {x, Zero}
    BY <1>1 DEF OwnRows, Prefix
  <2> DEFINE k == i \div PageRows + 1  r == i % PageRows  p == pages[x][g][k]
  <2>1. x \in Caches /\ Prefix(x) \in Nat /\ Len(pages[x][g]) \in Nat
    BY <1>1, KvForkAssumption DEF Inductive, Types, Sizes, Prefix, Alone, NoFork
  <2>2. i \in Nat /\ i < Len(pages[x][g]) * PageRows
    BY <2>1, KvForkAssumption
  <2>3. k \in Slots(x, g) /\ r \in 0 .. PageRows - 1
    BY <2>1, <2>2, RowIsMapped, RowOnPage DEF Inductive
  <2>4. p \in Pages
    BY <2>1, <2>3, MappedIsPage DEF Inductive
  <2>5. Seen(x, g, i) \in {x, Zero} /\ Seen(x, g, i) = rows[p][r] /\ Seen(x, g, i)' = rows'[p][r]
    BY <1>1 DEF Inductive, OwnRows, Seen
  <2> HIDE DEF k, r, p
  <2>6. CASE rows'[p][r] = rows[p][r]
    BY <2>5, <2>6
  <2>7. CASE rows'[p][r] = c /\ \E h \in AllRegions : \E j \in shared[c] .. n - 1 :
                        pages[c][h][j \div PageRows + 1] = p
    <3>1. PICK h \in AllRegions, j \in shared[c] .. n - 1 : pages[c][h][j \div PageRows + 1] = p
      BY <2>7
    <3>2. j \div PageRows + 1 \in Slots(c, h) /\ access[c][h][j \div PageRows + 1] = "readwrite"
      BY StoredRow
    <3>3. x = c
      BY <1>1, <2>3, <3>1, <3>2, Private DEF p
    <3> QED
      BY <2>5, <2>7, <3>3
  <2> QED
    BY <2>3, <2>4, <2>6, <2>7, StoreRows
<1> QED
  BY <1>3, <1>4, <1>5, <1>6, <1>7 DEF Inductive

-----------------------------------------------------------------------------
(* The steps of a fork *)

\* The pages of the prefix are there on both sides.
LEMMA PrefixPages ==
    ASSUME Inductive, ~Alone, NEW c \in {fork.into, fork.from}, NEW g \in AllRegions
    PROVE  /\ c \in live /\ c \in Caches
           /\ WholePages(fork.tokens) \in Nat
           /\ WholePages(fork.tokens) * PageRows <= fork.tokens
           /\ fork.tokens < (WholePages(fork.tokens) + 1) * PageRows
           /\ Len(pages[c][g]) \in Nat
           /\ fork.tokens <= Len(pages[c][g]) * PageRows
           /\ WholePages(fork.tokens) <= Len(pages[c][g])
           /\ fork.tokens \in Nat
<1> DEFINE w == WholePages(fork.tokens)  l == Len(pages[c][g])  t == fork.tokens
<1>1. c \in live /\ c \in Caches /\ t \in Nat /\ t <= resident[c]
  BY KvForkAssumption DEF Inductive, Forking, Types
<1>2. w \in Nat /\ w * PageRows <= t /\ t < (w + 1) * PageRows
  BY <1>1, WholePagesHold
<1>3. l \in Nat /\ resident[c] <= l * PageRows /\ resident[c] \in Nat
  BY <1>1, KvForkAssumption
     DEF Inductive, Types, ResidentRowsAreCommitted, Committed, Sizes
<1> HIDE DEF w, l, t
<1>4. w * PageRows \in Nat /\ l * PageRows \in Nat
  BY <1>2, <1>3, KvForkAssumption
<1>5. t <= l * PageRows
  BY <1>1, <1>3, <1>4
<1>6. w <= l
  <2> SUFFICES ASSUME l + 1 <= w PROVE FALSE
    BY <1>2, <1>3
  <2>1. (l + 1) * PageRows <= w * PageRows /\ (l + 1) * PageRows \in Nat
    BY <1>2, <1>3, MorePagesMoreRows
  <2>2. (l + 1) * PageRows = l * PageRows + PageRows
    BY <1>3, KvForkAssumption
  <2> QED
    BY <1>1, <1>2, <1>4, <1>5, <2>1, <2>2, KvForkAssumption
<1> QED
  BY <1>1, <1>2, <1>3, <1>5, <1>6 DEF w, l, t

\* What the fork has not shared yet is the branch's alone.
LEMMA BranchOwns ==
    ASSUME Inductive, ~Alone, NEW g \in AllRegions, NEW i \in Slots(fork.into, g), ~Done(g, i)
    PROVE  /\ access[fork.into][g][i] = "readwrite"
           /\ \A x \in live \ {fork.into} : \A h \in AllRegions : \A j \in Slots(x, h) :
                pages[x][h][j] # pages[fork.into][g][i]
           /\ \A h \in AllRegions : \A j \in Slots(fork.into, h) :
                pages[fork.into][h][j] = pages[fork.into][g][i] => h = g /\ j = i
<1>1. fork.into \in live /\ ~sealed[fork.into] /\ fork.into \in Caches
  BY DEF Inductive, Forking, Types
<1>2. access[fork.into][g][i] # "read"
  BY <1>1 DEF Inductive, ReadOnly
<1>3. access[fork.into][g][i] = "readwrite"
  BY <1>1, <1>2, MappedIsPage DEF Inductive
<1>4. \A x \in live \ {fork.into} : \A h \in AllRegions : \A j \in Slots(x, h) :
          pages[x][h][j] # pages[fork.into][g][i]
  BY <1>1, <1>3, Private
<1>5. \A h \in AllRegions : \A j \in Slots(fork.into, h) :
          pages[fork.into][h][j] = pages[fork.into][g][i] => h = g /\ j = i
  BY <1>1, OnePosition
<1> QED
  BY <1>3, <1>4, <1>5

LEMMA OneSlot ==
    ASSUME NEW S, NEW f \in [Caches -> [AllRegions -> Seq(S)]],
           NEW d \in Caches, NEW g \in AllRegions, NEW i \in 1 .. Len(f[d][g]), NEW v \in S,
           NEW e, e = [f EXCEPT ![d][g][i] = v]
    PROVE  /\ e \in [Caches -> [AllRegions -> Seq(S)]]
           /\ \A x \in Caches, h \in AllRegions :
                /\ Len(e[x][h]) = Len(f[x][h])
                /\ \A j \in 1 .. Len(f[x][h]) :
                    e[x][h][j] = (IF x = d /\ h = g /\ j = i THEN v ELSE f[x][h][j])
<1> DEFINE q == [f[d][g] EXCEPT ![i] = v]
<1>1. e = [f EXCEPT ![d] = [f[d] EXCEPT ![g] = q]]
  OBVIOUS
<1>2. f[d][g] \in Seq(S) /\ DOMAIN f[d][g] = 1 .. Len(f[d][g])
  OBVIOUS
<1>3. q \in Seq(S) /\ Len(q) = Len(f[d][g])
  BY <1>2
<1>4. \A j \in 1 .. Len(f[d][g]) : q[j] = (IF j = i THEN v ELSE f[d][g][j])
  BY <1>2
<1> HIDE DEF q
<1> QED
  BY <1>1, <1>3, <1>4

\* What SharePage does, position by position.
LEMMA SharePageMaps ==
    ASSUME Inductive, SharePage,
           NEW d, d = fork.into, NEW s, s = fork.from,
           NEW g, g = fork.region, NEW i, i = fork.page
    PROVE  /\ d \in live /\ s \in live /\ d # s /\ g \in AllRegions
           /\ i \in Slots(d, g) /\ i \in Slots(s, g) /\ ~Done(g, i)
           /\ i <= WholePages(fork.tokens)
           /\ pages' \in [Caches -> [AllRegions -> Seq(Pages)]]
           /\ access' \in [Caches -> [AllRegions -> Seq({"read", "readwrite"})]]
           /\ \A x \in Caches, h \in AllRegions :
                /\ Len(pages'[x][h]) = Len(pages[x][h]) /\ Len(access'[x][h]) = Len(access[x][h])
                /\ \A j \in Slots(x, h) :
                    /\ pages'[x][h][j] = (IF x = d /\ h = g /\ j = i
                                         THEN pages[s][g][i] ELSE pages[x][h][j])
                    /\ access'[x][h][j] = (IF x \in {d, s} /\ h = g /\ j = i
                                          THEN "read" ELSE access[x][h][j])
           /\ handles' = handles \ {pages[d][g][i]}
           /\ rows' = [p \in Pages |-> IF p = pages[d][g][i] THEN Blank ELSE rows[p]]
<1> DEFINE w == WholePages(fork.tokens)
<1>1. ~Alone /\ i <= w
  BY DEF SharePage
<1>2. /\ d \in Caches /\ s \in Caches /\ d \in live /\ s \in live /\ d # s
      /\ g \in AllRegions /\ i \in 1 .. w + 1
  BY <1>1 DEF Inductive, Forking, Types
<1>3. w \in Nat /\ Len(pages[d][g]) \in Nat /\ Len(pages[s][g]) \in Nat
      /\ w <= Len(pages[d][g]) /\ w <= Len(pages[s][g])
  BY <1>1, <1>2, PrefixPages
<1>4. i \in Slots(d, g) /\ i \in Slots(s, g)
  BY <1>1, <1>2, <1>3 DEF Slots
<1>5. ~Done(g, i)
  BY <1>2, KvForkAssumption DEF Done, AllRegions
<1>6. /\ pages' = [pages EXCEPT ![d][g][i] = pages[s][g][i]]
      /\ access' = [access EXCEPT ![d][g][i] = "read", ![s][g][i] = "read"]
      /\ handles' = handles \ {pages[d][g][i]}
      /\ rows' = [p \in Pages |-> IF p = pages[d][g][i] THEN Blank ELSE rows[p]]
  BY DEF SharePage, Release
<1>7. pages[s][g][i] \in Pages
  BY <1>2, <1>4, MappedIsPage DEF Inductive
<1> HIDE DEF w
<1>8. \A x \in Caches, h \in AllRegions :
          /\ pages[x][h] \in Seq(Pages) /\ Slots(x, h) = DOMAIN pages[x][h]
          /\ access[x][h] \in Seq({"read", "readwrite"}) /\ Slots(x, h) = DOMAIN access[x][h]
  BY DEF Inductive, Types, Slots
<1>9. /\ pages' \in [Caches -> [AllRegions -> Seq(Pages)]]
      /\ \A x \in Caches, h \in AllRegions :
          /\ Len(pages'[x][h]) = Len(pages[x][h])
          /\ \A j \in Slots(x, h) :
              pages'[x][h][j] = (IF x = d /\ h = g /\ j = i THEN pages[s][g][i] ELSE pages[x][h][j])
  <2>1. pages \in [Caches -> [AllRegions -> Seq(Pages)]] /\ i \in 1 .. Len(pages[d][g])
    BY <1>4 DEF Slots, Inductive, Types
  <2>2. pages' = [pages EXCEPT ![d][g][i] = pages[s][g][i]]
    BY <1>6
  <2>3. \A x \in Caches, h \in AllRegions : Slots(x, h) = 1 .. Len(pages[x][h])
    BY DEF Slots
  <2> QED
    BY SMTT(30), <1>2, <1>7, <2>1, <2>2, <2>3, OneSlot
<1>10. /\ access' \in [Caches -> [AllRegions -> Seq({"read", "readwrite"})]]
       /\ \A x \in Caches, h \in AllRegions :
          /\ Len(access'[x][h]) = Len(access[x][h])
          /\ \A j \in Slots(x, h) :
              access'[x][h][j] = (IF x \in {d, s} /\ h = g /\ j = i THEN "read" ELSE access[x][h][j])
  <2> DEFINE a == [access EXCEPT ![d][g][i] = "read"]
             RW == {"read", "readwrite"}
  <2>1. access \in [Caches -> [AllRegions -> Seq(RW)]] /\ "read" \in RW
    BY DEF Inductive, Types
  <2>2. access' = [a EXCEPT ![s][g][i] = "read"]
    BY <1>6
  <2>3. \A x \in Caches, h \in AllRegions : Slots(x, h) = 1 .. Len(access[x][h])
    BY DEF Slots, Inductive, Types
  <2> HIDE DEF RW
  <2>4. /\ a \in [Caches -> [AllRegions -> Seq(RW)]]
        /\ \A x \in Caches, h \in AllRegions :
            /\ Len(a[x][h]) = Len(access[x][h])
            /\ \A j \in 1 .. Len(access[x][h]) :
                a[x][h][j] = (IF x = d /\ h = g /\ j = i THEN "read" ELSE access[x][h][j])
    BY <1>2, <1>4, <2>1, <2>3, OneSlot
  <2> HIDE DEF a
  <2>5. i \in 1 .. Len(a[s][g])
    BY <1>2, <1>4, <2>3, <2>4
  <2>6. /\ access' \in [Caches -> [AllRegions -> Seq(RW)]]
        /\ \A x \in Caches, h \in AllRegions :
            /\ Len(access'[x][h]) = Len(a[x][h])
            /\ \A j \in 1 .. Len(a[x][h]) :
                access'[x][h][j] = (IF x = s /\ h = g /\ j = i THEN "read" ELSE a[x][h][j])
    BY <1>2, <2>1, <2>2, <2>4, <2>5, OneSlot
  <2>7. \A x \in Caches, h \in AllRegions : Len(access'[x][h]) = Len(access[x][h])
    BY <2>4, <2>6
  <2>8. ASSUME NEW x \in Caches, NEW h \in AllRegions, NEW j \in Slots(x, h)
        PROVE  access'[x][h][j] = (IF x \in {d, s} /\ h = g /\ j = i THEN "read" ELSE access[x][h][j])
    <3>1. j \in 1 .. Len(access[x][h]) /\ j \in 1 .. Len(a[x][h])
      BY <2>3, <2>4
    <3>2. access'[x][h][j] = (IF x = s /\ h = g /\ j = i THEN "read" ELSE a[x][h][j])
      BY <2>6, <3>1
    <3>3. a[x][h][j] = (IF x = d /\ h = g /\ j = i THEN "read" ELSE access[x][h][j])
      BY <2>4, <3>1
    <3> QED
      BY <3>2, <3>3
  <2> QED
    BY <2>6, <2>7, <2>8 DEF RW
<1> QED
  <2>1. \A x \in Caches, h \in AllRegions :
          /\ Len(pages'[x][h]) = Len(pages[x][h]) /\ Len(access'[x][h]) = Len(access[x][h])
          /\ \A j \in Slots(x, h) :
              /\ pages'[x][h][j] = (IF x = d /\ h = g /\ j = i THEN pages[s][g][i] ELSE pages[x][h][j])
              /\ access'[x][h][j] = (IF x \in {d, s} /\ h = g /\ j = i THEN "read" ELSE access[x][h][j])
    BY <1>9, <1>10
  <2>2. /\ pages' \in [Caches -> [AllRegions -> Seq(Pages)]]
        /\ access' \in [Caches -> [AllRegions -> Seq({"read", "readwrite"})]]
    BY <1>9, <1>10
  <2>3. i <= WholePages(fork.tokens)
    BY <1>1 DEF w
  <2> QED
    BY <1>2, <1>4, <1>5, <1>6, <2>1, <2>2, <2>3

\* The rows of the prefix are the source's from now on, all others stay.
LEMMA SharePageRows ==
    ASSUME Inductive, SharePage,
           NEW d, d = fork.into, NEW s, s = fork.from,
           NEW g, g = fork.region, NEW i, i = fork.page,
           NEW x \in live, NEW h \in AllRegions, NEW j \in Slots(x, h)
    PROVE  IF x = d /\ h = g /\ j = i
           THEN /\ pages'[x][h][j] = pages[s][g][i]
                /\ pages[s][g][i] # pages[d][g][i]
                /\ rows'[pages[s][g][i]] = rows[pages[s][g][i]]
           ELSE /\ pages'[x][h][j] = pages[x][h][j]
                /\ pages[x][h][j] # pages[d][g][i]
                /\ rows'[pages[x][h][j]] = rows[pages[x][h][j]]
<1>1. ~Alone /\ x \in Caches
  BY DEF SharePage, Inductive, Types
<1>2. /\ d \in live /\ s \in live /\ d # s /\ g \in AllRegions /\ d \in Caches /\ s \in Caches
      /\ i \in Slots(d, g) /\ i \in Slots(s, g) /\ ~Done(g, i)
      /\ rows' = [p \in Pages |-> IF p = pages[d][g][i] THEN Blank ELSE rows[p]]
  BY SharePageMaps DEF Inductive, Types
<1>3. pages'[x][h][j] = (IF x = d /\ h = g /\ j = i THEN pages[s][g][i] ELSE pages[x][h][j])
  BY <1>1, SharePageMaps
<1>4. /\ \A y \in live \ {d} : \A f \in AllRegions : \A k \in Slots(y, f) : pages[y][f][k] # pages[d][g][i]
      /\ \A f \in AllRegions : \A k \in Slots(d, f) : pages[d][f][k] = pages[d][g][i] => f = g /\ k = i
  BY <1>1, <1>2, BranchOwns
<1>5. pages[x][h][j] \in Pages /\ pages[s][g][i] \in Pages
  BY <1>1, <1>2, MappedIsPage DEF Inductive
<1>6. pages[s][g][i] # pages[d][g][i]
  BY <1>2, <1>4
<1>7. (x = d /\ h = g /\ j = i) \/ pages[x][h][j] # pages[d][g][i]
  BY <1>4
<1> QED
  BY <1>2, <1>3, <1>5, <1>6, <1>7

LEMMA StepSharePage ==
    ASSUME Inductive, SharePage
    PROVE  Inductive'
<1>1. PICK d, s, g, i : d = fork.into /\ s = fork.from /\ g = fork.region /\ i = fork.page
  OBVIOUS
<1>2. /\ ~Alone /\ fork' = [fork EXCEPT !.page = @ + 1]
      /\ UNCHANGED <<live, shared, sealed, resident, fault>>
  BY DEF SharePage, cache
<1>3. /\ d \in live /\ s \in live /\ d # s /\ g \in AllRegions /\ d \in Caches /\ s \in Caches
      /\ i \in Slots(d, g) /\ i \in Slots(s, g) /\ ~Done(g, i) /\ i <= WholePages(fork.tokens)
  BY <1>1, SharePageMaps DEF Inductive, Types
<1>4. /\ pages' \in [Caches -> [AllRegions -> Seq(Pages)]]
      /\ access' \in [Caches -> [AllRegions -> Seq({"read", "readwrite"})]]
  BY <1>1, SharePageMaps
<1>5. ASSUME NEW x \in Caches, NEW h \in AllRegions
      PROVE  /\ Len(pages'[x][h]) = Len(pages[x][h]) /\ Len(access'[x][h]) = Len(access[x][h])
             /\ Slots(x, h)' = Slots(x, h)
             /\ \A j \in Slots(x, h) :
                 /\ pages'[x][h][j] = (IF x = d /\ h = g /\ j = i THEN pages[s][g][i] ELSE pages[x][h][j])
                 /\ access'[x][h][j] = (IF x \in {d, s} /\ h = g /\ j = i THEN "read" ELSE access[x][h][j])
  BY <1>1, SharePageMaps DEF Slots
<1>6. /\ handles' = handles \ {pages[d][g][i]}
      /\ rows' = [p \in Pages |-> IF p = pages[d][g][i] THEN Blank ELSE rows[p]]
  BY <1>1, SharePageMaps
<1>7. /\ fork'.into = d /\ fork'.from = s /\ fork'.region = g /\ fork'.page = i + 1
      /\ fork'.tokens = fork.tokens /\ ~Alone' /\ DOMAIN fork' = DOMAIN fork
      /\ fork' = [f \in DOMAIN fork' |-> fork'[f]]
  <2>1. DOMAIN fork = {"into", "from", "tokens", "region", "page"}
    BY DEF Inductive, Forking
  <2>2. /\ fork'.into = d /\ fork'.from = s /\ fork'.region = g /\ fork'.page = i + 1
        /\ fork'.tokens = fork.tokens /\ DOMAIN fork' = DOMAIN fork
        /\ fork' = [f \in DOMAIN fork' |-> fork'[f]]
    BY <1>1, <1>2, <2>1
  <2>3. d # Nobody
    BY <1>3, KvForkAssumption
  <2> QED
    BY <2>2, <2>3 DEF Alone, NoFork
<1>8. Types'
  <2>1. Blank \in [0 .. PageRows - 1 -> Caches \cup {Zero}]
    BY DEF Blank
  <2>2. rows' \in [Pages -> [0 .. PageRows - 1 -> Caches \cup {Zero}]]
    BY <1>6, <2>1 DEF Inductive, Types
  <2>3. handles' \in SUBSET Pages /\ live' \in SUBSET Caches
    BY <1>2, <1>6 DEF Inductive, Types
  <2>4. \A x \in Caches, h \in AllRegions :
            Len(access'[x][h]) = Len(pages'[x][h]) /\ Len(pages'[x][h]) <= Reserved
    BY <1>5 DEF Inductive, Types
  <2> QED
    BY <1>4, <2>2, <2>3, <2>4 DEF Types
<1>9. Sizes' /\ Flags' /\ NeverFaults'
  BY <1>2 DEF Inductive, Sizes, Flags, NeverFaults
<1>10. Empty'
  <2>1. \A x \in Caches : x \notin {d, s} => pages'[x] = pages[x] /\ access'[x] = access[x]
    BY <1>1, <1>3 DEF SharePage, Inductive, Types
  <2> QED
    BY <1>2, <1>3, <2>1 DEF Inductive, Empty
<1>11. Forking'
  <2>1. i + 1 \in 1 .. WholePages(fork.tokens) + 1
    BY <1>1, <1>2, <1>3, PrefixPages DEF Slots
  <2> QED
    BY <1>1, <1>2, <1>3, <1>7, <2>1 DEF Inductive, Forking
<1>12. Placed'
  BY <1>3, <1>5 DEF Inductive, Placed
<1>13. \A x \in live, h \in AllRegions : \A j \in Slots(x, h) :
           pages'[x][h][j] # pages[d][g][i]
  BY <1>1, SharePageRows
<1>14. \A x \in live : x \in Caches
  BY DEF Inductive, Types
<1>15. MappedPagesExist'
  <2>1. ASSUME NEW p \in handles' PROVE \E x \in live' : p \in Held(x)'
    <3>1. p \in handles /\ p # pages[d][g][i]
      BY <1>6
    <3>2. PICK x \in live : p \in Held(x)
      BY <3>1 DEF Inductive, MappedPagesExist
    <3>3. PICK h \in AllRegions : \E j \in Slots(x, h) : pages[x][h][j] = p
      BY <1>14, <3>2, HeldPages DEF Inductive
    <3>4. PICK j \in Slots(x, h) : pages[x][h][j] = p
      BY <3>3
    <3>5. pages'[x][h][j] = p /\ j \in Slots(x, h)'
      BY <1>5, <1>14, <3>1, <3>4
    <3>6. p \in Held(x)'
      BY <1>8, <1>14, <3>5, HeldPagesNext
    <3> QED
      BY <1>2, <3>6
  <2>2. ASSUME NEW x \in live', NEW p \in Held(x)' PROVE p \in handles'
    <3>1. x \in live /\ x \in Caches
      BY <1>2, <1>14
    <3>2. PICK h \in AllRegions : \E j \in Slots(x, h)' : pages'[x][h][j] = p
      BY <1>8, <3>1, HeldPagesNext
    <3>3. PICK j \in Slots(x, h) : pages'[x][h][j] = p
      BY <1>5, <3>1, <3>2
    <3>4. p \in {pages[s][g][i], pages[x][h][j]}
      BY <1>5, <3>1, <3>3
    <3>5. p \in handles
      BY <1>3, <3>1, <3>4, MappedIsHeld DEF Inductive
    <3> QED
      BY <1>6, <1>13, <3>1, <3>3, <3>5
  <2> QED
    BY <2>1, <2>2 DEF MappedPagesExist
<1>16. Sharing'
  <2> SUFFICES ASSUME NEW x \in live, NEW y \in live, x # y, NEW h \in AllRegions,
                      NEW j \in Slots(x, h) \cap Slots(y, h), pages'[x][h][j] = pages'[y][h][j]
               PROVE  access'[x][h][j] = "read"
    BY <1>2, <1>5, <1>14 DEF Sharing
  <2>1. CASE h = g /\ j = i /\ x \in {d, s}
    BY <1>5, <1>14, <2>1
  <2>2. CASE h = g /\ j = i /\ x \notin {d, s}
    <3>1. pages'[x][h][j] = pages[x][g][i] /\ access'[x][h][j] = access[x][g][i]
      BY <1>5, <1>14, <2>2
    <3>2. pages'[y][h][j] = pages[s][g][i] \/ pages'[y][h][j] = pages[y][g][i]
      BY <1>5, <1>14, <2>2
    <3>3. pages[x][g][i] = pages[s][g][i] \/ pages[x][g][i] = pages[y][g][i]
      BY <3>1, <3>2
    <3>4. access[x][g][i] = "read"
      BY <1>3, <2>2, <3>3 DEF Inductive, Sharing
    <3> QED
      BY <3>1, <3>4
  <2>3. CASE ~ (h = g /\ j = i)
    <3>1. /\ pages'[x][h][j] = pages[x][h][j] /\ access'[x][h][j] = access[x][h][j]
          /\ pages'[y][h][j] = pages[y][h][j]
      BY <1>5, <1>14, <2>3
    <3> QED
      BY <3>1 DEF Inductive, Sharing
  <2> QED
    BY <2>1, <2>2, <2>3
<1>17. ASSUME NEW h \in AllRegions, NEW j \in Nat
       PROVE  Done(h, j)' <=> Done(h, j) \/ (h = g /\ j = i)
  <2>1. g \in Nat /\ h \in Nat /\ i \in Nat
    BY <1>3, KvForkAssumption DEF AllRegions, Slots, Inductive, Types
  <2> QED
    BY <1>1, <1>3, <1>7, <2>1 DEF Done
<1>18. ReadOnly'
  <2> SUFFICES ASSUME NEW x \in live, ~sealed[x], NEW h \in AllRegions, NEW j \in Slots(x, h),
                      access'[x][h][j] = "read"
               PROVE  IF x = d THEN Done(h, j)' ELSE j * PageRows <= shared[x]
    BY <1>2, <1>5, <1>7, <1>14 DEF ReadOnly
  <2>1. x # s
    BY <1>1, <1>2 DEF Inductive, Forking
  <2>2. j \in Nat
    BY <1>14 DEF Slots, Inductive, Types
  <2>3. CASE x = d /\ h = g /\ j = i
    BY <1>17, <2>2, <2>3
  <2>4. CASE ~ (x = d /\ h = g /\ j = i)
    <3>1. access[x][h][j] = "read"
      BY <1>5, <1>14, <2>1, <2>4
    <3>2. IF x = d THEN Done(h, j) ELSE j * PageRows <= shared[x]
      BY <1>1, <3>1 DEF Inductive, ReadOnly
    <3> QED
      BY <1>17, <2>2, <3>2
  <2> QED
    BY <2>3, <2>4
<1>19. /\ WholePages(fork.tokens) \in Nat /\ fork.tokens \in Nat
       /\ WholePages(fork.tokens) * PageRows <= fork.tokens
       /\ \A x \in {d, s}, h \in AllRegions :
            Len(pages[x][h]) \in Nat /\ fork.tokens <= Len(pages[x][h]) * PageRows
  BY <1>1, <1>2, <1>3, PrefixPages
<1>20. i * PageRows <= fork.tokens /\ i * PageRows \in Nat /\ i \in Nat
  <2>1. i \in Nat
    BY <1>3, <1>19 DEF Slots
  <2>2. i * PageRows <= WholePages(fork.tokens) * PageRows /\ i * PageRows \in Nat
        /\ WholePages(fork.tokens) * PageRows \in Nat
    BY <1>3, <1>19, <2>1, MorePagesMoreRows
  <2> QED
    BY <1>19, <2>1, <2>2
<1>21. ASSUME NEW x \in live, NEW h \in AllRegions, NEW j \in Nat,
              j < Len(pages[x][h]) * PageRows, x # d \/ h # g \/ i * PageRows <= j
       PROVE  Seen(x, h, j)' = Seen(x, h, j)
  <2> DEFINE k == j \div PageRows + 1
  <2>1. k \in Slots(x, h)
    BY <1>14, <1>21, RowIsMapped DEF Inductive
  <2>2. ~ (x = d /\ h = g /\ k = i)
    <3>1. i \in Nat /\ j \div PageRows \in Nat
      BY <1>20, RowOnPage
    <3>2. i * PageRows <= j => i <= j \div PageRows
      BY <3>1, RowAbove
    <3>3. i <= j \div PageRows => k # i
      BY <3>1
    <3> HIDE DEF k
    <3> QED
      BY <1>21, <3>2, <3>3
  <2>3. /\ Seen(x, h, j) = rows[pages[x][h][k]][j % PageRows]
        /\ Seen(x, h, j)' = rows'[pages'[x][h][k]][j % PageRows]
    BY DEF Seen
  <2> HIDE DEF k
  <2>4. pages'[x][h][k] = pages[x][h][k] /\ rows'[pages[x][h][k]] = rows[pages[x][h][k]]
    BY <1>1, <2>1, <2>2, SharePageRows
  <2> QED
    BY <2>3, <2>4
<1>22. OwnRows'
  <2> SUFFICES ASSUME NEW x \in live, NEW h \in AllRegions,
                      NEW j \in Prefix(x) .. Len(pages[x][h]) * PageRows - 1
               PROVE  Seen(x, h, j)' \in {x, Zero}
    BY <1>1, <1>2, <1>5, <1>7, <1>14 DEF OwnRows, Prefix
  <2>1. Prefix(x) \in Nat /\ Len(pages[x][h]) * PageRows \in Nat
    BY <1>14, <1>19, KvForkAssumption DEF Prefix, Inductive, Types, Sizes
  <2>2. j \in Nat /\ j < Len(pages[x][h]) * PageRows /\ Prefix(x) <= j
    BY <2>1
  <2>3. x # d \/ i * PageRows <= j
    BY <1>1, <1>19, <1>20, <2>2 DEF Prefix
  <2>4. Seen(x, h, j)' = Seen(x, h, j)
    BY <1>21, <2>2, <2>3
  <2> QED
    BY <2>4 DEF Inductive, OwnRows
<1>23. Clear'
  BY <1>3, <1>6, MappedIsPage DEF Inductive, Clear
<1>24. Copied'
  <2>1. ASSUME NEW h \in AllRegions, NEW j \in 1 .. WholePages(fork.tokens), Done(h, j)'
        PROVE  pages'[d][h][j] = pages'[s][h][j]
    <3>1. j \in Nat /\ (Done(h, j) \/ (h = g /\ j = i))
      BY <1>17, <1>19, <2>1
    <3>2. j \in Slots(d, h) /\ j \in Slots(s, h)
      <4>1. \A x \in {d, s} : WholePages(fork.tokens) <= Len(pages[x][h])
        BY <1>1, <1>2, PrefixPages
      <4> QED
        BY <1>19, <4>1 DEF Slots
    <3>3. Done(h, j) => pages[d][h][j] = pages[s][h][j]
      BY <1>1, <1>2 DEF Inductive, Copied
    <3> QED
      BY <1>3, <1>5, <3>1, <3>2, <3>3
  <2>2. ASSUME NEW h \in AllRegions, h < g, NEW j \in 0 .. fork.tokens - 1
        PROVE  Seen(d, h, j)' = Seen(s, h, j)'
    <3>1. h # g /\ j \in Nat /\ j < fork.tokens
      BY <1>3, <1>19, <2>2, KvForkAssumption DEF AllRegions
    <3>2. \A x \in {d, s} : j < Len(pages[x][h]) * PageRows
      <4>1. \A x \in {d, s} : Len(pages[x][h]) * PageRows \in Nat
        BY <1>19, KvForkAssumption
      <4> QED
        BY <1>19, <3>1, <4>1
    <3>3. Seen(d, h, j)' = Seen(d, h, j) /\ Seen(s, h, j)' = Seen(s, h, j)
      BY <1>3, <1>21, <3>1, <3>2
    <3>4. Seen(d, h, j) = Seen(s, h, j)
      BY <1>1, <1>2, <2>2 DEF Inductive, Copied
    <3> QED
      BY <3>3, <3>4
  <2> QED
    BY <1>7, <2>1, <2>2 DEF Copied
<1>25. ResidentRowsAreCommitted' /\ PrefixIsResident'
  BY <1>2, <1>5, <1>14
     DEF Inductive, ResidentRowsAreCommitted, Committed, PrefixIsResident
<1> QED
  BY <1>8, <1>9, <1>10, <1>11, <1>12, <1>15, <1>16, <1>18, <1>22, <1>23, <1>24, <1>25 DEF Inductive

\* Row j of the page that the prefix ends in is on the branch's page past the
\* whole ones.
LEMMA BoundaryRow ==
    ASSUME NEW w \in Nat, NEW j \in Nat
    PROVE  /\ (w * PageRows <= j /\ j < (w + 1) * PageRows) <=> j \div PageRows = w
           /\ j \div PageRows = w => w * PageRows + (j % PageRows) = j
<1> DEFINE q == j \div PageRows  r == j % PageRows
<1>1. q \in Nat /\ r \in Nat /\ r < PageRows /\ j = PageRows * q + r
  BY RowOnPage, KvForkAssumption
<1>2. w * PageRows <= j => w <= q
  BY RowAbove
<1>3. j < (w + 1) * PageRows => q + 1 \in 1 .. w + 1
  BY RowBelow
<1> HIDE DEF q, r
<1>4. q = w => w * PageRows + r = j
  BY <1>1, KvForkAssumption
<1>5. q = w => w * PageRows <= j /\ j < (w + 1) * PageRows
  BY <1>1, KvForkAssumption
<1>6. w * PageRows <= j /\ j < (w + 1) * PageRows => q = w
  BY <1>1, <1>2, <1>3
<1> QED
  BY <1>4, <1>5, <1>6 DEF q, r

\* The copy changes the rows of the branch that the prefix has on its last page,
\* and no other row of any cache.
LEMMA CopyBoundaryRows ==
    ASSUME Inductive, CopyBoundary,
           NEW d, d = fork.into, NEW s, s = fork.from,
           NEW g, g = fork.region, NEW t, t = fork.tokens, NEW w, w = WholePages(t)
    PROVE  /\ rows' \in [Pages -> [0 .. PageRows - 1 -> Caches \cup {Zero}]]
           /\ \A p \in Pages \ handles : rows'[p] = rows[p]
           /\ \A x \in live, h \in AllRegions, j \in Nat : j < Len(pages[x][h]) * PageRows =>
                Seen(x, h, j)' = (IF x = d /\ h = g /\ w * PageRows <= j /\ j < t
                                  THEN Seen(s, g, j) ELSE Seen(x, h, j))
<1> DEFINE b == pages[d][g][w + 1]
           copied == [r \in 0 .. PageRows - 1 |->
                        IF w * PageRows + r < t THEN Seen(s, g, w * PageRows + r) ELSE rows[b][r]]
<1>1. ~Alone /\ fork.page > w /\ UNCHANGED pages
  BY DEF CopyBoundary
<1>2. /\ d \in live /\ s \in live /\ d # s /\ g \in AllRegions /\ d \in Caches /\ s \in Caches
      /\ fork.page \in Nat
  BY <1>1, WholePagesHold, KvForkAssumption DEF Inductive, Forking, Types
<1>3. /\ w \in Nat /\ t \in Nat /\ w * PageRows <= t /\ t < (w + 1) * PageRows
      /\ \A x \in {d, s} : Len(pages[x][g]) \in Nat /\ t <= Len(pages[x][g]) * PageRows
  BY <1>1, <1>2, PrefixPages
<1>4. w * PageRows \in Nat /\ PageRows \in Nat \ {0} /\ (w + 1) * PageRows = w * PageRows + PageRows
  BY <1>3, KvForkAssumption
<1>5. rows \in [Pages -> [0 .. PageRows - 1 -> Caches \cup {Zero}]]
  BY DEF Inductive, Types
<1>6. CASE t <= w * PageRows
  <2>1. rows' = rows
    BY <1>6 DEF CopyBoundary
  <2>2. \A x \in live, h \in AllRegions, j \in Nat : Seen(x, h, j)' = Seen(x, h, j)
    BY <1>1, <2>1 DEF Seen
  <2>3. \A j \in Nat : ~ (w * PageRows <= j /\ j < t)
    BY <1>3, <1>4, <1>6
  <2> QED
    BY <1>5, <2>1, <2>2, <2>3
<1>7. CASE ~ (t <= w * PageRows)
  <2>1. rows' = [rows EXCEPT ![b] = copied]
    BY <1>7 DEF CopyBoundary
  <2>2. w + 1 \in Slots(d, g)
    <3>1. ~ (Len(pages[d][g]) <= w)
      <4> DEFINE l == Len(pages[d][g])
      <4>1. l \in Nat /\ t <= l * PageRows
        BY <1>3
      <4> HIDE DEF l
      <4>2. l <= w => l * PageRows <= w * PageRows
        BY <1>3, <4>1, MorePagesMoreRows
      <4>3. l * PageRows \in Nat
        BY <4>1, KvForkAssumption
      <4>4. ~ (l <= w)
        BY SMTT(30), <1>3, <1>4, <1>7, <4>1, <4>2, <4>3
      <4> QED
        BY <4>4 DEF l
    <3> QED
      BY <1>3, <3>1 DEF Slots
  <2>3. ~Done(g, w + 1)
    BY <1>3 DEF Done
  <2>4. /\ \A x \in live \ {d} : \A h \in AllRegions : \A k \in Slots(x, h) : pages[x][h][k] # b
        /\ \A h \in AllRegions : \A k \in Slots(d, h) : pages[d][h][k] = b => h = g /\ k = w + 1
    BY <1>1, <1>2, <2>2, <2>3, BranchOwns
  <2>5. b \in Pages /\ b \in handles
    BY <1>2, <2>2, MappedIsPage, MappedIsHeld DEF Inductive
  <2>6. ASSUME NEW j \in Nat, j < t
        PROVE  Seen(s, g, j) \in Caches \cup {Zero}
    <3>1. j < Len(pages[s][g]) * PageRows
      BY SMTT(30), <1>3, <2>6, KvForkAssumption
    <3>2. j \div PageRows + 1 \in Slots(s, g) /\ j % PageRows \in 0 .. PageRows - 1
      BY <1>2, <3>1, RowIsMapped, RowOnPage DEF Inductive
    <3>3. pages[s][g][j \div PageRows + 1] \in Pages
      BY <1>2, <3>2, MappedIsPage DEF Inductive
    <3> QED
      BY <1>5, <3>2, <3>3 DEF Seen
  <2>7. copied \in [0 .. PageRows - 1 -> Caches \cup {Zero}]
    <3>1. \A r \in 0 .. PageRows - 1 : w * PageRows + r \in Nat
      BY <1>4
    <3> HIDE DEF b
    <3> QED
      BY <1>5, <2>5, <2>6, <3>1
  <2>8. ASSUME NEW x \in live, NEW h \in AllRegions, NEW j \in Nat, j < Len(pages[x][h]) * PageRows
        PROVE  Seen(x, h, j)' = (IF x = d /\ h = g /\ w * PageRows <= j /\ j < t
                                 THEN Seen(s, g, j) ELSE Seen(x, h, j))
    <3> DEFINE k == j \div PageRows + 1  r == j % PageRows
    <3>1. x \in Caches /\ k \in Slots(x, h) /\ r \in 0 .. PageRows - 1
      BY <2>8, RowIsMapped, RowOnPage DEF Inductive, Types
    <3>2. Seen(x, h, j) = rows[pages[x][h][k]][r] /\ Seen(x, h, j)' = rows'[pages[x][h][k]][r]
      BY <1>1 DEF Seen
    <3>3. pages[x][h][k] \in Pages
      BY <3>1, MappedIsPage DEF Inductive
    <3>4. k = w + 1 <=> (w * PageRows <= j /\ j < (w + 1) * PageRows)
      <4>1. j \div PageRows \in Nat
        BY RowOnPage
      <4>2. k = w + 1 <=> j \div PageRows = w
        BY <1>3, <4>1
      <4>3. j \div PageRows = w <=> (w * PageRows <= j /\ j < (w + 1) * PageRows)
        BY <1>3, BoundaryRow
      <4> HIDE DEF k
      <4> QED
        BY <4>2, <4>3
    <3>5. k = w + 1 => w * PageRows + r = j
      BY <1>3, RowOnPage, BoundaryRow
    <3>6. CASE x = d /\ h = g /\ k = w + 1
      <4>1. Seen(x, h, j)' = copied[r]
        BY <1>5, <2>1, <2>5, <3>2, <3>6
      <4>2. copied[r] = (IF j < t THEN Seen(s, g, j) ELSE rows[b][r])
        BY <3>1, <3>5, <3>6
      <4>3. w * PageRows <= j
        BY <3>4, <3>6
      <4> HIDE DEF copied, k, r
      <4> QED
        BY <3>2, <3>6, <4>1, <4>2, <4>3
    <3>7. CASE ~ (x = d /\ h = g /\ k = w + 1)
      <4>1. pages[x][h][k] # b
        BY <2>4, <3>1, <3>7
      <4> HIDE DEF b, copied, k, r
      <4>2. rows'[pages[x][h][k]] = rows[pages[x][h][k]]
        BY <1>5, <2>1, <3>3, <4>1
      <4>3. x = d /\ h = g => ~ (w * PageRows <= j /\ j < t)
        <5>1. (w + 1) * PageRows \in Nat
          BY <1>4
        <5> QED
          BY <1>3, <3>4, <3>7, <5>1
      <4> QED
        BY <3>2, <4>2, <4>3
    <3> QED
      BY <3>6, <3>7
  <2> HIDE DEF b, copied
  <2>9. rows' \in [Pages -> [0 .. PageRows - 1 -> Caches \cup {Zero}]]
    BY <1>5, <2>1, <2>7
  <2>10. \A p \in Pages \ handles : rows'[p] = rows[p]
    BY <2>1, <2>5
  <2> QED
    BY <2>8, <2>9, <2>10
<1> QED
  BY <1>6, <1>7

\* A region that is done holds the source's prefix.
LEMMA BoundaryCopied ==
    ASSUME Inductive, CopyBoundary, NEW d, d = fork.into, NEW s, s = fork.from,
           NEW h \in AllRegions, h <= fork.region, NEW j \in 0 .. fork.tokens - 1
    PROVE  Seen(d, h, j)' = Seen(s, h, j) /\ Seen(s, h, j)' = Seen(s, h, j)
<1>1. PICK g, t, w : g = fork.region /\ t = fork.tokens /\ w = WholePages(t)
  OBVIOUS
<1>2. ~Alone /\ fork.page > w
  BY <1>1 DEF CopyBoundary
<1>3. /\ d \in live /\ s \in live /\ d # s /\ g \in AllRegions /\ d \in Caches /\ s \in Caches
      /\ fork.page \in 1 .. w + 1
  BY <1>1, <1>2 DEF Inductive, Forking, Types
<1>4. /\ w \in Nat /\ t \in Nat /\ w * PageRows <= t
      /\ \A x \in {d, s} : Len(pages[x][h]) \in Nat /\ t <= Len(pages[x][h]) * PageRows
  BY <1>1, <1>2, PrefixPages
<1>5. j \in Nat /\ j < t /\ \A x \in {d, s} : j < Len(pages[x][h]) * PageRows
  <2>1. \A x \in {d, s} : Len(pages[x][h]) * PageRows \in Nat
    BY <1>4, KvForkAssumption
  <2> QED
    BY SMTT(30), <1>1, <1>4, <2>1
<1>6. \A x \in {d, s} : Seen(x, h, j)' = (IF x = d /\ h = g /\ w * PageRows <= j /\ j < t
                                          THEN Seen(s, g, j) ELSE Seen(x, h, j))
  BY <1>1, <1>3, <1>5, CopyBoundaryRows
<1>7. CASE h < g
  <2>1. Seen(d, h, j) = Seen(s, h, j)
    BY <1>1, <1>2, <1>7 DEF Inductive, Copied
  <2>2. h # g
    BY <1>3, <1>7, KvForkAssumption DEF AllRegions
  <2> QED
    BY <1>1, <1>3, <1>6, <2>1, <2>2
<1>8. CASE h = g /\ w * PageRows <= j
  BY <1>1, <1>3, <1>5, <1>6, <1>8
<1>9. CASE h = g /\ ~ (w * PageRows <= j)
  <2>1. j \div PageRows + 1 \in 1 .. w
    <3>1. w * PageRows \in Nat
      BY <1>4, KvForkAssumption
    <3> QED
      BY <1>4, <1>5, <1>9, <3>1, RowBelow
  <2>2. Done(g, j \div PageRows + 1)
    BY <1>1, <1>2, <1>3, <1>4, <2>1 DEF Done
  <2>3. pages[d][h][j \div PageRows + 1] = pages[s][h][j \div PageRows + 1]
    BY <1>1, <1>2, <1>9, <2>1, <2>2 DEF Inductive, Copied
  <2>4. Seen(d, h, j) = Seen(s, h, j)
    BY <2>3 DEF Seen
  <2> QED
    BY <1>1, <1>3, <1>6, <1>9, <2>4
<1> QED
  <2>1. h \in Nat /\ g \in Nat
    BY <1>3, KvForkAssumption DEF AllRegions
  <2> QED
    BY <1>1, <1>7, <1>8, <1>9, <2>1

LEMMA StepCopyBoundary ==
    ASSUME Inductive, CopyBoundary
    PROVE  Inductive'
<1>1. PICK d, s, g, t, w : /\ d = fork.into /\ s = fork.from /\ g = fork.region
                           /\ t = fork.tokens /\ w = WholePages(t)
  OBVIOUS
<1>2. /\ ~Alone /\ fork.page > w
      /\ UNCHANGED <<live, sealed, resident, pages, access, handles, fault>>
  BY <1>1 DEF CopyBoundary
<1>3. /\ d \in live /\ s \in live /\ d # s /\ d \in Caches /\ s \in Caches
      /\ g \in AllRegions /\ fork.page \in 1 .. w + 1 /\ t \in 1 .. MaxRows
      /\ shared[d] = 0 /\ sealed[s] /\ ~sealed[d] /\ t <= resident[d] /\ t <= resident[s]
  BY <1>1, <1>2 DEF Inductive, Forking, Types
<1>4. /\ w \in Nat /\ t \in Nat /\ w * PageRows <= t /\ w * PageRows \in Nat
      /\ \A x \in {d, s}, h \in AllRegions :
            Len(pages[x][h]) \in Nat /\ t <= Len(pages[x][h]) * PageRows
  BY <1>1, <1>2, <1>3, PrefixPages, MorePagesMoreRows
<1>5. /\ rows' \in [Pages -> [0 .. PageRows - 1 -> Caches \cup {Zero}]]
      /\ \A p \in Pages \ handles : rows'[p] = rows[p]
      /\ \A x \in live, h \in AllRegions, j \in Nat : j < Len(pages[x][h]) * PageRows =>
            Seen(x, h, j)' = (IF x = d /\ h = g /\ w * PageRows <= j /\ j < t
                              THEN Seen(s, g, j) ELSE Seen(x, h, j))
  BY <1>1, CopyBoundaryRows
<1>6. /\ fork.region \in Nat /\ Regions \in Nat /\ AllRegions = 1 .. Regions
      /\ \A h \in AllRegions : h \in Nat
  BY <1>1, <1>3, KvForkAssumption DEF AllRegions
<1>7. \/ /\ g < Regions /\ ~Alone' /\ shared' = shared
         /\ fork'.into = d /\ fork'.from = s /\ fork'.region = g + 1 /\ fork'.page = 1
         /\ fork'.tokens = t
         /\ DOMAIN fork' = DOMAIN fork /\ fork' = [f \in DOMAIN fork' |-> fork'[f]]
      \/ /\ g = Regions /\ fork' = NoFork /\ shared' = [shared EXCEPT ![d] = t]
  <2>1. CASE g < Regions
    <3>1. DOMAIN fork = {"into", "from", "tokens", "region", "page"}
      BY DEF Inductive, Forking
    <3>2. fork' = [fork EXCEPT !.region = @ + 1, !.page = 1] /\ shared' = shared
      BY <1>1, <2>1 DEF CopyBoundary
    <3>3. /\ fork'.into = d /\ fork'.from = s /\ fork'.region = g + 1 /\ fork'.page = 1
          /\ fork'.tokens = t
          /\ DOMAIN fork' = DOMAIN fork /\ fork' = [f \in DOMAIN fork' |-> fork'[f]]
      BY <1>1, <3>1, <3>2
    <3>4. d # Nobody
      BY <1>3, KvForkAssumption
    <3> QED
      BY <2>1, <3>2, <3>3, <3>4 DEF Alone, NoFork
  <2>2. CASE ~ (g < Regions)
    <3>1. g = Regions
      BY <1>3, <1>6, <2>2
    <3> QED
      BY <1>1, <2>2, <3>1 DEF CopyBoundary
  <2> QED
    BY <2>1, <2>2
<1>8. Types'
  BY <1>2, <1>5 DEF Inductive, Types
<1>9. Sizes' /\ Flags' /\ NeverFaults'
  <2>1. t \in 0 .. MaxRows
    BY <1>3, KvForkAssumption
  <2>2. shared' \in [Caches -> 0 .. MaxRows]
    BY <1>3, <1>7, <2>1 DEF Inductive, Sizes
  <2> QED
    BY <1>2, <2>2 DEF Inductive, Sizes, Flags, NeverFaults
<1>10. \A x \in Caches \ {d} : shared'[x] = shared[x]
  BY <1>3, <1>7 DEF Inductive, Sizes
<1>11. Empty'
  BY <1>2, <1>3, <1>10 DEF Inductive, Empty
<1>12. Placed' /\ MappedPagesExist' /\ Sharing' /\ ResidentRowsAreCommitted'
  BY <1>2 DEF Inductive, Placed, MappedPagesExist, Held, Sharing, Slots,
              ResidentRowsAreCommitted, Committed
<1>13. Forking'
  <2>1. CASE g < Regions
    <3>1. g + 1 \in AllRegions /\ 1 \in 1 .. w + 1 /\ g # Regions
      BY <1>3, <1>4, <1>6, <2>1
    <3> QED
      BY <1>1, <1>2, <1>3, <1>7, <2>1, <3>1 DEF Inductive, Forking
  <2>2. CASE fork' = NoFork
    BY <2>2 DEF Forking, Alone, NoFork
  <2> QED
    BY <1>7, <2>1, <2>2
<1>14. ASSUME NEW h \in AllRegions, NEW j \in Nat, Done(h, j)
       PROVE  h <= g /\ j <= w
  BY <1>1, <1>6, <1>14 DEF Done
<1>15. ReadOnly'
  <2> SUFFICES ASSUME NEW x \in live, ~sealed[x], NEW h \in AllRegions, NEW j \in Slots(x, h),
                      access[x][h][j] = "read"
               PROVE  IF x = fork'.into THEN Done(h, j)' ELSE j * PageRows <= shared'[x]
    BY <1>2 DEF ReadOnly, Slots
  <2>1. x \in Caches /\ j \in Nat /\ x # Nobody
    BY KvForkAssumption DEF Slots, Inductive, Types
  <2>2. CASE x = d
    <3>1. Done(h, j)
      BY <1>1, <2>2 DEF Inductive, ReadOnly
    <3>2. h <= g /\ j <= w
      BY <1>14, <2>1, <3>1
    <3>3. CASE fork'.into = d /\ fork'.region = g + 1 /\ fork'.tokens = t
      <4>1. h < g + 1
        BY <1>1, <1>6, <3>2
      <4>2. Done(h, j)'
        BY <1>1, <3>2, <3>3, <4>1 DEF Done
      <4> QED
        BY <2>2, <3>3, <4>2
    <3>4. CASE fork' = NoFork /\ shared' = [shared EXCEPT ![d] = t]
      <4>1. j * PageRows <= w * PageRows /\ j * PageRows \in Nat
        BY <1>4, <2>1, <3>2, MorePagesMoreRows
      <4>2. shared'[d] = t
        BY <1>3, <3>4 DEF Inductive, Sizes
      <4>3. fork'.into = Nobody
        BY <3>4 DEF NoFork
      <4> QED
        BY <1>4, <2>1, <2>2, <4>1, <4>2, <4>3
    <3> QED
      BY <1>7, <3>3, <3>4
  <2>3. CASE x # d
    <3>1. j * PageRows <= shared[x]
      BY <1>1, <2>3 DEF Inductive, ReadOnly
    <3>2. x # fork'.into
      BY <1>7, <2>1, <2>3 DEF NoFork
    <3> QED
      BY <1>10, <2>1, <2>3, <3>1, <3>2
  <2> QED
    BY <2>2, <2>3
<1>16. OwnRows'
  <2> SUFFICES ASSUME NEW x \in live, NEW h \in AllRegions,
                      NEW j \in Prefix(x)' .. Len(pages[x][h]) * PageRows - 1
               PROVE  Seen(x, h, j)' \in {x, Zero}
    BY <1>2 DEF OwnRows
  <2>1. x \in Caches /\ x # Nobody
    BY KvForkAssumption DEF Inductive, Types
  <2>2. Prefix(x)' = Prefix(x)
    <3>1. CASE x = d
      <4>1. Prefix(x) = t
        BY <1>1, <3>1 DEF Prefix
      <4>2. fork' = NoFork => shared'[x] = t
        BY <1>3, <1>7, <3>1 DEF NoFork, Alone, Inductive, Sizes
      <4> QED
        BY <1>7, <2>1, <3>1, <4>1, <4>2 DEF Prefix, NoFork
    <3>2. CASE x # d
      BY <1>1, <1>7, <1>10, <2>1, <3>2 DEF Prefix, NoFork
    <3> QED
      BY <3>1, <3>2
  <2>3. Prefix(x) \in Nat /\ Len(pages[x][h]) * PageRows \in Nat
    BY SMTT(30), <1>1, <1>4, <2>1, KvForkAssumption DEF Prefix, Inductive, Types, Sizes
  <2>4. j \in Nat /\ j < Len(pages[x][h]) * PageRows /\ Prefix(x) <= j
    BY <2>2, <2>3
  <2>5. ~ (x = d /\ j < t)
    BY <1>1, <1>4, <2>4 DEF Prefix
  <2>6. Seen(x, h, j)' = Seen(x, h, j)
    BY <1>5, <2>4, <2>5
  <2>7. j \in Prefix(x) .. Len(pages[x][h]) * PageRows - 1
    BY <2>3, <2>4
  <2> QED
    BY <2>6, <2>7 DEF Inductive, OwnRows
<1>17. Clear'
  BY <1>2, <1>5 DEF Inductive, Clear
<1>18. Copied'
  <2> SUFFICES ASSUME ~Alone', NEW h \in AllRegions
               PROVE  /\ \A j \in 1 .. w : Done(h, j)' => pages[d][h][j] = pages[s][h][j]
                      /\ h < g + 1 => \A j \in 0 .. t - 1 : Seen(d, h, j)' = Seen(s, h, j)'
    BY <1>1, <1>2, <1>7 DEF Copied, Alone
  <2>1. fork'.region = g + 1 /\ fork'.page = 1 /\ fork'.tokens = t
    BY <1>7 DEF Alone
  <2>2. ASSUME NEW j \in 1 .. w, Done(h, j)'
        PROVE  pages[d][h][j] = pages[s][h][j]
    <3>1. h < g + 1
      BY <1>1, <1>4, <1>6, <2>1, <2>2 DEF Done
    <3>2. Done(h, j)
      BY <1>1, <1>2, <1>3, <1>4, <1>6, <3>1 DEF Done
    <3> QED
      BY <1>1, <1>2, <3>2 DEF Inductive, Copied
  <2>3. ASSUME h < g + 1, NEW j \in 0 .. t - 1
        PROVE  Seen(d, h, j)' = Seen(s, h, j)'
    <3>1. h <= fork.region
      BY <1>1, <1>6, <2>3
    <3> QED
      BY <1>1, <3>1, BoundaryCopied
  <2> QED
    BY <2>2, <2>3
<1>19. PrefixIsResident'
  <2> SUFFICES ASSUME NEW x \in live PROVE shared'[x] <= resident[x]
    BY <1>2 DEF PrefixIsResident
  <2>1. CASE x = d /\ g = Regions
    BY <1>3, <1>6, <1>7, <2>1 DEF Inductive, Sizes
  <2>2. CASE ~ (x = d /\ g = Regions)
    <3>1. shared'[x] = shared[x]
      BY <1>6, <1>7, <1>10, <2>2 DEF Inductive, Types
    <3> QED
      BY <3>1 DEF Inductive, PrefixIsResident
  <2> QED
    BY <2>1, <2>2
<1> QED
  BY <1>8, <1>9, <1>11, <1>12, <1>13, <1>15, <1>16, <1>17, <1>18, <1>19 DEF Inductive

-----------------------------------------------------------------------------
(* The steps that drop a cache *)

\* What the others map stays, with what it holds.
LEMMA DropMaps ==
    ASSUME Inductive, NEW c \in live, Drop(c), NEW x \in live \ {c}
    PROVE  /\ x \in Caches /\ pages'[x] = pages[x] /\ access'[x] = access[x]
           /\ shared'[x] = shared[x] /\ sealed'[x] = sealed[x] /\ resident'[x] = resident[x]
           /\ \A h \in AllRegions : \A j \in Slots(x, h) :
                /\ pages[x][h][j] \in handles'
                /\ rows'[pages[x][h][j]] = rows[pages[x][h][j]]
<1>1. x \in Caches /\ c \in Caches
  BY DEF Inductive, Types
<1>2. /\ pages'[x] = pages[x] /\ access'[x] = access[x]
      /\ shared'[x] = shared[x] /\ sealed'[x] = sealed[x] /\ resident'[x] = resident[x]
  BY <1>1 DEF Drop, Inductive, Types, Sizes, Flags
<1>3. ASSUME NEW h \in AllRegions, NEW j \in Slots(x, h)
      PROVE  pages[x][h][j] \in handles' /\ rows'[pages[x][h][j]] = rows[pages[x][h][j]]
  <2>1. pages[x][h][j] \in Held(x) /\ pages[x][h][j] \in Pages /\ pages[x][h][j] \in handles
    BY <1>1, HeldPages, MappedIsPage, MappedIsHeld DEF Inductive
  <2>2. pages[x][h][j] \notin Released(c)
    BY <2>1 DEF Released
  <2> QED
    BY <2>1, <2>2 DEF Drop, Release
<1> QED
  BY <1>1, <1>2, <1>3

LEMMA DropRows ==
    ASSUME Inductive, NEW c \in live, Drop(c), NEW x \in live \ {c},
           NEW h \in AllRegions, NEW j \in Nat, j < Len(pages[x][h]) * PageRows
    PROVE  Seen(x, h, j)' = Seen(x, h, j)
<1>1. x \in Caches /\ pages'[x] = pages[x]
  BY DropMaps
<1>2. j \div PageRows + 1 \in Slots(x, h)
  BY <1>1, RowIsMapped DEF Inductive
<1>3. rows'[pages[x][h][j \div PageRows + 1]] = rows[pages[x][h][j \div PageRows + 1]]
  BY <1>2, DropMaps
<1> QED
  BY <1>1, <1>3 DEF Seen

LEMMA StepDrop ==
    ASSUME Inductive, NEW c \in live, Drop(c), fork' = NoFork, Alone \/ c = fork.into
    PROVE  Inductive'
<1>1. /\ live' = live \ {c} /\ UNCHANGED fault /\ c \in Caches
      /\ handles' = handles \ Released(c)
      /\ rows' = [p \in Pages |-> IF p \in Released(c) THEN Blank ELSE rows[p]]
      /\ \A x \in live' : x \in live \ {c}
  BY DEF Drop, Release, Inductive, Types
<1>2. \A x \in live' :
          /\ x \in Caches /\ pages'[x] = pages[x] /\ access'[x] = access[x]
          /\ shared'[x] = shared[x] /\ sealed'[x] = sealed[x] /\ resident'[x] = resident[x]
          /\ \A h \in AllRegions : Slots(x, h)' = Slots(x, h)
  BY <1>1, DropMaps DEF Slots
<1>3. Types'
  <2>1. /\ pages' = [pages EXCEPT ![c] = NoPages] /\ access' = [access EXCEPT ![c] = NoPages]
    BY DEF Drop
  <2>2. /\ NoPages \in [AllRegions -> Seq(Pages)] /\ NoPages \in [AllRegions -> Seq({"read", "readwrite"})]
        /\ \A g \in AllRegions : Len(NoPages[g]) = 0
    BY DEF NoPages
  <2>3. /\ pages' \in [Caches -> [AllRegions -> Seq(Pages)]]
        /\ access' \in [Caches -> [AllRegions -> Seq({"read", "readwrite"})]]
    BY <2>1, <2>2 DEF Inductive, Types
  <2>4. ASSUME NEW x \in Caches, NEW g \in AllRegions
        PROVE  Len(access'[x][g]) = Len(pages'[x][g]) /\ Len(pages'[x][g]) <= Reserved
    <3>1. CASE x = c
      <4>1. pages'[x] = NoPages /\ access'[x] = NoPages
        BY <2>1, <3>1 DEF Inductive, Types
      <4> QED
        BY <2>2, <4>1, KvForkAssumption
    <3>2. CASE x # c
      BY <2>1, <3>2 DEF Inductive, Types
    <3> QED
      BY <3>1, <3>2
  <2>5. Blank \in [0 .. PageRows - 1 -> Caches \cup {Zero}]
    BY DEF Blank
  <2>6. /\ rows' \in [Pages -> [0 .. PageRows - 1 -> Caches \cup {Zero}]]
        /\ handles' \in SUBSET Pages /\ live' \in SUBSET Caches
    BY <1>1, <2>5 DEF Inductive, Types
  <2> QED
    BY <2>3, <2>4, <2>6 DEF Types
<1>4. Sizes' /\ Flags' /\ NeverFaults'
  <2>1. 0 \in 0 .. MaxRows
    BY KvForkAssumption
  <2>2. Sizes'
    BY <2>1 DEF Drop, Inductive, Sizes
  <2>3. Flags' /\ NeverFaults'
    BY DEF Drop, Inductive, Flags, NeverFaults
  <2> QED
    BY <2>2, <2>3
<1>5. Empty'
  <2> SUFFICES ASSUME NEW x \in Caches \ live'
               PROVE  /\ pages'[x] = NoPages /\ access'[x] = NoPages
                      /\ shared'[x] = 0 /\ ~sealed'[x] /\ resident'[x] = 0
    BY DEF Empty
  <2>1. CASE x = c
    BY <2>1 DEF Drop, Inductive, Types, Sizes, Flags
  <2>2. CASE x # c
    <3>1. x \in Caches \ live
      BY <1>1, <2>2
    <3>2. pages'[x] = pages[x] /\ access'[x] = access[x]
      BY <2>2 DEF Drop, Inductive, Types
    <3>3. shared'[x] = shared[x] /\ sealed'[x] = sealed[x] /\ resident'[x] = resident[x]
      BY <2>2 DEF Drop, Inductive, Sizes, Flags
    <3> QED
      BY <3>1, <3>2, <3>3 DEF Inductive, Empty
  <2> QED
    BY <2>1, <2>2
<1>6. Forking' /\ Copied'
  BY DEF Forking, Copied, Alone, NoFork
<1>7. Placed'
  <2> SUFFICES ASSUME NEW x \in Caches, NEW h \in AllRegions, NEW j \in Slots(x, h)'
               PROVE  pages'[x][h][j][1] = h /\ pages'[x][h][j][2] = j
    BY DEF Placed
  <2>1. x # c
    BY <1>1 DEF Drop, Inductive, Types, NoPages, Slots
  <2>2. pages'[x] = pages[x]
    BY <2>1 DEF Drop, Inductive, Types
  <2> QED
    BY <2>2 DEF Inductive, Placed, Slots
<1>8. MappedPagesExist'
  <2>1. \A x \in live' : Held(x)' = Held(x)
    BY <1>2 DEF Held
  <2>2. ASSUME NEW p \in handles' PROVE \E x \in live' : p \in Held(x)
    <3>1. p \in handles /\ p \notin Released(c)
      BY <1>1
    <3>2. PICK y \in live : p \in Held(y)
      BY <3>1 DEF Inductive, MappedPagesExist
    <3> QED
      BY <1>1, <3>1, <3>2 DEF Released
  <2>3. ASSUME NEW x \in live', NEW p \in Held(x) PROVE p \in handles'
    <3>1. p \in handles
      BY <1>1 DEF Inductive, MappedPagesExist
    <3>2. p \notin Released(c)
      BY <1>1 DEF Released
    <3> QED
      BY <1>1, <3>1, <3>2
  <2> QED
    BY <2>1, <2>2, <2>3 DEF MappedPagesExist
<1>9. Sharing'
  BY <1>1, <1>2 DEF Inductive, Sharing
<1>10. \A x \in live' : x # fork.into /\ x # fork'.into
  BY <1>1, <1>2, KvForkAssumption DEF Alone, NoFork
<1>11. ReadOnly'
  BY <1>1, <1>2, <1>10 DEF Inductive, ReadOnly
<1>12. OwnRows'
  <2> SUFFICES ASSUME NEW x \in live', NEW h \in AllRegions,
                      NEW j \in shared[x] .. Len(pages[x][h]) * PageRows - 1
               PROVE  Seen(x, h, j)' \in {x, Zero}
    BY <1>2, <1>10 DEF OwnRows, Prefix
  <2>1. j \in Nat /\ j < Len(pages[x][h]) * PageRows
    BY <1>2, KvForkAssumption DEF Inductive, Types, Sizes
  <2>2. Seen(x, h, j)' = Seen(x, h, j)
    BY <1>1, <2>1, DropRows
  <2> QED
    BY <1>1, <1>10, <2>2 DEF Inductive, OwnRows, Prefix
<1>13. Clear'
  BY <1>1 DEF Inductive, Clear
<1>14. ResidentRowsAreCommitted' /\ PrefixIsResident'
  BY <1>1, <1>2 DEF Inductive, ResidentRowsAreCommitted, Committed, PrefixIsResident
<1> QED
  BY <1>3, <1>4, <1>5, <1>6, <1>7, <1>8, <1>9, <1>11, <1>12, <1>13, <1>14 DEF Inductive

-----------------------------------------------------------------------------
LEMMA Start ==
    ASSUME Init
    PROVE  Inductive
<1>1. NoPages \in [AllRegions -> Seq(Pages)] /\ NoPages \in [AllRegions -> Seq({"read", "readwrite"})]
      /\ \A g \in AllRegions : Len(NoPages[g]) = 0
  BY DEF NoPages
<1>2. Blank \in [0 .. PageRows - 1 -> Caches \cup {Zero}]
  BY DEF Blank
<1>3. Types
  BY <1>1, <1>2, KvForkAssumption DEF Init, Types
<1>4. Sizes /\ Flags /\ Empty /\ NeverFaults
  <2>1. 0 \in 0 .. MaxRows
    BY KvForkAssumption
  <2> QED
    BY <2>1 DEF Init, Sizes, Flags, Empty, NeverFaults
<1>5. Forking /\ Copied
  BY DEF Init, Forking, Copied, Alone, NoFork
<1>6. Placed
  BY <1>1 DEF Init, Placed, Slots
<1>7. MappedPagesExist /\ Sharing /\ ReadOnly /\ OwnRows /\ ResidentRowsAreCommitted /\ PrefixIsResident
  BY DEF Init, MappedPagesExist, Sharing, ReadOnly, OwnRows, ResidentRowsAreCommitted, PrefixIsResident
<1>8. Clear
  BY DEF Init, Clear
<1> QED
  BY <1>3, <1>4, <1>5, <1>6, <1>7, <1>8 DEF Inductive

LEMMA StepDestroy ==
    ASSUME Inductive, NEW c \in Caches, Destroy(c)
    PROVE  Inductive'
  BY StepDrop DEF Destroy, Alone

LEMMA StepForkFails ==
    ASSUME Inductive, ForkFails
    PROVE  Inductive'
<1>1. fork.into \in live
  BY DEF ForkFails, Inductive, Forking
<1> QED
  BY <1>1, StepDrop DEF ForkFails

LEMMA StepStutter ==
    ASSUME Inductive, UNCHANGED vars
    PROVE  Inductive'
<1>1. UNCHANGED <<live, sealed, shared, resident, pages, access, handles, rows, fork, fault>>
  BY DEF vars, cache, memory
<1>2. /\ Types' /\ Sizes' /\ Flags' /\ Empty' /\ NeverFaults' /\ PrefixIsResident'
  BY <1>1 DEF Inductive, Types, Sizes, Flags, Empty, NeverFaults, PrefixIsResident, Slots
<1>3. /\ Forking' /\ Placed' /\ ResidentRowsAreCommitted'
  BY <1>1 DEF Inductive, Forking, Alone, Placed, ResidentRowsAreCommitted, Committed, Slots
<1>4. /\ MappedPagesExist' /\ Sharing' /\ ReadOnly'
  BY <1>1 DEF Inductive, MappedPagesExist, Held, Sharing, ReadOnly, Done, Slots, Alone
<1>5. /\ OwnRows' /\ Clear' /\ Copied'
  BY <1>1 DEF Inductive, OwnRows, Prefix, Seen, Clear, Copied, Done, Slots, Alone
<1> QED
  BY <1>2, <1>3, <1>4, <1>5 DEF Inductive

THEOREM Invariance == Spec => []Inductive
<1>1. Init => Inductive
  BY Start
<1>2. Inductive /\ [Next]_vars => Inductive'
  <2> SUFFICES ASSUME Inductive, [Next]_vars PROVE Inductive'
    OBVIOUS
  <2>1. ASSUME NEW c \in Caches, Create(c) PROVE Inductive'
    BY <2>1, StepCreate
  <2>2. ASSUME NEW c \in Caches, Destroy(c) PROVE Inductive'
    BY <2>2, StepDestroy
  <2>3. ASSUME NEW c \in Caches, NEW n \in 1 .. MaxRows, Ensure(c, n) PROVE Inductive'
    BY <2>3, StepEnsure
  <2>4. ASSUME NEW c \in Caches, NEW n \in 1 .. MaxRows, EnsureFails(c, n) PROVE Inductive'
    BY <2>4, StepEnsureFails
  <2>5. ASSUME NEW c \in Caches, NEW n \in 1 .. MaxRows, Write(c, n) PROVE Inductive'
    BY <2>5, StepWrite
  <2>6. ASSUME NEW c \in Caches, NEW s \in Sources, NEW n \in 1 .. MaxRows, BeginFork(c, s, n)
        PROVE Inductive'
    BY <2>6, StepBeginFork
  <2>7. CASE SharePage
    BY <2>7, StepSharePage
  <2>8. CASE CopyBoundary
    BY <2>8, StepCopyBoundary
  <2>9. CASE ForkFails
    BY <2>9, StepForkFails
  <2>10. CASE UNCHANGED vars
    BY <2>10, StepStutter
  <2> QED
    BY <2>1, <2>2, <2>3, <2>4, <2>5, <2>6, <2>7, <2>8, <2>9, <2>10 DEF Next
<1> QED
  BY <1>1, <1>2, PTL DEF Spec

\* Every variable keeps its type, and no region maps more than it reserved.
THEOREM TypeCorrect == Spec => []TypeOK
<1>1. Inductive => TypeOK
  <2>1. Inductive => Types /\ Sizes /\ Flags
    BY DEF Inductive
  <2>2. Sizes /\ Flags =>
            /\ shared \in [Caches -> 0 .. MaxRows] /\ resident \in [Caches -> 0 .. MaxRows]
            /\ sealed \in [Caches -> BOOLEAN] /\ fault \in BOOLEAN
    BY DEF Sizes, Flags
  <2>3. Types => /\ live \subseteq Caches /\ handles \subseteq Pages
                 /\ \A c \in Caches, g \in AllRegions :
                        Len(access[c][g]) = Committed(c, g) /\ Committed(c, g) <= Reserved
    BY DEF Types, Committed
  <2> QED
    BY <2>1, <2>2, <2>3 DEF Types, TypeOK
<1> QED
  BY <1>1, Invariance, PTL

\* The pages that exist are those that some cache maps: nothing leaks, and no
\* mapping outlives its page, in whatever order sources and branches go.
THEOREM PagesLiveWithTheirMappings == Spec => []MappedPagesExist
<1>1. Inductive => MappedPagesExist
  BY DEF Inductive
<1> QED
  BY <1>1, Invariance, PTL

\* resident_context_ is a number of rows that every region has.
THEOREM ResidentIsThere == Spec => []ResidentRowsAreCommitted
<1>1. Inductive => ResidentRowsAreCommitted
  BY DEF Inductive
<1> QED
  BY <1>1, Invariance, PTL

\* What sealed_ and the shared prefix allow to be written, the mappings allow.
THEOREM WritesAreAllowed == Spec => []NeverFaults
<1>1. Inductive => NeverFaults
  BY DEF Inductive
<1> QED
  BY <1>1, Invariance, PTL

\* No two caches can write one page, and past its prefix a branch has its own
\* rows or none.
THEOREM Isolation == Spec => []BranchesAreIsolated
<1>1. Inductive => BranchesAreIsolated
  <2> SUFFICES ASSUME Inductive PROVE BranchesAreIsolated
    OBVIOUS
  <2>1. ASSUME NEW c \in live, NEW d \in live, c # d, NEW g \in AllRegions,
               NEW i \in 1 .. Committed(c, g), NEW j \in 1 .. Committed(d, g),
               pages[c][g][i] = pages[d][g][j]
        PROVE  access[c][g][i] = "read"
    <3>1. c \in Caches /\ d \in Caches /\ i \in Slots(c, g) /\ j \in Slots(d, g)
      BY DEF Inductive, Types, Slots, Committed
    <3>2. i = j
      BY <2>1, <3>1, OnePosition
    <3> QED
      BY <2>1, <3>1, <3>2 DEF Inductive, Sharing
  <2>2. ASSUME NEW c \in live, NEW g \in AllRegions, c # fork.into,
               NEW i \in shared[c] .. Committed(c, g) * PageRows - 1
        PROVE  Seen(c, g, i) \in {c, Zero}
    BY <2>2 DEF Inductive, OwnRows, Prefix, Committed
  <2> QED
    BY <2>1, <2>2 DEF BranchesAreIsolated
<1> QED
  BY <1>1, Invariance, PTL

-----------------------------------------------------------------------------
(* What a fork shares stays as it is *)

\* The rows of a prefix are there.
LEMMA PrefixRow ==
    ASSUME Inductive, NEW c \in live, NEW g \in AllRegions, NEW i \in 0 .. shared[c] - 1
    PROVE  /\ c \in Caches /\ i \in Nat /\ i < shared[c]
           /\ i < Len(pages[c][g]) * PageRows
           /\ i \div PageRows + 1 \in Slots(c, g)
<1>1. /\ c \in Caches /\ shared[c] \in Nat /\ resident[c] \in Nat /\ Len(pages[c][g]) \in Nat
      /\ shared[c] <= resident[c] /\ resident[c] <= Len(pages[c][g]) * PageRows
  BY KvForkAssumption DEF Inductive, Types, Sizes, PrefixIsResident,
     ResidentRowsAreCommitted, Committed
<1>2. Len(pages[c][g]) * PageRows \in Nat
  BY <1>1, KvForkAssumption
<1>3. i \in Nat /\ i < shared[c] /\ i < Len(pages[c][g]) * PageRows
  BY <1>1, <1>2
<1> QED
  BY <1>1, <1>3, RowIsMapped DEF Inductive

\* The rows of the prefix of c are what they were.
Kept(c) == \A g \in AllRegions, i \in 0 .. shared[c] - 1 : Seen(c, g, i)' = Seen(c, g, i)

LEMMA AppendsKeepPrefixes ==
    ASSUME Inductive, NEW a \in Caches, NEW target, Appended(a, target), rows' = rows,
           NEW c \in live
    PROVE  Kept(c)
<1> SUFFICES ASSUME NEW g \in AllRegions, NEW i \in 0 .. shared[c] - 1
             PROVE  Seen(c, g, i)' = Seen(c, g, i)
  BY DEF Kept
<1>1. c \in Caches /\ i \div PageRows + 1 \in Slots(c, g)
  BY PrefixRow
<1>2. ASSUME NEW k \in Slots(c, g) PROVE pages'[c][g][k] = pages[c][g][k]
  <2>1. CASE c = a
    BY <2>1 DEF Appended
  <2>2. CASE c # a
    <3>1. pages'[c] = pages[c]
      BY <1>1, <2>2 DEF Appended
    <3> QED
      BY <3>1
  <2> QED
    BY <2>1, <2>2
<1>3. pages'[c][g][i \div PageRows + 1] = pages[c][g][i \div PageRows + 1]
  BY <1>1, <1>2
<1> QED
  BY <1>3 DEF Seen

LEMMA WritesKeepPrefixes ==
    ASSUME Inductive, NEW a \in Caches, NEW n \in 1 .. MaxRows, Write(a, n), NEW c \in live
    PROVE  Kept(c)
<1> SUFFICES ASSUME NEW g \in AllRegions, NEW i \in 0 .. shared[c] - 1
             PROVE  Seen(c, g, i)' = Seen(c, g, i)
  BY DEF Kept
<1> DEFINE k == i \div PageRows + 1  r == i % PageRows  p == pages[c][g][k]
<1>1. c \in Caches /\ i \in Nat /\ i < shared[c] /\ k \in Slots(c, g)
  BY PrefixRow
<1>2. r \in 0 .. PageRows - 1 /\ p \in Pages
  BY <1>1, RowOnPage, MappedIsPage DEF Inductive
<1>3. a \in live /\ pages' = pages
  BY DEF Write
<1>4. Seen(c, g, i) = rows[p][r] /\ Seen(c, g, i)' = rows'[p][r]
  BY <1>3 DEF Seen
<1>5. ASSUME NEW h \in AllRegions, NEW j \in shared[a] .. n - 1, j % PageRows = r,
             pages[a][h][j \div PageRows + 1] = p
      PROVE  FALSE
  <2> DEFINE m == j \div PageRows + 1
  <2>1. j \in Nat /\ m \in Slots(a, h) /\ access[a][h][m] = "readwrite"
    BY StoredRow
  <2>2. a = c
    BY <1>1, <1>3, <1>5, <2>1, Private
  <2>3. m = k
    BY <1>1, <1>5, <2>1, <2>2, OnePosition
  <2>4. j \div PageRows = i \div PageRows
    BY <1>1, <2>1, <2>3, RowOnPage
  <2>5. j = i
    BY <1>1, <1>5, <2>1, <2>4, RowIsItsPlace
  <2>6. shared[a] \in Nat /\ shared[a] <= j
    BY KvForkAssumption DEF Inductive, Sizes
  <2> HIDE DEF m
  <2> QED
    BY <1>1, <2>2, <2>5, <2>6
<1> HIDE DEF k, r, p
<1> QED
  BY <1>2, <1>4, <1>5, StoreRows

LEMMA SharingKeepsPrefixes ==
    ASSUME Inductive, SharePage, NEW c \in live, c # fork.into
    PROVE  Kept(c)
<1> SUFFICES ASSUME NEW g \in AllRegions, NEW i \in 0 .. shared[c] - 1
             PROVE  Seen(c, g, i)' = Seen(c, g, i)
  BY DEF Kept
<1>1. i \div PageRows + 1 \in Slots(c, g)
  BY PrefixRow
<1>2. /\ pages'[c][g][i \div PageRows + 1] = pages[c][g][i \div PageRows + 1]
      /\ rows'[pages[c][g][i \div PageRows + 1]] = rows[pages[c][g][i \div PageRows + 1]]
  BY <1>1, SharePageRows
<1> QED
  BY <1>2 DEF Seen

LEMMA CopiesKeepPrefixes ==
    ASSUME Inductive, CopyBoundary, NEW c \in live, c # fork.into
    PROVE  Kept(c)
  BY PrefixRow, CopyBoundaryRows DEF Kept

LEMMA DropsKeepPrefixes ==
    ASSUME Inductive, NEW a \in live, Drop(a), NEW c \in live \ {a}
    PROVE  Kept(c)
  BY PrefixRow, DropRows DEF Kept

\* A step that leaves every prefix alone, and forks nothing, is as it should be.
LEMMA KeptIsFixed ==
    ASSUME NEW c \in Caches, c \in live' /\ shared'[c] > 0 => Forked(c) /\ shared'[c] = shared[c] /\ Kept(c)
    PROVE  Forked(c)' =>
               \A g \in AllRegions, i \in 0 .. shared'[c] - 1 :
                   Seen(c, g, i)' = Seen(IF Forked(c) THEN c ELSE fork.from, g, i)
  BY DEF Forked, Kept

\* A fork ends with the source's prefix, and while the branch lives its prefix
\* does not change, whatever else is written, shared, grown or dropped.
THEOREM PrefixesAreFixed == Spec => SharedPrefixIsFixed
<1>1. ASSUME Inductive, [Next]_vars
      PROVE  [\A c \in Caches : Forked(c)' =>
                  \A g \in AllRegions, i \in 0 .. shared'[c] - 1 :
                      Seen(c, g, i)' = Seen(IF Forked(c) THEN c ELSE fork.from, g, i)]_vars
  <2> SUFFICES ASSUME Next, NEW c \in Caches
               PROVE  Forked(c)' =>
                  \A g \in AllRegions, i \in 0 .. shared'[c] - 1 :
                      Seen(c, g, i)' = Seen(IF Forked(c) THEN c ELSE fork.from, g, i)
    BY <1>1
  <2> DEFINE Fine == c \in live' /\ shared'[c] > 0 => Forked(c) /\ shared'[c] = shared[c] /\ Kept(c)
  <2>1. Fine => (Forked(c)' =>
                  \A g \in AllRegions, i \in 0 .. shared'[c] - 1 :
                      Seen(c, g, i)' = Seen(IF Forked(c) THEN c ELSE fork.from, g, i))
    BY KeptIsFixed
  <2>2. shared[c] > 0 => c \in live
    BY <1>1, KvForkAssumption DEF Inductive, Empty
  <2>3. ASSUME NEW a \in Caches, NEW target, Appended(a, target), UNCHANGED <<rows, shared>>
        PROVE  Fine
    BY <1>1, <2>2, <2>3, AppendsKeepPrefixes DEF Forked
  <2>4. ASSUME NEW a \in Caches, Create(a) PROVE Fine
    <3>1. Commit(a, [g \in AllRegions |-> Initial]) /\ UNCHANGED <<rows, shared>>
      BY <2>4 DEF Create
    <3>2. [g \in AllRegions |-> Initial] \in [AllRegions -> 0 .. Reserved]
      BY KvForkAssumption
    <3>3. Appended(a, [g \in AllRegions |-> Initial])
      BY <1>1, <3>1, <3>2, CommitAppends
    <3> QED
      BY <2>3, <3>1, <3>3
  <2>5. ASSUME NEW a \in live, Drop(a) PROVE Fine
    <3>1. c \in live' => c \in live \ {a} /\ shared'[c] = shared[c]
      BY <1>1, <2>5, DropMaps DEF Drop
    <3> QED
      BY <1>1, <2>5, <3>1, DropsKeepPrefixes DEF Forked
  <2>6. ASSUME NEW a \in Caches, NEW n \in 1 .. MaxRows, Ensure(a, n) PROVE Fine
    <3>1. \E target : Appended(a, target)
      BY <1>1, <2>6, GrowAppends DEF Ensure
    <3> QED
      BY <2>3, <2>6, <3>1 DEF Ensure
  <2>7. ASSUME NEW a \in Caches, NEW n \in 1 .. MaxRows, EnsureFails(a, n) PROVE Fine
    <3>1. PICK target \in PartlyGrown(a, n) : Commit(a, target)
      BY <2>7 DEF EnsureFails
    <3>2. target \in [AllRegions -> 0 .. Reserved]
      BY <1>1, <3>1, PartlyGrownSizes
    <3>3. Appended(a, target)
      BY <1>1, <3>1, <3>2, CommitAppends
    <3> QED
      BY <2>3, <2>7, <3>3 DEF EnsureFails, cache
  <2>8. ASSUME NEW a \in Caches, NEW n \in 1 .. MaxRows, Write(a, n) PROVE Fine
    BY <1>1, <2>8, WritesKeepPrefixes DEF Write, cache, Forked
  <2>9. ASSUME NEW d \in Caches, NEW s \in Sources, NEW n \in 1 .. MaxRows, BeginFork(d, s, n)
        PROVE  Fine
    <3>1. \E target : Appended(d, target)
      BY <1>1, <2>9, GrowAppends DEF BeginFork
    <3> QED
      BY <2>3, <2>9, <3>1 DEF BeginFork
  <2>10. ASSUME ~Alone PROVE fork.into \in live /\ shared[fork.into] = 0
    BY <1>1, <2>10 DEF Inductive, Forking
  <2>11. ASSUME SharePage PROVE Fine
    <3>1. ~Alone /\ live' = live /\ shared' = shared
      BY <2>11 DEF SharePage, cache
    <3>2. shared[c] > 0 => c # fork.into
      BY <2>10, <3>1
    <3>3. shared[c] > 0 => Forked(c) /\ Kept(c)
      BY <1>1, <2>2, <2>11, <3>2, SharingKeepsPrefixes DEF Forked
    <3> QED
      BY <3>1, <3>3
  <2>12. ASSUME ForkFails PROVE Fine
    <3>1. ~Alone /\ Drop(fork.into)
      BY <2>12 DEF ForkFails
    <3> QED
      BY <2>5, <2>10, <3>1
  <2>13. ASSUME CopyBoundary, ~ (c = fork.into /\ fork.region = Regions) PROVE Fine
    <3>1. ~Alone /\ live' = live
      BY <2>13 DEF CopyBoundary
    <3>2. shared'[c] = shared[c]
      <4>1. shared' = shared \/ (fork.region >= Regions /\ shared' = [shared EXCEPT ![fork.into] = fork.tokens])
        BY <1>1, <2>13, <3>1, KvForkAssumption DEF CopyBoundary, Inductive, Forking, AllRegions
      <4>2. fork.region >= Regions => fork.region = Regions
        BY <1>1, <3>1, KvForkAssumption DEF Inductive, Forking, AllRegions
      <4>3. shared \in [Caches -> 0 .. MaxRows]
        BY <1>1 DEF Inductive, Sizes
      <4> QED
        BY <2>13, <4>1, <4>2, <4>3
    <3>3. shared[c] > 0 => c # fork.into
      BY <2>10, <3>1
    <3>4. shared[c] > 0 => Forked(c) /\ Kept(c)
      BY <1>1, <2>2, <2>13, <3>3, CopiesKeepPrefixes DEF Forked
    <3> QED
      BY <3>1, <3>2, <3>4
  <2>14. CASE CopyBoundary /\ c = fork.into /\ fork.region = Regions
    <3>1. ~Forked(c) /\ shared'[c] = fork.tokens
      <4>1. shared[c] = 0
        BY <2>10, <2>14 DEF CopyBoundary
      <4>2. shared' = [shared EXCEPT ![c] = fork.tokens]
        BY SMTT(30), <2>14, KvForkAssumption DEF CopyBoundary
      <4>3. shared \in [Caches -> 0 .. MaxRows]
        BY <1>1 DEF Inductive, Sizes
      <4> QED
        BY <4>1, <4>2, <4>3 DEF Forked
    <3>2. \A g \in AllRegions : g <= fork.region
      BY <2>14, KvForkAssumption DEF AllRegions
    <3>3. \A g \in AllRegions, i \in 0 .. fork.tokens - 1 : Seen(c, g, i)' = Seen(fork.from, g, i)
      BY <1>1, <2>14, <3>2, BoundaryCopied
    <3> QED
      BY <3>1, <3>3
  <2>15. ASSUME NEW a \in Caches, Destroy(a) PROVE Fine
    BY <2>5, <2>15 DEF Destroy
  <2> HIDE DEF Fine
  <2> QED
    BY <2>1, <2>4, <2>6, <2>7, <2>8, <2>9, <2>11, <2>12, <2>13, <2>14, <2>15 DEF Next
<1> QED
  BY <1>1, Invariance, PTL DEF Spec, SharedPrefixIsFixed

=============================================================================
