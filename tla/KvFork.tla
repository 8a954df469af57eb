------------------------------ MODULE KvFork ------------------------------
(***************************************************************************)
(* KvCache and KvCache::VirtualRegion, src/runtime.cpp: the K/V rows of    *)
(* the global layers.  Each region reserves addresses for all rows it may  *)
(* ever hold and commits physical pages as the context grows.  A fork maps *)
(* the whole pages of a prefix into another cache, read-only on both sides *)
(* from then on, copies the page the prefix ends in, and seals the source. *)
(*                                                                         *)
(* Every driver call may fail.  A cache whose construction or fork fails   *)
(* is destroyed by the exception, as in src/decisions.cpp; one that fails  *)
(* to grow lives on.  Rows carry the name of the cache that wrote them.    *)
(***************************************************************************)
EXTENDS Naturals, FiniteSetsExt, SequencesExt

CONSTANTS
    Caches,     \* the caches of the process
    Sources,   \* those that are forked: the worker forks only its prefix_
    Nobody,     \* no cache
    Regions,    \* virtual_regions_ are visited in the order 1 .. Regions
    PageRows,   \* rows on a page (granularity / 2048)
    MaxRows,    \* maximum_context_
    Initial,    \* pages committed by the constructor
    Reserved    \* pages that a region has addresses for

ASSUME KvForkAssumption ==
    /\ IsFiniteSet(Caches) /\ Nobody \notin Caches
    /\ Sources \subseteq Caches
    /\ Regions \in Nat \ {0}
    /\ PageRows \in Nat \ {0}
    /\ MaxRows \in Nat \ {0}
    /\ Initial \in Nat \ {0}
    /\ Reserved \in Nat
    /\ Initial <= Reserved
    /\ MaxRows <= Reserved * PageRows

Zero == "zero"                      \* what a new page holds

\* Physical pages: for each region and position one per cache and one to spare.
Pages == (1 .. Regions) \X (1 .. Reserved) \X (1 .. Cardinality(Caches) + 1)
Blank == [i \in 0 .. PageRows - 1 |-> Zero]

VARIABLES
    live,       \* the caches that exist
    pages,      \* of each, region and page: the physical page mapped there
    access,     \* and what the mapping allows: "read" or "readwrite"
    shared,     \* shared_prefix_tokens_
    sealed,     \* sealed_
    resident,   \* resident_context_
    handles,    \* the physical pages that have not been released
    rows,       \* what the rows of a physical page hold
    fault,      \* a kernel wrote where it may not
    fork        \* the share_global_prefix_from() that is under way

cache == <<live, shared, sealed, resident>>
memory == <<pages, access, handles, rows, fault>>
vars == <<cache, memory, fork>>

\* One call at a time: nothing else happens during a fork.
NoFork == [into |-> Nobody, from |-> Nobody, tokens |-> 0, region |-> 0, page |-> 0]
Alone == fork = NoFork

AllRegions == 1 .. Regions
NoPages == [g \in AllRegions |-> <<>>]

\* The pages that hold the first n rows.
PagesFor(n) == (n + PageRows - 1) \div PageRows

\* Row i of region g as cache c sees it.
Seen(c, g, i) == rows[pages[c][g][i \div PageRows + 1]][i % PageRows]
Committed(c, g) == Len(pages[c][g])

Held(c) == UNION {Range(pages[c][g]) : g \in AllRegions}

-----------------------------------------------------------------------------
Init ==
    /\ live = {}
    /\ pages = [c \in Caches |-> NoPages]
    /\ access = [c \in Caches |-> NoPages]
    /\ shared = [c \in Caches |-> 0]
    /\ sealed = [c \in Caches |-> FALSE]
    /\ resident = [c \in Caches |-> 0]
    /\ handles = {}
    /\ rows = [p \in Pages |-> Blank]
    /\ fault = FALSE
    /\ fork = NoFork

\* A page the driver may create for position i of region g.
NewPage(g, i) == <<g, i, CHOOSE k \in 1 .. Cardinality(Caches) + 1 : <<g, i, k>> \notin handles>>

\* VirtualRegion::map() for all regions of c: zeroed pages from the driver, for
\* region g as many as it takes to hold target[g].
Commit(c, target) ==
    LET new(g) == [i \in 1 .. target[g] - Committed(c, g) |-> NewPage(g, Committed(c, g) + i)]
    IN  /\ pages' = [pages EXCEPT ![c] = [g \in AllRegions |-> @[g] \o new(g)]]
        /\ access' = [access EXCEPT ![c] =
                [g \in AllRegions |-> @[g] \o [i \in DOMAIN new(g) |-> "readwrite"]]]
        /\ handles' = handles \cup UNION {Range(new(g)) : g \in AllRegions}

Create(c) ==
    /\ Alone
    /\ c \notin live
    /\ live' = live \cup {c}
    /\ Commit(c, [g \in AllRegions |-> Initial])
    /\ resident' = [resident EXCEPT ![c] = Min({MaxRows, Initial * PageRows})]
    /\ UNCHANGED <<shared, sealed, rows, fault, fork>>

\* Mutant: a cache takes every page it maps along.
ReleasedAll(c) == Held(c)

\* PhysicalPage is shared: its handle goes with the last cache that maps it.
Released(c) == Held(c) \ UNION {Held(d) : d \in live \ {c}}

\* cuMemRelease(): what the pages held is gone.
Release(gone) ==
    /\ handles' = handles \ gone
    /\ rows' = [p \in Pages |-> IF p \in gone THEN Blank ELSE rows[p]]

\* release(), or the stack unwinding.
Drop(c) ==
    /\ live' = live \ {c}
    /\ pages' = [pages EXCEPT ![c] = NoPages]
    /\ access' = [access EXCEPT ![c] = NoPages]
    /\ shared' = [shared EXCEPT ![c] = 0]
    /\ sealed' = [sealed EXCEPT ![c] = FALSE]
    /\ resident' = [resident EXCEPT ![c] = 0]
    /\ Release(Released(c))
    /\ UNCHANGED fault

Destroy(c) ==
    /\ Alone
    /\ c \in live
    /\ Drop(c)
    /\ UNCHANGED fork

-----------------------------------------------------------------------------
(* ensure_context() *)

\* Sizes that the regions may reach when n rows are asked for and a driver call
\* fails: all before one region in full, that one in part, the rest not at all.
PartlyGrown(c, n) ==
    LET full(g) == IF PagesFor(n) > Committed(c, g) THEN PagesFor(n) ELSE Committed(c, g)
        upTo(at, k) == [g \in AllRegions |->
            IF g < at THEN full(g) ELSE IF g = at THEN k ELSE Committed(c, g)]
    IN  UNION {{upTo(at, k) : k \in Committed(c, at) .. PagesFor(n) - 1} : at \in AllRegions}

\* Mutant: only one region is looked at.
ResidentOfFirst(c) == Min({MaxRows, Len(pages'[c][1]) * PageRows})

\* The rows that every region holds, of those the cache may have.
ResidentRows(c) == Min({MaxRows} \cup {Len(pages'[c][g]) * PageRows : g \in AllRegions})

\* Kernels store the rows of c from its shared prefix to row n - 1; into a
\* read-only page they cannot.
Store(c, n) ==
    LET stored == AllRegions \X (shared[c] .. n - 1)
        page(x) == x[2] \div PageRows + 1
    IN  /\ fault' = (fault \/ \E x \in stored : access[c][x[1]][page(x)] = "read")
        /\ rows' = [p \in Pages |-> [r \in 0 .. PageRows - 1 |->
                IF \E x \in stored :
                    /\ x[2] % PageRows = r
                    /\ pages[c][x[1]][page(x)] = p
                    /\ access[c][x[1]][page(x)] = "readwrite"
                THEN c ELSE rows[p][r]]]

\* All regions grow to the n rows asked for, unless they are there.
Grow(c, n) ==
    IF n <= resident[c]
    THEN UNCHANGED <<pages, access, handles, resident>>
    ELSE /\ Commit(c, [g \in AllRegions |-> PagesFor(n)])
         /\ resident' = [resident EXCEPT ![c] = ResidentRows(c)]

\* Less than there is changes nothing.
Ensure(c, n) ==
    /\ Alone
    /\ c \in live
    /\ ~sealed[c]
    /\ n > resident[c]
    /\ Grow(c, n)
    /\ UNCHANGED <<live, shared, sealed, rows, fault, fork>>

EnsureFails(c, n) ==
    /\ Alone
    /\ c \in live
    /\ ~sealed[c]
    /\ n > resident[c]
    /\ \E target \in PartlyGrown(c, n) : Commit(c, target)
    /\ UNCHANGED <<cache, rows, fault, fork>>

\* Mutant: ensure_context() does not look at sealed_.
WriteSealed(c, n) ==
    /\ Alone
    /\ c \in live
    /\ shared[c] < n /\ n <= resident[c]
    /\ Store(c, n)
    /\ UNCHANGED <<cache, pages, access, handles, fork>>

\* clone() and prefill() give c its rows up to n, in every region, which
\* ensure_context() has provided for.
Write(c, n) ==
    /\ Alone
    /\ c \in live
    /\ ~sealed[c]
    /\ shared[c] < n /\ n <= resident[c]
    /\ Store(c, n)
    /\ UNCHANGED <<cache, pages, access, handles, fork>>

-----------------------------------------------------------------------------
(* share_global_prefix_from() and VirtualRegion::share_prefix() *)

\* The arguments are good, the destination holds the prefix, the source is
\* sealed.
BeginFork(d, s, n) ==
    /\ Alone
    /\ {d, s} \subseteq live /\ d # s
    /\ shared[d] = 0 /\ ~sealed[d]
    /\ n >= 2 /\ n <= resident[s]
    /\ Grow(d, n)
    /\ sealed' = [sealed EXCEPT ![s] = TRUE]
    /\ fork' = [into |-> d, from |-> s, tokens |-> n, region |-> 1, page |-> 1]
    /\ UNCHANGED <<live, shared, rows, fault>>

\* Mutant: the page that the prefix ends in is shared as well.
WholeRoundedUp(n) == PagesFor(n)

WholePages(n) == n \div PageRows

\* A private page makes way for one of the source, which neither may write.
SharePage ==
    /\ ~Alone
    /\ fork.page <= WholePages(fork.tokens)
    /\ LET d == fork.into  s == fork.from  g == fork.region  i == fork.page
           old == pages[d][g][i]
       IN  /\ pages' = [pages EXCEPT ![d][g][i] = pages[s][g][i]]
           /\ access' = [access EXCEPT ![d][g][i] = "read", ![s][g][i] = "read"]
           /\ Release({old})
    /\ fork' = [fork EXCEPT !.page = @ + 1]
    /\ UNCHANGED <<cache, fault>>

\* The rows of the prefix on the page it ends in are copied: the region is done,
\* and with the last one the fork.
CopyBoundary ==
    /\ ~Alone
    /\ fork.page > WholePages(fork.tokens)
    /\ LET d == fork.into  g == fork.region  whole == WholePages(fork.tokens)
       IN  /\ rows' = IF fork.tokens <= whole * PageRows THEN rows
                      ELSE [rows EXCEPT ![pages[d][g][whole + 1]] =
                            [r \in 0 .. PageRows - 1 |->
                                IF whole * PageRows + r < fork.tokens
                                THEN Seen(fork.from, g, whole * PageRows + r) ELSE @[r]]]
           /\ IF g < Regions
              THEN /\ fork' = [fork EXCEPT !.region = @ + 1, !.page = 1]
                   /\ UNCHANGED shared
              ELSE /\ fork' = NoFork
                   /\ shared' = [shared EXCEPT ![d] = fork.tokens]
    /\ UNCHANGED <<live, sealed, resident, pages, access, handles, fault>>

\* A driver call fails, and the branch goes the way of every local object.
ForkFails ==
    /\ ~Alone
    /\ Drop(fork.into)
    /\ fork' = NoFork

-----------------------------------------------------------------------------
Next ==
    \/ \E c \in Caches :
        \/ Create(c) \/ Destroy(c)
        \/ \E n \in 1 .. MaxRows :
            \/ Ensure(c, n) \/ EnsureFails(c, n)
            \/ Write(c, n)
            \/ \E s \in Sources : BeginFork(c, s, n)
    \/ SharePage \/ CopyBoundary \/ ForkFails

Spec == Init /\ [][Next]_vars

-----------------------------------------------------------------------------
(* Correctness *)

Forked(c) == c \in live /\ shared[c] > 0

TypeOK ==
    /\ live \subseteq Caches
    /\ pages \in [Caches -> [AllRegions -> Seq(Pages)]]
    /\ access \in [Caches -> [AllRegions -> Seq({"read", "readwrite"})]]
    /\ \A c \in Caches, g \in AllRegions :
        /\ Len(access[c][g]) = Committed(c, g)
        /\ Committed(c, g) <= Reserved
    /\ shared \in [Caches -> 0 .. MaxRows]
    /\ sealed \in [Caches -> BOOLEAN]
    /\ resident \in [Caches -> 0 .. MaxRows]
    /\ handles \subseteq Pages
    /\ rows \in [Pages -> [0 .. PageRows - 1 -> Caches \cup {Zero}]]
    /\ fault \in BOOLEAN

\* test_decision_kv_fork(): "Physical handles must outlive the source virtual
\* mapping", and nothing is kept that no cache maps.
MappedPagesExist == handles = UNION {Held(c) : c \in live}

\* ensure_context() promises rows that every region has.
ResidentRowsAreCommitted ==
    \A c \in live, g \in AllRegions : resident[c] <= Committed(c, g) * PageRows

\* No legal call makes a kernel write to a read-only page: what sealed_ and the
\* prefix a branch shares allow to be written, the mappings allow too.
NeverFaults == ~fault

\* "shared KV data corrupted": a fork ends with the rows the source has, and
\* while the branch lives they never change, whatever happens to the source and
\* to other branches.
SharedPrefixIsFixed ==
    [][\A c \in Caches : Forked(c)' =>
        \A g \in AllRegions, i \in 0 .. shared'[c] - 1 :
            Seen(c, g, i)' = Seen(IF Forked(c) THEN c ELSE fork.from, g, i)]_vars

\* "branch suffixes are not isolated": two caches see the same page only where
\* neither can write it, and rows past the prefix are the branch's own, or
\* nobody's.
BranchesAreIsolated ==
    /\ \A c, d \in live : c # d /\ Alone =>
        \A g \in AllRegions : \A i \in 1 .. Committed(c, g), j \in 1 .. Committed(d, g) :
            pages[c][g][i] = pages[d][g][j] => access[c][g][i] = "read"
    /\ \A c \in live, g \in AllRegions : c # fork.into =>
        \A i \in shared[c] .. Committed(c, g) * PageRows - 1 : Seen(c, g, i) \in {c, Zero}

=============================================================================
