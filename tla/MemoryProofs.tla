---------------------------- MODULE MemoryProofs ----------------------------
(***************************************************************************)
(* The invariants of Memory, and that it implements ByteStore.             *)
(***************************************************************************)
EXTENDS Memory, TLAPS, FiniteSetTheorems, SequenceTheorems, WellFoundedInduction

---------------------------------------------------------------------------
(* Pages *)

\* Division with remainder.
LEMMA Divide ==
    ASSUME NEW a \in Nat, NEW d \in Nat, d # 0
    PROVE  /\ a \div d \in Nat
           /\ a % d \in 0..(d - 1)
           /\ a = (a \div d) * d + (a % d)
  <1> DEFINE q == a \div d
             r == a % d
  <1>1. a = d * q + r /\ r \in 0..(d - 1) /\ q \in Nat
    OBVIOUS
  <1> HIDE DEF q, r
  <1>2. a = q * d + r
    BY <1>1
  <1> QED BY <1>1, <1>2 DEF q, r

\* There is one way to divide.
LEMMA DivideOnce ==
    ASSUME NEW q \in Nat, NEW d \in Nat, d # 0, NEW r \in 0..(d - 1)
    PROVE  (q * d + r) \div d = q /\ (q * d + r) % d = r
  OBVIOUS

\* Multiples keep the order of their factors.
LEMMA TimesMonotonic ==
    ASSUME NEW i \in Nat, NEW j \in Nat, NEW d \in Nat, i <= j
    PROVE  i * d \in Nat /\ j * d \in Nat /\ i * d <= j * d
  <1>1. (j - i) * d \in Nat
    OBVIOUS
  <1>2. (j - i) * d = j * d - i * d
    OBVIOUS
  <1> QED BY <1>1, <1>2

\* The size of a page is a positive number.
LEMMA PageSizeType == PageSize \in Nat /\ PageSize # 0 /\ NPages \in Nat
  BY MemoryAssumption

\* An address is the start of its page and an offset in it (paddr_to_hostaddr).
LEMMA PageParts ==
    ASSUME NEW a \in Nat
    PROVE  /\ Page(a) \in Nat
           /\ a % PageSize \in 0..(PageSize - 1)
           /\ a = Page(a) * PageSize + (a % PageSize)
  BY PageSizeType, Divide DEF Page

\* An address is found from its page and offset.
LEMMA PageOfOffset ==
    ASSUME NEW p \in Nat, NEW o \in 0..(PageSize - 1)
    PROVE  Page(p * PageSize + o) = p /\ (p * PageSize + o) % PageSize = o
  BY PageSizeType, DivideOnce DEF Page

\* The pages of the addresses in use.
LEMMA PageInUse ==
    ASSUME NEW a \in Addrs
    PROVE  a \in Nat /\ Page(a) \in Pages
  <1>1. NPages * PageSize \in Nat
    BY PageSizeType
  <1>2. a \in Nat /\ a < NPages * PageSize
    BY <1>1 DEF Addrs
  <1> DEFINE p == Page(a)
             o == a % PageSize
  <1>3. p \in Nat /\ o \in Nat /\ a = p * PageSize + o
    BY <1>2, PageParts, PageSizeType
  <1> HIDE DEF p, o
  <1>4. ASSUME NPages <= p PROVE FALSE
    <2>1. p * PageSize \in Nat /\ NPages * PageSize <= p * PageSize
      BY <1>3, <1>4, PageSizeType, TimesMonotonic
    <2> QED BY <1>1, <1>2, <1>3, <2>1
  <1> QED BY <1>2, <1>3, <1>4, PageSizeType DEF Pages, p

\* rnd_pgsz_n gives a page boundary.
LEMMA RndNAligned ==
    ASSUME NEW x \in Nat
    PROVE  RndN(x) \in Nat /\ RndN(x) % PageSize = 0
  <1> DEFINE q == (x + PageSize - 1) \div PageSize
  <1>1. q \in Nat
    BY PageSizeType, Divide
  <1> HIDE DEF q
  <1>2. q * PageSize + 0 = q * PageSize /\ q * PageSize \in Nat /\ 0 \in 0..(PageSize - 1)
    BY <1>1, PageSizeType
  <1>3. (q * PageSize) % PageSize = 0
    BY <1>1, <1>2, PageSizeType, DivideOnce
  <1> QED BY <1>2, <1>3 DEF RndN, q

\* Sums of page boundaries are page boundaries.
LEMMA AlignedSum ==
    ASSUME NEW x \in Nat, NEW y \in Nat, x % PageSize = 0, y % PageSize = 0
    PROVE  (x + y) % PageSize = 0
  <1> DEFINE i == x \div PageSize
             j == y \div PageSize
  <1>1. i \in Nat /\ j \in Nat /\ x = i * PageSize + 0 /\ y = j * PageSize + 0
    BY PageSizeType, Divide
  <1> HIDE DEF i, j
  <1>2. x + y = (i + j) * PageSize + 0 /\ i + j \in Nat /\ 0 \in 0..(PageSize - 1)
    BY <1>1, PageSizeType
  <1> QED BY <1>2, PageSizeType, DivideOnce

\* A page boundary is below an address only if it is not above the start of its page.
LEMMA BoundaryBelow ==
    ASSUME NEW b \in Nat, b % PageSize = 0, NEW a \in Nat
    PROVE  /\ Page(a) * PageSize \in Nat
           /\ b <= a <=> b <= Page(a) * PageSize
  <1> DEFINE i == b \div PageSize
             p == Page(a)
             o == a % PageSize
  <1>1. i \in Nat /\ b = i * PageSize + 0
    BY PageSizeType, Divide
  <1>2. p \in Nat /\ o \in 0..(PageSize - 1) /\ a = p * PageSize + o
    BY PageParts, PageSizeType
  <1> HIDE DEF i, p, o
  <1>3. CASE i <= p
    <2>1. i * PageSize \in Nat /\ p * PageSize \in Nat /\ i * PageSize <= p * PageSize
      BY <1>1, <1>2, <1>3, PageSizeType, TimesMonotonic
    <2> QED BY <1>1, <1>2, <2>1, PageSizeType DEF p
  <1>4. CASE ~(i <= p)
    <2>1. (p + 1) * PageSize \in Nat /\ i * PageSize \in Nat /\ (p + 1) * PageSize <= i * PageSize
      BY <1>1, <1>2, <1>4, PageSizeType, TimesMonotonic
    <2>2. (p + 1) * PageSize = p * PageSize + PageSize /\ p * PageSize \in Nat
      BY <1>2, PageSizeType
    <2> QED BY <1>1, <1>2, <2>1, <2>2, PageSizeType DEF p
  <1> QED BY <1>3, <1>4, <1>1, <1>2

---------------------------------------------------------------------------
(* Targets *)

\* A set of natural numbers that is not empty has a least one.
LEMMA LeastNatural ==
    ASSUME NEW S, S \subseteq Nat, S # {}
    PROVE  \E n \in S : \A m \in S : n <= m
  <1>1. \E n \in S : \A m \in S : ~(<<m, n>> \in OpToRel(<, Nat))
    BY NatLessThanWellFounded, WFMin
  <1>2. \A m, n \in Nat : m < n => <<m, n>> \in OpToRel(<, Nat)
    BY Zenon DEF OpToRel
  <1>3. PICK n \in S : \A m \in S : ~(<<m, n>> \in OpToRel(<, Nat))
    BY <1>1
  <1>4. ASSUME NEW m \in S PROVE n <= m
    <2>1. ~(m < n)
      BY <1>2, <1>3
    <2> QED BY <2>1
  <1> QED BY <1>4

\* Of finitely many elements, one has the greatest value: the one that the fewest exceed.
LEMMA GreatestValue ==
    ASSUME NEW S, IsFiniteSet(S), S # {}, NEW f, \A i \in S : f[i] \in Int
    PROVE  \E i \in S : \A j \in S : f[j] <= f[i]
  <1> DEFINE Above(i) == {j \in S : f[j] > f[i]}
             Counts == {Cardinality(Above(i)) : i \in S}
  <1>1. \A i \in S : IsFiniteSet(Above(i)) /\ Cardinality(Above(i)) \in Nat
    BY FS_Subset, FS_CardinalityType
  <1>2. \E n \in Counts : \A m \in Counts : n <= m
    <2>1. Counts \subseteq Nat /\ Counts # {}
      BY <1>1
    <2> HIDE DEF Counts
    <2> QED BY <2>1, LeastNatural
  <1>3. PICK i \in S : \A j \in S : Cardinality(Above(i)) <= Cardinality(Above(j))
    BY <1>2
  <1>4. ASSUME NEW j \in S, f[j] > f[i]
        PROVE  FALSE
    <2>1. Above(j) \subseteq Above(i) /\ j \in Above(i) /\ j \notin Above(j)
      BY <1>4
    <2> HIDE DEF Above
    <2>2. /\ Cardinality(Above(j)) <= Cardinality(Above(i))
          /\ Cardinality(Above(i)) <= Cardinality(Above(j))
      BY <1>1, <1>3, <2>1, FS_Subset
    <2>3. Cardinality(Above(i)) = Cardinality(Above(j))
      BY <1>1, <2>2
    <2> QED BY <1>1, <2>1, <2>3, FS_Subset
  <1> QED BY <1>4

Spans == [base : Nat, end : Int, prio : Int]

\* Targets start and end at page boundaries (register_memory_target rounds both).
Targets ==
    /\ mem_tgt \in Seq(Spans) /\ Len(mem_tgt) \in Tgts
    /\ \A i \in DOMAIN mem_tgt :
          /\ mem_tgt[i].base % PageSize = 0
          /\ mem_tgt[i].end + 1 \in Nat /\ (mem_tgt[i].end + 1) % PageSize = 0

\* Every target has its type.
LEMMA TargetTypes ==
    ASSUME Targets
    PROVE  /\ Len(mem_tgt) \in Nat /\ DOMAIN mem_tgt = 1..Len(mem_tgt)
           /\ \A i \in DOMAIN mem_tgt : /\ mem_tgt[i] \in Spans /\ i \in Nat
                                        /\ mem_tgt[i].base \in Nat /\ mem_tgt[i].end \in Int
                                        /\ mem_tgt[i].prio \in Int
  <1>1. mem_tgt \in Seq(Spans)
    BY DEF Targets
  <1>2. Len(mem_tgt) \in Nat /\ DOMAIN mem_tgt = 1..Len(mem_tgt)
    BY <1>1, LenProperties
  <1>3. \A i \in DOMAIN mem_tgt : mem_tgt[i] \in Spans
    BY <1>1, <1>2, ElementOfSeq
  <1> QED BY <1>2, <1>3 DEF Spans

\* What is registered has its type and page boundaries at its ends.
LEMMA TargetAligned ==
    ASSUME NEW k \in Candidates
    PROVE  LET new == Target(k.base, k.size, k.prio)
           IN  /\ new \in Spans /\ new.base % PageSize = 0
               /\ new.end + 1 \in Nat /\ (new.end + 1) % PageSize = 0
  <1> DEFINE b == RndN(k.base)
             s == RndN(k.size)
  <1>1. k.base \in Nat /\ k.size \in Nat /\ k.prio \in Int
    BY RequestsAssumption
  <1>2. b \in Nat /\ s \in Nat /\ b % PageSize = 0 /\ s % PageSize = 0
    BY <1>1, RndNAligned
  <1> HIDE DEF b, s
  <1>3. (b + s) % PageSize = 0 /\ b + s \in Nat /\ (b + s - 1) + 1 = b + s /\ b + s - 1 \in Int
    BY <1>2, AlignedSum
  <1> QED BY <1>1, <1>2, <1>3 DEF Target, Spans, b, s

\* A target that holds an address holds its page, from the first byte on.
LEMMA HoldsPages ==
    ASSUME Targets, NEW a \in Nat
    PROVE  Holding(a) = Holding(Page(a) * PageSize)
  <1> SUFFICES ASSUME NEW i \in DOMAIN mem_tgt
               PROVE  LET t == mem_tgt[i] IN
                      t.base <= a /\ a <= t.end <=>
                          t.base <= Page(a) * PageSize /\ Page(a) * PageSize <= t.end
    BY DEF Holding
  <1> DEFINE b == mem_tgt[i].base
             e == mem_tgt[i].end
  <1>1. /\ b \in Nat /\ b % PageSize = 0
        /\ e \in Int /\ e + 1 \in Nat /\ (e + 1) % PageSize = 0
    BY TargetTypes DEF Targets
  <1> HIDE DEF b, e
  <1>2. Page(a) * PageSize \in Nat /\ (b <= a <=> b <= Page(a) * PageSize)
    BY <1>1, BoundaryBelow
  <1>3. e + 1 <= a <=> e + 1 <= Page(a) * PageSize
    BY <1>1, BoundaryBelow
  <1>4. a <= e <=> Page(a) * PageSize <= e
    BY <1>1, <1>2, <1>3
  <1> QED BY <1>2, <1>4 DEF b, e

\* Where select_mem_tgt gives an answer, it holds the address and outranks every other
\* target that does.
LEMMA SelectOutranks ==
    ASSUME Targets, NEW a, Holding(a) # {}, ~Ambiguous(a)
    PROVE  /\ Select(a) \in Holding(a)
           /\ \A i \in Holding(a) : i # Select(a) => mem_tgt[i].prio < mem_tgt[Select(a)].prio
  <1> DEFINE H == Holding(a)
             s == Select(a)
             prio == [i \in H |-> mem_tgt[i].prio]
  <1>1. /\ Len(mem_tgt) \in Nat /\ H \subseteq 1..Len(mem_tgt)
        /\ \A i \in H : i \in Nat /\ mem_tgt[i].prio \in Int
    BY TargetTypes DEF Holding
  <1>2. IsFiniteSet(H)
    <2>1. IsFiniteSet(1..Len(mem_tgt))
      BY <1>1, FS_Interval
    <2> HIDE DEF H
    <2> QED BY <1>1, <2>1, FS_Subset
  <1>3. \E i \in H : \A j \in H : mem_tgt[j].prio <= mem_tgt[i].prio
    <2>1. \A i \in H : prio[i] = mem_tgt[i].prio
      OBVIOUS
    <2> HIDE DEF prio, H
    <2>2. \E i \in H : \A j \in H : prio[j] <= prio[i]
      BY <1>1, <1>2, <2>1, GreatestValue DEF H
    <2> QED BY <2>1, <2>2
  <1>4. s \in H /\ \A j \in H : mem_tgt[j].prio <= mem_tgt[s].prio
    BY <1>3 DEF Select
  <1> HIDE DEF s, H
  <1>5. ASSUME NEW i \in H, i # s, ~(mem_tgt[i].prio < mem_tgt[s].prio)
        PROVE  FALSE
    <2>1. mem_tgt[i].prio = mem_tgt[s].prio /\ \A j \in H : mem_tgt[j].prio <= mem_tgt[i].prio
      BY <1>1, <1>4, <1>5
    <2>2. CASE i < s
      <3>1. i \in BestBefore(a, s)
        BY <2>1, <2>2 DEF BestBefore, H
      <3> QED BY <1>4, <2>1, <3>1 DEF Ambiguous, H
    <2>3. CASE s < i
      <3>1. s \in BestBefore(a, i)
        BY <1>4, <2>3 DEF BestBefore, H
      <3> QED BY <1>4, <2>1, <3>1 DEF Ambiguous, H
    <2> QED BY <1>1, <1>4, <1>5, <2>2, <2>3
  <1> QED BY <1>4, <1>5 DEF s, H

---------------------------------------------------------------------------
(* The inductive invariant *)

Steps == {"idle", "find", "alloc", "cache", "return", "access"}

\* What the cores hold has its type.
Locals ==
    /\ call \in [Cores -> Requests \cup {Idle}]
    /\ ptr \in [Cores -> HostIds \cup {NULL}]
    /\ alone \in [Cores -> BOOLEAN]

\* The target a core works on outranks every older one that holds the address; past the
\* allocation it has the page.
Chosen ==
    \A c \in Cores :
        /\ pc[c] \in {"alloc", "cache", "return"} =>
              /\ tgt[c] \in DOMAIN mem_tgt
              /\ \A i \in 1..(tgt[c] - 1) :
                    i \in Holding(call[c].a) => mem_tgt[i].prio < mem_tgt[tgt[c]].prio
        /\ pc[c] \in {"cache", "return"} => page_hash[<<tgt[c], Page(call[c].a)>>] # NULL

\* Only registered targets have pages, and each knows a host page of that page.
AtHome ==
    /\ \A t \in Tgts, p \in Pages : page_hash[<<t, p>>] # NULL =>
          t \in DOMAIN mem_tgt /\ page_hash[<<t, p>>][1] = p
    /\ \A p \in Pages : page_hash_cache[p] # NULL => page_hash_cache[p][1] = p
    /\ \A c \in Cores : pc[c] = "access" => ptr[c][1] = Page(call[c].a)

\* A page has one host page unless it was allocated twice.
OneEach ==
    \A g, h \in DOMAIN host : g[1] = h[1] /\ g[1] \notin twice => g = h

\* A host page is cached, or the core that allocated it is about to cache it.
SoonCached ==
    \A h \in DOMAIN host :
        page_hash_cache[h[1]] # NULL \/ (pc[h[2]] = "cache" /\ Page(call[h[2]].a) = h[1])

\* Calls overlap when both are in progress.
Overlapping ==
    \A c, d \in Cores : c # d /\ pc[c] # "idle" /\ pc[d] # "idle" => ~alone[c]

\* A core about to allocate a page has not allocated it before; that another core has
\* takes calls that overlap.
Races ==
    \A c \in Cores : pc[c] = "alloc" =>
        \A h \in DOMAIN host : h[1] = Page(call[c].a) => h[2] # c /\ ~alone[c]

Inv ==
    /\ TypeOK /\ Targets /\ Locals
    /\ Chosen /\ AtHome /\ OneEach /\ SoonCached /\ Overlapping /\ Races
    /\ HeldIsCached /\ HolderOutranksOlder

\* A core in a call has a request that lies in the addresses in use.
LEMMA InCall ==
    ASSUME Inv, NEW c \in Cores, pc[c] # "idle"
    PROVE  /\ call[c] \in Requests /\ call[c].a \in Addrs
           /\ call[c].a \in Nat /\ Page(call[c].a) \in Pages
           /\ call[c].n \in Nat \ {0} /\ call[c].buff \in BOOLEAN
           /\ call[c].kind \in {"load", "store"} /\ call[c].val \in Seq(Byte)
  <1>1. call[c] \in Requests
    BY DEF Inv, TypeOK, Locals
  <1> QED BY <1>1, PageInUse DEF Requests

\* Host pages are pages of cores, and none is NULL.
LEMMA HostTypes ==
    ASSUME Inv, NEW h \in DOMAIN host
    PROVE  h[1] \in Pages /\ h[2] \in Cores /\ h = <<h[1], h[2]>> /\ h # NULL
  BY DEF Inv, TypeOK, HostIds, NULL

\* Init: one target, no pages.
LEMMA InitInv == Init => Inv
  <1> SUFFICES ASSUME Init PROVE Inv
    OBVIOUS
  <1> DEFINE t == Target(0, DdrPages * PageSize, 0)
  <1>1. /\ t \in Spans /\ t.base % PageSize = 0
        /\ t.end + 1 \in Nat /\ (t.end + 1) % PageSize = 0
    <2> DEFINE b == RndN(0)
               s == RndN(DdrPages * PageSize)
    <2>1. DdrPages * PageSize \in Nat
      BY MemoryAssumption
    <2>2. b \in Nat /\ s \in Nat /\ b % PageSize = 0 /\ s % PageSize = 0
      BY <2>1, RndNAligned
    <2> HIDE DEF b, s
    <2>3. (b + s) % PageSize = 0 /\ b + s \in Nat /\ (b + s - 1) + 1 = b + s /\ b + s - 1 \in Int
      BY <2>2, AlignedSum
    <2> QED BY <2>2, <2>3 DEF Target, Spans, b, s
  <1>2. mem_tgt = <<t>>
    BY DEF Init
  <1> HIDE DEF t
  <1>3. /\ mem_tgt \in Seq(Spans) /\ Len(mem_tgt) = 1 /\ DOMAIN mem_tgt = 1..1 /\ mem_tgt[1] = t
    BY <1>1, <1>2
  <1>4. Targets
    BY <1>1, <1>3, MemoryAssumption DEF Targets, Tgts
  <1>5. TypeOK
    <2>1. down \in BOOLEAN
      BY DEF Init
    <2> QED BY <1>1, <1>3, <1>4, <2>1, MemoryAssumption DEF Init, TypeOK, Targets, NULL, HostIds
  <1>6. Locals
    BY DEF Init, Locals
  <1>7. Chosen /\ Overlapping /\ Races
    BY DEF Init, Chosen, Overlapping, Races
  <1>8. AtHome /\ HeldIsCached /\ HolderOutranksOlder
    BY <1>3, MemoryAssumption DEF Init, AtHome, HeldIsCached, HolderOutranksOlder, NULL, Tgts
  <1>9. OneEach /\ SoonCached
    BY DEF Init, OneEach, SoonCached
  <1> QED BY <1>4, <1>5, <1>6, <1>7, <1>8, <1>9 DEF Inv

\* A registration: pages stay with the targets that have them.
LEMMA RegisterKeeps == ASSUME Inv, NEW k \in Candidates, Register(k), UNCHANGED down PROVE Inv'
  <1> DEFINE new == Target(k.base, k.size, k.prio)
             n == Len(mem_tgt)
  <1>1. /\ n < MaxTargets /\ ~IsOverlapping(new) /\ mem_tgt' = Append(mem_tgt, new)
        /\ UNCHANGED <<page_hash, page_hash_cache, host, call, pc, tgt, ptr>>
        /\ UNCHANGED <<alone, twice, spilt, seen, calls>>
    BY DEF Register, local, ghost
  <1>2. /\ new \in Spans /\ new.base % PageSize = 0
        /\ new.base \in Nat /\ new.end \in Int /\ new.prio \in Int
        /\ new.end + 1 \in Nat /\ (new.end + 1) % PageSize = 0
    BY TargetAligned DEF Spans
  <1> HIDE DEF new
  <1>3. /\ n \in Nat /\ DOMAIN mem_tgt = 1..n
        /\ \A i \in 1..n : /\ mem_tgt[i].base \in Nat /\ mem_tgt[i].end \in Int
                           /\ mem_tgt[i].prio \in Int
    BY TargetTypes DEF Inv
  <1>4. /\ mem_tgt' \in Seq(Spans) /\ Len(mem_tgt') = n + 1 /\ DOMAIN mem_tgt' = 1..(n + 1)
        /\ \A i \in 1..n : mem_tgt'[i] = mem_tgt[i]
        /\ mem_tgt'[n + 1] = new
    <2>1. mem_tgt \in Seq(Spans)
      BY DEF Inv, Targets
    <2> QED BY <1>1, <1>2, <1>3, <2>1
  <1> HIDE DEF n
  <1>5. n + 1 \in Tgts
    BY <1>1, <1>3, MemoryAssumption DEF Tgts
  <1>6. Targets'
    <2>1. \A i \in 1..n : /\ mem_tgt[i].base % PageSize = 0
                          /\ mem_tgt[i].end + 1 \in Nat /\ (mem_tgt[i].end + 1) % PageSize = 0
      BY <1>3 DEF Inv, Targets
    <2> QED BY <1>2, <1>3, <1>4, <1>5, <2>1 DEF Targets, Tgts
  <1>7. TypeOK'
    <2>1. tgt' \in [Cores -> 0..Len(mem_tgt')]
      BY <1>1, <1>3, <1>4 DEF Inv, TypeOK, n
    <2>2. \A i \in DOMAIN mem_tgt' : mem_tgt'[i].base % PageSize = 0
      BY <1>6 DEF Targets
    <2> QED BY <1>1, <1>4, <1>5, <2>1, <2>2 DEF Inv, TypeOK, Tgts
  <1>8. \A a, i : i \in 1..n => (i \in Holding(a)' <=> i \in Holding(a))
    BY <1>3, <1>4 DEF Holding
  <1>9. Chosen'
    <2> SUFFICES ASSUME NEW c \in Cores
                 PROVE  /\ pc[c] \in {"alloc", "cache", "return"} =>
                              /\ tgt[c] \in 1..(n + 1)
                              /\ \A i \in 1..(tgt[c] - 1) : i \in Holding(call[c].a)' =>
                                    mem_tgt'[i].prio < mem_tgt'[tgt[c]].prio
                        /\ pc[c] \in {"cache", "return"} =>
                              page_hash[<<tgt[c], Page(call[c].a)>>] # NULL
      BY <1>1, <1>4 DEF Chosen, Page, Holding
    <2>1. CASE pc[c] \in {"alloc", "cache", "return"}
      <3>1. /\ tgt[c] \in 1..n
            /\ \A i \in 1..(tgt[c] - 1) :
                  i \in Holding(call[c].a) => mem_tgt[i].prio < mem_tgt[tgt[c]].prio
        BY <1>3, <2>1 DEF Inv, Chosen
      <3>2. \A i \in 1..(tgt[c] - 1) : i \in 1..n
        BY <1>3, <3>1
      <3>3. \A i \in 1..(tgt[c] - 1) : i \in Holding(call[c].a)' => i \in Holding(call[c].a)
        BY <1>1, <1>8, <3>2 DEF Holding
      <3> QED BY <1>3, <1>4, <3>1, <3>2, <3>3 DEF Inv, Chosen
    <2> QED BY <2>1
  <1>10. AtHome'
    BY <1>1, <1>3, <1>4 DEF Inv, AtHome
  <1>11. (Locals /\ OneEach /\ SoonCached /\ Overlapping /\ Races /\ HeldIsCached)'
    BY <1>1 DEF Inv, Locals, OneEach, SoonCached, Overlapping, Races, HeldIsCached
  <1>12. HolderOutranksOlder'
    <2> SUFFICES ASSUME NEW t \in 1..(n + 1), NEW p \in Pages, page_hash[<<t, p>>] # NULL,
                        NEW i \in 1..(t - 1), i \in Holding(p * PageSize)'
                 PROVE  mem_tgt'[i].prio < mem_tgt'[t].prio
      BY <1>1, <1>4 DEF HolderOutranksOlder
    <2>1. t \in 1..n
      <3>1. t \in Tgts
        BY <1>3, <1>5, MemoryAssumption DEF Tgts
      <3> QED BY <1>3, <3>1 DEF Inv, AtHome
    <2>2. i \in 1..n
      BY <1>3, <2>1
    <2>3. i \in Holding(p * PageSize)
      BY <1>8, <2>2, Zenon
    <2> QED BY <1>3, <1>4, <2>1, <2>2, <2>3 DEF Inv, HolderOutranksOlder
  <1> QED BY <1>6, <1>7, <1>9, <1>10, <1>11, <1>12 DEF Inv

---------------------------------------------------------------------------
(* Calls *)

\* What Begin, FindFails, Write and Read have in common: core c, which holds no fresh page,
\* starts over or ends; targets and page tables stay, and so do the other cores.
StartsOver(c) ==
    /\ pc[c] \in {"idle", "find", "access"}
    /\ UNCHANGED <<mem_tgt, page_hash, page_hash_cache, twice>>
    /\ DOMAIN host' = DOMAIN host
    /\ \A h \in DOMAIN host : host'[h] \in [0..(PageSize - 1) -> Byte]
    /\ spilt' \subseteq Addrs
    /\ call' \in [Cores -> Requests \cup {Idle}]
    /\ pc' \in [Cores -> Steps]
    /\ tgt' \in [Cores -> 0..Len(mem_tgt)]
    /\ ptr' \in [Cores -> HostIds \cup {NULL}]
    /\ alone' \in [Cores -> BOOLEAN]
    /\ pc'[c] \in {"idle", "find"} /\ (pc'[c] = "idle" <=> call'[c] = Idle)
    /\ \A d \in Cores \ {c} :
          /\ call'[d] = call[d] /\ pc'[d] = pc[d] /\ tgt'[d] = tgt[d] /\ ptr'[d] = ptr[d]
          /\ alone'[d] => alone[d]

\* Such a step keeps the invariant.
LEMMA StartsOverKeeps ==
    ASSUME Inv, NEW c \in Cores, StartsOver(c), Overlapping', UNCHANGED down
    PROVE  Inv'
  <1>1. TypeOK'
    <2>1. \A d \in Cores : /\ pc'[d] = "idle" <=> call'[d] = Idle
                           /\ pc'[d] # "idle" => call'[d].a \in Addrs
                           /\ pc'[d] = "access" => ptr'[d] \in DOMAIN host'
      <3> SUFFICES ASSUME NEW d \in Cores
                   PROVE  /\ pc'[d] = "idle" <=> call'[d] = Idle
                          /\ pc'[d] # "idle" => call'[d].a \in Addrs
                          /\ pc'[d] = "access" => ptr'[d] \in DOMAIN host'
        OBVIOUS
      <3>1. CASE d = c
        BY <3>1 DEF StartsOver, Requests
      <3>2. CASE d # c
        BY <3>2 DEF StartsOver, Inv, TypeOK
      <3> QED BY <3>1, <3>2
    <2> QED BY <2>1 DEF Inv, TypeOK, StartsOver, Steps
  <1>2. Targets' /\ OneEach'
    BY DEF Inv, Targets, OneEach, StartsOver
  <1>3. Locals'
    BY DEF Inv, Locals, StartsOver
  <1>4. Chosen'
    <2> SUFFICES ASSUME NEW d \in Cores, pc'[d] \in {"alloc", "cache", "return"}
                 PROVE  /\ tgt'[d] \in DOMAIN mem_tgt'
                        /\ \A i \in 1..(tgt'[d] - 1) : i \in Holding(call[d].a)' =>
                              mem_tgt'[i].prio < mem_tgt'[tgt[d]'].prio
                        /\ pc'[d] \in {"cache", "return"} =>
                              page_hash'[<<tgt'[d], Page(call'[d].a)>>] # NULL
      BY DEF Chosen
    <2>1. d # c /\ call'[d] = call[d] /\ pc'[d] = pc[d] /\ tgt'[d] = tgt[d]
      BY DEF StartsOver
    <2>2. Holding(call[d].a)' = Holding(call[d].a)
      BY <2>1 DEF Holding, StartsOver
    <2> QED BY <2>1, <2>2 DEF Inv, Chosen, StartsOver
  <1>5. AtHome'
    <2>1. \A d \in Cores : pc'[d] = "access" => ptr'[d][1] = Page(call'[d].a)
      BY DEF Inv, AtHome, StartsOver
    <2> QED BY <2>1 DEF Inv, AtHome, StartsOver, Page
  <1>6. SoonCached'
    BY HostTypes DEF Inv, SoonCached, StartsOver, Page
  <1>7. Races'
    BY HostTypes DEF Inv, Races, StartsOver, Page
  <1>8. HeldIsCached'
    <2> SUFFICES ASSUME NEW t \in Tgts, NEW p \in Pages, page_hash[<<t, p>>] # NULL,
                        \A d \in Cores : pc'[d] = "cache" => Page(call'[d].a) # p
                 PROVE  page_hash_cache[p] # NULL
      BY DEF HeldIsCached, StartsOver, Page
    <2>1. \A d \in Cores : pc[d] = "cache" => Page(call[d].a) # p
      BY DEF StartsOver
    <2> QED BY <2>1 DEF Inv, HeldIsCached
  <1>9. HolderOutranksOlder'
    BY DEF Inv, HolderOutranksOlder, Holding, StartsOver
  <1> QED BY <1>1, <1>2, <1>3, <1>4, <1>5, <1>6, <1>7, <1>8, <1>9 DEF Inv

\* The cores other than the one that begins see their calls overlapped.
LEMMA BeginKeeps == ASSUME Inv, NEW c \in Cores, Begin(c), UNCHANGED down PROVE Inv'
  <1> DEFINE others == {d \in Cores \ {c} : pc[d] # "idle"}
  <1>1. PICK k \in Calls : call' = [call EXCEPT ![c] = k]
    BY DEF Begin
  <1>2. /\ pc[c] = "idle" /\ pc' = [pc EXCEPT ![c] = "find"]
        /\ alone' = [d \in Cores |-> IF others # {} /\ d \in others \cup {c} THEN FALSE
                                     ELSE d = c \/ alone[d]]
        /\ UNCHANGED <<mem_tgt, page_hash, page_hash_cache, host, tgt, ptr, twice, spilt>>
    BY DEF Begin, shared
  <1>3. \A d \in Cores : alone'[d] = IF others # {} /\ d \in others \cup {c} THEN FALSE
                                     ELSE d = c \/ alone[d]
    BY <1>2
  <1>4. k \in Requests /\ k # Idle
    <2>1. k \in Requests
      BY RequestsAssumption
    <2> QED BY <2>1 DEF Requests, Idle
  <1>5. StartsOver(c)
    <2>1. call' \in [Cores -> Requests \cup {Idle}] /\ call'[c] = k
      BY <1>1, <1>4 DEF Inv, Locals
    <2>2. /\ pc' \in [Cores -> Steps] /\ pc'[c] = "find"
          /\ \A d \in Cores \ {c} : pc'[d] = pc[d] /\ call'[d] = call[d]
      BY <1>1, <1>2 DEF Inv, Locals, TypeOK, Steps
    <2>3. alone' \in [Cores -> BOOLEAN] /\ \A d \in Cores \ {c} : alone'[d] => alone[d]
      BY <1>2, <1>3 DEF Inv, Locals
    <2> QED BY <1>2, <1>4, <2>1, <2>2, <2>3 DEF Inv, Locals, TypeOK, StartsOver
  <1>6. Overlapping'
    <2> SUFFICES ASSUME NEW d \in Cores, NEW e \in Cores, d # e, pc'[d] # "idle", pc'[e] # "idle"
                 PROVE  ~alone'[d]
      BY DEF Overlapping
    <2>1. CASE d = c
      BY <1>2, <1>3, <2>1
    <2>2. CASE d # c
      <3>1. d \in others
        BY <1>2, <2>2 DEF Inv, TypeOK
      <3> QED BY <1>3, <3>1
    <2> QED BY <2>1, <2>2
  <1> QED BY <1>5, <1>6, StartsOverKeeps

\* A turn of a call does at least a byte and no more than is left of it; a turn of a
\* buffer stays in the page.
LEMMA ChunkBounds ==
    ASSUME Inv, NEW c \in Cores, pc[c] # "idle"
    PROVE  /\ Chunk(c) \in 1..call[c].n
           /\ call[c].buff => Chunk(c) <= PageSize - (call[c].a % PageSize)
           /\ call[c].buff /\ Chunk(c) # call[c].n => Chunk(c) = PageSize - (call[c].a % PageSize)
  <1> DEFINE o == call[c].a % PageSize
  <1>1. o \in 0..(PageSize - 1)
    BY InCall, PageParts
  <1> HIDE DEF o
  <1>2. call[c].n \in Nat /\ call[c].n # 0 /\ call[c].buff \in BOOLEAN
    BY InCall
  <1>3. Chunk(c) = IF call[c].buff THEN (IF call[c].n < PageSize - o THEN call[c].n ELSE PageSize - o)
                                   ELSE call[c].n
    BY DEF Chunk, InPage, o
  <1> QED BY <1>1, <1>2, <1>3, PageSizeType DEF o

Request(k, b, a, n, v) == [kind |-> k, buff |-> b, a |-> a, n |-> n, val |-> v]

\* The three assignments at the end of a turn, as one.
LEMMA ThreeFields ==
    ASSUME Locals, NEW c \in Cores, call[c] \in Requests, NEW m
    PROVE  [call EXCEPT ![c].a = @ + m, ![c].n = @ - m, ![c].val = SubSeq(@, m + 1, Len(@))]
             = [call EXCEPT ![c] = Request(@.kind, @.buff, @.a + m, @.n - m,
                                           SubSeq(@.val, m + 1, Len(@.val)))]
  <1> DEFINE f == call
             k == call[c].kind
             b == call[c].buff
             a == call[c].a
             n == call[c].n
             v == call[c].val
             S == Cores
  <1>0. f[c] = Request(k, b, a, n, v) /\ f = [s \in S |-> f[s]] /\ c \in S
    BY DEF Locals, Request, Requests
  <1> DEFINE f1 == [f EXCEPT ![c].a = @ + m]
             f2 == [f1 EXCEPT ![c].n = @ - m]
             f3 == [f2 EXCEPT ![c].val = SubSeq(@, m + 1, Len(@))]
  <1>1. f1 = [f EXCEPT ![c] = Request(k, b, a + m, n, v)]
    <2>1. f1 = [f EXCEPT ![c] = [f[c] EXCEPT !.a = @ + m]]
      BY <1>0
    <2>2. [Request(k, b, a, n, v) EXCEPT !.a = @ + m] = Request(k, b, a + m, n, v)
      BY DEF Request
    <2> HIDE DEF f, k, b, a, n, v
    <2> QED BY <1>0, <2>1, <2>2
  <1>2. [f EXCEPT ![c].a = @ + m, ![c].n = @ - m, ![c].val = SubSeq(@, m + 1, Len(@))] = f3
    OBVIOUS
  <1> HIDE DEF f1, f, k, b, a, n, v, S
  <1>3. f1[c] = Request(k, b, a + m, n, v) /\ f1 = [s \in S |-> f1[s]]
    BY <1>0, <1>1
  <1>4. f2 = [f EXCEPT ![c] = Request(k, b, a + m, n - m, v)]
    <2>1. f2 = [f1 EXCEPT ![c] = [f1[c] EXCEPT !.n = @ - m]]
      BY <1>3
    <2>2. [Request(k, b, a + m, n, v) EXCEPT !.n = @ - m] = Request(k, b, a + m, n - m, v)
      BY DEF Request
    <2>3. f2 = [f1 EXCEPT ![c] = Request(k, b, a + m, n - m, v)]
      BY <1>3, <2>1, <2>2
    <2> QED BY <1>1, <2>3
  <1> HIDE DEF f2
  <1>5. f2[c] = Request(k, b, a + m, n - m, v) /\ f2 = [s \in S |-> f2[s]]
    BY <1>0, <1>4
  <1>6. f3 = [f EXCEPT ![c] = Request(k, b, a + m, n - m, SubSeq(v, m + 1, Len(v)))]
    <2> DEFINE w == SubSeq(v, m + 1, Len(v))
    <2>1. f3 = [f2 EXCEPT ![c] = [f2[c] EXCEPT !.val = SubSeq(@, m + 1, Len(@))]]
      BY <1>5
    <2>2. [Request(k, b, a + m, n - m, v) EXCEPT !.val = SubSeq(@, m + 1, Len(@))]
             = Request(k, b, a + m, n - m, w)
      <3>1. \A x : [Request(k, b, a + m, n - m, v) EXCEPT !.val = x] = Request(k, b, a + m, n - m, x)
        BY DEF Request
      <3>2. Request(k, b, a + m, n - m, v).val = v
        BY DEF Request
      <3> HIDE DEF w
      <3>3. [Request(k, b, a + m, n - m, v) EXCEPT !.val = SubSeq(@, m + 1, Len(@))]
               = [Request(k, b, a + m, n - m, v) EXCEPT !.val = w]
        BY <3>2 DEF w
      <3> QED BY <3>1, <3>3
    <2> HIDE DEF w, f3
    <2>3. f3 = [f2 EXCEPT ![c] = Request(k, b, a + m, n - m, w)]
      BY <1>5, <2>1, <2>2
    <2> QED BY <1>4, <2>3 DEF w
  <1> QED BY <1>2, <1>6 DEF f, k, b, a, n, v

\* What is left of a call after a turn.
LEMMA RestOfCall ==
    ASSUME Inv, NEW c \in Cores, pc[c] # "idle", Chunk(c) # call[c].n,
           call' = [call EXCEPT ![c].a = @ + Chunk(c), ![c].n = @ - Chunk(c),
                                ![c].val = SubSeq(@, Chunk(c) + 1, Len(@))]
    PROVE  /\ call' \in [Cores -> Requests \cup {Idle}] /\ call'[c] # Idle
           /\ \A d \in Cores \ {c} : call'[d] = call[d]
           /\ call'[c] = [kind |-> call[c].kind, buff |-> call[c].buff,
                          a |-> call[c].a + Chunk(c), n |-> call[c].n - Chunk(c),
                          val |-> SubSeq(call[c].val, Chunk(c) + 1, Len(call[c].val))]
  <1> DEFINE r == call[c]
             m == Chunk(c)
             rest == [kind |-> r.kind, buff |-> r.buff, a |-> r.a + m, n |-> r.n - m,
                      val |-> SubSeq(r.val, m + 1, Len(r.val))]
  <1>1. /\ r \in Requests /\ r.a \in Nat /\ r.a \in Addrs /\ r.n \in Nat /\ r.val \in Seq(Byte)
        /\ r.buff \in BOOLEAN /\ r.kind \in {"load", "store"}
        /\ r.kind = "store" => Len(r.val) = r.n
        /\ r.buff => r.a + r.n <= NPages * PageSize
    BY InCall DEF Requests
  <1>2. m \in Nat /\ m >= 1 /\ m < r.n /\ r.buff
    BY <1>1, ChunkBounds DEF Chunk
  <1>3. call \in [Cores -> Requests \cup {Idle}]
    BY DEF Inv, Locals
  <1>4. call' = [call EXCEPT ![c] = rest]
    <2> HIDE DEF m
    <2>1. call' = [call EXCEPT ![c].a = @ + m, ![c].n = @ - m,
                               ![c].val = SubSeq(@, m + 1, Len(@))]
      BY DEF m
    <2>2. Locals /\ call[c] \in Requests
      BY <1>1 DEF Inv
    <2>3. call' = [call EXCEPT ![c] = Request(@.kind, @.buff, @.a + m, @.n - m,
                                             SubSeq(@.val, m + 1, Len(@.val)))]
      BY <2>1, <2>2, ThreeFields
    <2> QED BY <2>3 DEF Request
  <1> HIDE DEF m, r
  <1>5. r.a + m \in Addrs
    BY <1>1, <1>2, PageSizeType DEF Addrs
  <1>6. /\ SubSeq(r.val, m + 1, Len(r.val)) \in Seq(Byte)
        /\ Len(r.val) = r.n => Len(SubSeq(r.val, m + 1, Len(r.val))) = r.n - m
    <2>1. Len(r.val) \in Nat /\ \A i \in (m + 1)..Len(r.val) : r.val[i] \in Byte
      BY <1>1, <1>2, LenProperties, ElementOfSeq
    <2> QED BY <1>1, <1>2, <2>1, SubSeqProperties
  <1>7. rest \in Requests
    BY <1>1, <1>2, <1>5, <1>6, PageSizeType DEF Requests
  <1>8. rest # Idle
    BY <1>1 DEF Idle
  <1> QED BY <1>3, <1>4, <1>7, <1>8 DEF r, m

\* What the end of a turn does to the fields of the cores.
LEMMA NextChunkSets ==
    ASSUME Inv, NEW c \in Cores, pc[c] # "idle", NextChunk(c) \/ Leave(c)
    PROVE  /\ call' \in [Cores -> Requests \cup {Idle}]
           /\ pc' \in [Cores -> Steps]
           /\ tgt' \in [Cores -> 0..Len(mem_tgt)]
           /\ ptr' \in [Cores -> HostIds \cup {NULL}]
           /\ pc'[c] \in {"idle", "find"} /\ (pc'[c] = "idle" <=> call'[c] = Idle)
           /\ \A d \in Cores \ {c} :
                 call'[d] = call[d] /\ pc'[d] = pc[d] /\ tgt'[d] = tgt[d] /\ ptr'[d] = ptr[d]
  <1>1. /\ call \in [Cores -> Requests \cup {Idle}] /\ pc \in [Cores -> Steps]
        /\ tgt \in [Cores -> 0..Len(mem_tgt)] /\ ptr \in [Cores -> HostIds \cup {NULL}]
        /\ 0 \in 0..Len(mem_tgt)
    BY TargetTypes DEF Inv, Locals, TypeOK, Steps
  <1>2. CASE Leave(c)
    BY <1>1, <1>2 DEF Leave, Steps
  <1>3. CASE NextChunk(c) /\ ~Leave(c)
    <2>1. /\ Chunk(c) # call[c].n
          /\ call' = [call EXCEPT ![c].a = @ + Chunk(c), ![c].n = @ - Chunk(c),
                                  ![c].val = SubSeq(@, Chunk(c) + 1, Len(@))]
          /\ pc' = [pc EXCEPT ![c] = "find"]
          /\ tgt' = [tgt EXCEPT ![c] = 0]
          /\ ptr' = [ptr EXCEPT ![c] = NULL]
      BY <1>3 DEF NextChunk
    <2>2. /\ call' \in [Cores -> Requests \cup {Idle}] /\ call'[c] # Idle
          /\ \A d \in Cores \ {c} : call'[d] = call[d]
      BY <2>1, RestOfCall
    <2> QED BY <1>1, <2>1, <2>2 DEF Steps
  <1> QED BY <1>2, <1>3

\* The core that ends a turn or a call overlaps nobody it did not overlap before.
LEMMA OverlappingKept ==
    ASSUME Inv, NEW c \in Cores, pc[c] # "idle", NextChunk(c) \/ Leave(c), alone' = alone
    PROVE  Overlapping'
  <1>1. \A d \in Cores : pc'[d] # "idle" => pc[d] # "idle"
    BY NextChunkSets
  <1> QED BY <1>1 DEF Inv, Overlapping

\* A look-up that fails ends the call.
LEMMA FindFailsKeeps == ASSUME Inv, NEW c \in Cores, FindFails(c), UNCHANGED down PROVE Inv'
  <1>1. /\ pc[c] = "find" /\ Leave(c)
        /\ UNCHANGED <<mem_tgt, page_hash, page_hash_cache, host, twice, spilt, alone>>
    BY DEF FindFails, shared, ghost
  <1>2. StartsOver(c)
    BY <1>1, NextChunkSets DEF StartsOver, Inv, TypeOK, Locals
  <1> QED BY <1>1, <1>2, OverlappingKept, StartsOverKeeps

\* A store writes bytes of the call into the page in hand.
LEMMA WriteKeeps == ASSUME Inv, NEW c \in Cores, Write(c), UNCHANGED down PROVE Inv'
  <1>1. /\ pc[c] = "access" /\ call[c].kind = "store" /\ NextChunk(c)
        /\ host' = [host EXCEPT ![ptr[c]] =
                       [o \in DOMAIN @ |->
                           LET a == Page(call[c].a) * PageSize + o IN
                           IF a \in Inside(c) THEN call[c].val[a - call[c].a + 1] ELSE @[o]]]
        /\ spilt' = (spilt \ Inside(c)) \cup (Touched(c) \ Inside(c))
        /\ UNCHANGED <<mem_tgt, page_hash, page_hash_cache, twice, alone>>
    BY DEF Write
  <1>2. ptr[c] \in DOMAIN host
    BY <1>1 DEF Inv, TypeOK
  <1>3. \A a \in Inside(c) : call[c].val[a - call[c].a + 1] \in Byte
    <2> SUFFICES ASSUME NEW a \in Inside(c) PROVE call[c].val[a - call[c].a + 1] \in Byte
      OBVIOUS
    <2>1. a \in Addrs /\ call[c].a <= a /\ a < call[c].a + Chunk(c)
      BY DEF Inside, Touched
    <2>2. /\ a \in Nat /\ call[c].a \in Nat /\ Chunk(c) \in 1..call[c].n /\ call[c].n \in Nat
          /\ call[c].val \in Seq(Byte) /\ Len(call[c].val) = call[c].n
      BY <1>1, <2>1, PageInUse, InCall, ChunkBounds DEF Requests
    <2>3. a - call[c].a + 1 \in 1..Len(call[c].val)
      BY <2>1, <2>2
    <2> QED BY <2>2, <2>3, ElementOfSeq
  <1>4. /\ DOMAIN host' = DOMAIN host
        /\ \A h \in DOMAIN host : host'[h] \in [0..(PageSize - 1) -> Byte]
    <2>1. DOMAIN host' = DOMAIN host
      BY <1>1
    <2>2. ASSUME NEW h \in DOMAIN host PROVE host'[h] \in [0..(PageSize - 1) -> Byte]
      <3>1. host[h] \in [0..(PageSize - 1) -> Byte]
        BY DEF Inv, TypeOK
      <3>2. CASE h = ptr[c]
        BY <1>1, <1>3, <3>1, <3>2
      <3>3. CASE h # ptr[c]
        BY <1>1, <3>1, <3>3
      <3> QED BY <3>2, <3>3
    <2> QED BY <2>1, <2>2
  <1>5. spilt' \subseteq Addrs
    BY <1>1 DEF Inv, TypeOK, Touched, Inside
  <1>6. StartsOver(c)
    BY <1>1, <1>4, <1>5, NextChunkSets DEF StartsOver, Inv, TypeOK, Locals
  <1> QED BY <1>1, <1>6, OverlappingKept, StartsOverKeeps

\* A load changes nothing that is shared.
LEMMA ReadKeeps == ASSUME Inv, NEW c \in Cores, Read(c), UNCHANGED down PROVE Inv'
  <1>1. /\ pc[c] = "access" /\ NextChunk(c)
        /\ UNCHANGED <<mem_tgt, page_hash, page_hash_cache, host, twice, spilt, alone>>
    BY DEF Read, shared, ghost
  <1>2. StartsOver(c)
    BY <1>1, NextChunkSets DEF StartsOver, Inv, TypeOK, Locals
  <1> QED BY <1>1, <1>2, OverlappingKept, StartsOverKeeps

\* A page found in the cache is the core's: it is a host page of that page.
LEMMA FindCachedKeeps == ASSUME Inv, NEW c \in Cores, FindCached(c), UNCHANGED down PROVE Inv'
  <1> DEFINE h == page_hash_cache[Page(call[c].a)]
  <1>1. /\ pc[c] = "find" /\ h # NULL
        /\ ptr' = [ptr EXCEPT ![c] = h] /\ pc' = [pc EXCEPT ![c] = "access"]
        /\ UNCHANGED <<mem_tgt, page_hash, page_hash_cache, host, call, tgt>>
        /\ UNCHANGED <<alone, twice, spilt>>
    BY DEF FindCached, shared, ghost
  <1>2. h \in DOMAIN host /\ h \in HostIds /\ h[1] = Page(call[c].a)
    <2>1. Page(call[c].a) \in Pages
      BY <1>1, InCall
    <2> QED BY <1>1, <2>1 DEF Inv, TypeOK, AtHome
  <1> HIDE DEF h
  <1>3. (Targets /\ OneEach /\ HolderOutranksOlder)'
    BY <1>1 DEF Inv, Targets, OneEach, HolderOutranksOlder, Holding
  <1>4. /\ \A d \in Cores : pc'[d] = IF d = c THEN "access" ELSE pc[d]
        /\ \A d \in Cores : ptr'[d] = IF d = c THEN h ELSE ptr[d]
        /\ pc' \in [Cores -> Steps] /\ ptr' \in [Cores -> HostIds \cup {NULL}]
    BY <1>1, <1>2 DEF Inv, TypeOK, Locals, Steps
  <1>5. TypeOK'
    BY <1>1, <1>2, <1>4 DEF Inv, TypeOK, Steps
  <1>6. Locals'
    BY <1>1, <1>4 DEF Inv, Locals
  <1>7. Chosen'
    BY <1>1, <1>4 DEF Inv, Chosen, Holding, Page
  <1>8. AtHome'
    BY <1>1, <1>2, <1>4 DEF Inv, AtHome, Page
  <1>9. SoonCached'
    BY <1>1, <1>4, HostTypes DEF Inv, SoonCached, Page
  <1>10. Overlapping' /\ Races'
    BY <1>1, <1>4 DEF Inv, Overlapping, Races, Page
  <1>11. HeldIsCached'
    BY <1>1, <1>4 DEF Inv, HeldIsCached, Page
  <1> QED BY <1>3, <1>5, <1>6, <1>7, <1>8, <1>9, <1>10, <1>11 DEF Inv

\* The target chosen is the best there is; if its page is not allocated, the core has not
\* done so before, and whoever has is in a call that overlaps.
LEMMA FindTargetKeeps == ASSUME Inv, NEW c \in Cores, FindTarget(c), UNCHANGED down PROVE Inv'
  <1> DEFINE a == call[c].a
             s == Select(a)
             next == IF page_hash[<<s, Page(a)>>] = NULL THEN "alloc" ELSE "return"
  <1>1. /\ pc[c] = "find" /\ page_hash_cache[Page(a)] = NULL
        /\ Holding(a) # {} /\ ~Ambiguous(a)
        /\ tgt' = [tgt EXCEPT ![c] = s] /\ pc' = [pc EXCEPT ![c] = next]
        /\ UNCHANGED <<mem_tgt, page_hash, page_hash_cache, host, call, ptr>>
        /\ UNCHANGED <<alone, twice, spilt>>
    BY DEF FindTarget, shared, ghost
  <1>2. /\ s \in Holding(a) /\ s \in DOMAIN mem_tgt /\ s \in 1..Len(mem_tgt)
        /\ \A i \in Holding(a) : i # s => mem_tgt[i].prio < mem_tgt[s].prio
    <2>1. Targets
      BY DEF Inv
    <2>2. /\ s \in Holding(a)
          /\ \A i \in Holding(a) : i # s => mem_tgt[i].prio < mem_tgt[s].prio
      BY <1>1, <2>1, SelectOutranks
    <2> QED BY <2>1, <2>2, TargetTypes DEF Holding
  <1> HIDE DEF s
  <1>3. (Targets /\ OneEach /\ HolderOutranksOlder)'
    BY <1>1 DEF Inv, Targets, OneEach, HolderOutranksOlder, Holding
  <1>4. /\ \A d \in Cores : pc'[d] = IF d = c THEN next ELSE pc[d]
        /\ \A d \in Cores : tgt'[d] = IF d = c THEN s ELSE tgt[d]
        /\ pc' \in [Cores -> Steps] /\ tgt' \in [Cores -> 0..Len(mem_tgt)]
    BY <1>1, <1>2, TargetTypes DEF Inv, TypeOK, Steps
  <1>5. TypeOK'
    BY <1>1, <1>4 DEF Inv, TypeOK, Steps
  <1>6. Locals'
    BY <1>1 DEF Inv, Locals
  <1>7. Chosen'
    <2> SUFFICES ASSUME NEW d \in Cores
                 PROVE  /\ pc'[d] \in {"alloc", "cache", "return"} =>
                              /\ tgt'[d] \in DOMAIN mem_tgt
                              /\ \A i \in 1..(tgt'[d] - 1) : i \in Holding(call[d].a) =>
                                    mem_tgt[i].prio < mem_tgt[tgt'[d]].prio
                        /\ pc'[d] \in {"cache", "return"} =>
                              page_hash[<<tgt'[d], Page(call[d].a)>>] # NULL
      BY <1>1 DEF Chosen, Page, Holding
    <2>1. CASE d = c
      <3>1. \A i \in 1..(s - 1) : i # s
        BY <1>2, TargetTypes DEF Inv
      <3> QED BY <1>2, <1>4, <2>1, <3>1
    <2>2. CASE d # c
      BY <1>4, <2>2 DEF Inv, Chosen
    <2> QED BY <2>1, <2>2
  <1>8. AtHome'
    BY <1>1, <1>4 DEF Inv, AtHome, Page
  <1>9. SoonCached'
    BY <1>1, <1>4, HostTypes DEF Inv, SoonCached, Page
  <1>10. Overlapping'
    BY <1>1, <1>4 DEF Inv, Overlapping
  <1>11. Races'
    <2> SUFFICES ASSUME NEW d \in Cores, pc'[d] = "alloc",
                        NEW h \in DOMAIN host, h[1] = Page(call[d].a)
                 PROVE  h[2] # d /\ ~alone[d]
      BY <1>1 DEF Races, Page
    <2>1. CASE d # c
      BY <1>4, <2>1 DEF Inv, Races
    <2>2. CASE d = c
      <3>1. pc[h[2]] = "cache" /\ h[2] \in Cores
        BY <1>1, <2>2, HostTypes DEF Inv, SoonCached
      <3> QED BY <1>1, <2>2, <3>1 DEF Inv, Overlapping
    <2> QED BY <2>1, <2>2
  <1>12. HeldIsCached'
    BY <1>1, <1>4 DEF Inv, HeldIsCached, Page
  <1> QED BY <1>3, <1>5, <1>6, <1>7, <1>8, <1>9, <1>10, <1>11, <1>12 DEF Inv

\* The page the core returns is one of the target it chose.
LEMMA ReturnPageKeeps == ASSUME Inv, NEW c \in Cores, ReturnPage(c), UNCHANGED down PROVE Inv'
  <1> DEFINE h == page_hash[<<tgt[c], Page(call[c].a)>>]
  <1>1. /\ pc[c] = "return"
        /\ ptr' = [ptr EXCEPT ![c] = h] /\ pc' = [pc EXCEPT ![c] = "access"]
        /\ UNCHANGED <<mem_tgt, page_hash, page_hash_cache, host, call, tgt>>
        /\ UNCHANGED <<alone, twice, spilt>>
    BY DEF ReturnPage, shared, ghost
  <1>2. h \in DOMAIN host /\ h \in HostIds /\ h[1] = Page(call[c].a)
    <2>1. Page(call[c].a) \in Pages /\ tgt[c] \in DOMAIN mem_tgt /\ h # NULL
      BY <1>1, InCall DEF Inv, Chosen
    <2>2. tgt[c] \in Tgts
      BY <2>1, TargetTypes, MemoryAssumption DEF Inv, Targets, Tgts
    <2> QED BY <2>1, <2>2 DEF Inv, TypeOK, AtHome
  <1> HIDE DEF h
  <1>3. (Targets /\ OneEach /\ HolderOutranksOlder)'
    BY <1>1 DEF Inv, Targets, OneEach, HolderOutranksOlder, Holding
  <1>4. /\ \A d \in Cores : pc'[d] = IF d = c THEN "access" ELSE pc[d]
        /\ \A d \in Cores : ptr'[d] = IF d = c THEN h ELSE ptr[d]
        /\ pc' \in [Cores -> Steps] /\ ptr' \in [Cores -> HostIds \cup {NULL}]
    BY <1>1, <1>2 DEF Inv, TypeOK, Locals, Steps
  <1>5. TypeOK'
    BY <1>1, <1>2, <1>4 DEF Inv, TypeOK, Steps
  <1>6. Locals'
    BY <1>1, <1>4 DEF Inv, Locals
  <1>7. Chosen'
    BY <1>1, <1>4 DEF Inv, Chosen, Holding, Page
  <1>8. AtHome'
    BY <1>1, <1>2, <1>4 DEF Inv, AtHome, Page
  <1>9. SoonCached'
    BY <1>1, <1>4, HostTypes DEF Inv, SoonCached, Page
  <1>10. Overlapping' /\ Races'
    BY <1>1, <1>4 DEF Inv, Overlapping, Races, Page
  <1>11. HeldIsCached'
    BY <1>1, <1>4 DEF Inv, HeldIsCached, Page
  <1> QED BY <1>3, <1>5, <1>6, <1>7, <1>8, <1>9, <1>10, <1>11 DEF Inv

\* A fresh page: the target that gets it outranks the older ones that cover the page, and
\* a page that had a host page already is marked.
LEMMA AllocateKeeps == ASSUME Inv, NEW c \in Cores, Allocate(c), UNCHANGED down PROVE Inv'
  <1> DEFINE p == Page(call[c].a)
             t == tgt[c]
             new == <<p, c>>
  <1>1. PICK bytes \in Garbage :
            host' = [h \in DOMAIN host \cup {new} |-> IF h = new THEN bytes ELSE host[h]]
    BY DEF Allocate
  <1>2. /\ pc[c] = "alloc" /\ pc' = [pc EXCEPT ![c] = "cache"]
        /\ page_hash' = [page_hash EXCEPT ![<<t, p>>] = new]
        /\ twice' = IF \E h \in DOMAIN host : h[1] = p THEN twice \cup {p} ELSE twice
        /\ UNCHANGED <<mem_tgt, page_hash_cache, call, tgt, ptr, alone, spilt>>
    BY DEF Allocate
  <1>3. /\ p \in Pages /\ new \in HostIds /\ new # NULL /\ new[1] = p /\ new[2] = c
        /\ t \in DOMAIN mem_tgt /\ t \in Tgts
        /\ \A i \in 1..(t - 1) : i \in Holding(call[c].a) => mem_tgt[i].prio < mem_tgt[t].prio
        /\ call[c].a \in Nat
    <2>1. p \in Pages /\ call[c].a \in Nat
      BY <1>2, InCall
    <2>2. /\ t \in DOMAIN mem_tgt
          /\ \A i \in 1..(t - 1) : i \in Holding(call[c].a) => mem_tgt[i].prio < mem_tgt[t].prio
      BY <1>2 DEF Inv, Chosen
    <2>3. t \in Tgts
      BY <2>2, TargetTypes, MemoryAssumption DEF Inv, Targets, Tgts
    <2> QED BY <2>1, <2>2, <2>3 DEF HostIds, NULL
  <1>4. /\ DOMAIN host' = DOMAIN host \cup {new}
        /\ \A h \in DOMAIN host : h # new => host'[h] = host[h]
        /\ host'[new] = bytes /\ bytes \in [0..(PageSize - 1) -> Byte]
    BY <1>1, MemoryAssumption
  <1>5. /\ page_hash' \in [Tgts \X Pages -> DOMAIN host' \cup {NULL}]
        /\ \A u \in Tgts, q \in Pages :
              page_hash'[<<u, q>>] = IF u = t /\ q = p THEN new ELSE page_hash[<<u, q>>]
    BY <1>2, <1>3, <1>4 DEF Inv, TypeOK
  <1>6. /\ \A d \in Cores : pc'[d] = IF d = c THEN "cache" ELSE pc[d]
        /\ pc' \in [Cores -> Steps]
    BY <1>2 DEF Inv, TypeOK, Steps
  <1>7. twice \subseteq twice' /\ twice' \subseteq twice \cup {p}
    BY <1>2
  <1> HIDE DEF p, t, new
  <1>8. TypeOK'
    <2>1. \A d \in Cores : /\ pc'[d] = "idle" <=> call'[d] = Idle
                           /\ pc'[d] # "idle" => call'[d].a \in Addrs
                           /\ pc'[d] = "access" => ptr'[d] \in DOMAIN host'
      BY <1>2, <1>4, <1>6 DEF Inv, TypeOK
    <2>2. /\ page_hash_cache' \in [Pages -> DOMAIN host' \cup {NULL}]
          /\ \A h \in DOMAIN host' : host'[h] \in [0..(PageSize - 1) -> Byte]
          /\ DOMAIN host' \subseteq HostIds
      BY <1>2, <1>3, <1>4 DEF Inv, TypeOK
    <2>3. twice' \subseteq Pages
      BY <1>3, <1>7 DEF Inv, TypeOK
    <2> QED BY <1>2, <1>5, <1>6, <2>1, <2>2, <2>3 DEF Inv, TypeOK, Steps
  <1>9. (Targets /\ Locals)'
    BY <1>2 DEF Inv, Targets, Locals
  <1>10. Chosen'
    <2> SUFFICES ASSUME NEW d \in Cores
                 PROVE  /\ pc'[d] \in {"alloc", "cache", "return"} =>
                              /\ tgt[d] \in DOMAIN mem_tgt
                              /\ \A i \in 1..(tgt[d] - 1) : i \in Holding(call[d].a) =>
                                    mem_tgt[i].prio < mem_tgt[tgt[d]].prio
                        /\ pc'[d] \in {"cache", "return"} =>
                              page_hash'[<<tgt[d], Page(call[d].a)>>] # NULL
      BY <1>2 DEF Chosen, Page, Holding
    <2>1. CASE d = c
      BY <1>3, <1>5, <2>1 DEF p, t
    <2>2. CASE d # c
      <3>1. pc'[d] = pc[d]
        BY <1>6, <2>2
      <3>2. ASSUME pc[d] \in {"cache", "return"}
            PROVE  page_hash'[<<tgt[d], Page(call[d].a)>>] # NULL
        <4>1. Page(call[d].a) \in Pages /\ tgt[d] \in Tgts
          <5>1. tgt[d] \in DOMAIN mem_tgt
            BY <3>2 DEF Inv, Chosen
          <5>2. tgt[d] \in Tgts
            BY <5>1, TargetTypes, MemoryAssumption DEF Inv, Targets, Tgts
          <5>3. Page(call[d].a) \in Pages
            BY <3>2, InCall
          <5> QED BY <5>2, <5>3
        <4> QED BY <1>3, <1>5, <3>2, <4>1 DEF Inv, Chosen
      <3> QED BY <3>1, <3>2 DEF Inv, Chosen
    <2> QED BY <2>1, <2>2
  <1>11. AtHome'
    <2>1. \A u \in Tgts, q \in Pages : page_hash'[<<u, q>>] # NULL =>
             u \in DOMAIN mem_tgt /\ page_hash'[<<u, q>>][1] = q
      BY <1>3, <1>5 DEF Inv, AtHome
    <2> QED BY <1>2, <1>6, <2>1 DEF Inv, AtHome, Page
  <1>12. OneEach'
    <2> SUFFICES ASSUME NEW g \in DOMAIN host', NEW h \in DOMAIN host', g[1] = h[1], g[1] \notin twice'
                 PROVE  g = h
      BY DEF OneEach
    <2>1. CASE g \in DOMAIN host /\ h \in DOMAIN host
      BY <1>7, <2>1 DEF Inv, OneEach
    <2>2. CASE ~(g \in DOMAIN host /\ h \in DOMAIN host)
      BY <1>2, <1>3, <1>4, <2>2
    <2> QED BY <2>1, <2>2
  <1>13. SoonCached'
    <2> SUFFICES ASSUME NEW h \in DOMAIN host'
                 PROVE  \/ page_hash_cache[h[1]] # NULL
                        \/ pc'[h[2]] = "cache" /\ Page(call[h[2]].a) = h[1]
      BY <1>2 DEF SoonCached, Page
    <2>1. CASE h = new
      BY <1>3, <1>6, <2>1 DEF p
    <2>2. CASE h \in DOMAIN host
      BY <1>2, <1>6, <2>2, HostTypes DEF Inv, SoonCached
    <2> QED BY <1>4, <2>1, <2>2
  <1>14. Overlapping'
    BY <1>2, <1>6 DEF Inv, Overlapping
  <1>15. Races'
    <2> SUFFICES ASSUME NEW d \in Cores, pc'[d] = "alloc",
                        NEW h \in DOMAIN host', h[1] = Page(call[d].a)
                 PROVE  h[2] # d /\ ~alone[d]
      BY <1>2 DEF Races, Page
    <2>1. d # c /\ pc[d] = "alloc"
      BY <1>6
    <2>2. CASE h = new
      BY <1>2, <1>3, <2>1, <2>2 DEF Inv, Overlapping
    <2>3. CASE h \in DOMAIN host
      BY <2>1, <2>3 DEF Inv, Races
    <2> QED BY <1>4, <2>2, <2>3
  <1>16. HeldIsCached'
    <2> SUFFICES ASSUME NEW u \in Tgts, NEW q \in Pages, page_hash'[<<u, q>>] # NULL,
                        \A d \in Cores : pc'[d] = "cache" => Page(call[d].a) # q
                 PROVE  page_hash_cache[q] # NULL
      BY <1>2 DEF HeldIsCached, Page
    <2>1. q # p
      BY <1>6 DEF p
    <2>2. \A d \in Cores : pc[d] = "cache" => Page(call[d].a) # q
      BY <1>2, <1>6
    <2> QED BY <1>5, <2>1, <2>2 DEF Inv, HeldIsCached
  <1>17. HolderOutranksOlder'
    <2> SUFFICES ASSUME NEW u \in DOMAIN mem_tgt, NEW q \in Pages, page_hash'[<<u, q>>] # NULL,
                        NEW i \in 1..(u - 1), i \in Holding(q * PageSize)
                 PROVE  mem_tgt[i].prio < mem_tgt[u].prio
      BY <1>2 DEF HolderOutranksOlder, Holding
    <2>1. u \in Tgts
      BY TargetTypes, MemoryAssumption DEF Inv, Targets, Tgts
    <2>2. CASE u = t /\ q = p
      <3>1. Holding(call[c].a) = Holding(p * PageSize)
        BY <1>3, HoldsPages DEF Inv, p
      <3> QED BY <1>3, <2>2, <3>1
    <2>3. CASE ~(u = t /\ q = p)
      BY <1>5, <2>1, <2>3 DEF Inv, HolderOutranksOlder
    <2> QED BY <2>2, <2>3
  <1> QED BY <1>8, <1>9, <1>10, <1>11, <1>12, <1>13, <1>14, <1>15, <1>16, <1>17 DEF Inv

\* A fresh page enters the cache; what the target says of it is a host page of it.
LEMMA CachePageKeeps == ASSUME Inv, NEW c \in Cores, CachePage(c), UNCHANGED down PROVE Inv'
  <1> DEFINE p == Page(call[c].a)
             h == page_hash[<<tgt[c], p>>]
  <1>1. /\ pc[c] = "cache"
        /\ page_hash_cache' = [page_hash_cache EXCEPT ![p] = h] /\ pc' = [pc EXCEPT ![c] = "return"]
        /\ UNCHANGED <<mem_tgt, page_hash, host, call, tgt, ptr>>
        /\ UNCHANGED <<alone, twice, spilt>>
    BY DEF CachePage, ghost
  <1>2. p \in Pages /\ h \in DOMAIN host /\ h # NULL /\ h[1] = p
    <2>1. p \in Pages /\ tgt[c] \in DOMAIN mem_tgt /\ h # NULL
      BY <1>1, InCall DEF Inv, Chosen
    <2>2. tgt[c] \in Tgts
      BY <2>1, TargetTypes, MemoryAssumption DEF Inv, Targets, Tgts
    <2> QED BY <2>1, <2>2 DEF Inv, TypeOK, AtHome
  <1>3. (Targets /\ OneEach /\ HolderOutranksOlder)'
    BY <1>1 DEF Inv, Targets, OneEach, HolderOutranksOlder, Holding
  <1>4. /\ \A d \in Cores : pc'[d] = IF d = c THEN "return" ELSE pc[d]
        /\ \A q \in Pages : page_hash_cache'[q] = IF q = p THEN h ELSE page_hash_cache[q]
        /\ pc' \in [Cores -> Steps] /\ page_hash_cache' \in [Pages -> DOMAIN host \cup {NULL}]
    BY <1>1, <1>2 DEF Inv, TypeOK, Steps
  <1>5. page_hash[<<tgt[c], Page(call[c].a)>>] # NULL
    BY <1>2
  <1> HIDE DEF h
  <1>6. TypeOK'
    BY <1>1, <1>4 DEF Inv, TypeOK, Steps
  <1>7. Locals'
    BY <1>1 DEF Inv, Locals
  <1>8. Chosen'
    BY <1>1, <1>4, <1>5 DEF Inv, Chosen, Holding, Page
  <1>9. AtHome'
    BY <1>1, <1>2, <1>4 DEF Inv, AtHome, Page
  <1>10. SoonCached'
    <2> SUFFICES ASSUME NEW g \in DOMAIN host
                 PROVE  \/ page_hash_cache'[g[1]] # NULL
                        \/ pc'[g[2]] = "cache" /\ Page(call[g[2]].a) = g[1]
      BY <1>1 DEF SoonCached, Page
    <2>1. g[1] \in Pages /\ g[2] \in Cores
      BY HostTypes
    <2> QED BY <1>1, <1>2, <1>4, <2>1 DEF Inv, SoonCached
  <1>11. Overlapping' /\ Races'
    BY <1>1, <1>4 DEF Inv, Overlapping, Races, Page
  <1>12. HeldIsCached'
    <2> SUFFICES ASSUME NEW u \in Tgts, NEW q \in Pages, page_hash[<<u, q>>] # NULL,
                        \A d \in Cores : pc'[d] = "cache" => Page(call[d].a) # q
                 PROVE  page_hash_cache'[q] # NULL
      BY <1>1 DEF HeldIsCached, Page
    <2>1. CASE q = p
      BY <1>2, <1>4, <2>1
    <2>2. CASE q # p
      BY <1>1, <1>4, <2>2 DEF Inv, HeldIsCached
    <2> QED BY <2>1, <2>2
  <1> QED BY <1>3, <1>6, <1>7, <1>8, <1>9, <1>10, <1>11, <1>12 DEF Inv

\* Every step keeps the invariant.
LEMMA InvStep == Inv /\ [Next]_vars => Inv'
  <1> SUFFICES ASSUME Inv, [Next]_vars PROVE Inv'
    OBVIOUS
  <1>1. CASE UNCHANGED vars
    BY <1>1 DEF vars, shared, local, ghost, Inv, TypeOK, Targets, Locals, Chosen, AtHome, OneEach,
                SoonCached, Overlapping, Races, HeldIsCached, HolderOutranksOlder,
                Holding, Page
  <1>2. ASSUME Step, UNCHANGED down
        PROVE  Inv'
    BY <1>2, RegisterKeeps, BeginKeeps, FindCachedKeeps, FindFailsKeeps, FindTargetKeeps,
       AllocateKeeps, CachePageKeeps, ReturnPageKeeps, WriteKeeps, ReadKeeps DEF Step
  <1>3. ASSUME NEW c \in Cores, FindAmbiguous(c)
        PROVE  Inv'
    <2>1. down' \in BOOLEAN /\ UNCHANGED <<shared, local, ghost>>
      BY <1>3 DEF FindAmbiguous
    <2> QED BY <2>1 DEF shared, local, ghost, Inv, TypeOK, Targets, Locals, Chosen, AtHome,
                OneEach, SoonCached, Overlapping, Races, HeldIsCached, HolderOutranksOlder,
                Holding, Page
  <1> QED BY <1>1, <1>2, <1>3 DEF Next

---------------------------------------------------------------------------
(* Theorems *)

\* The invariant holds in every reachable state, whatever targets the user registers
\* while the cores access memory.
THEOREM MemoryInvariance == Spec => []Inv
  <1> QED BY InitInv, InvStep, PTL DEF Spec

\* Types; a core in an access holds an allocated page (paddr_to_hostpage).
THEOREM MemoryTypes == Spec => []TypeOK
  <1>1. Inv => TypeOK
    BY DEF Inv
  <1> QED BY <1>1, MemoryInvariance, PTL

\* A page has one host page, in its target, in the cache and in every core's hand, unless
\* two cores raced to allocate it.
THEOREM PagesStayWhole == Spec => []OneHostPage
  <1>1. Inv => OneHostPage
    <2> SUFFICES ASSUME Inv, NEW p \in Pages \ twice,
                        NEW h \in {page_hash[<<t, p>>] : t \in Tgts} \cup {page_hash_cache[p]}
                                  \cup {ptr[c] : c \in {d \in Cores : pc[d] = "access"
                                                                      /\ Page(call[d].a) = p}},
                        h # NULL
                 PROVE  DOMAIN host \cap ({p} \X Cores) = {h}
      BY DEF OneHostPage
    <2>1. h \in DOMAIN host /\ h[1] = p
      <3>1. CASE \E t \in Tgts : h = page_hash[<<t, p>>]
        BY <3>1 DEF Inv, TypeOK, AtHome
      <3>2. CASE h = page_hash_cache[p]
        BY <3>2 DEF Inv, TypeOK, AtHome
      <3>3. CASE \E c \in Cores : pc[c] = "access" /\ Page(call[c].a) = p /\ h = ptr[c]
        BY <3>3 DEF Inv, TypeOK, AtHome
      <3> QED BY <3>1, <3>2, <3>3
    <2>2. \A g \in DOMAIN host : g \in {p} \X Cores <=> g[1] = p
      BY HostTypes
    <2>3. \A g \in DOMAIN host : g[1] = p => g = h
      BY <2>1 DEF Inv, OneEach
    <2> QED BY <2>1, <2>2, <2>3
  <1> QED BY <1>1, MemoryInvariance, PTL

\* A page that a target holds is cached as soon as no core is about to cache it.
THEOREM HeldPagesAreCached == Spec => []HeldIsCached
  <1>1. Inv => HeldIsCached
    BY DEF Inv
  <1> QED BY <1>1, MemoryInvariance, PTL

\* The target that holds a page outranks every older one that covers it.
THEOREM HoldersOutrankOlder == Spec => []HolderOutranksOlder
  <1>1. Inv => HolderOutranksOlder
    BY DEF Inv
  <1> QED BY <1>1, MemoryInvariance, PTL

---------------------------------------------------------------------------
(* Memory implements ByteStore *)

\* What a byte is, for every host page it could be read from.
Values ==
    /\ MemBar \in [Addrs -> Byte \cup {Unset, Lost}]
    /\ \A a \in Addrs :
          /\ Page(a) \in twice => MemBar[a] = Lost
          /\ Page(a) \notin twice /\ (a \in spilt \/ \A h \in DOMAIN host : h[1] # Page(a))
                => MemBar[a] = Unset
          /\ Page(a) \notin twice /\ a \notin spilt =>
                \A h \in DOMAIN host : h[1] = Page(a) =>
                    MemBar[a] = host[h][a % PageSize] /\ MemBar[a] \in Byte

\* There is one host page to read a byte from, unless it is lost.
LEMMA MemBarValues == Inv => Values
  <1> SUFFICES ASSUME Inv PROVE Values
    OBVIOUS
  <1>1. \A a \in Addrs : a \in Nat /\ Page(a) \in Pages /\ a % PageSize \in 0..(PageSize - 1)
    BY PageInUse, PageParts
  <1>2. ASSUME NEW a \in Addrs, NEW h \in DOMAIN host, h[1] = Page(a), Page(a) \notin twice
        PROVE  PageOf(Page(a)) = h
    <2>1. PageOf(Page(a)) \in DOMAIN host /\ PageOf(Page(a))[1] = Page(a)
      BY <1>2 DEF PageOf
    <2> QED BY <1>2, <2>1 DEF Inv, OneEach
  <1>3. \A h \in DOMAIN host : host[h] \in [0..(PageSize - 1) -> Byte]
    BY DEF Inv, TypeOK
  <1>4. ASSUME NEW a \in Addrs
        PROVE  /\ MemBar[a] \in Byte \cup {Unset, Lost}
               /\ Page(a) \in twice => MemBar[a] = Lost
               /\ Page(a) \notin twice /\ (a \in spilt \/ \A h \in DOMAIN host : h[1] # Page(a))
                     => MemBar[a] = Unset
               /\ Page(a) \notin twice /\ a \notin spilt =>
                     \A h \in DOMAIN host : h[1] = Page(a) =>
                         MemBar[a] = host[h][a % PageSize] /\ MemBar[a] \in Byte
    <2>1. CASE Page(a) \in twice
      BY <2>1 DEF MemBar
    <2>2. CASE Page(a) \notin twice /\ (a \in spilt \/ \A h \in DOMAIN host : h[1] # Page(a))
      BY <2>2 DEF MemBar
    <2>3. CASE Page(a) \notin twice /\ a \notin spilt /\ \E h \in DOMAIN host : h[1] = Page(a)
      <3>1. PICK h \in DOMAIN host : h[1] = Page(a)
        BY <2>3
      <3>2. MemBar[a] = host[PageOf(Page(a))][a % PageSize]
        BY <2>3 DEF MemBar
      <3>3. host[h][a % PageSize] \in Byte
        BY <1>1, <1>3, <3>1
      <3> QED BY <1>2, <2>3, <3>1, <3>2, <3>3
    <2> QED BY <2>1, <2>2, <2>3
  <1>5. MemBar = [a \in Addrs |-> MemBar[a]]
    BY DEF MemBar
  <1> QED BY <1>4, <1>5 DEF Values

\* The look-up changes nothing a core can tell.
LEMMA QuietRefines ==
    ASSUME UNCHANGED <<mem_tgt, host, twice, spilt, call, alone, seen>>
    PROVE  UNCHANGED Abstract!vars
  BY DEF MemBar, PageOf, Page, Abstract!vars

\* A registration adds a target and leaves every byte as it was.
LEMMA RegisterRefines ==
    ASSUME Inv, Values, NEW k \in Candidates, Register(k)
    PROVE  Abstract!Register
  <1>1. Len(mem_tgt') = Len(mem_tgt) + 1
    BY DEF Inv, Targets, Register
  <1>2. UNCHANGED <<host, twice, spilt, call, alone, seen>>
    BY DEF Register, local, ghost
  <1>3. MemBar' = MemBar
    BY <1>2 DEF MemBar, PageOf, Page
  <1> QED BY <1>1, <1>2, <1>3 DEF Values, Abstract!Register

\* A core is in a call when its next step is not "idle".
LEMMA InCallAgrees ==
    ASSUME Inv, NEW c \in Cores
    PROVE  Abstract!InCall(c) <=> pc[c] # "idle"
  <1>1. CASE pc[c] = "idle"
    BY <1>1 DEF Inv, TypeOK, Idle, Abstract!InCall, Abstract!Kinds
  <1>2. CASE pc[c] # "idle"
    BY <1>2, InCall DEF Abstract!InCall, Abstract!Kinds
  <1> QED BY <1>1, <1>2

\* A call begins.
LEMMA BeginRefines == ASSUME Inv, NEW c \in Cores, Begin(c) PROVE Abstract!Begin(c)
  <1>1. MemBar' = MemBar
    BY DEF Begin, shared, MemBar, PageOf, Page
  <1>2. ~Abstract!InCall(c) /\ \A e \in Cores : Abstract!InCall(e) <=> pc[e] # "idle"
    BY InCallAgrees DEF Begin
  <1>3. call' \in {[call EXCEPT ![c] = k] : k \in Calls}
    BY DEF Begin
  <1>4. alone' = [d \in Cores |-> IF \E e \in Cores \ {c} : Abstract!InCall(e) /\ d \in {c, e}
                                  THEN FALSE ELSE IF d = c THEN TRUE ELSE alone[d]]
    <2> DEFINE others == {d \in Cores \ {c} : pc[d] # "idle"}
               new == [d \in Cores |-> IF others # {} /\ d \in others \cup {c} THEN FALSE
                                       ELSE d = c \/ alone[d]]
    <2>1. alone' = new
      BY DEF Begin
    <2>2. ASSUME NEW d \in Cores
          PROVE  new[d] = IF \E e \in Cores \ {c} : Abstract!InCall(e) /\ d \in {c, e}
                          THEN FALSE ELSE IF d = c THEN TRUE ELSE alone[d]
      <3>1. alone[d] \in BOOLEAN
        BY DEF Inv, Locals
      <3>2. (\E e \in Cores \ {c} : Abstract!InCall(e) /\ d \in {c, e})
                <=> others # {} /\ d \in others \cup {c}
        BY <1>2
      <3> HIDE DEF others
      <3>3. new[d] = IF others # {} /\ d \in others \cup {c} THEN FALSE ELSE d = c \/ alone[d]
        OBVIOUS
      <3> QED BY <3>1, <3>2, <3>3
    <2> HIDE DEF new
    <2>3. new = [d \in Cores |-> new[d]]
      BY DEF new
    <2> QED BY <2>1, <2>2, <2>3
  <1>5. seen' = <<>> /\ UNCHANGED mem_tgt
    BY DEF Begin, shared
  <1> QED BY <1>1, <1>2, <1>3, <1>4, <1>5 DEF Abstract!Begin

\* A look-up that fails ends the call.
LEMMA FindFailsRefines == ASSUME Inv, NEW c \in Cores, FindFails(c) PROVE Abstract!Fail(c)
  <1>1. /\ pc[c] = "find" /\ call' = [call EXCEPT ![c] = Idle]
        /\ UNCHANGED <<mem_tgt, host, twice, spilt, alone, seen>>
    BY DEF FindFails, Leave, shared, ghost
  <1>2. MemBar' = MemBar
    BY <1>1 DEF MemBar, PageOf, Page
  <1>3. Abstract!InCall(c)
    BY <1>1, InCallAgrees
  <1> QED BY <1>1, <1>2, <1>3 DEF Abstract!Fail, Abstract!Idle, Idle

\* The invariant gives the values before and after a step.
LEMMA ValuesKept == Inv /\ [Next]_vars => Values /\ Values'
  <1>1. Inv => Values
    BY MemBarValues
  <1>2. Inv /\ [Next]_vars => Inv'
    BY InvStep
  <1> QED BY <1>1, <1>2, PTL

\* An allocation gives a page its first values, or loses the page if it had some: then a
\* call of another core overlaps.
LEMMA AllocateRefines ==
    ASSUME Inv, Values, Values', NEW c \in Cores, Allocate(c)
    PROVE  [Abstract!Next]_(Abstract!vars)
  <1> DEFINE p == Page(call[c].a)
             new == <<p, c>>
  <1>1. /\ pc[c] = "alloc"
        /\ twice' = IF \E h \in DOMAIN host : h[1] = p THEN twice \cup {p} ELSE twice
        /\ UNCHANGED <<mem_tgt, call, alone, spilt, seen>>
    BY DEF Allocate
  <1>2. /\ DOMAIN host' = DOMAIN host \cup {new}
        /\ \A h \in DOMAIN host : h # new => host'[h] = host[h]
    BY DEF Allocate
  <1>3. Abstract!InCall(c)
    BY <1>1, InCallAgrees
  <1>4. new[1] = p
    OBVIOUS
  <1> HIDE DEF p, new
  <1>5. ASSUME NEW a \in Addrs, Page(a) # p
        PROVE  MemBar'[a] = MemBar[a]
    <2>1. Page(a)' = Page(a) /\ (Page(a) \in twice' <=> Page(a) \in twice)
      BY <1>1, <1>5 DEF Page
    <2>2. CASE Page(a) \in twice
      BY <2>1, <2>2 DEF Values
    <2>3. CASE Page(a) \notin twice /\ (a \in spilt \/ \A h \in DOMAIN host : h[1] # Page(a))
      <3>1. a \in spilt' \/ \A h \in DOMAIN host' : h[1] # Page(a)
        BY <1>1, <1>2, <1>4, <1>5, <2>3
      <3> QED BY <2>1, <2>3, <3>1 DEF Values
    <2>4. CASE Page(a) \notin twice /\ a \notin spilt /\ \E h \in DOMAIN host : h[1] = Page(a)
      <3>1. PICK h \in DOMAIN host : h[1] = Page(a)
        BY <2>4
      <3>2. h \in DOMAIN host' /\ host'[h] = host[h] /\ a \notin spilt'
        BY <1>1, <1>2, <1>4, <1>5, <2>4, <3>1
      <3>3. MemBar[a] = host[h][a % PageSize] /\ MemBar'[a] = host'[h][a % PageSize]
        BY <2>1, <2>4, <3>1, <3>2 DEF Values
      <3> QED BY <3>2, <3>3
    <2> QED BY <2>2, <2>3, <2>4
  <1>6. /\ MemBar = [a \in Addrs |-> MemBar[a]] /\ MemBar' = [a \in Addrs |-> MemBar'[a]]
        /\ MemBar' \in [Addrs -> Byte \cup {Unset, Lost}]
    BY DEF Values
  <1>7. CASE p \in twice
    <2>1. \A a \in Addrs : Page(a) = p => MemBar'[a] = MemBar[a]
      BY <1>1, <1>7 DEF Values, Page
    <2>2. MemBar' = MemBar
      BY <1>5, <1>6, <2>1
    <2> QED BY <1>1, <2>2 DEF Abstract!vars
  <1>8. CASE p \notin twice /\ \E h \in DOMAIN host : h[1] = p
    <2> DEFINE A == {a \in Addrs : Page(a) = p}
    <2>1. \A a \in A : MemBar'[a] = Lost
      BY <1>1, <1>8 DEF Values, Page
    <2>2. MemBar' = [a \in Addrs |-> IF a \in A THEN Lost ELSE MemBar[a]]
      BY <1>5, <1>6, <2>1
    <2>3. ~alone[c]
      BY <1>1, <1>8 DEF Inv, Races, p
    <2>4. A \in SUBSET Addrs
      OBVIOUS
    <2>5. Abstract!Lose(c, A)
      BY <1>1, <1>3, <2>2, <2>3 DEF Abstract!Lose
    <2> QED BY <2>4, <2>5 DEF Abstract!Next
  <1>9. CASE p \notin twice /\ \A h \in DOMAIN host : h[1] # p
    <2>1. ASSUME NEW a \in Addrs, Page(a) = p
          PROVE  MemBar[a] = Unset /\ (MemBar'[a] = Unset \/ MemBar'[a] \in Byte)
      <3>1. MemBar[a] = Unset
        BY <1>9, <2>1 DEF Values
      <3>2. Page(a)' = p /\ p \notin twice' /\ new \in DOMAIN host'
        BY <1>1, <1>2, <1>9, <2>1 DEF Page
      <3> QED BY <1>4, <3>1, <3>2 DEF Values
    <2>2. \A a \in Addrs : MemBar'[a] = MemBar[a] \/ (MemBar[a] = Unset /\ MemBar'[a] \in Byte)
      BY <1>5, <2>1
    <2>3. Abstract!Fresh(c)
      BY <1>1, <1>3, <1>6, <2>2 DEF Abstract!Fresh
    <2> QED BY <2>3 DEF Abstract!Next
  <1> QED BY <1>7, <1>8, <1>9

\* What is left of a call, in the words of ByteStore.
LEMMA AdvanceRefines ==
    ASSUME Inv, NEW c \in Cores, pc[c] # "idle", NextChunk(c)
    PROVE  Abstract!Advance(c, Chunk(c))
  <1> DEFINE m == Chunk(c)
  <1>1. call \in [Cores -> Requests \cup {Idle}] /\ call[c] \in Requests
    BY InCall DEF Inv, Locals
  <1>2. CASE m = call[c].n
    BY <1>2 DEF NextChunk, Leave, Abstract!Advance, Abstract!Idle, Idle
  <1>3. CASE m # call[c].n
    <2> HIDE DEF m
    <2>1. call' = [call EXCEPT ![c].a = @ + m, ![c].n = @ - m,
                               ![c].val = SubSeq(@, m + 1, Len(@))]
      BY <1>3 DEF NextChunk, m
    <2>2. call' = [call EXCEPT ![c] = Request(@.kind, @.buff, @.a + m, @.n - m,
                                             SubSeq(@.val, m + 1, Len(@.val)))]
      BY <1>1, <2>1, ThreeFields DEF Inv
    <2> QED BY <1>3, <2>2 DEF Abstract!Advance, Abstract!Rest, Request, m
  <1> QED BY <1>2, <1>3

\* The bytes of a turn, in the words of ByteStore; those of a buffer lie in one page.
LEMMA SpanAgrees ==
    ASSUME Inv, NEW c \in Cores, pc[c] # "idle"
    PROVE  /\ Abstract!Span(c, Chunk(c)) = Touched(c) /\ Abstract!First(c, Chunk(c)) = Inside(c)
           /\ call[c].buff => Touched(c) = Inside(c)
  <1>1. Abstract!Span(c, Chunk(c)) = Touched(c) /\ Abstract!First(c, Chunk(c)) = Inside(c)
    BY DEF Abstract!Span, Abstract!First, Abstract!Page, Touched, Inside, Page
  <1>2. ASSUME call[c].buff, NEW a \in Touched(c) PROVE Page(a) = Page(call[c].a)
    <2> DEFINE p == Page(call[c].a)
               o == call[c].a % PageSize
               q == p * PageSize
    <2>1. a \in Nat /\ call[c].a \in Nat /\ call[c].a <= a /\ a < call[c].a + Chunk(c)
      BY PageInUse, InCall DEF Touched
    <2>2. Chunk(c) \in Int /\ Chunk(c) <= PageSize - o
      BY <1>2, ChunkBounds, InCall
    <2>3. p \in Nat /\ o \in 0..(PageSize - 1) /\ call[c].a = p * PageSize + o
      BY <2>1, PageParts, PageSizeType
    <2> HIDE DEF p, o, q
    <2>4. q \in Nat /\ call[c].a = q + o
      BY <2>3, PageSizeType DEF q
    <2>5. a - q \in 0..(PageSize - 1) /\ a = q + (a - q)
      BY <2>1, <2>2, <2>3, <2>4, PageSizeType
    <2>6. Page(p * PageSize + (a - q)) = p
      BY <2>3, <2>5, PageOfOffset
    <2> QED BY <2>5, <2>6 DEF p, q
  <1> QED BY <1>1, <1>2 DEF Inside

\* A store through the page in hand changes the bytes of the call in the page of its first
\* byte, and leaves those beyond without a value.
LEMMA WriteRefines ==
    ASSUME Inv, Values, Values', NEW c \in Cores, Write(c)
    PROVE  [Abstract!Next]_(Abstract!vars)
  <1> DEFINE p == Page(call[c].a)
             h0 == ptr[c]
             Stored(a) == call[c].val[a - call[c].a + 1]
  <1>1. /\ pc[c] = "access" /\ call[c].kind = "store" /\ NextChunk(c)
        /\ spilt' = (spilt \ Inside(c)) \cup (Touched(c) \ Inside(c))
        /\ UNCHANGED <<mem_tgt, twice, alone, seen>>
    BY DEF Write
  <1>2. h0 \in DOMAIN host /\ h0[1] = p /\ DOMAIN host[h0] = 0..(PageSize - 1)
    BY <1>1 DEF Inv, TypeOK, AtHome
  <1>3. /\ DOMAIN host' = DOMAIN host
        /\ \A h \in DOMAIN host : h # h0 => host'[h] = host[h]
        /\ \A o \in 0..(PageSize - 1) :
              host'[h0][o] = IF p * PageSize + o \in Inside(c) THEN Stored(p * PageSize + o)
                                                               ELSE host[h0][o]
    BY <1>2 DEF Write
  <1>4. \A a \in Addrs : /\ a % PageSize \in 0..(PageSize - 1)
                         /\ Page(a) = p => p * PageSize + (a % PageSize) = a
    BY PageInUse, PageParts
  <1>5. Inside(c) \subseteq Touched(c) /\ \A a \in Inside(c) : a \in Addrs /\ Page(a) = p
    BY DEF Inside, Touched
  <1>6. \A a : Page(a)' = Page(a)
    BY DEF Page
  <1>7. \A a \in Addrs : MemBar[a] = Lost <=> Page(a) \in twice
    BY MemoryAssumption DEF Values
  <1> HIDE DEF p, h0, Stored
  <1>8. ASSUME NEW a \in Addrs, a \notin Touched(c)
        PROVE  MemBar'[a] = MemBar[a]
    <2>1. a \in spilt' <=> a \in spilt
      BY <1>1, <1>5, <1>8
    <2>2. CASE Page(a) \in twice
      BY <1>1, <1>6, <2>2 DEF Values
    <2>3. CASE Page(a) \notin twice /\ (a \in spilt \/ \A h \in DOMAIN host : h[1] # Page(a))
      BY <1>1, <1>3, <1>6, <2>1, <2>3 DEF Values
    <2>4. CASE Page(a) \notin twice /\ a \notin spilt /\ \E h \in DOMAIN host : h[1] = Page(a)
      <3>1. PICK h \in DOMAIN host : h[1] = Page(a)
        BY <2>4
      <3>2. MemBar[a] = host[h][a % PageSize] /\ MemBar'[a] = host'[h][a % PageSize]
        BY <1>1, <1>3, <1>6, <2>1, <2>4, <3>1 DEF Values
      <3>3. host'[h][a % PageSize] = host[h][a % PageSize]
        BY <1>2, <1>3, <1>4, <1>5, <1>8, <3>1
      <3> QED BY <3>2, <3>3
    <2> QED BY <2>2, <2>3, <2>4
  <1>9. ASSUME NEW a \in Addrs, MemBar[a] = Lost
        PROVE  MemBar'[a] = MemBar[a]
    BY <1>1, <1>6, <1>7, <1>9 DEF Values
  <1>10. ASSUME NEW a \in Inside(c), MemBar[a] # Lost
         PROVE  MemBar'[a] = Stored(a)
    <2>1. a \in Addrs /\ Page(a) = p /\ p \notin twice' /\ a \notin spilt'
      BY <1>1, <1>5, <1>7, <1>10
    <2>2. MemBar'[a] = host'[h0][a % PageSize]
      BY <1>2, <1>3, <1>6, <2>1 DEF Values
    <2> QED BY <1>3, <1>4, <2>1, <2>2
  <1>11. ASSUME NEW a \in Touched(c), a \notin Inside(c), MemBar[a] # Lost
         PROVE  MemBar'[a] = Unset
    <2>1. a \in Addrs /\ Page(a) \notin twice' /\ a \in spilt'
      BY <1>1, <1>7, <1>11 DEF Touched
    <2> QED BY <1>6, <2>1 DEF Values
  <1>12. MemBar' = [a \in Addrs |->
                       CASE a \notin Touched(c) \/ MemBar[a] = Lost -> MemBar[a]
                         [] a \in Inside(c) /\ MemBar[a] # Lost -> Stored(a)
                         [] OTHER -> Unset]
    <2> DEFINE new == [a \in Addrs |-> CASE a \notin Touched(c) \/ MemBar[a] = Lost -> MemBar[a]
                                         [] a \in Inside(c) /\ MemBar[a] # Lost -> Stored(a)
                                         [] OTHER -> Unset]
    <2>1. \A a \in Addrs : new[a] = IF a \notin Touched(c) \/ MemBar[a] = Lost THEN MemBar[a]
                                    ELSE IF a \in Inside(c) THEN Stored(a) ELSE Unset
      BY <1>5
    <2>2. MemBar' = [a \in Addrs |-> MemBar'[a]] /\ new = [a \in Addrs |-> new[a]]
      BY DEF Values
    <2> HIDE DEF new
    <2>3. \A a \in Addrs : MemBar'[a] = new[a]
      BY <1>5, <1>8, <1>9, <1>10, <1>11, <2>1
    <2>4. MemBar' = new
      BY <2>2, <2>3
    <2> QED BY <2>4 DEF new
  <1>13. Abstract!InCall(c) /\ Abstract!Advance(c, Chunk(c)) /\ Chunk(c) \in 1..call[c].n
    BY <1>1, InCallAgrees, AdvanceRefines, ChunkBounds
  <1>14. Abstract!Store(c, Chunk(c))
    BY <1>1, <1>12, <1>13, SpanAgrees DEF Abstract!Store, Stored
  <1> QED BY <1>13, <1>14 DEF Abstract!Next

\* A load returns the bytes of the page in hand that have a value.
LEMMA ReadRefines ==
    ASSUME Inv, Values, Values', NEW c \in Cores, Read(c)
    PROVE  [Abstract!Next]_(Abstract!vars)
  <1> DEFINE p == Page(call[c].a)
             h0 == ptr[c]
  <1>1. /\ pc[c] = "access" /\ call[c].kind = "load" /\ NextChunk(c)
        /\ UNCHANGED <<mem_tgt, host, twice, spilt, alone>>
    BY DEF Read, shared, ghost
  <1>2. PICK slack \in [Touched(c) \ Inside(c) -> Byte] :
            seen' = [a \in Touched(c) |-> IF a \in Inside(c) THEN host[h0][a % PageSize]
                                          ELSE slack[a]]
    BY DEF Read
  <1>3. h0 \in DOMAIN host /\ h0[1] = p /\ host[h0] \in [0..(PageSize - 1) -> Byte]
    BY <1>1 DEF Inv, TypeOK, AtHome
  <1>4. MemBar' = MemBar
    BY <1>1 DEF MemBar, PageOf, Page
  <1>5. \A a \in Inside(c) : a \in Addrs /\ a \in Touched(c) /\ Page(a) = p
    BY DEF Inside, Touched
  <1>6. \A a \in Inside(c) : host[h0][a % PageSize] \in Byte
    BY <1>3, <1>5, PageInUse, PageParts
  <1> HIDE DEF p, h0
  <1>7. seen' \in [Touched(c) -> Byte]
    BY <1>2, <1>6
  <1>8. ASSUME NEW a \in Inside(c)
        PROVE  MemBar[a] \in {Unset, Lost, seen'[a]}
    <2>1. seen'[a] = host[h0][a % PageSize]
      BY <1>2, <1>5
    <2> QED BY <1>3, <1>5, <2>1 DEF Values
  <1>9. Abstract!InCall(c) /\ Abstract!Advance(c, Chunk(c)) /\ Chunk(c) \in 1..call[c].n
    BY <1>1, InCallAgrees, AdvanceRefines, ChunkBounds
  <1>10. Abstract!Load(c, Chunk(c))
    BY <1>1, <1>4, <1>7, <1>8, <1>9, SpanAgrees DEF Abstract!Load
  <1> QED BY <1>9, <1>10 DEF Abstract!Next

\* At first no byte has a value.
LEMMA InitRefines == Init => Abstract!Init
  <1> SUFFICES ASSUME Init PROVE Abstract!Init
    OBVIOUS
  <1>1. Values /\ twice = {} /\ DOMAIN host = {}
    BY InitInv, MemBarValues DEF Init
  <1>2. MemBar = [a \in Addrs |-> Unset]
    <2>1. \A a \in Addrs : MemBar[a] = Unset
      BY <1>1 DEF Values
    <2> QED BY <1>1, <2>1 DEF Values
  <1> QED BY <1>2 DEF Init, Abstract!Init, Abstract!Idle, Idle

\* Every step of Memory is one of ByteStore or changes nothing of it.
LEMMA StepRefines ==
    ASSUME Inv, Values, Values', [Next]_vars
    PROVE  [Abstract!Next]_(Abstract!vars)
  <1>1. CASE UNCHANGED vars
    BY <1>1, QuietRefines DEF vars, shared, local, ghost
  <1>2. ASSUME NEW k \in Candidates, Register(k)
        PROVE  [Abstract!Next]_(Abstract!vars)
    BY <1>2, RegisterRefines DEF Abstract!Next
  <1>3. ASSUME NEW c \in Cores, Begin(c) \/ FindFails(c)
        PROVE  [Abstract!Next]_(Abstract!vars)
    BY <1>3, BeginRefines, FindFailsRefines DEF Abstract!Next
  <1>4. ASSUME NEW c \in Cores, FindCached(c) \/ FindTarget(c) \/ CachePage(c) \/ ReturnPage(c)
        PROVE  [Abstract!Next]_(Abstract!vars)
    BY <1>4, QuietRefines DEF FindCached, FindTarget, CachePage, ReturnPage, shared, ghost
  <1>5. ASSUME NEW c \in Cores, Allocate(c) \/ Write(c) \/ Read(c)
        PROVE  [Abstract!Next]_(Abstract!vars)
    BY <1>5, AllocateRefines, WriteRefines, ReadRefines
  <1>6. ASSUME NEW c \in Cores, FindAmbiguous(c)
        PROVE  [Abstract!Next]_(Abstract!vars)
    BY <1>6, QuietRefines DEF FindAmbiguous, shared, local, ghost
  <1> QED BY <1>1, <1>2, <1>3, <1>4, <1>5, <1>6 DEF Next, Step

\* Targets, page tables, their cache and the host pages implement a flat store of bytes,
\* whatever is registered and however the calls of the cores interleave.
THEOREM MemoryIsByteStore == Spec => ImplementsByteStore
  <1>1. Inv /\ [Next]_vars => [Abstract!Next]_(Abstract!vars)
    BY ValuesKept, StepRefines
  <1> QED BY <1>1, InitRefines, MemoryInvariance, PTL DEF Spec, ImplementsByteStore, Abstract!Spec
=============================================================================
