------------------------------- MODULE Memory -------------------------------
(***************************************************************************)
(* Physical memory (memory.h, memory.cpp), shared by all cores with no     *)
(* lock: the list of memory targets, the pages each target has allocated   *)
(* (page_hash) and the cache of pages over all of them (page_hash_cache).  *)
(* A scalar access is the pointer look-up of its first byte and the access *)
(* through that pointer; a buffer access repeats both for every page.      *)
(*                                                                         *)
(* memory.h:43 and memory.cpp:46, 193 have overlapping targets refused;    *)
(* is_overlapping_tgt misses one that encloses an older one, and           *)
(* memory.h:86-88 has pages located again when targets are modified, which *)
(* nothing ever signals. The model does what the code does, and none of    *)
(* its properties is about either.                                         *)
(***************************************************************************)
EXTENDS Integers, Sequences, FiniteSets

CONSTANTS
    Cores,
    PageSize,       \* MIN_PGSZ in bytes
    NPages,         \* pages of the physical addresses in use
    DdrPages,       \* pages the default target "ddr0" covers
    Byte,
    Garbage,        \* contents a fresh host page may have: new does not clear it
    Unset, Lost,      \* a byte without a value; a byte nothing is promised about
    Calls,          \* calls the cores make: [kind, buff, a, n, val]
    Candidates,     \* targets the user registers: [base, size, prio]
    MaxCalls, MaxTargets    \* bounds on calls and on targets

ASSUME MemoryAssumption ==
    /\ PageSize \in Nat \ {0} /\ NPages \in Nat /\ DdrPages \in 1..NPages
    /\ MaxTargets \in Nat \ {0}
    /\ Garbage \subseteq [0..(PageSize - 1) -> Byte]
    /\ {Unset, Lost} \cap Byte = {} /\ Unset # Lost

VARIABLES
    mem_tgt,            \* sequence of [base, end, prio], in order of registration
    page_hash,          \* <<target, page>> -> host page or NULL
    page_hash_cache,    \* page -> host page or NULL
    host,               \* host page -> its bytes, for the pages allocated so far
    call,               \* core -> what is left of the call in progress, or Idle
    pc,                 \* core -> its next step in that call
    tgt,                \* core -> the target select_mem_tgt returned
    ptr,                \* core -> the host page paddr_to_hostpage returned
    alone,              \* core -> no other call overlapped the one in progress
    twice,              \* pages that were allocated more than once
    spilt,              \* addresses whose last store went over the end of a page
    seen,               \* address -> byte: what the last load returned
    calls,              \* calls begun
    down                \* std::unexpected ended the process

shared == <<mem_tgt, page_hash, page_hash_cache, host>>
local  == <<call, pc, tgt, ptr>>
ghost  == <<alone, twice, spilt>>
vars   == <<shared, local, ghost, seen, calls, down>>

Addrs   == 0..(NPages * PageSize - 1)
Pages   == 0..(NPages - 1)
Page(a) == a \div PageSize
NULL    == <<>>
Idle    == [kind |-> "idle", n |-> 0]
Tgts    == 1..MaxTargets
HostIds == Pages \X Cores       \* a core allocates a page at most once

\* What is left of a call: a store has its bytes, a buffer lies in the addresses in use.
Requests ==
    {k \in [kind : {"load", "store"}, buff : BOOLEAN, a : Addrs, n : Nat \ {0}, val : Seq(Byte)] :
        /\ k.kind = "store" => Len(k.val) = k.n
        /\ k.buff => k.a + k.n <= NPages * PageSize}

ASSUME RequestsAssumption ==
    Calls \subseteq Requests /\ Candidates \subseteq [base : Nat, size : Nat, prio : Int]

---------------------------------------------------------------------------
(* memory.cpp:48, 76, 91, 118, 167 and utils.h:98 *)

\* rnd_pgsz_n: up to the next page boundary.
RndN(x) == ((x + PageSize - 1) \div PageSize) * PageSize

\* is_overlapping_tgt: an end of the new target lies in an old one that ranks as high.
IsOverlapping(new) ==
    \E i \in DOMAIN mem_tgt :
        LET old == mem_tgt[i] IN
        /\ new.prio <= old.prio
        /\ \/ new.base >= old.base /\ new.base <= old.end
           \/ new.end >= old.base /\ new.end < old.end

\* Targets the address lies in, and whether select_mem_tgt gives up over them: it meets
\* one that ranks as high as the best before it.
Holding(a) == {i \in DOMAIN mem_tgt : mem_tgt[i].base <= a /\ a <= mem_tgt[i].end}
BestBefore(a, i) ==
    {j \in Holding(a) : j < i /\ \A k \in Holding(a) : k < i => mem_tgt[k].prio <= mem_tgt[j].prio}
Ambiguous(a) ==
    \E i \in Holding(a) : \E j \in BestBefore(a, i) : mem_tgt[i].prio = mem_tgt[j].prio

\* Mutant: the last target that holds the address is taken, whatever its priority.
SelectLast(a) == CHOOSE i \in Holding(a) : \A j \in Holding(a) : j <= i

Select(a) ==
    CHOOSE i \in Holding(a) : \A j \in Holding(a) : mem_tgt[j].prio <= mem_tgt[i].prio

Target(b, s, p) == [base |-> RndN(b), end |-> RndN(b) + RndN(s) - 1, prio |-> p]

Init ==
    /\ mem_tgt = <<Target(0, DdrPages * PageSize, 0)>>
    /\ page_hash = [h \in Tgts \X Pages |-> NULL]
    /\ page_hash_cache = [p \in Pages |-> NULL]
    /\ host = [h \in {} |-> NULL]
    /\ call = [c \in Cores |-> Idle]
    /\ pc = [c \in Cores |-> "idle"]
    /\ tgt = [c \in Cores |-> 0]
    /\ ptr = [c \in Cores |-> NULL]
    /\ alone = [c \in Cores |-> TRUE]
    /\ twice = {} /\ spilt = {}
    /\ seen = <<>>
    /\ calls = 0
    /\ down = FALSE

\* register_memory_target: rejected with a message, or appended.
Register(k) ==
    LET new == Target(k.base, k.size, k.prio) IN
    /\ Len(mem_tgt) < MaxTargets
    /\ ~IsOverlapping(new)
    /\ mem_tgt' = Append(mem_tgt, new)
    /\ UNCHANGED <<page_hash, page_hash_cache, host, local, ghost, seen, calls>>

---------------------------------------------------------------------------
(* A call: look up the page, allocate it, cache it, return it, access it *)

Begin(c) ==
    /\ pc[c] = "idle" /\ calls < MaxCalls
    /\ \E k \in Calls : call' = [call EXCEPT ![c] = k]
    /\ LET others == {d \in Cores \ {c} : pc[d] # "idle"} IN
       alone' = [d \in Cores |-> IF others # {} /\ d \in others \cup {c} THEN FALSE
                                 ELSE d = c \/ alone[d]]
    /\ pc' = [pc EXCEPT ![c] = "find"]
    /\ calls' = calls + 1
    /\ seen' = <<>>
    /\ UNCHANGED <<shared, tgt, ptr, twice, spilt>>

\* The call ends, or throws.
Leave(c) ==
    /\ call' = [call EXCEPT ![c] = Idle]
    /\ pc' = [pc EXCEPT ![c] = "idle"]
    /\ tgt' = [tgt EXCEPT ![c] = 0]
    /\ ptr' = [ptr EXCEPT ![c] = NULL]

FindCached(c) ==
    /\ pc[c] = "find"
    /\ page_hash_cache[Page(call[c].a)] # NULL
    /\ ptr' = [ptr EXCEPT ![c] = page_hash_cache[Page(call[c].a)]]
    /\ pc' = [pc EXCEPT ![c] = "access"]
    /\ UNCHANGED <<shared, call, tgt, ghost, seen, calls>>

\* No target holds the address (EFAULT): the call ends.
FindFails(c) ==
    /\ pc[c] = "find"
    /\ page_hash_cache[Page(call[c].a)] = NULL
    /\ Holding(call[c].a) = {}
    /\ Leave(c)
    /\ UNCHANGED <<shared, ghost, seen, calls>>

\* Two of the same priority hold it: sim_except_fatal is no sim_except, the only exception
\* select_mem_tgt may throw, and std::unexpected ends the process with all its cores.
FindAmbiguous(c) ==
    /\ pc[c] = "find"
    /\ page_hash_cache[Page(call[c].a)] = NULL
    /\ Ambiguous(call[c].a)
    /\ down' = TRUE
    /\ UNCHANGED <<shared, local, ghost, seen, calls>>

\* Mutant: the test for a page not allocated yet is inverted.
FindTargetInverted(c) ==
    /\ pc[c] = "find"
    /\ page_hash_cache[Page(call[c].a)] = NULL
    /\ Holding(call[c].a) # {} /\ ~Ambiguous(call[c].a)
    /\ tgt' = [tgt EXCEPT ![c] = Select(call[c].a)]
    /\ pc' = [pc EXCEPT ![c] =
                 IF page_hash[<<Select(call[c].a), Page(call[c].a)>>] = NULL
                 THEN "return" ELSE "alloc"]
    /\ UNCHANGED <<shared, call, ptr, ghost, seen, calls>>

FindTarget(c) ==
    /\ pc[c] = "find"
    /\ page_hash_cache[Page(call[c].a)] = NULL
    /\ Holding(call[c].a) # {} /\ ~Ambiguous(call[c].a)
    /\ tgt' = [tgt EXCEPT ![c] = Select(call[c].a)]
    /\ pc' = [pc EXCEPT ![c] =
                 IF page_hash[<<Select(call[c].a), Page(call[c].a)>>] = NULL
                 THEN "alloc" ELSE "return"]
    /\ UNCHANGED <<shared, call, ptr, ghost, seen, calls>>

Allocate(c) ==
    LET p == Page(call[c].a) IN
    /\ pc[c] = "alloc"
    /\ \E bytes \in Garbage :
          host' = [h \in DOMAIN host \cup {<<p, c>>} |-> IF h = <<p, c>> THEN bytes ELSE host[h]]
    /\ page_hash' = [page_hash EXCEPT ![<<tgt[c], p>>] = <<p, c>>]
    /\ twice' = IF \E h \in DOMAIN host : h[1] = p THEN twice \cup {p} ELSE twice
    /\ pc' = [pc EXCEPT ![c] = "cache"]
    /\ UNCHANGED <<mem_tgt, page_hash_cache, call, tgt, ptr, alone, spilt, seen, calls>>

\* Mutant: the fresh page is not entered into the cache.
CachePageForgotten(c) ==
    /\ pc[c] = "cache"
    /\ pc' = [pc EXCEPT ![c] = "return"]
    /\ UNCHANGED <<shared, call, tgt, ptr, ghost, seen, calls>>

\* page_hash is read again for the cache, and once more for the result.
CachePage(c) ==
    LET p == Page(call[c].a) IN
    /\ pc[c] = "cache"
    /\ page_hash_cache' = [page_hash_cache EXCEPT ![p] = page_hash[<<tgt[c], p>>]]
    /\ pc' = [pc EXCEPT ![c] = "return"]
    /\ UNCHANGED <<mem_tgt, page_hash, host, call, tgt, ptr, ghost, seen, calls>>

ReturnPage(c) ==
    /\ pc[c] = "return"
    /\ ptr' = [ptr EXCEPT ![c] = page_hash[<<tgt[c], Page(call[c].a)>>]]
    /\ pc' = [pc EXCEPT ![c] = "access"]
    /\ UNCHANGED <<shared, call, tgt, ghost, seen, calls>>

\* Bytes of the call that lie in the page of its first byte.
InPage(c) ==
    LET room == PageSize - (call[c].a % PageSize) IN
    IF call[c].n < room THEN call[c].n ELSE room

\* How far one access goes: a scalar to its end, whatever the page; a buffer to the
\* end of the page.
Chunk(c) == IF call[c].buff THEN InPage(c) ELSE call[c].n

\* Mutant: the host page is looked up once per buffer.
NextChunkSamePage(c) ==
    IF Chunk(c) = call[c].n THEN Leave(c)
    ELSE /\ call' = [call EXCEPT ![c].a = @ + Chunk(c), ![c].n = @ - Chunk(c),
                                 ![c].val = SubSeq(@, Chunk(c) + 1, Len(@))]
         /\ UNCHANGED <<pc, tgt, ptr>>

NextChunk(c) ==
    IF Chunk(c) = call[c].n THEN Leave(c)
    ELSE /\ call' = [call EXCEPT ![c].a = @ + Chunk(c), ![c].n = @ - Chunk(c),
                                 ![c].val = SubSeq(@, Chunk(c) + 1, Len(@))]
         /\ pc' = [pc EXCEPT ![c] = "find"]
         /\ tgt' = [tgt EXCEPT ![c] = 0]
         /\ ptr' = [ptr EXCEPT ![c] = NULL]

Touched(c) == {a \in Addrs : call[c].a <= a /\ a < call[c].a + Chunk(c)}
Inside(c)  == {a \in Touched(c) : Page(a) = Page(call[c].a)}

\* Mutant: the offset of the address in its page is left out.
WriteFromPageStart(c) ==
    /\ pc[c] = "access" /\ call[c].kind = "store"
    /\ host' = [host EXCEPT ![ptr[c]] =
                   [o \in DOMAIN @ |->
                       IF o < Cardinality(Inside(c)) THEN call[c].val[o + 1] ELSE @[o]]]
    /\ spilt' = (spilt \ Inside(c)) \cup (Touched(c) \ Inside(c))
    /\ NextChunk(c)
    /\ UNCHANGED <<mem_tgt, page_hash, page_hash_cache, alone, twice, seen, calls>>

\* write8 .. write64 and one turn of write_from_buffer. What goes over the end of the
\* host page stays in the slack of its heap block.
Write(c) ==
    /\ pc[c] = "access" /\ call[c].kind = "store"
    /\ host' = [host EXCEPT ![ptr[c]] =
                   [o \in DOMAIN @ |->
                       LET a == Page(call[c].a) * PageSize + o IN
                       IF a \in Inside(c) THEN call[c].val[a - call[c].a + 1] ELSE @[o]]]
    /\ spilt' = (spilt \ Inside(c)) \cup (Touched(c) \ Inside(c))
    /\ NextChunk(c)
    /\ UNCHANGED <<mem_tgt, page_hash, page_hash_cache, alone, twice, seen, calls>>

\* read8 .. read64 and one turn of read_to_buffer.
Read(c) ==
    /\ pc[c] = "access" /\ call[c].kind = "load"
    /\ \E slack \in [Touched(c) \ Inside(c) -> Byte] :
          seen' = [a \in Touched(c) |-> IF a \in Inside(c) THEN host[ptr[c]][a % PageSize]
                                        ELSE slack[a]]
    /\ NextChunk(c)
    /\ UNCHANGED <<shared, ghost, calls>>

Step == \/ \E k \in Candidates : Register(k)
        \/ \E c \in Cores : \/ Begin(c) \/ FindCached(c) \/ FindFails(c) \/ FindTarget(c)
                            \/ Allocate(c) \/ CachePage(c) \/ ReturnPage(c)
                            \/ Write(c) \/ Read(c)

Next == /\ ~down
        /\ \/ Step /\ UNCHANGED down
           \/ \E c \in Cores : FindAmbiguous(c)

Spec == Init /\ [][Next]_vars

---------------------------------------------------------------------------
(* Properties *)

\* Every variable has its type, and a core in an access holds an allocated page.
TypeOK ==
    /\ \A i \in DOMAIN mem_tgt : mem_tgt[i].base % PageSize = 0
    /\ Len(mem_tgt) \in Tgts
    /\ page_hash \in [Tgts \X Pages -> DOMAIN host \cup {NULL}]
    /\ page_hash_cache \in [Pages -> DOMAIN host \cup {NULL}]
    /\ DOMAIN host \subseteq HostIds
    /\ \A h \in DOMAIN host : host[h] \in [0..(PageSize - 1) -> Byte]
    /\ pc \in [Cores -> {"idle", "find", "alloc", "cache", "return", "access"}]
    /\ tgt \in [Cores -> 0..Len(mem_tgt)]
    /\ \A c \in Cores : /\ pc[c] = "idle" <=> call[c] = Idle
                        /\ pc[c] # "idle" => call[c].a \in Addrs
                        /\ pc[c] = "access" => ptr[c] \in DOMAIN host
    /\ twice \subseteq Pages /\ spilt \subseteq Addrs
    /\ down \in BOOLEAN

\* Unless two cores raced to allocate it, a page has one host page, one target holds it,
\* and whatever is cached or in a core's hand is that page (memory.cpp:118-144).
OneHostPage ==
    \A p \in Pages \ twice :
        \A h \in {page_hash[<<t, p>>] : t \in Tgts} \cup {page_hash_cache[p]}
                 \cup {ptr[c] : c \in {d \in Cores : pc[d] = "access" /\ Page(call[d].a) = p}} :
            h # NULL => DOMAIN host \cap ({p} \X Cores) = {h}

\* A page is cached as soon as no core is between allocating and caching it: the cache,
\* which no registration clears, decides which target serves a page from then on.
HeldIsCached ==
    \A t \in Tgts, p \in Pages :
        /\ page_hash[<<t, p>>] # NULL
        /\ \A c \in Cores : pc[c] = "cache" => Page(call[c].a) # p
        => page_hash_cache[p] # NULL

\* The target that holds a page outranks every target registered before it that covers
\* the page too (select_mem_tgt); only one registered later may outrank it.
HolderOutranksOlder ==
    \A t \in DOMAIN mem_tgt, p \in Pages :
        page_hash[<<t, p>>] # NULL =>
            \A i \in 1..(t - 1) : i \in Holding(p * PageSize) => mem_tgt[i].prio < mem_tgt[t].prio

\* A byte is what its page says; lost when two cores allocated the page, without a value
\* while there is no page or when the last store to it went over a page's end.
PageOf(p) == CHOOSE h \in DOMAIN host : h[1] = p
MemBar ==
    [a \in Addrs |->
        CASE Page(a) \in twice -> Lost
          [] Page(a) \notin twice /\ (a \in spilt \/ ~\E h \in DOMAIN host : h[1] = Page(a)) -> Unset
          [] OTHER -> host[PageOf(Page(a))][a % PageSize]]

Abstract == INSTANCE ByteStore WITH mem <- MemBar, targets <- Len(mem_tgt)

\* Targets, page tables and their cache together implement a flat store of bytes: from one
\* registration to the next, no allocation, cache fill or access of another core changes
\* what a byte was last set to. (What a registration does to it is left open.)
ImplementsByteStore == Abstract!Spec
=============================================================================
